\* One card whose goals overlap: it gives up on one and sends the next.
CONSTANTS
  Goals = {g1, g2}
  Operations = {"op2"}
  Disturbances = {}
SPECIFICATION FairPageSpec
INVARIANTS PageTypeOK OnePressEach NoOfferInMotion
PROPERTIES WaitIsShown
