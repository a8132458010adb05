CONSTANTS
  Plans = {p1, p2}
  Executes = {e1, e2}
SPECIFICATION FairSpec
INVARIANTS TypeOK PlanCanBeRun
PROPERTIES PressesEnd
