CONSTANTS
  Goals = {g1, g2}
  Operations = {"op1", "op2"}
  Disturbances = {"stop", "other", "refuse"}
SPECIFICATION FairSpec
INVARIANTS TypeOK ServesOneGoal RightTool SuccessLeavesCellClean
PROPERTIES CancelEnds ImplementsOperation
