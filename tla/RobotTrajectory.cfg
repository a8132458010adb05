CONSTANTS
  Goals = {g1, g2}
  MaxPoints = 4
  QueueSize = 2
  RetryMax = 2
  Faults = {"command", "rws", "post", "routine"}
SPECIFICATION FairSpec
INVARIANTS TypeOK InOrder SuccessIsWhole
PROPERTIES GoalEnds
\* A setup failure leaves the node busy for good, a failed goal callback ends it.
CHECK_DEADLOCK FALSE
