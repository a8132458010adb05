CONSTANTS
  Sessions = {s1, s2}
  Values = {v1, v2}
  Numbers = {n1}
  Forms = {"robot", "camera", "features", "coordinator", "vision", "tool", "motion planning", "calibration"}
SPECIFICATION Spec
SYMMETRY Symmetry
INVARIANTS TypeOK FileStartsTheNode
PROPERTIES ToldIsApplied
