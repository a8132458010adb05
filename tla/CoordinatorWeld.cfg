CONSTANTS
  Goals = {g1}
  Operations = {"op2"}
  Disturbances = {"refuse"}
SPECIFICATION Spec
INVARIANTS WeldsWithTool3
