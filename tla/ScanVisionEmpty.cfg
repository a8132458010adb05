CONSTANTS
  Clients = {c1}
  MaxScans = 1
SPECIFICATION ScanSpec
INVARIANTS WaitsForData
CHECK_DEADLOCK FALSE
