CONSTANTS
  Clients = {c1, c2}
  MaxScans = 2
SPECIFICATION ScanFairSpec
INVARIANTS ScanTypeOK OwnScan AcquirerStops
PROPERTIES NodesFreed
\* The vision node's process may end in a callback.
CHECK_DEADLOCK FALSE
