CONSTANTS
  HeapStart = 8
  MaxWrites = 1
  Types <- WithDataView
  Starts <- ZeroStart
  Exits = {"await", "call", "construct"}
  TextRequests = FALSE
SPECIFICATION Spec
INVARIANT ReachablePreserved
CHECK_DEADLOCK FALSE
