CONSTANTS
  HeapStart = 8
  MaxWrites = 2
  Types <- CallTypes
  Starts <- ZeroStart
  Exits = {"generatorNext"}
  TextRequests = FALSE
SPECIFICATION Spec
INVARIANT ReachablePreserved
CHECK_DEADLOCK FALSE
