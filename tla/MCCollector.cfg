CONSTANTS
  HeapStart = 8
  MaxWrites = 2
  Types <- AllTypes
  Starts <- ZeroStart
  Exits = {"await", "call", "construct", "promiseMethod", "asyncCall", "settling"}
  TextRequests = FALSE
SPECIFICATION Spec
INVARIANTS
  ReachablePreserved
  HeapTight
  StringsTight
CHECK_DEADLOCK FALSE
