CONSTANTS
  HeapStart = 8
  MaxWrites = 2
  Types <- TextualCallTypes
  Starts <- ZeroStart
  Exits = {"promiseMethod", "asyncCall"}
  TextRequests = TRUE
SPECIFICATION Spec
INVARIANT ReachablePreserved
CHECK_DEADLOCK FALSE
