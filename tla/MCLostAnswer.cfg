\* An image taken while an answer waits for room in the heap.
CONSTANTS
  Slots = 1
  Entries = 2
  MaxPromises = 0
  MaxTenants = 2
  MaxParks = 2
  LateChains = FALSE
  LateResolvers = FALSE
  HurriedRestart = TRUE
SPECIFICATION Spec
INVARIANTS EntriesMatchParks
CHECK_DEADLOCK FALSE
