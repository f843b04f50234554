\* A resolver is called again before its context has parked on another call.
CONSTANTS
  Slots = 1
  Entries = 2
  MaxPromises = 1
  MaxTenants = 2
  MaxParks = 2
  LateChains = FALSE
  LateResolvers = TRUE
  HurriedRestart = FALSE
SPECIFICATION Spec
INVARIANTS OwnAnswer
CHECK_DEADLOCK FALSE
