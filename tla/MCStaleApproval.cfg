\* An approval chain outlives its context.
CONSTANTS
  Slots = 1
  Entries = 2
  MaxPromises = 0
  MaxTenants = 2
  MaxParks = 2
  LateChains = TRUE
  LateResolvers = FALSE
  HurriedRestart = FALSE
SPECIFICATION Spec
INVARIANTS OwnAnswer
CHECK_DEADLOCK FALSE
