\* Three promises, so that one aggregates two others, and their waiters and handlers.
CONSTANTS
  Slots = 2
  Entries = 1
  MaxPromises = 3
  MaxTenants = 2
  MaxParks = 2
  LateChains = FALSE
  LateResolvers = FALSE
  HurriedRestart = FALSE
SPECIFICATION Spec
INVARIANTS WakesExact WaitersExact AggregatesAgree
\* The drone may finish.
CHECK_DEADLOCK FALSE
