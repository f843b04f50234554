\* Calls, grant requests, restarts and cancellations; no promises of the drone.
CONSTANTS
  Slots = 2
  Entries = 2
  MaxPromises = 0
  MaxTenants = 4
  MaxParks = 3
  LateChains = FALSE
  LateResolvers = FALSE
  HurriedRestart = FALSE
SPECIFICATION Spec
INVARIANTS OwnAnswer EntriesMatchParks
PROPERTIES ParkEnds
\* The drone may finish.
CHECK_DEADLOCK FALSE
