\* One handle slot, used twice, so that whatever is reaped too early is
\* reused at once; two contexts, a promise, a pin, a root grant, a queued call.
CONSTANTS
  HandleCapacity = 1
  GrantCapacity = 1
  PoolWords = 4
  Maps = {"handlers"}
  MaxHandleVersion = 3
  MaxGrantVersion = 1
  Contexts = {c1, c2}
  Promises = {p1}
  FreshResolution = FALSE
  MaxPins = 1
  MaxQueued = 1
  MaxRoots = 1
SPECIFICATION AirlockSpec
SYMMETRY Symmetry
INVARIANTS HeldHandlesCurrent HeldGrantsCurrent DispatchOfTenant
CHECK_DEADLOCK FALSE
