\* One invocation, aborted, re-run or cut off by termination; its slot goes to a spawned child.
CONSTANTS
    i1 = i1
    i2 = i2
    NumSlots = 2
    MaxGeneration = 2
    MaxSteps = 1
    Invocations = {i1}
    NumCalls = 0
    Abortable = {i1}
    FuelHooks = {"refuel", "decline", "await"}
    HandlerCalls = TRUE
    MaxQuiesces = 1
    MayTerminate = TRUE
    None = None
SPECIFICATION FairSpec
INVARIANTS
    OwnerRegistry
PROPERTIES
    InvocationSettles
    QuiesceResolves
\* The embedder may stop calling, and the runtime be idle for good.
CHECK_DEADLOCK FALSE
