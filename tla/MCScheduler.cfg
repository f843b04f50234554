\* Slots reused by two closure calls and spawned children, each run up to three times.
CONSTANTS
    i1 = i1
    i2 = i2
    NumSlots = 2
    MaxGeneration = 2
    MaxSteps = 2
    Invocations = {}
    NumCalls = 2
    Abortable = {}
    FuelHooks = {"await"}
    HandlerCalls = FALSE
    MaxQuiesces = 1
    MayTerminate = TRUE
    None = None
SPECIFICATION Spec
INVARIANTS
    QuiesceIsQuiet
    DriveOwnsContext
    NoLostWake
    QueueIsServed
    FinishedIsReclaimed
    DutyIsHeld
    InOrderDelivery
\* The embedder may stop calling, and the runtime be idle for good.
CHECK_DEADLOCK FALSE
