SPECIFICATION FairSpec
CONSTANTS
    MAXPROC = 3
    NULL = NULL
    s1 = s1
    s2 = s2
    ItSem = ItSem
    UserSems <- OneSem
    Devices <- Terminal0
    MAXNS = 1
    Supports <- NoSupport
    SharedDevices = FALSE
    LateTimer = FALSE
    Statuses <- Unmasked
INVARIANTS
    WaitsForSomething
    NoKernelFault
PROPERTIES
    ReadyEventuallyRuns
    ClockWaitEnds
    IoWaitEnds
