SPECIFICATION Spec
CONSTANTS
    MAXPROC = 2
    NULL = NULL
    s1 = s1
    s2 = s2
    ItSem = ItSem
    UserSems <- NoSems
    Devices <- Disk0
    MAXNS = 1
    Supports <- NoSupport
    SharedDevices = FALSE
    LateTimer = TRUE
    Statuses <- PltMasked
INVARIANTS
    NoKernelFault
