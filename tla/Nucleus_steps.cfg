SPECIFICATION CallsSpec
CONSTANTS
    MAXPROC = 4
    NULL = NULL
    s1 = s1
    s2 = s2
    ItSem = ItSem
    UserSems <- OneSem
    Devices <- NoDevices
    MAXNS = 1
    Supports <- NoSupport
    SharedDevices = FALSE
    LateTimer = FALSE
    Statuses <- Unmasked
PROPERTIES
    NoOvertaking
    KillTakesProgeny
    WokenFromTheHead
    KillIsTheRecursion
    ImplementsSemaphores
