SPECIFICATION Spec
CONSTANTS
    MAXPROC = 3
    NULL = NULL
    s1 = s1
    s2 = s2
    ItSem = ItSem
    UserSems <- TwoSems
    Devices <- Disk0
    MAXNS = 2
    Supports <- AnySupport
    SharedDevices = TRUE
    LateTimer = TRUE
    Statuses <- Unmasked
SYMMETRY SemSymmetry
INVARIANTS
    TypeOK
    Placement
    CountersExact
    OneTree
    AshNeverExhausted
    StopsForTheRightReason
    NamespacesOwned
    SeenBothWays
