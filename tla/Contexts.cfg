SPECIFICATION Spec
CONSTANTS
    MAXPROC = 2
    LENGTH = 2
    Codes <- SomeCodes
    Statuses <- NoTimer
    NestedTraps = FALSE
INVARIANTS
    ResumesWhereItLeft
    TrapsRemembered
CHECK_DEADLOCK FALSE
