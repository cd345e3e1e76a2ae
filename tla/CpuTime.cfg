SPECIFICATION Spec
CONSTANTS
    p1 = p1
    p2 = p2
    NULL = NULL
    Procs <- TwoProcs
    W = 4
    MaxTime = 7
INVARIANTS
    TimeAccounted
