SPECIFICATION Spec
CONSTANTS
    p1 = p1
    p2 = p2
    p3 = p3
    p4 = p4
    NULL = NULL
    MAXPROC = 3
    Keys <- FourKeys
    Callers <- FourCallers
INVARIANTS
    OneChainOrFree
PROPERTIES
    ImplementsAshSpec
SYMMETRY CallersAlike
