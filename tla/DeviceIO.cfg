SPECIFICATION Spec
CONSTANTS
    p1 = p1
    p2 = p2
    NULL = NULL
    Procs <- TwoProcs
    Devs <- DiskAndTerminal
    Requests <- TwoCommands
    Codes <- OkOrIllegal
    Usages <- AnyOrIdle
    Kills = TRUE
PROPERTIES
    OwnResult
    ImplementsDeviceSpec
SYMMETRY ProcsAlike
