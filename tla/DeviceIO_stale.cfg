SPECIFICATION Spec
CONSTANTS
    p1 = p1
    p2 = p2
    NULL = NULL
    Procs <- TwoProcs
    Devs <- Disk0
    Requests <- TwoRequests
    Codes <- OkOrIllegal
    Usages <- WhileUnclaimed
    Kills = TRUE
PROPERTIES
    OwnResult
