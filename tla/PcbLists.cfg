SPECIFICATION Spec
CONSTANTS
    readyQueue = readyQueue
    blockedQueue = blockedQueue
    pcbFree_h = pcbFree_h
    NULL = NULL
    MAXPROC = 3
    Queues <- TwoQueues
INVARIANT ListsApart
PROPERTY ImplementsPcbSpec
SYMMETRY Alike
