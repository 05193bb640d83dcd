CONSTANTS
    NULL = NULL
    Threads = {t1}
    Conns = {c1}
    Ptrs = {p1}
    BacklogSize = 1
    MaxBatch = 1
    MaxErrors = 1
    Deadlines = {}
    MaxSets = 0
    MayCloseSocket = TRUE
SPECIFICATION FairSpec
PROPERTY DialEnds
CHECK_DEADLOCK FALSE
