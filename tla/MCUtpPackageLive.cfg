CONSTANTS
    NULL = NULL
    Threads = {t1}
    Conns = {c1}
    Ptrs = {p1}
    BacklogSize = 1
    MaxBatch = 1
    MaxErrors = 1
    Deadlines = {"read"}
    MaxSets = 1
    MayCloseSocket = FALSE
SPECIFICATION FairSpec
PROPERTIES CloseEndsCalls DialTimeoutHonoured DialEndsWhileOpen DeferredAcksIssued
CHECK_DEADLOCK FALSE
