CONSTANTS
    NULL = NULL
    Threads = {t1}
    Conns = {c1, c2}
    Ptrs = {p1}
    BacklogSize = 1
    MaxBatch = 2
    MaxErrors = 1
    Deadlines = {}
    MaxSets = 0
    MayCloseSocket = TRUE
SPECIFICATION Spec
INVARIANTS NoStaleCall ConnsMatchLibrary NoLostWakeup
SYMMETRY Symmetry
CHECK_DEADLOCK FALSE
