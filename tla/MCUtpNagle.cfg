CONSTANTS
    NULL = NULL
    INITIAL_MASK = 3
    REORDER_BUFFER_MAX_SIZE = 1024
    OUTGOING_BUFFER_MAX_SIZE = 1024
    OPT_RCVBUF = 2
    OPT_SNDBUF = 4
    PacketSize = 2
    PACKET_SIZE = 2
    MIN_WINDOW_SIZE = 1
    ISN <- MCISN
    ToWrite <- Three
    MaxWrite = 3
    MaxFaults = 0
    MaxTimeouts = 1
    MaxKeepAlives = 0
    MaxNet = 2
    MayClose <- Client
    MayShutdown = {}
SPECIFICATION Spec
INVARIANTS WindowAccounting
PROPERTY ClientStream
CHECK_DEADLOCK FALSE
