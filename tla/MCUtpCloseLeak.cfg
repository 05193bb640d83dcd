CONSTANTS
    NULL = NULL
    INITIAL_MASK = 3
    REORDER_BUFFER_MAX_SIZE = 1024
    OUTGOING_BUFFER_MAX_SIZE = 1024
    OPT_RCVBUF = 2
    OPT_SNDBUF = 2
    PacketSize = 1
    PACKET_SIZE = 1
    MIN_WINDOW_SIZE = 1
    ISN <- MCISN
    ToWrite <- Nothing
    MaxWrite = 2
    MaxFaults = 0
    MaxTimeouts = 0
    MaxKeepAlives = 0
    MaxNet = 3
    MayClose <- Both
    MayShutdown = {}
SPECIFICATION ReapingFairSpec
PROPERTY ClosedIsFreed
CHECK_DEADLOCK FALSE
