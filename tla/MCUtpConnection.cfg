CONSTANTS
    NULL = NULL
    INITIAL_MASK = 3
    REORDER_BUFFER_MAX_SIZE = 1024
    OUTGOING_BUFFER_MAX_SIZE = 1024
    OPT_RCVBUF = 2
    OPT_SNDBUF = 2
    PacketSize = 1
    PACKET_SIZE = 1
    MIN_WINDOW_SIZE = 1
    ISN <- MCISN
    ToWrite <- OneWay
    MaxWrite = 2
    MaxFaults = 1
    MaxTimeouts = 0
    MaxKeepAlives = 1
    MaxNet = 2
    MayClose <- Client
    MayShutdown = {}
SPECIFICATION Spec
INVARIANTS InOrderStream NoByteForgotten FinAckedMeansConsumed NoAssertFails
CHECK_DEADLOCK FALSE
