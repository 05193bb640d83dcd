CONSTANTS
    NULL = NULL
    INITIAL_MASK = 3
    REORDER_BUFFER_MAX_SIZE = 1024
    OUTGOING_BUFFER_MAX_SIZE = 1024
    OPT_RCVBUF = 1
    OPT_SNDBUF = 2
    PacketSize = 1
    PACKET_SIZE = 1
    MIN_WINDOW_SIZE = 1
    ISN <- MCISN
    ToWrite <- One
    MaxWrite = 2
    MaxFaults = 1
    MaxTimeouts = 0
    MaxKeepAlives = 0
    MaxNet = 2
    MayClose <- Both
    MayShutdown = {}
SPECIFICATION FairSpec
PROPERTIES  DialEnds EstablishedCloseEnds
CHECK_DEADLOCK FALSE
