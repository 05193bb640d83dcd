CONSTANTS
    NULL = NULL
    INITIAL_MASK = 1
    REORDER_BUFFER_MAX_SIZE = 1024
    OUTGOING_BUFFER_MAX_SIZE = 1024
    OPT_RCVBUF = 2
    OPT_SNDBUF = 5
    PacketSize = 1
    PACKET_SIZE = 1
    MIN_WINDOW_SIZE = 5
    ISS = 65533
    FIRST_RESEND = 65533
    PACKETS = 5
    MaxTimeouts = 1
SPECIFICATION Spec
INVARIANTS QueueInPlace FreedOnlyIfReceived WindowAccounting FastResendOnce FreshPacketEligible NoAssertFails
