SPECIFICATION Spec
CONSTANTS
    NULL = NULL
    INITIAL_MASK = 1
    REORDER_BUFFER_MAX_SIZE = 1024
    OUTGOING_BUFFER_MAX_SIZE = 1024
    OPT_RCVBUF = 2
    IRS = 65532
    LAST = 6
    HASFIN = TRUE
    Payload <- MCPayload
INVARIANTS
    TypeOK
    NoAssertFails
    InOrderExactlyOnce
    ReorderBufferSound
    EofAfterEverything
    EackTruthful
PROPERTY AckNeverRetreats
