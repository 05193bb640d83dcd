CONSTANTS
    BUCKETS = 3
    INITIAL = 1
    HashOf <- MCHashOf
    Sockets = {s1, s2, s3}
    Addrs = {a}
    IDS = 3
    Seqs = {7}
    RST_INFO_LIMIT = 1
    SOCKET_LIMIT = 1
    MaxTogether = 3
    None = None
SYMMETRY Symmetry
SPECIFICATION Spec
INVARIANTS TypeOK TableSound AckListSound ShortcutExact LoopVisitsAll
PROPERTIES AllAcksIssued RstOnce
