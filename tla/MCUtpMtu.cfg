CONSTANTS
    UdpMtu = 610
    Paths = {580}
    Sizes = {30, 2000}
    NextHops = {0, 590}
    SEQS = 5
    MaxQueue = 4
    MaxFaults = 2
SPECIFICATION Spec
INVARIANTS RangeSound
PROPERTIES RangeNarrows
