CONSTANTS
    s1 = s1
    s2 = s2
    Seqnums <- TwoSeqnums
    ChannelSize = 1
    MaxUnlinks = 1
SPECIFICATION SessionSpec
INVARIANTS
    CancelledGetsNoReturn
