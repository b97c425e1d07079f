CONSTANTS
    s1 = s1
    s2 = s2
    Seqnums <- TwoSeqnums
    ChannelSize = 1
    MaxUnlinks = 2
SPECIFICATION FairSessionSpec
INVARIANTS
    NotFoundIsAnswered
    AtMostOneReturn
    NoUrbForgotten
    CleanupIsComplete
PROPERTIES
    SessionEnds
    SubmitIsAnswered
