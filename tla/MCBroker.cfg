\* Two publishers, one of which calls twice, two subscribers, one-slot channels.
CONSTANTS
    p1 = p1
    p2 = p2
    s1 = s1
    s2 = s2
    Publishers = {p1, p2}
    Subscribers = {s1, s2}
    Capacity = 1
    MaxPublish = 2
    Calls <- TwoAndOne
SPECIFICATION FairSpec
INVARIANTS
    TypeOK
    NoSendOnClosed
    NoSilentLoss
PROPERTIES
    FeedsSpec
    PublishReturns
\* Publishers run out of calls and subscribers may all have left.
CHECK_DEADLOCK FALSE
