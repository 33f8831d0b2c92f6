\* Two clients that may register and leave at any moment, one of which a
\* write may fail for, and Stop.
CONSTANTS
    a1 = a1
    a2 = a2
    g1 = g1
    Addrs = {a1, a2}
    Genres = {g1}
    ChanCap = 1
    MaxNotes = 2
    Unreachable = {a2}
SPECIFICATION FairSpec
INVARIANTS
    TypeOK
    NoMissedNotification
    GoneIsGone
PROPERTIES
    ListSpec
    StopEndsReader
    StopEndsLoop
CHECK_DEADLOCK FALSE
