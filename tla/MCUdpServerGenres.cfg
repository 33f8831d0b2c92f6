\* A client that asked for another genre than the notification's.
CONSTANTS
    a1 = a1
    g1 = g1
    g2 = g2
    Addrs = {a1}
    Genres = {g1, g2}
    ChanCap = 1
    MaxNotes = 1
    Unreachable = {}
SPECIFICATION FairSpec
PROPERTY GenresRespected
CHECK_DEADLOCK FALSE
