\* The database has two rows of c0.  c1 speaks and stays; c2 listens, may
\* leave, and writing to it may fail.
CONSTANTS
    c0 = c0
    c1 = c1
    c2 = c2
    r1 = r1
    Clients = {c0, c1, c2}
    Rooms = {r1}
    Room <- OneRoom
    SendCap = 2
    HistLimit = 2
    Former = {c0}
    Past <- TwoRows
    Says <- OneFromC1
    Leavers = {c2}
    Unwritable = {c2}
    DbFails = {c1}
SPECIFICATION FairSpec
INVARIANTS
    TypeOK
    OpenMembers
    HistoryOrder
    NoGap
PROPERTIES
    RoomsSpec
    BroadcastReturns
    PumpsEndTogether
CHECK_DEADLOCK FALSE
