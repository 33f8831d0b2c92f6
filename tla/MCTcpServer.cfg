\* Two updates, and sessions of two users: one that talks and may stop reading,
\* one that may leave at any moment; and Stop.
CONSTANTS
    c1 = c1
    c2 = c2
    u1 = u1
    u2 = u2
    None = None
    Conns = {c1, c2}
    Users = {u1, u2}
    User <- TwoUsers
    ChanCap = 1
    MaxUpdates = 2
    EarlyStop = FALSE
    Talkers = {c1}
    Stallers = {c1}
    Resetters = {c2}
SPECIFICATION FairSpec
INVARIANTS
    TypeOK
    NoMissedUpdate
PROPERTIES
    FeedsSpec
    StopEndsSessions
    StopEndsLoop
CHECK_DEADLOCK FALSE
