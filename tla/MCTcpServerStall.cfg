\* One peer stops reading while an update is broadcast to two sessions.
CONSTANTS
    c1 = c1
    c2 = c2
    u1 = u1
    u2 = u2
    None = None
    Conns = {c1, c2}
    Users = {u1}
    User <- SameUser
    ChanCap = 1
    MaxUpdates = 1
    EarlyStop = TRUE
    Talkers = {c1, c2}
    Stallers = {c1}
    Resetters = {}
SPECIFICATION FairSpec
PROPERTY AllSessionsServed
CHECK_DEADLOCK FALSE
