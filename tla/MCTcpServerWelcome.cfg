\* An update is broadcast while a session is welcomed.
CONSTANTS
    c1 = c1
    c2 = c2
    u1 = u1
    u2 = u2
    None = None
    Conns = {c1, c2}
    Users = {u1}
    User <- SameUser
    ChanCap = 1
    MaxUpdates = 1
    EarlyStop = TRUE
    Talkers = {c1, c2}
    Stallers = {}
    Resetters = {}
SPECIFICATION Spec
INVARIANT OneWriter
CHECK_DEADLOCK FALSE
