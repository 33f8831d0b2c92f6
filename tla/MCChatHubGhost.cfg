\* A connection that joins while another leaves.
CONSTANTS
    c0 = c0
    c1 = c1
    c2 = c2
    r1 = r1
    Clients = {c1, c2}
    Rooms = {r1}
    Room <- OneRoom
    SendCap = 2
    HistLimit = 1
    Former = {}
    Past <- NoRows
    Says <- Silence
    Leavers = {c1, c2}
    Unwritable = {}
    DbFails = {}
SPECIFICATION Spec
INVARIANT MembersAreServed
CHECK_DEADLOCK FALSE
