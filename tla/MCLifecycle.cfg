CONSTANTS
    Programs = {"api", "ws", "tcp", "udp", "grpc"}
    Callers = {c1, c2, c3}
    Stallers = {c3}

SPECIFICATION FairSpec

INVARIANTS
    TypeOK
    DbOutlivesRequests

PROPERTIES
    ShutdownEnds

CHECK_DEADLOCK FALSE
