CONSTANTS
    Conns = {c1, c2}
    NoConn = NoConn
    Writers = {w1}
    Roles = {"client", "server"}
    StopDuringStart = TRUE
SPECIFICATION Spec
SYMMETRY Symmetry
INVARIANTS
    ConnsAreLookedAfter
    OneReconnectLoop
    ReconnectNotLost
    StopReachesReaders
CHECK_DEADLOCK FALSE
