CONSTANTS
    Conns = {c1, c2}
    NoConn = NoConn
    Writers = {w1}
    Roles = {"client"}
    StopDuringStart = FALSE
SPECIFICATION FairSpec
PROPERTIES
    ReconnectsOrEnds
CHECK_DEADLOCK FALSE
