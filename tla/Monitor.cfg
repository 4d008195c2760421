CONSTANTS
    s1 = s1
    s2 = s2
    Sessions = {s1, s2}
    IDs = {"m1"}
    IdOf <- SameId
    None = None
    Users = {u1}
    FrameLimit = 1
    MaxReads = 2
SYMMETRY Symmetry
SPECIFICATION MCSpec
INVARIANTS
    NothingStaysOpen
    StatusIsTrue
    FramesNewest
CHECK_DEADLOCK FALSE
