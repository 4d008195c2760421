CONSTANTS
    s1 = s1
    s2 = s2
    Sessions = {s1, s2}
    IDs = {"m1"}
    IdOf <- SameId
    None = None
    Users = {u1}
    FrameLimit = 1
    MaxReads = 1
SPECIFICATION Spec
INVARIANTS
    DeletedIsStopped
CHECK_DEADLOCK FALSE
