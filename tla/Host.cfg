CONSTANTS
    Callers = {c1, c2}
    Bridgers = {b1}
    Real = {r}
    Virtual = {v}
    Appenders = {a1, a2}
    Nobody = Nobody
    Capacity = 3
    Lengths = {0, 1, 2, 4}
    Offsets <- SomeOffsets
    Counts = {0, 1, 9}
    MaxBytes = 4
    Saver = {s1, s2}
    Workspaces = {w1, w2}
    ConfigPath = config
    StatePath = state
    Content = {a, b}
    NoFile = NoFile
    Partial = Partial
    Module = {serial, mcp, other}
    Serial = serial
    Server = mcp
    Missing = missing
    Request = {q1, q2}
    Publisher = {p1, p2}
    Handler = {h1, h2, h3}
    Bridge = frontend
    MaxEvents = 2
SPECIFICATION MCSpec
SYMMETRY Symmetry
INVARIANTS
    NothingIsLost
    OneOwner
    RetainsNewest
    SnapshotExact
    MemoryIsSound
    OrderIsExact
    LifecycleIsClean
    DeliveredExactly
PROPERTIES
    RefusedOnlyEvicted
    SaveIsAtomic
CHECK_DEADLOCK FALSE
