CONSTANTS
    Space = 5
    MaxSize = 3
    DefaultSize = 2
    Callers = {c1, c2}
    Loops = {1, 2}
    Units = {1}
    Models = {a}
    NoWrite = NoWrite
    Absent = Absent
    None = None
    Nothing = Nothing
    Request <- MCRequest
    u1 = u1
    u2 = u2
    x = x
    y = y
    MaxRetries = 1
    MaxPending = 1
    MaxLine = 3
    MaxBuf = 3
    ByteBits = 3
    PlcStep = 12
    MaxCoils = 18
    MaxRegisters = 3
    MaxGraphRegisters = 2
    MaxExchanges = 2
    Sessions = {s1}
    IDs = {"m1"}
    IdOf <- OneId
    Users = {c1, c2}
    FrameLimit = 1
    MaxReads = 1
SPECIFICATION MCSpec
INVARIANTS
    ScansExactly
    SlaveIsSound
    MasterAlone
    AnswerIsForRequest
PROPERTIES
    DataIsExact
    EverythingEnds
    StopsAndFailuresEnd
CHECK_DEADLOCK FALSE
