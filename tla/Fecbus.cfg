CONSTANTS
    Callers = {c1, c2}
    Loops = {1, 2}
    Addresses = {1}
    MaxAddress = 63
    Units <- MCUnits
    Absent = Absent
    None = None
    MaxRetries = 1
    Nothing = Nothing
    RetryLimit = 1
    MaxHistory = 2
    MaxSeq = 3
    Error = Error
    Devices = {d1, d2}
    Numbers = {1, 2}
    MaxRequests = 2
    MaxPending = 2
    MaxLine = 5
    MaxBuf = 4
SPECIFICATION MCSpec
SYMMETRY MCSymmetry
INVARIANTS
    SlaveIsServed
    HistoryInOrder
    AnswerIsForRequest
    CodecIsExact
CHECK_DEADLOCK FALSE
