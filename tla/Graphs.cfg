CONSTANTS
    Vertex = {n1, n2, n3}
    Terminal = {n3}
    Node <- MCNode
    TypeOf <- MCTypeOf
    MaxEdges = 4
    MaxDrawn = 3
    MaxPieces = 6
    Absent = Absent
    NotInt = NotInt
    Run = {r1, r2}
    Key = {k1, k2}
    NoRun = NoRun
    Configs <- MCConfigs
    MaxCalls <- MCMaxCalls
    Sizes = {2}
    InputSizes <- MCInputSizes
    DefaultLimit = 4
    FrameLimit = 2
    FrameBytesLimit = 3
SPECIFICATION MCSpec
INVARIANTS
    SearchIsExact
    DeliveredOnce
    ErrorIsTold
    ValidatorsAgree
    StartsExactly
    FilterIsExact
    NodeIsBounded
CHECK_DEADLOCK FALSE
