CONSTANTS
    Runtimes = {r1, r2}
    Nodes <- TwoNodes
    Terminals = {t1, t2}
    TerminalPorts = {"com1"}
    None = None
    Overlap = FALSE
    MaxHandles = 3
SPECIFICATION Spec
SYMMETRY Symmetry
INVARIANTS
    NothingOrphaned
    RunningHasPorts
    StoppedIsClean
CHECK_DEADLOCK FALSE
