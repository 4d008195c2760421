CONSTANTS
    Runtimes = {r1, r2}
    Nodes <- TwoNodes
    Terminals = {}
    TerminalPorts = {"com1"}
    None = None
    Overlap = TRUE
    MaxHandles = 4
SPECIFICATION Spec
INVARIANTS
    StoppedIsClean
CHECK_DEADLOCK FALSE
