CONSTANTS
    Runtimes = {r1, r2}
    Nodes <- OneVirtual
    Terminals = {}
    TerminalPorts = {"com1"}
    None = None
    Overlap = TRUE
    MaxHandles = 2
SPECIFICATION Spec
SYMMETRY Symmetry
INVARIANTS
    FailedStartIsUndone
CHECK_DEADLOCK FALSE
