CONSTANTS
    Procs = {p1, p2, p3}
    NoProc = NoProc
SPECIFICATION Spec
SYMMETRY Processes
INVARIANTS
    RunKeepsCheckpoint
    NoOrphanTree
    BranchIsFree
PROPERTIES
    SweepSpares
CHECK_DEADLOCK FALSE
