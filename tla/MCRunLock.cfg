CONSTANTS
    Procs = {p1, p2, p3}
    NoProc = NoProc
SPECIFICATION LockSpec
INVARIANTS
    SerialMutualExclusion
PROPERTIES
    AcquireAnswers
CHECK_DEADLOCK FALSE
