CONSTANTS
    Procs = {p1, p2, p3}
    NoProc = NoProc
SPECIFICATION Spec
SYMMETRY Processes
PROPERTIES
    SweptWasDelivered
CHECK_DEADLOCK FALSE
