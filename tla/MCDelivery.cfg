CONSTANTS
    Required = TRUE
    Budget = 4
    IdleCap = 2
    MaxHeads = 2
    MaxRows = 8
    MaxRuns = 2
    MaxMoves = 1
    MaxFaults = 4
SPECIFICATION Spec
INVARIANTS
    PrReadyShowsHead
    PublishedIsVerified
PROPERTIES
    GateAnswers
CHECK_DEADLOCK FALSE
