CONSTANTS
    Planned = 1
    Acs = {a, b}
    GateCap = 2
    MaxAttempts = 2
    RepairLimit = 1
    OnPlanDefect = {"escalate", "redesign"}
    Shapes <- MCShapes
    MaxRuns = 2
    MaxMoves = 1
SPECIFICATION Spec
INVARIANTS
    ReplayIsExplained
    ShippedIsGated
    MergedIsReviewed
PROPERTIES
    RunEnds
    StageContract
CHECK_DEADLOCK FALSE
