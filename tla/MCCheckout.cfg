CONSTANTS
    Absent = Absent
    MaxDispatches = 3
    MaxStarts = 2
    MaxRuns = 3
    MaxMoves = 2
SPECIFICATION Spec
INVARIANTS
    OnlyEnsureDrops
    StoppedWorkGone
    BaselineTrue
CHECK_DEADLOCK FALSE
