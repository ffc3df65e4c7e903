CONSTANTS
    Answers <- MCAnswers
    AcCounts = {0, 2}
    MaxChecks = 2
    Findings = {f, g}
    None = None
    FullTrack = 2
    Sprawl = 2
    Cap = 2
    RepairLimit = 2
    MaxRuns = 3
SPECIFICATION Spec
INVARIANTS
    PlanIsWhole
    PlanCanFinish
    FullPlanReviewed
    AcsAnswered
PROPERTIES
    DesignEnds
CHECK_DEADLOCK FALSE
