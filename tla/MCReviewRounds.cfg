CONSTANTS
    Planned = 2
    Filings <- MCFilings
    Legacy <- MCLegacy
    RepairLimit = 2
    ProbeLimit = 1
    OnPlanDefect = {"escalate", "redesign"}
    MaxFindings = 3
    MaxReviews = 4
    MaxRuns = 5
    MaxHeads = 2
SPECIFICATION ReviewSpec
INVARIANTS
    ShippedIsAnswered
    AuthorsAnswerFirst
CHECK_DEADLOCK FALSE
