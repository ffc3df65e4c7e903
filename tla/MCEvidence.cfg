CONSTANTS
    Components = {"web"}
    Planned = 1
    Criteria = {{}, {1}}
    Classes = {"assertion", "environmental", "satisfied"}
    Diffs <- MCDiffs
    Profiles <- MCProfiles
    InPlace = FALSE
    MaxCommits = 3
    MaxRuns = 2
    MaxLoops = 1
SPECIFICATION Spec
INVARIANTS
    RequiredAreMet
    ReportIsTrue
    NothingRunsStale
PROPERTIES
    ShippedIsMeasured
CHECK_DEADLOCK FALSE
