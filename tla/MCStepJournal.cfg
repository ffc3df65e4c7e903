CONSTANTS
    Steps = {check, code}
    SuiteSteps = {check}
    NoStep = NoStep
    MaxAttempts = 3
    MaxStarts = 5
SPECIFICATION Spec
INVARIANTS
    AttemptLedger
    NoOrphan
    RetryBudget
    NoStaleSuiteFailure
    OnlyStopsMatch
CHECK_DEADLOCK FALSE
