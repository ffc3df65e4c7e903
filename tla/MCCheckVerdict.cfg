CONSTANTS
    Components <- MCComponents
    MaxSetups = 1
SPECIFICATION VerdictSpec
INVARIANTS
    GreenIsOurs
    BindsByAssertion
    RedThenGreen
CHECK_DEADLOCK FALSE
