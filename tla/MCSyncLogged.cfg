SPECIFICATION Spec
CONSTANTS
    r1 = r1
    r2 = r2
    Run <- MCTwoRuns
    MaxCookies = 1
    MaxTokens = 1
    Faults = {}
INVARIANT FailureLogged
CHECK_DEADLOCK FALSE
