SPECIFICATION FairSpec
CONSTANTS
    r1 = r1
    r2 = r2
    Run <- MCTwoRuns
    MaxCookies = 1
    MaxTokens = 3
    Faults = {"crash", "database", "timeout", "uninstall"}
INVARIANTS TypeOK PushesSerialised TokenCurrent
PROPERTIES TokenForward RunsEnd
CHECK_DEADLOCK FALSE
