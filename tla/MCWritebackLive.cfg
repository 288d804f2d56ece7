CONSTANTS
    Request <- MCMalformed
    Proc = {p1, p2}
    MaxJobs = 2
    MaxAttempts = 2
    MaxConcurrent = 1
    Hooks = TRUE
    Deployments <- MCLive
    Faults = {"audit", "webhook"}
SPECIFICATION FairSpec
INVARIANTS ExhaustedIsReported
PROPERTIES JobSettles KeepsContract
CHECK_DEADLOCK FALSE
