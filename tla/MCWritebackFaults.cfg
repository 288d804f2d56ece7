CONSTANTS
    Request <- MCMixed
    Proc = {p1, p2}
    MaxJobs = 2
    MaxAttempts = 2
    MaxConcurrent = 1
    Hooks = TRUE
    Deployments <- MCModes
    Faults = {"crash", "database", "ambiguous", "audit", "webhook"}
SPECIFICATION Spec
INVARIANTS TypeOK OneExecutor SnapshotFresh ActionsBounded SucceededIsAudited ReportsAreGrounded
PROPERTIES DeadIsInert OrphansAreInert
CHECK_DEADLOCK FALSE
SYMMETRY ProcSymmetry
