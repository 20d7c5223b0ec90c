SPECIFICATION Spec
CONSTANTS
    Workers = {w1, w2}
    Jobs = {j1, j2, j3, j4}
    NoJob = NoJob
    MaxJobs = 2
    BlockIfFull = TRUE
    Timeouts = FALSE
    AllocMayFail = FALSE
    Modulus = 3
SYMMETRY PoolSymmetry
INVARIANT BlockedCallerIsWoken
CHECK_DEADLOCK FALSE
