SPECIFICATION FairSpec
CONSTANTS
    Workers = {w1, w2}
    Jobs = {j1, j2, j3}
    NoJob = NoJob
    MaxJobs = 2
    BlockIfFull = TRUE
    Timeouts = TRUE
    AllocMayFail = TRUE
    Modulus = 3
INVARIANTS
    CapacityRespected
    JobCountExact
    RunsAtMostOnce
    NoJobStranded
PROPERTIES
    ImplementsService
    QueuedJobRuns
    ClearTerminates
CHECK_DEADLOCK FALSE
