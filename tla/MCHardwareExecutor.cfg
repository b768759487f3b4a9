\* Two threads, two jobs, two lifetimes of the executor, idle close enabled.
CONSTANTS
    Jobs = {j1, j2}
    Clients = {c1, c2}
    NoJob = NoJob
    IdleClose = TRUE
    MaxStarts = 2
SPECIFICATION FairSpec
INVARIANTS
    TaskHasHardware
    SnapshotConsistent
    CancelHonoured
    RepliesTruthful
PROPERTIES
    ImplementsJobService
    ShutdownReturns
CHECK_DEADLOCK FALSE
