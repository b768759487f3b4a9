\* Enough inputs to connect, load a BSDL, capture, stop and capture again.
CONSTANTS
    Threads = {"main", "conn", "prog"}
    MaxInputs = 5
    MaxJobs = 2
    MaxFaults = 1
SPECIFICATION AppFairSpec
INVARIANTS
    AnswersOwn
    NoLeakedPromise
    NoOrphanJob
PROPERTIES
    MainReturns
CHECK_DEADLOCK FALSE
