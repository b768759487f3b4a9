\* One job; the daemon as it is run, with idle close and --exit-on-disconnect.
CONSTANTS
    Jobs = {j1}
    Gui = gui
    Mcp = mcp
    Clients = {gui, mcp}
    NoJob = NoJob
    IdleClose = TRUE
    MaxStarts = 1
    ExitOnDisconnect = TRUE
    MaxConns = 1
    MaxBuffered = 1
SPECIFICATION DaemonFairSpec
INVARIANTS
    ServersStopBeforeExecutor
    NoJobLost
PROPERTIES
    AcceptedJobsEnd
    StopRequestEndsDaemon
CHECK_DEADLOCK FALSE
