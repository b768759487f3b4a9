\* Is every message handled that the client writes?
CONSTANTS
    Jobs = {j1, j2}
    Reader = reader
    Clients = {reader}
    NoJob = NoJob
    IdleClose = FALSE
    MaxStarts = 1
    ChunkMessages = 2
    MaxSent = 6
CHECK_DEADLOCK FALSE
SPECIFICATION McpFairSpec
PROPERTY MessagesHandled
