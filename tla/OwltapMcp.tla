------------------------------ MODULE OwltapMcp ------------------------------
(***************************************************************************)
(* owltap_mcp (src/tools/owltap_mcp.cpp) on its stdio transport: the       *)
(* executor with one client thread, the transport's reader, and the main   *)
(* thread, which waits for the server and shuts the executor down without  *)
(* stopping the reader first.                                              *)
(***************************************************************************)
EXTENDS HardwareExecutor

CONSTANTS Reader,        \* the stdio reader thread
          ChunkMessages, \* messages that fill the 4096-byte chunk of one fread()
          MaxSent        \* bound: messages the MCP client writes

ASSUME OwltapMcpAssumption == /\ Clients = {Reader}
                              /\ ChunkMessages \in Nat \ {0}
                              /\ MaxSent \in Nat

VARIABLES host,            \* where main() is
          server_running,  \* McpServer::Impl::running
          initialized,     \* McpServer::Impl::initialized
          reader,          \* where the reader thread is
          buffered,        \* messages read and not yet handled
          pipe,            \* messages in stdin that fread() has not returned
          closed,          \* the client has closed its end
          sent             \* messages the client has written

pipeVars == <<pipe, closed, sent>>
hvars == <<host, server_running, initialized, reader, buffered, pipeVars>>
ovars == <<vars, hvars>>

McpInit == /\ Init
           /\ host = "boot"
           /\ server_running = FALSE /\ initialized = FALSE
           /\ reader = "none" /\ buffered = 0
           /\ pipe = 0 /\ closed = FALSE /\ sent = 0

\* main() opens the device, launches the worker and starts the server.
McpBoot == /\ host = "boot"
           /\ Start
           /\ host' = "run"
           /\ server_running' = TRUE
           /\ reader' = "read"
           /\ UNCHANGED <<initialized, buffered, pipeVars>>

\* start() failed: main() returns 1.
McpBootFails == /\ host = "boot"
                /\ host' = "exited"
                /\ UNCHANGED <<vars, server_running, initialized, reader, buffered, pipeVars>>

\* main() leaves its loop when the server is no longer running.
McpShutdown == /\ host = "run" /\ ~server_running
               /\ ShutdownStop
               /\ host' = "shutting"
               /\ UNCHANGED <<server_running, initialized, reader, buffered, pipeVars>>

McpShutdownRest == /\ host = "shutting"
                   /\ ShutdownRest
                   /\ host' = IF owner' = "idle" THEN "exited" ELSE host
                   /\ UNCHANGED <<server_running, initialized, reader, buffered, pipeVars>>

McpHost == McpBoot \/ McpBootFails \/ McpShutdown \/ McpShutdownRest

\* The end of main() ends every thread of the process.
Alive == host # "exited"

ReaderWaits == Alive /\ reader = "read" /\ cpc[Reader] = "idle" /\ buffered = 0

\* fread(chunk, 1, 4096, stdin) returns a full chunk, or what is left when the
\* input has ended; until then it blocks.
McpRecv == /\ ReaderWaits
           /\ pipe > 0
           /\ pipe >= ChunkMessages \/ closed
           /\ buffered' = IF pipe >= ChunkMessages THEN ChunkMessages ELSE pipe
           /\ pipe' = pipe - buffered'
           /\ UNCHANGED <<vars, host, server_running, initialized, reader, closed, sent>>

\* fread() returns 0 at the end of the input, which ends the reader thread.
McpEof == /\ ReaderWaits
          /\ pipe = 0 /\ closed
          /\ reader' = "exited"
          /\ UNCHANGED <<vars, host, server_running, initialized, buffered, pipeVars>>

\* The MCP client writes a message, or closes its end.
McpSend == /\ Alive /\ ~closed /\ sent < MaxSent
           /\ pipe' = pipe + 1
           /\ sent' = sent + 1
           /\ UNCHANGED <<vars, host, server_running, initialized, reader, buffered, closed>>

McpClose == /\ Alive /\ ~closed
            /\ closed' = TRUE
            /\ UNCHANGED <<vars, host, server_running, initialized, reader, buffered, pipe, sent>>

\* McpServer::onMessage() for the next message of the chunk.
McpHandle ==
    /\ Alive /\ reader = "read" /\ cpc[Reader] = "idle" /\ buffered > 0
    /\ buffered' = buffered - 1
    /\ \/ /\ initialized
          /\ \E j \in Jobs : \/ \E sync \in BOOLEAN : SubmitCheck(Reader, j, sync)
                             \/ SubmitReject(Reader, j)
                             \/ CancelJob(Reader, j)
          /\ UNCHANGED <<server_running, initialized>>
       \/ initialized' = TRUE /\ UNCHANGED <<vars, server_running>>
       \/ server_running' = FALSE /\ UNCHANGED <<vars, initialized>>
       \/ UNCHANGED <<vars, server_running, initialized>>
    /\ UNCHANGED <<host, reader, pipeVars>>

McpCall == Alive /\ ClientRest(Reader) /\ UNCHANGED hvars

McpWorker == Alive /\ Worker /\ UNCHANGED hvars

McpReader == McpRecv \/ McpEof \/ McpHandle

McpNext == McpHost \/ McpWorker \/ McpCall \/ McpReader \/ McpSend \/ McpClose

McpSpec == McpInit /\ [][McpNext]_ovars

\* The threads of the process are scheduled; the client owes nothing.
McpFairSpec == /\ McpSpec
               /\ WF_ovars(McpHost) /\ WF_ovars(McpWorker)
               /\ WF_ovars(McpCall) /\ WF_ovars(McpReader)

-----------------------------------------------------------------------------

\* A shutdown request ends the program although the reader keeps submitting
\* jobs while the executor is being shut down.
ShutdownRequestEndsProgram ==
    (host = "run" /\ ~server_running) ~> (host = "exited")

\* The receive handler is "invoked for each received JSON-RPC message": every
\* message the client has written is handled while the program runs.
MessagesHandled == (pipe + buffered > 0) ~> (pipe + buffered = 0 \/ ~Alive)

=============================================================================
