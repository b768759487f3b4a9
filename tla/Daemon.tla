------------------------------- MODULE Daemon -------------------------------
(***************************************************************************)
(* jtag_daemon (src/tools/daemon_runner.cpp): the executor together with   *)
(* the two servers that call it, GuiRpcServer and McpServer, each on its   *)
(* own TcpTransport (src/mcp/mcp_transport.cpp). A transport has one       *)
(* thread that accepts one connection at a time, reads it and runs the     *)
(* message handlers, so a server is one client thread of the executor.     *)
(*                                                                         *)
(* External: closing a socket makes a blocked accept() or recv() of        *)
(* another thread fail (Winsock), and a signal only sets                   *)
(* g_stop_requested.                                                       *)
(***************************************************************************)
EXTENDS HardwareExecutor

CONSTANTS Gui, Mcp,           \* the two server threads
          ExitOnDisconnect,   \* --exit-on-disconnect
          MaxConns,           \* bound: connections made to each port
          MaxBuffered         \* bound: messages delivered by one recv()

ASSUME DaemonAssumption ==
          /\ Gui # Mcp /\ Clients = {Gui, Mcp}
          /\ ExitOnDisconnect \in BOOLEAN
          /\ MaxConns \in Nat /\ MaxBuffered \in Nat \ {0}

VARIABLES
    host,            \* where runDaemon() is
    g_stop,          \* g_stop_requested
    server_running,  \* McpServer::Impl::running
    initialized,     \* McpServer::Impl::initialized
    thread,          \* where each accept thread is
    t_stop,          \* stop_flag of each transport
    backlog,         \* a connection waits in listen()'s queue
    peer,            \* is the served connection still open at the other end?
    buffered,        \* messages received and not yet handled
    completed,       \* completed_connections > 0
    conns            \* connections made so far

netVars == <<thread, t_stop, backlog, peer, buffered, completed, conns>>
serverVars == <<g_stop, server_running, initialized>>
dvars == <<vars, host, serverVars, netVars>>

HostPcs == {"boot", "boot_mcp", "boot_gui", "serve", "stop_gui", "join_gui",
            "stop_mcp", "join_mcp", "shutdown", "shutting", "exited"}

DaemonInit ==
    /\ Init
    /\ host = "boot"
    /\ g_stop = FALSE /\ server_running = FALSE /\ initialized = FALSE
    /\ thread = [c \in Clients |-> "none"]
    /\ t_stop = [c \in Clients |-> FALSE]
    /\ backlog = [c \in Clients |-> FALSE]
    /\ peer = [c \in Clients |-> FALSE]
    /\ buffered = [c \in Clients |-> 0]
    /\ completed = [c \in Clients |-> FALSE]
    /\ conns = [c \in Clients |-> 0]

-----------------------------------------------------------------------------
(***************************************************************************)
(* runDaemon().                                                            *)
(***************************************************************************)

BootWorker == /\ host = "boot"
              /\ StartWorker
              /\ host' = "boot_mcp"
              /\ UNCHANGED <<serverVars, netVars>>

Listen(c) == thread' = [thread EXCEPT ![c] = "accept"]

BootMcp == /\ host = "boot_mcp"
           /\ Listen(Mcp)
           /\ server_running' = TRUE
           /\ host' = "boot_gui"
           /\ UNCHANGED <<vars, g_stop, initialized, t_stop, backlog, peer, buffered,
                          completed, conns>>

\* The port cannot be bound: the servers are stopped and the daemon ends.
BootMcpFails == /\ host = "boot_mcp"
                /\ host' = "shutdown"
                /\ UNCHANGED <<vars, serverVars, netVars>>

BootGui == /\ host = "boot_gui"
           /\ Listen(Gui)
           /\ host' = "serve"
           /\ UNCHANGED <<vars, serverVars, t_stop, backlog, peer, buffered, completed, conns>>

BootGuiFails == /\ host = "boot_gui"
                /\ host' = "stop_mcp"
                /\ UNCHANGED <<vars, serverVars, netVars>>

\* The main loop ends.
HostLoopEnds == /\ host = "serve"
                /\ \/ g_stop
                   \/ ~server_running
                   \/ ExitOnDisconnect /\ completed[Mcp]
                /\ host' = "stop_gui"
                /\ UNCHANGED <<vars, serverVars, netVars>>

\* Mutant of StopTransport: the stop flag is not set.
StopTransport_NoFlag(c) == c \in Clients /\ UNCHANGED netVars

\* TcpTransport::stop() up to the join.
StopTransport(c) == /\ t_stop' = [t_stop EXCEPT ![c] = TRUE]
                    /\ UNCHANGED <<thread, backlog, peer, buffered, completed, conns>>

\* gui_server->stop(), mcp_server.stop() and executor.shutdown(), in this order.
StopGui == /\ host = "stop_gui"
           /\ StopTransport(Gui)
           /\ host' = "join_gui"
           /\ UNCHANGED <<vars, serverVars>>

JoinGui == /\ host = "join_gui"
           /\ thread[Gui] = "exited"
           /\ host' = "stop_mcp"
           /\ UNCHANGED <<vars, serverVars, netVars>>

StopMcp == /\ host = "stop_mcp"
           /\ server_running' = FALSE
           /\ StopTransport(Mcp)
           /\ host' = "join_mcp"
           /\ UNCHANGED <<vars, g_stop, initialized>>

\* Mutant of JoinMcp: the thread is detached instead of joined.
JoinMcp_Detached == /\ host = "join_mcp"
                    /\ host' = "shutdown"
                    /\ UNCHANGED <<vars, serverVars, netVars>>

JoinMcp == /\ host = "join_mcp"
           /\ thread[Mcp] = "exited"
           /\ host' = "shutdown"
           /\ UNCHANGED <<vars, serverVars, netVars>>

HostShutdown == /\ host = "shutdown"
                /\ ShutdownStop
                /\ host' = "shutting"
                /\ UNCHANGED <<serverVars, netVars>>

HostShutdownRest == /\ host = "shutting"
                    /\ ShutdownRest
                    /\ host' = IF owner' = "idle" THEN "exited" ELSE host
                    /\ UNCHANGED <<serverVars, netVars>>

Host == \/ BootWorker \/ BootMcp \/ BootMcpFails \/ BootGui \/ BootGuiFails
        \/ HostLoopEnds \/ StopGui \/ JoinGui \/ StopMcp \/ JoinMcp
        \/ HostShutdown \/ HostShutdownRest

-----------------------------------------------------------------------------
(***************************************************************************)
(* A transport's thread: accept, read, handle.                             *)
(***************************************************************************)

Accept(c) == /\ thread[c] = "accept" /\ ~t_stop[c]
             /\ backlog[c]
             /\ thread' = [thread EXCEPT ![c] = "read"]
             /\ peer' = [peer EXCEPT ![c] = TRUE]
             /\ backlog' = [backlog EXCEPT ![c] = FALSE]
             /\ UNCHANGED <<vars, host, serverVars, t_stop, buffered, completed, conns>>

AcceptEnds(c) == /\ thread[c] = "accept" /\ t_stop[c]
                 /\ thread' = [thread EXCEPT ![c] = "exited"]
                 /\ UNCHANGED <<vars, host, serverVars, t_stop, backlog, peer, buffered,
                                completed, conns>>

\* recv() delivers a chunk, which may hold several messages.
Recv(c) == /\ thread[c] = "read" /\ cpc[c] = "idle" /\ buffered[c] = 0
           /\ ~t_stop[c] /\ peer[c]
           /\ \E n \in 1..MaxBuffered : buffered' = [buffered EXCEPT ![c] = n]
           /\ UNCHANGED <<vars, host, serverVars, thread, t_stop, backlog, peer, completed,
                          conns>>

\* The handler of the next message. The whole chunk is handled whatever
\* stop_flag says. McpServer refuses tool calls until it was initialized.
Handle(c) ==
    /\ thread[c] = "read" /\ cpc[c] = "idle" /\ buffered[c] > 0
    /\ buffered' = [buffered EXCEPT ![c] = @ - 1]
    /\ \/ /\ c = Mcp => initialized
          /\ \E j \in Jobs : \/ \E sync \in BOOLEAN : SubmitCheck(c, j, sync)
                             \/ SubmitReject(c, j)
                             \/ CancelJob(c, j)
          /\ UNCHANGED <<server_running, initialized>>
       \/ /\ c = Mcp
          /\ initialized' = TRUE
          /\ UNCHANGED <<vars, server_running>>
       \/ /\ c = Mcp
          /\ server_running' = FALSE
          /\ UNCHANGED <<vars, initialized>>
       \/ UNCHANGED <<vars, server_running, initialized>>
    /\ UNCHANGED <<host, g_stop, thread, t_stop, backlog, peer, completed, conns>>

\* The reader loop ends: the connection is closed and counted.
ReadEnds(c) == /\ thread[c] = "read" /\ cpc[c] = "idle" /\ buffered[c] = 0
               /\ t_stop[c] \/ ~peer[c]
               /\ thread' = [thread EXCEPT ![c] = IF t_stop[c] THEN "exited" ELSE "accept"]
               /\ peer' = [peer EXCEPT ![c] = FALSE]
               /\ completed' = [completed EXCEPT ![c] = TRUE]
               /\ UNCHANGED <<vars, host, serverVars, t_stop, backlog, buffered, conns>>

ServerThread(c) == Accept(c) \/ AcceptEnds(c) \/ Handle(c) \/ ReadEnds(c)

\* The client thread is inside a bridge call.
ServerCall(c) == ClientRest(c) /\ UNCHANGED <<host, serverVars, netVars>>

-----------------------------------------------------------------------------
(***************************************************************************)
(* The environment: client programs and signals.                           *)
(***************************************************************************)

Connect(c) == /\ thread[c] \in {"accept", "read"} /\ ~t_stop[c]
              /\ ~backlog[c] /\ conns[c] < MaxConns
              /\ backlog' = [backlog EXCEPT ![c] = TRUE]
              /\ conns' = [conns EXCEPT ![c] = @ + 1]
              /\ UNCHANGED <<vars, host, serverVars, thread, t_stop, peer, buffered, completed>>

Disconnect(c) == /\ peer[c]
                 /\ peer' = [peer EXCEPT ![c] = FALSE]
                 /\ UNCHANGED <<vars, host, serverVars, thread, t_stop, backlog, buffered,
                                completed, conns>>

Signal == /\ ~g_stop /\ host # "exited"
          /\ g_stop' = TRUE
          /\ UNCHANGED <<vars, host, server_running, initialized, netVars>>

DaemonWorker == Worker /\ UNCHANGED <<host, serverVars, netVars>>

DaemonNext == \/ Host
              \/ DaemonWorker
              \/ \E c \in Clients : \/ ServerThread(c) \/ ServerCall(c)
                                    \/ Recv(c) \/ Connect(c) \/ Disconnect(c)
              \/ Signal

DaemonSpec == DaemonInit /\ [][DaemonNext]_dvars

\* Every thread of the process is scheduled; clients and signals owe nothing.
DaemonFairSpec ==
    /\ DaemonSpec
    /\ WF_dvars(Host)
    /\ WF_dvars(DaemonWorker)
    /\ \A c \in Clients : WF_dvars(ServerThread(c)) /\ WF_dvars(ServerCall(c))

-----------------------------------------------------------------------------

\* The order in which runDaemon() stops its parts keeps submit() and
\* shutdown() apart: no server thread is inside a bridge call, or can begin
\* one, once the executor has been told to stop.
ServersStopBeforeExecutor ==
    stop_flag => \A c \in Clients : cpc[c] = "idle" /\ thread[c] \in {"none", "exited"}

\* When the daemon ends, every job it accepted has been brought to an end.
NoJobLost == host = "exited" => \A j \in Jobs : state[j] \in Terminal \cup {"none"}

\* Every accepted job ends, whatever the interleaving with cancellation, idle
\* close and shutdown.
AcceptedJobsEnd == \A j \in Jobs : (state[j] = "queued") ~> (state[j] \in Terminal)

\* A stop request ends the daemon, also when it finds servers inside calls.
StopRequestEndsDaemon == g_stop ~> (host = "exited")

=============================================================================
