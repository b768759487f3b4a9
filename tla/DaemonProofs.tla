---------------------------- MODULE DaemonProofs ----------------------------
(***************************************************************************)
(* The daemon uses the executor as the executor expects, so that whatever  *)
(* is proved of the executor holds in the daemon; and the order in which   *)
(* runDaemon() stops its parts loses no job.                               *)
(***************************************************************************)
EXTENDS Daemon, HardwareExecutorProofs

\* Every step of the daemon is a step of the executor or leaves it alone.
LEMMA DaemonStep == DaemonNext => [Next]_vars
<1> SUFFICES ASSUME DaemonNext PROVE [Next]_vars
  OBVIOUS
<1>1. CASE Host
  BY <1>1 DEF Host, BootWorker, BootMcp, BootMcpFails, BootGui, BootGuiFails, HostLoopEnds,
              StopGui, JoinGui, StopMcp, JoinMcp, HostShutdown, HostShutdownRest, Next, Owner
<1>2. CASE DaemonWorker
  BY <1>2 DEF DaemonWorker, Next
<1>3. ASSUME NEW c \in Clients, ServerThread(c) PROVE [Next]_vars
  <2>1. CASE Handle(c)
    BY <2>1 DEF Handle, Next, Client
  <2>2. CASE Accept(c) \/ AcceptEnds(c) \/ ReadEnds(c)
    BY <2>2 DEF Accept, AcceptEnds, ReadEnds
  <2> QED BY <1>3, <2>1, <2>2 DEF ServerThread
<1>4. ASSUME NEW c \in Clients, ServerCall(c) PROVE [Next]_vars
  BY <1>4 DEF ServerCall, Next, Client
<1>5. ASSUME NEW c \in Clients, Recv(c) \/ Connect(c) \/ Disconnect(c) PROVE [Next]_vars
  BY <1>5 DEF Recv, Connect, Disconnect
<1>6. CASE Signal
  BY <1>6 DEF Signal
<1> QED BY <1>1, <1>2, <1>3, <1>4, <1>5, <1>6 DEF DaemonNext

\* The daemon implements the executor's specification: nothing that host,
\* servers, clients and signals do takes it outside.
THEOREM DaemonUsesExecutor == DaemonSpec => Spec
<1>1. DaemonInit => Init
  BY DEF DaemonInit
<1>2. [DaemonNext]_dvars => [Next]_vars
  BY DaemonStep DEF dvars
<1> QED BY <1>1, <1>2, PTL DEF DaemonSpec, Spec

-----------------------------------------------------------------------------
(***************************************************************************)
(* The invariant of the stop sequence.                                     *)
(***************************************************************************)

Stopped == {"none", "exited"}

\* The threads of the transports.
ThreadInv ==
    /\ thread \in [Clients -> {"none", "accept", "read", "exited"}]
    /\ \A c \in Clients : thread[c] # "read" => cpc[c] = "idle"

\* How far runDaemon() is tells which transport threads can still be there.
HostInv ==
    /\ host \in {"boot", "boot_mcp"} => thread[Gui] = "none" /\ thread[Mcp] = "none"
    /\ host = "boot_gui" => thread[Gui] = "none"
    /\ host \in {"stop_mcp", "join_mcp"} => thread[Gui] \in Stopped
    /\ host \in {"shutdown", "shutting", "exited"} =>
          thread[Gui] \in Stopped /\ thread[Mcp] \in Stopped
    /\ stop_flag => host \in {"shutting", "exited"}
    /\ owner # "idle" => stop_flag

\* Every queued job is in the queue or in the worker's hands, and the worker
\* leaves an empty queue behind, which stays empty.
DrainInv ==
    /\ \A j \in Jobs : state[j] = "queued" =>
          cur = j \/ \E i \in 1..Len(queue) : queue[i] = j
    /\ worker = "exited" => stop_flag /\ queue = <<>>
    /\ owner \in {"joined", "close"} => queue = <<>>
    /\ host = "exited" => queue = <<>> /\ worker = "none"

DInv == IInv /\ ThreadInv /\ HostInv /\ DrainInv

\* Once the executor has been told to stop, both servers are quiet.
LEMMA QuietServers ==
  ASSUME ThreadInv, HostInv, host \in {"shutdown", "shutting", "exited"}
  PROVE  \A c \in Clients : cpc[c] = "idle" /\ thread[c] \in Stopped
  BY DaemonAssumption DEF ThreadInv, HostInv, Stopped

\* What the worker leaves alone.
LEMMA WorkerLeaves == Worker => UNCHANGED <<running, stop_flag, owner, starts, bridgeVars>>
  BY DEF Worker, WorkerExit, WorkerSleep, WorkerPop, WorkerIdleTimeout, WorkerSkip,
         WorkerProceed, WorkerSetRunning, WorkerOpen, WorkerOpenFails, TaskThrows,
         WorkerSetError, TaskReturns, WorkerDiscard, WorkerKeep, WorkerSetResult,
         WorkerSetComplete, WorkerSetFailed

\* The worker never loses a queued job: it takes it from the queue into its
\* hands, and gives it up only together with the state "queued".
LEMMA WorkerDrains ==
  ASSUME IInv, ThreadInv, HostInv, DrainInv, Worker, host' = host PROVE DrainInv'
<1>t. TypeOK /\ WorkerInv /\ OwnerInv /\ queue \in Seq(Jobs)
  BY DEF IInv, TypeOK
<1>w. UNCHANGED <<running, stop_flag, owner, starts, bridgeVars>>
  BY WorkerLeaves
<1>1. CASE WorkerPop
  <2>1. /\ worker = "loop" /\ worker' = "check" /\ queue # <<>>
        /\ cur' = Head(queue) /\ queue' = Tail(queue) /\ state' = state
    BY <1>1 DEF WorkerPop, jobVars
  <2>2. cur = NoJob
    BY <1>t, <2>1 DEF WorkerInv, Busy
  <2>3. \A i \in 1..Len(queue) : queue[i] = cur' \/ \E k \in 1..Len(queue') : queue'[k] = queue[i]
    <3>1. \A i \in 1..Len(queue) : i = 1 \/ (i - 1 \in 1..Len(Tail(queue)) /\ Tail(queue)[i - 1] = queue[i])
      BY <1>t, <2>1
    <3>2. Head(queue) = queue[1]
      BY <1>t, <2>1
    <3> QED BY <2>1, <3>1, <3>2
  <2>4. \A j \in Jobs : state'[j] = "queued" =>
          cur' = j \/ \E i \in 1..Len(queue') : queue'[i] = j
    BY <2>1, <2>2, <2>3, ConstantsAssumption DEF DrainInv
  <2>5. owner \notin {"joined", "close"} /\ host # "exited"
    BY <2>1, <1>t DEF OwnerInv, DrainInv
  <2> QED BY <1>w, <2>1, <2>4, <2>5 DEF DrainInv
<1>2. CASE WorkerSkip \/ WorkerSetRunning \/ WorkerDiscard \/ WorkerSetComplete \/ WorkerSetFailed
  <2>1. PICK s \in States \ {"queued"} : state' = [state EXCEPT ![cur] = s]
    BY <1>2 DEF WorkerSkip, WorkerSetRunning, WorkerDiscard, WorkerSetComplete,
                WorkerSetFailed, States
  <2>2. /\ worker \in Busy /\ worker' \in {"loop", "open"}
        /\ queue' = queue
    BY <1>2 DEF WorkerSkip, WorkerSetRunning, WorkerDiscard, WorkerSetComplete,
                WorkerSetFailed, Busy
  <2>3. cur \in Jobs
    BY <1>t, <2>2, BusyJob
  <2>4. state'[cur] # "queued" /\ \A j \in Jobs : j # cur => state'[j] = state[j]
    BY <1>t, <2>1, <2>3, SetState
  <2>5. owner \notin {"joined", "close"} /\ host # "exited"
    BY <2>2, <1>t DEF OwnerInv, DrainInv, Busy
  <2>6. \A j \in Jobs : state'[j] = "queued" => \E i \in 1..Len(queue') : queue'[i] = j
    BY <2>2, <2>4 DEF DrainInv
  <2> QED BY <1>w, <2>2, <2>5, <2>6 DEF DrainInv
<1>3. CASE WorkerExit \/ WorkerSleep \/ WorkerIdleTimeout \/ WorkerProceed \/ WorkerOpen
           \/ WorkerOpenFails \/ TaskReturns \/ TaskThrows \/ WorkerKeep \/ WorkerSetResult
  <2>1. UNCHANGED <<queue, cur, state>> /\ worker # "none"
    BY <1>3 DEF WorkerExit, WorkerSleep, WorkerIdleTimeout, WorkerProceed, WorkerOpen,
           WorkerOpenFails, TaskReturns, TaskThrows, WorkerSetError, WorkerKeep,
           WorkerSetResult, jobVars
  <2>2. worker' = "exited" => stop_flag /\ queue = <<>>
    BY <1>3 DEF WorkerExit, WorkerSleep, WorkerIdleTimeout, WorkerProceed, WorkerOpen,
           WorkerOpenFails, TaskReturns, TaskThrows, WorkerSetError, WorkerKeep,
           WorkerSetResult
  <2>3. host # "exited"
    BY <2>1 DEF DrainInv
  <2> QED BY <1>w, <2>1, <2>2, <2>3 DEF DrainInv
<1> QED BY <1>1, <1>2, <1>3 DEF Worker

\* A step of a client that queues nothing.
LEMMA CallDrains ==
  ASSUME DrainInv, UNCHANGED <<state, cur, queue, stop_flag, owner, host>>,
         worker' = worker \/ (worker = "sleep" /\ worker' = "loop")
  PROVE  DrainInv'
  BY DEF DrainInv

\* Queueing a job puts it where the worker will find it; the servers are not
\* quiet then, so the worker has not left.
LEMMA EnqueueDrains ==
  ASSUME IInv, ThreadInv, HostInv, DrainInv, NEW c \in Clients, SubmitEnqueue(c), host' = host
  PROVE  DrainInv'
<1>t. TypeOK /\ ClientInv /\ queue \in Seq(Jobs)
  BY DEF IInv, TypeOK
<1>1. /\ cpc[c] = "enqueue" /\ queue' = Append(queue, cjob[c])
      /\ state' = [state EXCEPT ![cjob[c]] = "queued"]
      /\ UNCHANGED <<cur, worker, stop_flag, owner>>
  BY DEF SubmitEnqueue
<1>2. cjob[c] \in Jobs
  BY <1>t, <1>1, CallJob
<1>3. host \notin {"shutdown", "shutting", "exited"}
  BY <1>1, QuietServers
<1>4. ~stop_flag /\ owner = "idle"
  BY <1>3 DEF HostInv
<1>5. worker # "exited"
  BY <1>4 DEF DrainInv
<1>6. \A j \in Jobs : j # cjob[c] => state'[j] = state[j]
  BY <1>t, <1>1, <1>2 DEF TypeOK
<1>7. /\ \E i \in 1..Len(queue') : queue'[i] = cjob[c]
      /\ \A i \in 1..Len(queue) : i \in 1..Len(queue') /\ queue'[i] = queue[i]
  <2>1. /\ Len(queue) + 1 \in 1..Len(queue') /\ queue'[Len(queue) + 1] = cjob[c]
        /\ \A i \in 1..Len(queue) : i \in 1..Len(queue') /\ queue'[i] = queue[i]
    BY <1>t, <1>1, <1>2
  <2> QED BY <2>1
<1>8. \A j \in Jobs : state'[j] = "queued" =>
        cur' = j \/ \E i \in 1..Len(queue') : queue'[i] = j
  <2> SUFFICES ASSUME NEW j \in Jobs, state'[j] = "queued", j # cjob[c], cur # j
               PROVE  \E i \in 1..Len(queue') : queue'[i] = j
    BY <1>1, <1>7
  <2>1. PICK i \in 1..Len(queue) : queue[i] = j
    BY <1>6 DEF DrainInv
  <2> QED BY <1>7, <2>1
<1> QED BY <1>1, <1>3, <1>4, <1>5, <1>8 DEF DrainInv

\* A server's call touches neither the owner nor the stop flag; only a call
\* that queues a job changes the queue.
LEMMA CallStep ==
  ASSUME DInv, NEW c \in Clients, ClientRest(c), UNCHANGED <<host, thread>>
  PROVE  ThreadInv' /\ HostInv' /\ DrainInv'
<1>d. IInv /\ TypeOK /\ ThreadInv /\ HostInv /\ DrainInv
  BY DEF DInv, IInv
<1>1. UNCHANGED <<stop_flag, owner>> /\ cpc[c] # "idle"
  BY DEF ClientRest, SubmitEnqueue, SubmitNotify, SyncDone, SyncTimeout, SyncReturn, execVars
<1>2. \A d \in Clients : d # c => cpc'[d] = cpc[d]
  BY <1>d DEF ClientRest, SubmitEnqueue, SubmitNotify, SyncDone, SyncTimeout, SyncReturn, TypeOK
<1>3. thread[c] = "read"
  BY <1>d, <1>1 DEF ThreadInv
<1>4. ThreadInv'
  BY <1>d, <1>2, <1>3 DEF ThreadInv
<1>5. HostInv'
  BY <1>d, <1>1 DEF HostInv
<1>6. DrainInv'
  <2>1. CASE SubmitEnqueue(c)
    BY <1>d, <2>1, EnqueueDrains
  <2>2. CASE SubmitNotify(c) \/ SyncDone(c) \/ SyncTimeout(c)
    <3>1. UNCHANGED <<state, cur, queue, stop_flag, owner, host>>
      BY <2>2 DEF SubmitNotify, SyncDone, SyncTimeout, SyncReturn, execVars, jobVars
    <3>2. worker' = worker \/ (worker = "sleep" /\ worker' = "loop")
      BY <2>2 DEF SubmitNotify, Notified, SyncDone, SyncTimeout, SyncReturn, execVars
    <3> QED BY <1>d, <3>1, <3>2, CallDrains
  <2> QED BY <2>1, <2>2 DEF ClientRest
<1> QED BY <1>4, <1>5, <1>6

\* Handling a message begins at most one bridge call, in a reading thread.
LEMMA HandleStep ==
  ASSUME DInv, NEW c \in Clients, Handle(c)
  PROVE  ThreadInv' /\ HostInv' /\ DrainInv'
<1>d. TypeOK /\ ThreadInv /\ HostInv /\ DrainInv
  BY DEF DInv, IInv
<1>1. /\ UNCHANGED <<state, cur, queue, worker, stop_flag, owner, host, thread>>
      /\ thread[c] = "read"
  BY DEF Handle, SubmitCheck, SubmitReject, CancelJob, vars, execVars, jobVars
<1>2. \A d \in Clients : d # c => cpc'[d] = cpc[d]
  BY <1>d DEF Handle, SubmitCheck, SubmitReject, CancelJob, vars, bridgeVars, TypeOK
<1>3. ThreadInv'
  BY <1>d, <1>1, <1>2 DEF ThreadInv
<1>4. HostInv'
  BY <1>d, <1>1 DEF HostInv
<1>5. DrainInv'
  BY <1>d, <1>1, CallDrains
<1> QED BY <1>3, <1>4, <1>5

\* The steps of a transport's thread outside the handlers.
LEMMA TransportStep ==
  ASSUME DInv, NEW c \in Clients, Accept(c) \/ AcceptEnds(c) \/ ReadEnds(c)
  PROVE  ThreadInv' /\ HostInv' /\ DrainInv'
<1>d. TypeOK /\ ThreadInv /\ HostInv /\ DrainInv
  BY DEF DInv, IInv
<1>1. UNCHANGED <<state, cur, queue, worker, stop_flag, owner, host, cpc>>
  BY DEF Accept, AcceptEnds, ReadEnds, vars, execVars, jobVars, bridgeVars
<1>2. /\ thread[c] \in {"accept", "read"} /\ cpc[c] = "idle"
      /\ \E t \in {"read", "accept", "exited"} : thread' = [thread EXCEPT ![c] = t]
  BY <1>d DEF Accept, AcceptEnds, ReadEnds, ThreadInv
<1>3. /\ thread'[c] \in {"read", "accept", "exited"}
      /\ \A d \in Clients : d # c => thread'[d] = thread[d]
      /\ thread' \in [Clients -> {"none", "accept", "read", "exited"}]
  BY <1>d, <1>2 DEF ThreadInv
<1>4. ThreadInv'
  BY <1>d, <1>1, <1>2, <1>3 DEF ThreadInv
<1>5. HostInv'
  BY <1>d, <1>1, <1>2, <1>3, DaemonAssumption DEF HostInv, Stopped
<1>6. DrainInv'
  BY <1>d, <1>1, CallDrains
<1> QED BY <1>4, <1>5, <1>6

\* The stretches of runDaemon() that start and stop the servers.
LEMMA HostServerStep ==
  ASSUME DInv,
         \/ BootMcp \/ BootMcpFails \/ BootGui \/ BootGuiFails \/ HostLoopEnds
         \/ StopGui \/ JoinGui \/ StopMcp \/ JoinMcp
  PROVE  ThreadInv' /\ HostInv' /\ DrainInv'
<1>d. TypeOK /\ ThreadInv /\ HostInv /\ DrainInv
  BY DEF DInv, IInv
<1>1. UNCHANGED <<state, cur, queue, worker, stop_flag, owner, cpc>> /\ host' # "exited"
      /\ host \notin {"shutting", "exited"}
  BY DEF BootMcp, BootMcpFails, BootGui, BootGuiFails, HostLoopEnds, StopGui, JoinGui,
         StopMcp, JoinMcp, vars, execVars, jobVars, bridgeVars
<1>2. ~stop_flag /\ owner = "idle"
  BY <1>d, <1>1 DEF HostInv
<1>3. DrainInv'
  BY <1>d, <1>1 DEF DrainInv
<1>4. CASE BootMcp \/ BootGui
  <2>1. PICK c \in Clients : /\ thread' = [thread EXCEPT ![c] = "accept"]
                             /\ thread[c] = "none"
                             /\ c = Mcp => host = "boot_mcp" /\ host' = "boot_gui"
                             /\ c = Gui => host' = "serve"
    BY <1>d, <1>4, DaemonAssumption DEF BootMcp, BootGui, Listen, HostInv
  <2>2. /\ thread'[c] = "accept" /\ \A d \in Clients : d # c => thread'[d] = thread[d]
        /\ thread' \in [Clients -> {"none", "accept", "read", "exited"}]
    BY <1>d, <2>1 DEF ThreadInv
  <2>3. ThreadInv'
    BY <1>d, <1>1, <2>1, <2>2 DEF ThreadInv
  <2>4. HostInv'
    BY <1>d, <1>1, <1>2, <2>1, <2>2, DaemonAssumption DEF HostInv
  <2> QED BY <1>3, <2>3, <2>4
<1>5. CASE \/ BootMcpFails \/ BootGuiFails \/ HostLoopEnds
           \/ StopGui \/ JoinGui \/ StopMcp \/ JoinMcp
  <2>1. thread' = thread
    BY <1>5 DEF BootMcpFails, BootGuiFails, HostLoopEnds, StopGui, JoinGui, StopMcp, JoinMcp,
                StopTransport, netVars
  <2>2. ThreadInv'
    BY <1>d, <1>1, <2>1 DEF ThreadInv
  <2>3. HostInv'
    BY <1>d, <1>1, <1>2, <1>5, <2>1
       DEF HostInv, Stopped, BootMcpFails, BootGuiFails, HostLoopEnds, StopGui, JoinGui,
           StopMcp, JoinMcp
  <2> QED BY <1>3, <2>2, <2>3
<1> QED BY <1>4, <1>5

\* The stretches of runDaemon() inside the executor's own functions.
LEMMA HostExecutorStep ==
  ASSUME DInv, BootWorker \/ HostShutdown \/ HostShutdownRest
  PROVE  ThreadInv' /\ HostInv' /\ DrainInv'
<1>d. TypeOK /\ OwnerInv /\ ThreadInv /\ HostInv /\ DrainInv
  BY DEF DInv, IInv
<1>1. UNCHANGED <<state, cur, queue, thread, cpc>>
  BY DEF BootWorker, StartWorker, Launch, HostShutdown, ShutdownStop, HostShutdownRest,
         ShutdownRest, ShutdownNotify, ShutdownJoin, ShutdownClear, ShutdownClose,
         netVars, jobVars, bridgeVars
<1>2. ThreadInv'
  BY <1>d, <1>1 DEF ThreadInv
<1>3. CASE BootWorker
  <2>1. /\ host = "boot" /\ host' = "boot_mcp" /\ stop_flag' = FALSE
        /\ owner = "idle" /\ owner' = "idle" /\ worker' = "loop"
    BY <1>3 DEF BootWorker, StartWorker, Launch
  <2> QED BY <1>d, <1>1, <1>2, <2>1 DEF HostInv, DrainInv
<1>4. CASE HostShutdown
  <2>1. /\ host = "shutdown" /\ host' = "shutting" /\ stop_flag' = TRUE
        /\ owner' = "notify" /\ worker' = worker
    BY <1>4 DEF HostShutdown, ShutdownStop
  <2> QED BY <1>d, <1>1, <1>2, <2>1 DEF HostInv, DrainInv
<1>5. CASE HostShutdownRest
  <2>1. /\ host = "shutting" /\ stop_flag' = stop_flag /\ owner # "idle"
        /\ host' = IF owner' = "idle" THEN "exited" ELSE host
    BY <1>5 DEF HostShutdownRest, ShutdownRest, ShutdownNotify, ShutdownJoin, ShutdownClear,
                ShutdownClose
  <2>2. HostInv'
    BY <1>d, <1>1, <2>1 DEF HostInv
  <2>3. \/ owner' = "join" /\ worker' = Notified
        \/ owner' = "joined" /\ worker = "exited" /\ worker' = "none"
        \/ owner = "joined" /\ owner' = "close" /\ worker' = worker
        \/ owner = "close" /\ owner' = "idle" /\ worker' = worker
    BY <1>5 DEF HostShutdownRest, ShutdownRest, ShutdownNotify, ShutdownJoin, ShutdownClear,
                ShutdownClose
  <2>4. DrainInv'
    BY <1>d, <1>1, <2>1, <2>3 DEF DrainInv, OwnerInv, HostInv, Notified
  <2> QED BY <1>2, <2>2, <2>4
<1> QED BY <1>3, <1>4, <1>5

\* Every step of the daemon keeps its invariant.
LEMMA DaemonInvStep == DInv /\ [DaemonNext]_dvars => DInv'
<1> SUFFICES ASSUME DInv, [DaemonNext]_dvars PROVE DInv'
  OBVIOUS
<1>i. IInv'
  <2>1. IInv /\ [Next]_vars
    BY DaemonStep DEF DInv, dvars
  <2> QED BY <2>1, NextIInv
<1> SUFFICES ThreadInv' /\ HostInv' /\ DrainInv'
  BY <1>i DEF DInv
<1>d. IInv /\ ThreadInv /\ HostInv /\ DrainInv
  BY DEF DInv
<1>1. ASSUME UNCHANGED <<vars, host, thread>> PROVE ThreadInv' /\ HostInv' /\ DrainInv'
  <2>1. UNCHANGED <<state, cur, queue, worker, stop_flag, owner, host, thread, cpc>>
    BY <1>1 DEF vars, execVars, jobVars, bridgeVars
  <2> QED BY <1>d, <2>1, CallDrains DEF ThreadInv, HostInv
<1>2. CASE UNCHANGED dvars
  BY <1>1, <1>2 DEF dvars, netVars
<1>3. CASE Host
  BY <1>3, HostServerStep, HostExecutorStep DEF Host
<1>4. CASE DaemonWorker
  <2>1. Worker /\ UNCHANGED <<host, thread, stop_flag, owner, cpc>>
    BY <1>4, WorkerLeaves DEF DaemonWorker, netVars, bridgeVars
  <2>2. DrainInv'
    BY <1>d, <2>1, WorkerDrains
  <2> QED BY <1>d, <2>1, <2>2 DEF ThreadInv, HostInv
<1>5. ASSUME NEW c \in Clients, ServerThread(c) PROVE ThreadInv' /\ HostInv' /\ DrainInv'
  BY <1>5, HandleStep, TransportStep DEF ServerThread
<1>6. ASSUME NEW c \in Clients, ServerCall(c) PROVE ThreadInv' /\ HostInv' /\ DrainInv'
  BY <1>6, CallStep DEF ServerCall, netVars
<1>7. ASSUME NEW c \in Clients, Recv(c) \/ Connect(c) \/ Disconnect(c)
      PROVE  ThreadInv' /\ HostInv' /\ DrainInv'
  BY <1>1, <1>7 DEF Recv, Connect, Disconnect
<1>8. CASE Signal
  BY <1>1, <1>8 DEF Signal, netVars
<1> QED BY <1>2, <1>3, <1>4, <1>5, <1>6, <1>7, <1>8 DEF DaemonNext

\* The invariant holds when the daemon is started.
LEMMA DaemonInvInit == DaemonInit => DInv
<1> SUFFICES ASSUME DaemonInit PROVE DInv
  OBVIOUS
<1>1. Init /\ queue = <<>> /\ owner = "idle" /\ worker = "none" /\ stop_flag = FALSE
      /\ state = [j \in Jobs |-> "none"] /\ cpc = [c \in Clients |-> "idle"]
  BY DEF DaemonInit, Init
<1>2. ThreadInv
  BY <1>1 DEF DaemonInit, ThreadInv
<1>3. HostInv
  BY <1>1, DaemonAssumption DEF DaemonInit, HostInv
<1>4. DrainInv
  BY <1>1 DEF DaemonInit, DrainInv
<1> QED BY <1>1, <1>2, <1>3, <1>4, InitIInv DEF DInv

\* The invariant of the daemon holds in every reachable state.
THEOREM DaemonInvariance == DaemonSpec => []DInv
  BY DaemonInvInit, DaemonInvStep, PTL DEF DaemonSpec

\* The order gui_server.stop(), mcp_server.stop(), executor.shutdown() keeps
\* submit() and shutdown() apart, for any number of jobs and connections.
THEOREM StopOrder == DaemonSpec => []ServersStopBeforeExecutor
<1>1. DInv => ServersStopBeforeExecutor
  <2>1. DInv /\ stop_flag => \A c \in Clients : cpc[c] = "idle" /\ thread[c] \in Stopped
    BY QuietServers DEF DInv, HostInv
  <2> QED BY <2>1 DEF ServersStopBeforeExecutor, Stopped
<1> QED BY <1>1, DaemonInvariance, PTL

\* When the daemon has ended, every job it accepted has ended.
THEOREM NothingLost == DaemonSpec => []NoJobLost
<1>1. DInv => NoJobLost
  <2> SUFFICES ASSUME DInv, host = "exited", NEW j \in Jobs
               PROVE  state[j] \in Terminal \cup {"none"}
    BY DEF NoJobLost
  <2>1. TypeOK /\ WorkerInv /\ DrainInv /\ queue = <<>> /\ worker = "none"
    BY DEF DInv, IInv, DrainInv
  <2>2. cur = NoJob /\ Len(queue) = 0
    BY <2>1 DEF WorkerInv, Busy
  <2>3. state[j] # "queued" /\ state[j] # "running"
    BY <2>1, <2>2, ConstantsAssumption DEF DrainInv, WorkerInv
  <2>4. state[j] \in States
    BY <2>1 DEF TypeOK
  <2> QED BY <2>3, <2>4 DEF States, Terminal
<1> QED BY <1>1, DaemonInvariance, PTL

=============================================================================
