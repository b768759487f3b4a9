------------------------------ MODULE AppWindow ------------------------------
(***************************************************************************)
(* The GUI's session with the daemon (src/gui/app_window.cpp): the main    *)
(* thread with its menus and per-frame work, the background threads that   *)
(* connect and program the PL, the shared client and the controller of     *)
(* the daemon process. chain_, scanner_ and capture_engine_ are never      *)
(* created in this version, so every handler takes its daemon path.        *)
(*                                                                         *)
(* The main thread's handlers are sequences of steps: todo holds those     *)
(* still to run, and a handler that calls another one puts its steps in    *)
(* front. A step that calls the daemon blocks the main thread until the    *)
(* call ends. Samples are represented by the job they belong to.           *)
(***************************************************************************)
EXTENDS GuiDaemonClient, DaemonProcessController

CONSTANTS MaxInputs,    \* bound: user inputs and refreshes
          MaxFaults,    \* bound: lost connections, daemon exits and early timeouts
          MaxJobs       \* bound: capture jobs the daemon runs

ASSUME AppAssumption == /\ Threads = {"main", "conn", "prog"}
                        /\ MaxInputs \in Nat /\ MaxJobs \in Nat /\ MaxFaults \in Nat

VARIABLES
    todo,             \* steps the main thread has still to run
    modal,            \* the modal popup that is open: "", "device", "program"
    connected_, capturing_,
    bsdl_loaded,      \* bsdl_device_index_ >= 0
    job_id,           \* daemon_capture_job_id_, 0 for ""
    cached,           \* the job cached_samples_ came from, 0 for none
    pending_connect,  \* pending_daemon_connect_
    conn,             \* daemon_connect_thread_: "none", its place, "ended"
    conn_running,     \* daemon_connect_running_
    conn_result,      \* daemon_connect_result_ is not empty
    prog,             \* program_pl_thread_
    ended,            \* "", or how the program ended
    jobs,             \* the daemon's jobs: "running", "cancelling", "done"
    faulted,          \* history: a call failed
    faults,           \* faults so far
    inputs            \* inputs taken so far

appVars == <<todo, modal, connected_, capturing_, bsdl_loaded, job_id, cached, pending_connect>>
workVars == <<conn, conn_running, conn_result, prog>>
envVars == <<ended, jobs, faulted, faults, inputs>>
avars == <<clientVars, netVars, ctrlVars, appVars, workVars, envVars>>

MainSteps == {"cancel_job", "cancelled", "stop_if_capturing", "stop_call", "stopped",
              "refresh", "refreshed", "d_check", "d_join",
              "reset", "daemon_start", "daemon_connect", "connect_now", "launch", "auto_connect", "drain",
              "bsdl_load", "bsdl_pins", "bsdl_done", "capture_start",
              "capture_started", "sample_call", "script_call",
              "view_done", "dtor_disc", "join_conn",
              "ctrl_stop", "ctrl_join", "exit"}

AppTypeOK ==
    /\ ClientTypeOK /\ CtrlTypeOK
    /\ todo \in Seq(MainSteps) /\ modal \in {"", "device", "program"}
    /\ {connected_, capturing_, bsdl_loaded, pending_connect, conn_running, conn_result, faulted}
         \subseteq BOOLEAN
    /\ job_id \in 0..MaxJobs /\ cached \in 0..MaxJobs
    /\ conn \in {"none", "begin", "up", "spawn", "detect", "ended"}
    /\ prog \in {"none", "call", "ended"}
    /\ ended \in {"", "exit", "restart", "reconnect", "unjoined"}
    /\ jobs \in Seq({"running", "cancelling", "done"}) /\ Len(jobs) <= MaxJobs
    /\ inputs \in 0..MaxInputs /\ faults \in 0..MaxFaults

AppInit ==
    /\ ClientInit /\ CtrlInit
    /\ todo = <<>> /\ modal = ""
    /\ connected_ = FALSE /\ capturing_ = FALSE /\ bsdl_loaded = FALSE
    /\ job_id = 0 /\ cached = 0 /\ pending_connect = FALSE
    /\ conn = "none" /\ conn_running = FALSE /\ conn_result = FALSE
    /\ prog = "none"
    /\ ended = "" /\ jobs = <<>> /\ faulted = FALSE /\ inputs = 0 /\ faults = 0

Live == ended = ""

-----------------------------------------------------------------------------
(***************************************************************************)
(* The main thread runs the first step of todo; Then(s) continues with s.  *)
(***************************************************************************)
At(s) == Live /\ todo # <<>> /\ Head(todo) = s
Then(s) == todo' = s \o Tail(todo)

\* A call to the daemon from the main thread, and its return.
MainCalls(m, j, next) ==
    /\ CallBegin("main", <<m, j>>) /\ Then(<<next>>)
    /\ UNCHANGED <<sock, connected, stop_flag, reader, pending, abandoned, next_id, netVars, faulted, faults>>

Returned(t) ==
    /\ call[t].pc \in {"ok", "failed"}
    /\ call' = [call EXCEPT ![t] = Idle]
    /\ faulted' = (faulted \/ call[t].pc = "failed")
    /\ UNCHANGED <<sock, connected, stop_flag, reader, pending, abandoned, next_id, netVars, faults>>

Result(t) == call[t].pc = "ok" /\ call[t].ans.ok

NoCall == UNCHANGED <<clientVars, netVars, faulted, faults>>
MainOnly == UNCHANGED <<ctrlVars, workVars, ended, jobs, inputs>>

-----------------------------------------------------------------------------
(***************************************************************************)
(* onDisconnect(), onStopCapture() and refreshFromCapture().               *)
(***************************************************************************)
onDisconnect == <<"cancel_job", "stop_if_capturing", "d_check", "reset">>

\* Mutant: the job's id is forgotten without a capture_stop.
CancelJobForgets ==
    /\ At("cancel_job") /\ prog # "call" /\ prog' = "none"
    /\ Then(<<>>) /\ NoCall /\ job_id' = 0
    /\ UNCHANGED <<modal, connected_, capturing_, bsdl_loaded, cached, pending_connect,
                   ctrlVars, conn, conn_running, conn_result, ended, jobs, inputs>>

\* The program thread is joined first; a job the link can reach is cancelled.
CancelJob ==
    /\ At("cancel_job") /\ prog # "call" /\ prog' = "none"
    /\ IF job_id # 0 /\ connected THEN MainCalls("capture_stop", job_id, "cancelled")
                                  ELSE Then(<<>>) /\ NoCall
    /\ UNCHANGED <<modal, connected_, capturing_, bsdl_loaded, job_id, cached, pending_connect,
                   ctrlVars, conn, conn_running, conn_result, ended, jobs, inputs>>

Cancelled ==
    /\ At("cancelled") /\ Returned("main")
    /\ job_id' = 0 /\ Then(<<>>)
    /\ UNCHANGED <<modal, connected_, capturing_, bsdl_loaded, cached, pending_connect>>
    /\ MainOnly

StopIfCapturing ==
    /\ At("stop_if_capturing")
    /\ Then(IF capturing_ THEN <<"stop_call">> ELSE <<>>)
    /\ NoCall
    /\ UNCHANGED <<modal, connected_, capturing_, bsdl_loaded, job_id, cached, pending_connect>>
    /\ MainOnly

\* onStopCapture(): without a job id the direct path returns at once, for
\* there is no capture engine.
StopCall ==
    /\ At("stop_call")
    /\ IF job_id # 0 THEN MainCalls("capture_stop", job_id, "stopped")
                     ELSE Then(<<>>) /\ NoCall
    /\ UNCHANGED <<modal, connected_, capturing_, bsdl_loaded, job_id, cached, pending_connect>>
    /\ MainOnly

Stopped ==
    /\ At("stopped") /\ Returned("main")
    /\ capturing_' = FALSE /\ Then(<<"refresh">>)
    /\ UNCHANGED <<modal, connected_, bsdl_loaded, job_id, cached, pending_connect>>
    /\ MainOnly

Refresh ==
    /\ At("refresh")
    /\ IF job_id # 0 THEN MainCalls("capture_get_samples", job_id, "refreshed")
                     ELSE Then(<<>>) /\ NoCall
    /\ UNCHANGED <<modal, connected_, capturing_, bsdl_loaded, job_id, cached, pending_connect>>
    /\ MainOnly

\* A terminal job ends the capture and keeps its id; a failed poll ends the
\* capture and forgets it. A running job's partial samples are shown.
Refreshed ==
    /\ At("refreshed") /\ Returned("main") /\ Then(<<>>)
    /\ LET done == Result("main") /\ call["main"].ans.terminal IN
         /\ cached' \in {cached} \cup
                (IF Result("main") /\ (done \/ capturing_) THEN {job_id} ELSE {})
         /\ capturing_' = (capturing_ /\ Result("main") /\ ~done)
         /\ job_id' = IF ~Result("main") /\ capturing_ THEN 0 ELSE job_id
    /\ UNCHANGED <<modal, connected_, bsdl_loaded, pending_connect>>
    /\ MainOnly

ResetSession ==
    /\ At("reset") /\ Then(<<>>)
    /\ connected_' = FALSE /\ bsdl_loaded' = FALSE /\ cached' = 0
    /\ NoCall
    /\ UNCHANGED <<modal, capturing_, job_id, pending_connect>>
    /\ MainOnly

\* GuiDaemonClient::disconnect() on the main thread.
ClientDisconnect ==
    /\ \/ At("d_check") /\ DisconnectNothing /\ Then(<<>>) /\ UNCHANGED <<clientVars, netVars>>
       \/ At("d_check") /\ ~DisconnectNothing /\ Then(<<"d_join">>) /\ DisconnectClose
       \/ At("d_join") /\ Then(<<>>) /\ DisconnectJoin
    /\ UNCHANGED <<modal, connected_, capturing_, bsdl_loaded, job_id, cached, pending_connect,
                   faulted, faults>>
    /\ MainOnly

-----------------------------------------------------------------------------
(***************************************************************************)
(* onConnect(), onDaemonStart(), onDaemonConnect() and drainDaemonLog().   *)
(***************************************************************************)
onConnect == onDisconnect \o <<"daemon_start", "connect_now">>

\* onDaemonStart() when the daemon is off or in error. The executable may be
\* missing or start() may fail. start() over joinable readers aborts.
DaemonStart ==
    /\ At("daemon_start") /\ Then(<<>>)
    /\ IF ~MayStart THEN UNCHANGED <<ctrlVars, ended>>
       ELSE \/ StartFails /\ UNCHANGED ended
            \/ StartSpawns /\ ended' = IF StartAborts THEN "restart" ELSE ended
    /\ NoCall
    /\ UNCHANGED <<modal, connected_, capturing_, bsdl_loaded, job_id, cached, pending_connect,
                   workVars, jobs, inputs>>

Reachable == status = "running" /\ gui_port

ConnectNow ==
    /\ At("connect_now")
    /\ Then(IF Reachable THEN <<"daemon_connect">> ELSE <<>>)
    /\ pending_connect' = (pending_connect \/ ~Reachable)
    /\ NoCall
    /\ UNCHANGED <<modal, connected_, capturing_, bsdl_loaded, job_id, cached>>
    /\ MainOnly

DaemonConnect ==
    /\ At("daemon_connect")
    /\ Then(IF ~Reachable \/ conn_running THEN <<>>
            ELSE IF connected THEN <<"d_check", "launch">> ELSE <<"launch">>)
    /\ NoCall
    /\ UNCHANGED <<modal, connected_, capturing_, bsdl_loaded, job_id, cached, pending_connect>>
    /\ MainOnly

Launch ==
    /\ At("launch") /\ conn \in {"none", "ended"} /\ Then(<<>>)
    /\ conn_running' = TRUE /\ conn' = "begin"
    /\ NoCall
    /\ UNCHANGED <<ctrlVars, modal, connected_, capturing_, bsdl_loaded, job_id, cached,
                   pending_connect, conn_result, prog, ended, jobs, inputs>>

AutoConnect ==
    /\ At("auto_connect")
    /\ LET go == pending_connect /\ Reachable /\ ~conn_running IN
         /\ Then(IF go THEN <<"daemon_connect">> ELSE <<>>)
         /\ pending_connect' = (pending_connect /\ ~go /\ status # "error")
    /\ NoCall
    /\ UNCHANGED <<modal, connected_, capturing_, bsdl_loaded, job_id, cached>>
    /\ MainOnly

DrainResult ==
    /\ At("drain") /\ Then(<<>>)
    /\ IF conn_running \/ ~conn_result
       THEN UNCHANGED <<conn, conn_result, connected_>>
       ELSE /\ conn_result' = FALSE /\ conn' = "none"
            /\ connected_' = (connected_ \/ connected)
    /\ NoCall
    /\ UNCHANGED <<ctrlVars, modal, capturing_, bsdl_loaded, job_id, cached, pending_connect,
                   conn_running, prog, ended, jobs, inputs>>

\* The rest of a frame of run(): drainDaemonLog() and, 20 times a second,
\* refreshFromCapture(). Parts that have nothing to do are passed over.
Frame ==
    /\ Live /\ todo = <<>>
    /\ \E refreshes \in {capturing_ /\ inputs < MaxInputs, FALSE} :
         /\ todo' = (IF pending_connect THEN <<"auto_connect">> ELSE <<>>)
                      \o (IF conn_result /\ ~conn_running THEN <<"drain">> ELSE <<>>)
                      \o (IF refreshes THEN <<"refresh">> ELSE <<>>)
         /\ inputs' = IF refreshes THEN inputs + 1 ELSE inputs
    /\ NoCall
    /\ UNCHANGED <<ctrlVars, modal, connected_, capturing_, bsdl_loaded, job_id, cached,
                   pending_connect, workVars, ended, jobs>>

-----------------------------------------------------------------------------
(***************************************************************************)
(* What the user does: menu items, buttons and the device dialog, with the *)
(* conditions that enable them. A modal popup blocks everything else.      *)
(***************************************************************************)
Input(steps) ==
    /\ Live /\ todo = <<>> /\ inputs < MaxInputs
    /\ inputs' = inputs + 1 /\ todo' = steps
    /\ NoCall
    /\ UNCHANGED <<ctrlVars, conn, conn_running, conn_result, ended, jobs>>

View == UNCHANGED <<connected_, capturing_, bsdl_loaded, job_id, cached, pending_connect>>

can_capture == connected /\ bsdl_loaded /\ ~capturing_

\* The dialog opens only while connected_ is false; it may become true
\* before the dialog is accepted.
OpenDialog ==
    /\ Live /\ todo = <<>> /\ ~connected_ /\ modal = "" /\ modal' = "device"
    /\ NoCall /\ View /\ UNCHANGED <<todo, ctrlVars, workVars, ended, jobs, inputs>>
AcceptDialog == modal = "device" /\ modal' = "" /\ Input(onConnect) /\ View /\ UNCHANGED prog
MenuDisconnect ==
    connected_ /\ prog # "call" /\ modal = "" /\ Input(onDisconnect) /\ View /\ UNCHANGED <<modal, prog>>
MenuStop == capturing_ /\ modal = "" /\ Input(<<"stop_call">>) /\ View /\ UNCHANGED <<modal, prog>>

\* onOpenBsdl(): two calls, load_bsdl and list_pins.
OpenBsdl ==
    connected_ /\ connected /\ modal = "" /\ Input(<<"bsdl_load">>) /\ View /\ UNCHANGED <<modal, prog>>

\* onStartCapture() and onSingleCapture() differ in the trigger mode only.
MenuRun == can_capture /\ modal = "" /\ Input(<<"capture_start">>) /\ View /\ UNCHANGED <<modal, prog>>

onClearWaveforms ==
    /\ can_capture /\ modal = "" /\ Input(<<>>)
    /\ job_id' = 0 /\ cached' = 0
    /\ UNCHANGED <<modal, connected_, capturing_, bsdl_loaded, pending_connect, prog>>

\* The pin readback and the script runner: one call whose answer is shown.
Readback == can_capture /\ modal = "" /\ Input(<<"sample_call">>) /\ View /\ UNCHANGED <<modal, prog>>
RunScript == can_capture /\ modal = "" /\ Input(<<"script_call">>) /\ View /\ UNCHANGED <<modal, prog>>

\* onProgramPl(): a finished thread is joined; without a link nothing runs.
onProgramPl ==
    /\ connected_ /\ ~capturing_ /\ prog # "call" /\ modal = ""
    /\ modal' = "program" /\ prog' = IF connected THEN "call" ELSE "none"
    /\ inputs < MaxInputs /\ Live /\ todo = <<>> /\ inputs' = inputs + 1
    /\ IF connected THEN CallBegin("prog", <<"program_pl", 0>>) ELSE UNCHANGED call
    /\ View
    /\ UNCHANGED <<todo, sock, connected, stop_flag, reader, pending, abandoned, next_id, netVars, faulted, faults,
                   ctrlVars, conn, conn_running, conn_result, ended, jobs>>

\* drawProgramPlModal(): Close is shown once the thread is done.
CloseProgramModal ==
    modal = "program" /\ prog # "call" /\ modal' = "" /\ prog' = "none" /\ Input(<<>>) /\ View

\* The window is closed: ~AppWindow(), then the members' destructors.
CloseWindow ==
    /\ Input(onDisconnect \o <<"dtor_disc", "join_conn", "d_check", "ctrl_stop", "exit">>)
    /\ View /\ UNCHANGED <<modal, prog>>

\* The calls these inputs make, and their ends.
CallLoad == /\ At("bsdl_load") /\ MainCalls("load_bsdl", 0, "bsdl_pins")
            /\ UNCHANGED modal /\ View /\ MainOnly
LoadDone ==
    /\ At("bsdl_pins") /\ call["main"].pc \in {"ok", "failed"}
    /\ IF Result("main")
       THEN MainCalls("list_pins", 0, "bsdl_done")
       ELSE Returned("main") /\ Then(<<>>)
    /\ UNCHANGED modal /\ View /\ MainOnly
PinsDone ==
    /\ At("bsdl_done") /\ Returned("main") /\ Then(<<>>)
    /\ bsdl_loaded' = (bsdl_loaded \/ Result("main"))
    /\ UNCHANGED <<modal, connected_, capturing_, job_id, cached, pending_connect>> /\ MainOnly

\* The handlers test the link again before they call.
CallStart ==
    /\ At("capture_start")
    /\ IF connected THEN MainCalls("capture_start", 0, "capture_started") ELSE Then(<<>>) /\ NoCall
    /\ UNCHANGED modal /\ View /\ MainOnly
CaptureStarted ==
    /\ At("capture_started") /\ Returned("main") /\ Then(<<>>)
    /\ IF Result("main")
       THEN job_id' = call["main"].ans.job /\ capturing_' = TRUE /\ cached' = 0
       ELSE UNCHANGED <<job_id, capturing_, cached>>
    /\ UNCHANGED <<modal, connected_, bsdl_loaded, pending_connect>> /\ MainOnly

refreshPinReadback ==
    /\ At("sample_call")
    /\ IF connected THEN MainCalls("sample_bsr", 0, "view_done") ELSE Then(<<>>) /\ NoCall
    /\ UNCHANGED modal /\ View /\ MainOnly
CallScript == /\ At("script_call") /\ MainCalls("run_script", 0, "view_done")
              /\ UNCHANGED modal /\ View /\ MainOnly
ViewDone == At("view_done") /\ Returned("main") /\ Then(<<>>) /\ UNCHANGED modal /\ View /\ MainOnly

User == \/ OpenDialog \/ AcceptDialog \/ MenuDisconnect \/ MenuStop \/ OpenBsdl \/ MenuRun
        \/ onClearWaveforms \/ Readback \/ RunScript \/ onProgramPl \/ CloseProgramModal \/ CloseWindow

-----------------------------------------------------------------------------
(***************************************************************************)
(* The end of ~AppWindow() and of the members it owns.                     *)
(***************************************************************************)
DtorDisconnect ==
    /\ At("dtor_disc") /\ Then(IF connected THEN <<"d_check">> ELSE <<>>)
    /\ NoCall /\ UNCHANGED modal /\ View /\ MainOnly

JoinConnect ==
    /\ At("join_conn") /\ conn \in {"none", "ended"} /\ conn' = "none"
    /\ Then(<<>>)
    /\ NoCall /\ UNCHANGED <<modal, ctrlVars, conn_running, conn_result, prog, ended, jobs, inputs>>
    /\ View

\* ~DaemonProcessController(): stop(), then the destructors of the threads,
\* which abort on one that is still joinable.
ControllerStop ==
    /\ \/ /\ At("ctrl_stop") /\ MayStop /\ StopBegin /\ Then(<<"ctrl_join">>) /\ UNCHANGED ended
       \/ /\ At("ctrl_stop") /\ ~MayStop /\ Then(<<>>) /\ UNCHANGED ctrlVars
          /\ ended' = IF out_reader # "none" THEN "unjoined" ELSE ended
       \/ /\ At("ctrl_join") /\ StopJoin /\ Then(<<>>) /\ UNCHANGED ended
       \/ /\ At("exit") /\ Then(<<>>) /\ ended' = "exit" /\ UNCHANGED ctrlVars
    /\ NoCall /\ UNCHANGED <<modal, workVars, jobs, inputs>> /\ View

Main == \/ CancelJob \/ Cancelled \/ StopIfCapturing \/ StopCall \/ Stopped
        \/ Refresh \/ Refreshed \/ ResetSession \/ ClientDisconnect \/ DaemonStart \/ ConnectNow
        \/ DaemonConnect \/ Launch \/ AutoConnect \/ DrainResult \/ CallLoad
        \/ LoadDone \/ PinsDone \/ CallStart \/ CaptureStarted \/ refreshPinReadback \/ CallScript \/ ViewDone
        \/ DtorDisconnect \/ JoinConnect \/ ControllerStop

-----------------------------------------------------------------------------
(***************************************************************************)
(* The background threads.                                                 *)
(***************************************************************************)
ConnEnds == conn' = "ended" /\ conn_result' = TRUE /\ conn_running' = FALSE

\* The connect thread: onDaemonConnect() has disconnected the client before.
ConnThread ==
    /\ Live
    /\ \/ /\ conn = "begin" /\ proc = "ready"
          /\ ConnectSock /\ conn' = "up"
          /\ UNCHANGED <<conn_running, conn_result, ended, faulted, faults>>
       \/ /\ conn = "begin"
          /\ ConnEnds /\ NoCall /\ UNCHANGED ended
       \/ /\ conn = "up"
          /\ ConnectUp /\ conn' = "spawn"
          /\ UNCHANGED <<conn_running, conn_result, ended, faulted, faults>>
       \/ /\ conn = "spawn" /\ ~SpawnAborts
          /\ ConnectSpawn(<<"detect_devices", 0>>) /\ conn' = "detect"
          /\ UNCHANGED <<conn_running, conn_result, ended, faulted, faults>>
       \/ /\ conn = "spawn" /\ SpawnAborts
          /\ ended' = "reconnect" /\ NoCall /\ UNCHANGED <<conn, conn_running, conn_result>>
       \/ /\ conn = "detect"
          /\ Returned("conn") /\ ConnEnds /\ UNCHANGED ended
    /\ UNCHANGED <<ctrlVars, appVars, prog, jobs, inputs>>

ProgramThread ==
    /\ Live /\ prog = "call" /\ Returned("prog") /\ prog' = "ended"
    /\ UNCHANGED <<ctrlVars, appVars, conn, conn_running, conn_result, ended, jobs, inputs>>

\* A wait may time out early, or when no answer can come any more.
Fault == faults < MaxFaults /\ faults' = faults + 1
Hopeless == link # "up" \/ reader # "recv"

ClientThreads ==
    /\ Live
    /\ \/ Reader /\ UNCHANGED faults
       \/ \E t \in Threads : (CallCheck(t) \/ CallRegister(t) \/ CallThrows(t) \/ CallSend(t)) /\ UNCHANGED faults
       \/ \E t \in Threads : CallTimeout(t) /\ IF Hopeless THEN UNCHANGED faults ELSE Fault
    /\ UNCHANGED <<ctrlVars, appVars, workVars, ended, jobs, faulted, inputs>>

ControllerThread ==
    Live /\ Controller /\ UNCHANGED <<clientVars, netVars, appVars, workVars, envVars>>

-----------------------------------------------------------------------------
(***************************************************************************)
(* The daemon, as the GUI sees it: one connection, requests in order.      *)
(***************************************************************************)
Answer(m, ok, job, terminal) ==
    [id |-> m.id, req |-> m.req, ok |-> ok, job |-> job, terminal |-> terminal]

Serve ==
    /\ Live /\ link = "up" /\ proc = "ready" /\ to_server # <<>>
    /\ to_server' = Tail(to_server)
    /\ LET m == Head(to_server)
           j == m.req[2] IN
         CASE m.req[1] = "capture_start" ->
                \/ /\ Len(jobs) < MaxJobs /\ jobs' = Append(jobs, "running")
                   /\ to_client' = Append(to_client, Answer(m, TRUE, Len(jobs) + 1, FALSE))
                \/ to_client' = Append(to_client, Answer(m, FALSE, 0, FALSE)) /\ UNCHANGED jobs
           [] m.req[1] = "capture_stop" ->
                /\ jobs' = [jobs EXCEPT ![j] = IF @ = "running" THEN "cancelling" ELSE @]
                /\ to_client' = Append(to_client, Answer(m, TRUE, j, FALSE))
           [] m.req[1] = "capture_get_samples" ->
                to_client' = Append(to_client, Answer(m, TRUE, j, jobs[j] = "done")) /\ UNCHANGED jobs
           [] OTHER ->
                /\ \E ok \in BOOLEAN : to_client' = Append(to_client, Answer(m, ok, 0, FALSE))
                /\ UNCHANGED jobs
    /\ UNCHANGED <<clientVars, link, ctrlVars, appVars, workVars, ended, faulted, faults, inputs>>

JobEnds ==
    /\ Live
    /\ \E j \in DOMAIN jobs : jobs[j] # "done" /\ jobs' = [jobs EXCEPT ![j] = "done"]
    /\ UNCHANGED <<clientVars, netVars, ctrlVars, appVars, workVars, ended, faulted, faults, inputs>>

\* The process changes; with it go its end of the connection and its jobs.
DaemonProcess ==
    /\ Live
    /\ \/ ChildBoots /\ UNCHANGED <<netVars, jobs, faults>>
       \/ /\ ChildEnds
          /\ IF At("ctrl_join") THEN UNCHANGED faults ELSE Fault
          /\ link' = (IF link = "up" THEN "closed" ELSE link) /\ to_server' = <<>>
          /\ jobs' = [j \in DOMAIN jobs |-> "done"] /\ UNCHANGED to_client
       \/ PeerCloses /\ Fault /\ UNCHANGED <<ctrlVars, jobs>>
    /\ UNCHANGED <<clientVars, appVars, workVars, ended, faulted, inputs>>

AppNext == \/ Main \/ Frame \/ User \/ ConnThread \/ ProgramThread \/ ClientThreads
           \/ ControllerThread \/ Serve \/ JobEnds \/ DaemonProcess

AppSpec == AppInit /\ [][AppNext]_avars

\* Threads that are ready run, waits time out, and a stopped child dies.
AppFairness ==
    /\ WF_avars(Main) /\ WF_avars(ConnThread) /\ WF_avars(ProgramThread)
    /\ WF_avars(ClientThreads) /\ WF_avars(Serve)
    /\ WF_avars(ControllerThread)
    /\ WF_avars(At("ctrl_join") /\ DaemonProcess /\ proc' = "dead")

AppFairSpec == AppSpec /\ AppFairness

-----------------------------------------------------------------------------
(***************************************************************************)
(* Properties.                                                             *)
(***************************************************************************)

\* A capture job that runs in the daemon is known to the GUI, which can stop
\* it, as long as no call to the daemon has failed.
NoOrphanJob ==
    /\ AppTypeOK
    /\ Live /\ ~faulted => \A j \in DOMAIN jobs :
           jobs[j] = "running" => job_id = j \/ (todo # <<>> /\ Head(todo) = "capture_started")

\* Whatever the daemon and the connection do, the main thread comes back to
\* its event loop from every handler; or the program ends, as it does when the
\* window is closed: no join waits for ever.
MainReturns == []<>(todo = <<>> \/ ~Live)
=============================================================================
