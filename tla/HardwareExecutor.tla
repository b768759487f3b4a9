-------------------------- MODULE HardwareExecutor --------------------------
(***************************************************************************)
(* HardwareExecutor (src/hardware/hardware_executor.cpp): one worker       *)
(* thread takes tasks from a FIFO queue and runs them on the JTAG adapter. *)
(* HardwareJob (src/hardware/hardware_job.cpp) holds what callers can see  *)
(* of a job, and ExecutorBridge with its JobTable                          *)
(* (src/mcp/executor_bridge.cpp, src/mcp/job_table.cpp) is how the server  *)
(* threads submit, wait for, poll and cancel jobs.                         *)
(*                                                                         *)
(* Actors: the worker thread, the client threads (each runs one bridge     *)
(* call at a time), and the owner thread that calls start and shutdown.    *)
(* A step is a stretch of code between two points another thread can       *)
(* observe: a critical section, an atomic load or store, one setter of the *)
(* job. A task body is one step that returns or throws; every task of the  *)
(* repository is bounded (a capture by its depth, an ILA capture by its    *)
(* timeout), so the worker's fairness includes it.                         *)
(***************************************************************************)
EXTENDS Naturals, Sequences

CONSTANTS Jobs,       \* identities of the jobs that may be submitted
          Clients,    \* threads that call the bridge
          NoJob,      \* no job
          IdleClose,  \* is setIdleCloseTimeout() given a positive value?
          MaxStarts   \* bound: how often the owner starts the executor

ASSUME ConstantsAssumption ==
          /\ NoJob \notin Jobs
          /\ IdleClose \in BOOLEAN
          /\ MaxStarts \in Nat

VARIABLES
    \* HardwareExecutor
    running,            \* running_
    stop_flag,          \* stop_flag_
    queue,              \* queue_
    worker,             \* where the worker thread is
    cur,                \* the job the worker took off the queue
    hw_open,            \* context_->isOpen()
    owner,              \* where the owner thread is inside shutdown()
    starts,             \* how often start()/startWorker() succeeded
    \* HardwareJob, per job
    state,              \* state_, "none" before the job is created
    result,             \* result_: "null" or "value"
    error,              \* error_:  "" or "message"
    cancel_requested,   \* cancel_requested_
    \* ExecutorBridge
    job_table,          \* the jobs in job_table_
    cpc,                \* where each client thread is in submitSync/submitAsync
    cjob,               \* the job of that call
    csync,              \* is that call a submitSync?
    reply,              \* what the caller of submitSync/submitAsync was told
    \* auxiliary
    cancelled_in_time   \* jobs cancelled before the worker's last look at the flag

execVars == <<running, stop_flag, queue, worker, cur, hw_open, owner, starts>>
jobVars == <<state, result, error, cancel_requested, cancelled_in_time>>
bridgeVars == <<job_table, cpc, cjob, csync, reply>>
vars == <<execVars, jobVars, bridgeVars>>

States == {"none", "queued", "running", "complete", "failed", "cancelled"}
Terminal == {"complete", "failed", "cancelled"}
WorkerPcs == {"none", "loop", "sleep", "check", "start", "open", "task",
              "returned", "commit", "finish", "fail", "exited"}
OwnerPcs == {"idle", "notify", "join", "joined", "close"}
ClientPcs == {"idle", "enqueue", "notify", "wait"}
Replies == {"none", "rejected", "job_id", "result", "empty", "error", "cancelled"}

\* The worker has a job in its hands.
Busy == {"check", "start", "open", "task", "returned", "commit", "finish", "fail"}
\* The job's task has been started.
Executing == {"open", "task", "returned", "commit", "finish", "fail"}

Init ==
    /\ running = FALSE /\ stop_flag = FALSE
    /\ queue = <<>>
    /\ worker = "none" /\ cur = NoJob
    /\ hw_open = FALSE
    /\ owner = "idle" /\ starts = 0
    /\ state = [j \in Jobs |-> "none"]
    /\ result = [j \in Jobs |-> "null"]
    /\ error = [j \in Jobs |-> ""]
    /\ cancel_requested = [j \in Jobs |-> FALSE]
    /\ job_table = {}
    /\ cpc = [c \in Clients |-> "idle"]
    /\ cjob = [c \in Clients |-> NoJob]
    /\ csync = [c \in Clients |-> FALSE]
    /\ reply = [j \in Jobs |-> "none"]
    /\ cancelled_in_time = {}

-----------------------------------------------------------------------------
(***************************************************************************)
(* The owner thread: start, startWorker and shutdown.                      *)
(***************************************************************************)

\* std::condition_variable notify: a sleeping worker re-evaluates its predicate.
Notified == IF worker = "sleep" THEN "loop" ELSE worker

\* Both start functions return at once while running_ is set.
Launch == /\ ~running /\ owner = "idle"
          /\ starts < MaxStarts
          /\ starts' = starts + 1
          /\ stop_flag' = FALSE
          /\ worker' = "loop"
          /\ running' = TRUE
          /\ UNCHANGED <<queue, cur, owner, jobVars, bridgeVars>>

\* start(): the device is opened first; when that fails nothing is launched
\* and the error is returned, which changes no state.
Start == Launch /\ hw_open' = TRUE

\* startWorker(): the device is opened by the first task.
StartWorker == Launch /\ UNCHANGED hw_open

\* Mutant of ShutdownStop: the flag is not set.
ShutdownStop_NoFlag ==
    /\ running /\ owner = "idle"
    /\ owner' = "notify"
    /\ UNCHANGED <<running, stop_flag, queue, worker, cur, hw_open, starts, jobVars, bridgeVars>>

\* shutdown() sets the flag under queue_mu_, ...
ShutdownStop ==
    /\ running /\ owner = "idle"
    /\ stop_flag' = TRUE
    /\ owner' = "notify"
    /\ UNCHANGED <<running, queue, worker, cur, hw_open, starts, jobVars, bridgeVars>>

\* Mutant of ShutdownNotify: the device is closed before the join.
ShutdownNotify_ClosesEarly ==
    /\ owner = "notify"
    /\ worker' = Notified
    /\ hw_open' = FALSE
    /\ owner' = "join"
    /\ UNCHANGED <<running, stop_flag, queue, cur, starts, jobVars, bridgeVars>>

\* Mutant of ShutdownNotify: the notification is forgotten.
ShutdownNotify_Silent ==
    /\ owner = "notify"
    /\ owner' = "join"
    /\ UNCHANGED <<running, stop_flag, queue, worker, cur, hw_open, starts, jobVars, bridgeVars>>

\* ... notifies the worker, ...
ShutdownNotify ==
    /\ owner = "notify"
    /\ worker' = Notified
    /\ owner' = "join"
    /\ UNCHANGED <<running, stop_flag, queue, cur, hw_open, starts, jobVars, bridgeVars>>

\* ... joins it, ...
ShutdownJoin ==
    /\ owner = "join"
    /\ worker = "exited"
    /\ worker' = "none"
    /\ owner' = "joined"
    /\ UNCHANGED <<running, stop_flag, queue, cur, hw_open, starts, jobVars, bridgeVars>>

\* ... clears running_ only then, ...
ShutdownClear ==
    /\ owner = "joined"
    /\ running' = FALSE
    /\ owner' = "close"
    /\ UNCHANGED <<stop_flag, queue, worker, cur, hw_open, starts, jobVars, bridgeVars>>

\* ... and closes the device.
ShutdownClose ==
    /\ owner = "close"
    /\ hw_open' = FALSE
    /\ owner' = "idle"
    /\ UNCHANGED <<running, stop_flag, queue, worker, cur, starts, jobVars, bridgeVars>>

ShutdownRest == ShutdownNotify \/ ShutdownJoin \/ ShutdownClear \/ ShutdownClose

-----------------------------------------------------------------------------
(***************************************************************************)
(* The worker thread.                                                      *)
(***************************************************************************)

\* Mutant of WorkerExit: the worker leaves without draining the queue.
WorkerExit_Undrained ==
    /\ worker = "loop"
    /\ stop_flag
    /\ worker' = "exited"
    /\ UNCHANGED <<running, stop_flag, queue, cur, hw_open, owner, starts, jobVars, bridgeVars>>

\* The critical section at the top of workerLoop(), with the predicate of the
\* condition variable evaluated under queue_mu_.
WorkerExit ==
    /\ worker = "loop"
    /\ stop_flag /\ queue = <<>>
    /\ worker' = "exited"
    /\ UNCHANGED <<running, stop_flag, queue, cur, hw_open, owner, starts, jobVars, bridgeVars>>

WorkerSleep ==
    /\ worker = "loop"
    /\ ~stop_flag /\ queue = <<>>
    /\ worker' = "sleep"
    /\ UNCHANGED <<running, stop_flag, queue, cur, hw_open, owner, starts, jobVars, bridgeVars>>

\* Mutant of WorkerPop: the youngest job is taken first.
WorkerPop_Lifo ==
    /\ worker = "loop"
    /\ queue # <<>>
    /\ cur' = queue[Len(queue)]
    /\ queue' = SubSeq(queue, 1, Len(queue) - 1)
    /\ worker' = "check"
    /\ UNCHANGED <<running, stop_flag, hw_open, owner, starts, jobVars, bridgeVars>>

WorkerPop ==
    /\ worker = "loop"
    /\ queue # <<>>
    /\ cur' = Head(queue)
    /\ queue' = Tail(queue)
    /\ worker' = "check"
    /\ UNCHANGED <<running, stop_flag, hw_open, owner, starts, jobVars, bridgeVars>>

\* wait_for() runs out. With nothing to do the device is released for other
\* processes; otherwise the loop goes on as after a notification.
WorkerIdleTimeout ==
    /\ IdleClose
    /\ worker = "sleep"
    /\ hw_open' = (hw_open /\ ~(queue = <<>> /\ ~stop_flag))
    /\ worker' = "loop"
    /\ UNCHANGED <<running, stop_flag, queue, cur, owner, starts, jobVars, bridgeVars>>

\* A job cancelled before its turn is skipped.
WorkerSkip ==
    /\ worker = "check"
    /\ cancel_requested[cur]
    /\ state' = [state EXCEPT ![cur] = "cancelled"]
    /\ worker' = "loop" /\ cur' = NoJob
    /\ UNCHANGED <<running, stop_flag, queue, hw_open, owner, starts, result, error,
                   cancel_requested, cancelled_in_time, bridgeVars>>

WorkerProceed ==
    /\ worker = "check"
    /\ ~cancel_requested[cur]
    /\ worker' = "start"
    /\ UNCHANGED <<running, stop_flag, queue, cur, hw_open, owner, starts, jobVars, bridgeVars>>

WorkerSetRunning ==
    /\ worker = "start"
    /\ state' = [state EXCEPT ![cur] = "running"]
    /\ worker' = "open"
    /\ UNCHANGED <<running, stop_flag, queue, cur, hw_open, owner, starts, result, error,
                   cancel_requested, cancelled_in_time, bridgeVars>>

\* The device is opened when it is not open yet.
WorkerOpen ==
    /\ worker = "open"
    /\ hw_open' = TRUE
    /\ worker' = "task"
    /\ UNCHANGED <<running, stop_flag, queue, cur, owner, starts, jobVars, bridgeVars>>

\* The handler of an exception: the error is stored first, then the state.
WorkerSetError ==
    /\ error' = [error EXCEPT ![cur] = "message"]
    /\ worker' = "fail"
    /\ UNCHANGED <<running, stop_flag, queue, cur, hw_open, owner, starts, state, result,
                   cancel_requested, cancelled_in_time, bridgeVars>>

WorkerOpenFails == worker = "open" /\ ~hw_open /\ WorkerSetError

TaskThrows == worker = "task" /\ WorkerSetError

TaskReturns ==
    /\ worker = "task"
    /\ worker' = "returned"
    /\ UNCHANGED <<running, stop_flag, queue, cur, hw_open, owner, starts, jobVars, bridgeVars>>

\* The second look at the cancel flag: the result of a cancelled job is dropped.
WorkerDiscard ==
    /\ worker = "returned"
    /\ cancel_requested[cur]
    /\ state' = [state EXCEPT ![cur] = "cancelled"]
    /\ worker' = "loop" /\ cur' = NoJob
    /\ UNCHANGED <<running, stop_flag, queue, hw_open, owner, starts, result, error,
                   cancel_requested, cancelled_in_time, bridgeVars>>

\* Mutant of WorkerKeep: the flag is not looked at a second time.
WorkerKeep_Always ==
    /\ worker = "returned"
    /\ worker' = "commit"
    /\ UNCHANGED <<running, stop_flag, queue, cur, hw_open, owner, starts, jobVars, bridgeVars>>

WorkerKeep ==
    /\ worker = "returned"
    /\ ~cancel_requested[cur]
    /\ worker' = "commit"
    /\ UNCHANGED <<running, stop_flag, queue, cur, hw_open, owner, starts, jobVars, bridgeVars>>

\* Mutant of WorkerSetResult: the state is set before the result.
WorkerSetResult_StateFirst ==
    /\ worker = "commit"
    /\ state' = [state EXCEPT ![cur] = "complete"]
    /\ worker' = "finish"
    /\ UNCHANGED <<running, stop_flag, queue, cur, hw_open, owner, starts, result, error,
                   cancel_requested, cancelled_in_time, bridgeVars>>

WorkerSetResult ==
    /\ worker = "commit"
    /\ result' = [result EXCEPT ![cur] = "value"]
    /\ worker' = "finish"
    /\ UNCHANGED <<running, stop_flag, queue, cur, hw_open, owner, starts, state, error,
                   cancel_requested, cancelled_in_time, bridgeVars>>

WorkerSetComplete ==
    /\ worker = "finish"
    /\ state' = [state EXCEPT ![cur] = "complete"]
    /\ worker' = "loop" /\ cur' = NoJob
    /\ UNCHANGED <<running, stop_flag, queue, hw_open, owner, starts, result, error,
                   cancel_requested, cancelled_in_time, bridgeVars>>

\* Mutant of WorkerSetFailed: the handler leaves the state alone.
WorkerSetFailed_NoState ==
    /\ worker = "fail"
    /\ worker' = "loop" /\ cur' = NoJob
    /\ UNCHANGED <<running, stop_flag, queue, hw_open, owner, starts, jobVars, bridgeVars>>

WorkerSetFailed ==
    /\ worker = "fail"
    /\ state' = [state EXCEPT ![cur] = "failed"]
    /\ worker' = "loop" /\ cur' = NoJob
    /\ UNCHANGED <<running, stop_flag, queue, hw_open, owner, starts, result, error,
                   cancel_requested, cancelled_in_time, bridgeVars>>

Worker == \/ WorkerExit \/ WorkerSleep \/ WorkerPop \/ WorkerIdleTimeout
          \/ WorkerSkip \/ WorkerProceed \/ WorkerSetRunning
          \/ WorkerOpen \/ WorkerOpenFails
          \/ TaskReturns \/ TaskThrows
          \/ WorkerDiscard \/ WorkerKeep \/ WorkerSetResult
          \/ WorkerSetComplete \/ WorkerSetFailed

-----------------------------------------------------------------------------
(***************************************************************************)
(* The client threads: submitSync and submitAsync, which share submit(),   *)
(* and cancelJob. pollJob only reads Snapshot(j).                          *)
(***************************************************************************)

\* HardwareJob::snapshot(), taken under the job's mutex.
Snapshot(j) == [state |-> state[j], result |-> result[j], error |-> error[j]]

Fresh(j) == /\ state[j] = "none"
            /\ reply[j] = "none"
            /\ \A c \in Clients : cjob[c] # j

\* submit() reads running_ once and takes its locks later.
SubmitCheck(c, j, sync) ==
    /\ cpc[c] = "idle"
    /\ Fresh(j)
    /\ running
    /\ cpc' = [cpc EXCEPT ![c] = "enqueue"]
    /\ cjob' = [cjob EXCEPT ![c] = j]
    /\ csync' = [csync EXCEPT ![c] = sync]
    /\ UNCHANGED <<execVars, jobVars, job_table, reply>>

SubmitReject(c, j) ==
    /\ cpc[c] = "idle"
    /\ Fresh(j)
    /\ ~running
    /\ reply' = [reply EXCEPT ![j] = "rejected"]
    /\ UNCHANGED <<execVars, jobVars, job_table, cpc, cjob, csync>>

\* The job is created, registered and queued. Nobody else knows its id yet.
SubmitEnqueue(c) ==
    /\ cpc[c] = "enqueue"
    /\ state' = [state EXCEPT ![cjob[c]] = "queued"]
    /\ queue' = Append(queue, cjob[c])
    /\ cpc' = [cpc EXCEPT ![c] = "notify"]
    /\ UNCHANGED <<running, stop_flag, worker, cur, hw_open, owner, starts, result, error,
                   cancel_requested, cancelled_in_time, job_table, cjob, csync, reply>>

\* notify_one(), then job_table_.add(). submitAsync answers with the job's id.
SubmitNotify(c) ==
    /\ cpc[c] = "notify"
    /\ worker' = Notified
    /\ job_table' = job_table \cup {cjob[c]}
    /\ IF csync[c]
       THEN /\ cpc' = [cpc EXCEPT ![c] = "wait"]
            /\ UNCHANGED <<cjob, reply>>
       ELSE /\ cpc' = [cpc EXCEPT ![c] = "idle"]
            /\ cjob' = [cjob EXCEPT ![c] = NoJob]
            /\ reply' = [reply EXCEPT ![cjob[c]] = "job_id"]
    /\ UNCHANGED <<running, stop_flag, queue, cur, hw_open, owner, starts, jobVars, csync>>

\* What submitSync() makes of a terminal snapshot.
Answer(snap) ==
    IF snap.state = "complete"
    THEN IF snap.result = "null" THEN "empty" ELSE "result"
    ELSE IF snap.state = "failed" THEN "error" ELSE "cancelled"

SyncReturn(c, answer) ==
    /\ reply' = [reply EXCEPT ![cjob[c]] = answer]
    /\ cpc' = [cpc EXCEPT ![c] = "idle"]
    /\ cjob' = [cjob EXCEPT ![c] = NoJob]
    /\ UNCHANGED <<execVars, jobVars, job_table, csync>>

\* Mutant of SyncDone: the answer does not wait for a terminal state.
SyncDone_Early(c) ==
    /\ cpc[c] = "wait"
    /\ SyncReturn(c, Answer(Snapshot(cjob[c])))

SyncDone(c) ==
    /\ cpc[c] = "wait"
    /\ state[cjob[c]] \in Terminal
    /\ SyncReturn(c, Answer(Snapshot(cjob[c])))

\* The deadline passed while the snapshot was not terminal.
SyncTimeout(c) ==
    /\ cpc[c] = "wait"
    /\ state[cjob[c]] \notin Terminal
    /\ SyncReturn(c, "job_id")

\* cancelJob(): requestCancel() and tryCancel() set the same flag; the answer
\* is {"cancelled": true} whatever the job's state.
CancelJob(c, j) ==
    /\ cpc[c] = "idle"
    /\ j \in job_table
    /\ ~cancel_requested[j]
    /\ cancel_requested' = [cancel_requested EXCEPT ![j] = TRUE]
    /\ cancelled_in_time' =
          IF state[j] \in Terminal \/ (cur = j /\ worker \in {"commit", "finish"})
          THEN cancelled_in_time
          ELSE cancelled_in_time \cup {j}
    /\ UNCHANGED <<execVars, state, result, error, bridgeVars>>

ClientRest(c) == SubmitEnqueue(c) \/ SubmitNotify(c) \/ SyncDone(c) \/ SyncTimeout(c)

Client(c) ==
    \/ \E j \in Jobs : \/ \E sync \in BOOLEAN : SubmitCheck(c, j, sync)
                       \/ SubmitReject(c, j)
                       \/ CancelJob(c, j)
    \/ ClientRest(c)

-----------------------------------------------------------------------------

Owner == Start \/ StartWorker \/ ShutdownStop \/ ShutdownRest

Next == Owner \/ Worker \/ \E c \in Clients : Client(c)

Spec == Init /\ [][Next]_vars

\* A thread that is inside a call goes on; nobody is obliged to begin one.
Fairness == /\ WF_vars(Worker)
            /\ WF_vars(ShutdownRest)
            /\ \A c \in Clients : WF_vars(ClientRest(c))

FairSpec == Spec /\ Fairness

-----------------------------------------------------------------------------
(***************************************************************************)
(* Properties.                                                             *)
(***************************************************************************)

\* Every variable holds a value of its C++ type.
TypeOK ==
    /\ running \in BOOLEAN /\ stop_flag \in BOOLEAN /\ hw_open \in BOOLEAN
    /\ queue \in Seq(Jobs)
    /\ worker \in WorkerPcs
    /\ cur \in Jobs \cup {NoJob}
    /\ owner \in OwnerPcs
    /\ starts \in Nat
    /\ state \in [Jobs -> States]
    /\ result \in [Jobs -> {"null", "value"}]
    /\ error \in [Jobs -> {"", "message"}]
    /\ cancel_requested \in [Jobs -> BOOLEAN]
    /\ job_table \in SUBSET Jobs
    /\ cpc \in [Clients -> ClientPcs]
    /\ cjob \in [Clients -> Jobs \cup {NoJob}]
    /\ csync \in [Clients -> BOOLEAN]
    /\ reply \in [Jobs -> Replies]
    /\ cancelled_in_time \in SUBSET Jobs

\* A task only ever runs on an open device: neither the idle timeout nor
\* shutdown() closes the adapter under it.
TaskHasHardware == worker = "task" => hw_open

\* What job_poll can report is consistent: a completed job has its result and
\* no error, a failed one has its error and no result, and a cancelled one
\* has neither.
SnapshotConsistent ==
    \A j \in Jobs :
        LET snap == Snapshot(j)
        IN  /\ snap.state = "complete"  => snap.result = "value" /\ snap.error = ""
            /\ snap.state = "failed"    => snap.result = "null" /\ snap.error = "message"
            /\ snap.state = "cancelled" => snap.result = "null" /\ snap.error = ""

\* A cancel request made before the worker's last look at the flag is
\* honoured: the job may still fail, but it is never reported complete.
CancelHonoured == \A j \in cancelled_in_time : state[j] # "complete"

\* What submitSync() answered is how the job ended, and a successful answer
\* carries the task's result, never the empty object it substitutes for null.
RepliesTruthful ==
    \A j \in Jobs : /\ reply[j] = "result"    => state[j] = "complete"
                    /\ reply[j] = "error"     => state[j] = "failed"
                    /\ reply[j] = "cancelled" => state[j] = "cancelled"
                    /\ reply[j] # "empty"

\* shutdown() returns: the worker wakes up, leaves its loop and is joined.
ShutdownReturns == (owner # "idle") ~> (owner = "idle")

\* What the executor's state means to JobService. A job the worker holds but
\* has not started still counts as waiting.
Pending == IF worker \in {"check", "start"} THEN <<cur>> \o queue ELSE queue
Active == IF worker \in Executing THEN cur ELSE NoJob
Outcome == [j \in Jobs |-> IF state[j] \in Terminal THEN state[j] ELSE "none"]
Asked == {j \in Jobs : cancel_requested[j]}

Service == INSTANCE JobService WITH
    pending <- Pending, active <- Active, outcome <- Outcome, asked <- Asked

\* The executor, the jobs and the bridge together are a serial FIFO job
\* service: whatever the threads do, callers see what JobService promises.
ImplementsJobService == Service!Spec

=============================================================================
