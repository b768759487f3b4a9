----------------------- MODULE HardwareExecutorProofs -----------------------
(***************************************************************************)
(* Proofs about the executor, for every set of jobs and clients, with the  *)
(* idle timeout on or off and any number of starts.                        *)
(***************************************************************************)
EXTENDS HardwareExecutor, TLAPS

(***************************************************************************)
(* The inductive invariant, in parts.                                      *)
(***************************************************************************)

\* The worker holds a job exactly while it is between the pop and the final
\* setState(); the state of that job tells how far it is.
WorkerInv ==
    /\ worker \in Busy <=> cur # NoJob
    /\ worker \in {"check", "start"} => state[cur] = "queued"
    /\ worker \in Executing => state[cur] = "running"
    /\ \A j \in Jobs : state[j] = "running" => cur = j

\* There is no worker thread when the executor is not running, and none
\* after the join.
OwnerInv ==
    /\ ~running => worker = "none"
    /\ owner \in {"joined", "close"} => worker = "none"

\* The queue holds jobs that are queued, each once, and not the worker's.
QueueInv ==
    /\ \A i \in 1..Len(queue) : state[queue[i]] = "queued" /\ queue[i] # cur
    /\ \A i, k \in 1..Len(queue) : i # k => queue[i] # queue[k]

\* Before the job ends, result and error are empty but for the worker's own
\* two-step updates.
DataInv ==
    \A j \in Jobs :
        /\ state[j] \in {"none", "queued"} => result[j] = "null" /\ error[j] = ""
        /\ state[j] = "running" =>
              /\ result[j] = IF worker = "finish" THEN "value" ELSE "null"
              /\ error[j] = IF worker = "fail" THEN "message" ELSE ""

\* A client inside a call owns its job; before the job is queued nobody else
\* can know it.
ClientInv ==
    /\ \A c \in Clients : /\ cpc[c] = "idle" <=> cjob[c] = NoJob
                          /\ cpc[c] = "enqueue" => state[cjob[c]] = "none"
                          /\ cpc[c] \in {"notify", "wait"} => state[cjob[c]] # "none"
    /\ \A c, d \in Clients : c # d /\ cjob[c] = cjob[d] => cjob[c] = NoJob

\* A request that counts as made in time is visible to the worker's next look.
CancelInv ==
    \A j \in cancelled_in_time :
        /\ cancel_requested[j]
        /\ state[j] # "complete"
        /\ ~(cur = j /\ worker \in {"commit", "finish"})

IInv == /\ TypeOK
        /\ WorkerInv
        /\ OwnerInv
        /\ QueueInv
        /\ DataInv
        /\ ClientInv
        /\ CancelInv
        /\ TaskHasHardware
        /\ SnapshotConsistent
        /\ RepliesTruthful

-----------------------------------------------------------------------------

\* What popping the queue leaves.
LEMMA PopFacts ==
  ASSUME NEW q \in Seq(Jobs), q # <<>>
  PROVE  /\ Head(q) \in Jobs /\ Head(q) = q[1] /\ 1 \in 1..Len(q)
         /\ Tail(q) \in Seq(Jobs)
         /\ \A i \in 1..Len(Tail(q)) : i + 1 \in 1..Len(q) /\ Tail(q)[i] = q[i + 1]
  OBVIOUS

\* What pushing a job onto the queue gives.
LEMMA PushFacts ==
  ASSUME NEW q \in Seq(Jobs), NEW j \in Jobs
  PROVE  /\ Append(q, j) \in Seq(Jobs)
         /\ \A i \in 1..Len(Append(q, j)) :
               \/ i \in 1..Len(q) /\ Append(q, j)[i] = q[i]
               \/ i \notin 1..Len(q) /\ i = Len(q) + 1 /\ Append(q, j)[i] = j
  OBVIOUS

\* The members of the queue are jobs.
LEMMA QueueJobs ==
  ASSUME TypeOK
  PROVE  \A i \in 1..Len(queue) : queue[i] \in Jobs
<1>1. queue \in Seq(Jobs)
  BY DEF TypeOK
<1> QED BY <1>1

\* The job in the worker's hands.
LEMMA BusyJob ==
  ASSUME TypeOK, WorkerInv, worker \in Busy
  PROVE  cur \in Jobs /\ state[cur] \in {"queued", "running"}
<1>1. cur \in Jobs
  BY DEF TypeOK, WorkerInv
<1> QED
  BY <1>1 DEF WorkerInv, Busy, Executing

\* The job of a client that is inside a call.
LEMMA CallJob ==
  ASSUME TypeOK, ClientInv, NEW c \in Clients, cpc[c] # "idle"
  PROVE  cjob[c] \in Jobs
<1>1. cjob[c] # NoJob
  BY DEF ClientInv
<1>2. cjob[c] \in Jobs \cup {NoJob}
  BY DEF TypeOK
<1> QED BY <1>1, <1>2

\* A step keeps every part of the invariant whose variables it leaves alone.
LEMMA Frame ==
  /\ WorkerInv /\ UNCHANGED <<worker, cur, state>> => WorkerInv'
  /\ OwnerInv /\ UNCHANGED <<running, worker, owner>> => OwnerInv'
  /\ QueueInv /\ UNCHANGED <<queue, state, cur>> => QueueInv'
  /\ DataInv /\ UNCHANGED <<state, result, error, worker>> => DataInv'
  /\ ClientInv /\ UNCHANGED <<cpc, cjob, state>> => ClientInv'
  /\ CancelInv /\ UNCHANGED <<cancelled_in_time, cancel_requested, state, cur, worker>>
        => CancelInv'
  /\ TaskHasHardware /\ UNCHANGED <<worker, hw_open>> => TaskHasHardware'
  /\ SnapshotConsistent /\ UNCHANGED <<state, result, error>> => SnapshotConsistent'
  /\ RepliesTruthful /\ UNCHANGED <<reply, state>> => RepliesTruthful'
<1>1. WorkerInv /\ UNCHANGED <<worker, cur, state>> => WorkerInv'
  BY DEF WorkerInv
<1>2. OwnerInv /\ UNCHANGED <<running, worker, owner>> => OwnerInv'
  BY DEF OwnerInv
<1>3. QueueInv /\ UNCHANGED <<queue, state, cur>> => QueueInv'
  BY DEF QueueInv
<1>4. DataInv /\ UNCHANGED <<state, result, error, worker>> => DataInv'
  BY DEF DataInv
<1>5. ClientInv /\ UNCHANGED <<cpc, cjob, state>> => ClientInv'
  BY DEF ClientInv
<1>6. CancelInv /\ UNCHANGED <<cancelled_in_time, cancel_requested, state, cur, worker>>
        => CancelInv'
  BY DEF CancelInv
<1>7. TaskHasHardware /\ UNCHANGED <<worker, hw_open>> => TaskHasHardware'
  BY DEF TaskHasHardware
<1>8. SnapshotConsistent /\ UNCHANGED <<state, result, error>> => SnapshotConsistent'
  BY DEF SnapshotConsistent, Snapshot
<1>9. RepliesTruthful /\ UNCHANGED <<reply, state>> => RepliesTruthful'
  BY DEF RepliesTruthful
<1> QED
  BY <1>1, <1>2, <1>3, <1>4, <1>5, <1>6, <1>7, <1>8, <1>9

\* What setState() changes when the worker calls it.
LEMMA SetState ==
  ASSUME TypeOK, cur \in Jobs, NEW s, state' = [state EXCEPT ![cur] = s]
  PROVE  state'[cur] = s /\ \A j \in Jobs : j # cur => state'[j] = state[j]
  BY DEF TypeOK

\* The parts about the queue, the clients and the replies do not depend on
\* which state the worker gives its own job.
LEMMA SetStateKeeps ==
  ASSUME TypeOK, WorkerInv, QueueInv, ClientInv, RepliesTruthful, worker \in Busy,
         NEW s, s # "none", state' = [state EXCEPT ![cur] = s],
         cur' \in {cur, NoJob}, UNCHANGED <<queue, cpc, cjob, reply>>
  PROVE  QueueInv' /\ ClientInv' /\ RepliesTruthful'
<1>1. cur \in Jobs /\ state[cur] \in {"queued", "running"}
  BY BusyJob
<1>2. state'[cur] = s /\ \A j \in Jobs : j # cur => state'[j] = state[j]
  BY <1>1, SetState
<1>3. QueueInv'
  BY <1>2, QueueJobs, ConstantsAssumption DEF QueueInv
<1>4. ClientInv'
  <2>1. \A j \in Jobs : state'[j] = "none" <=> state[j] = "none"
    BY <1>1, <1>2
  <2>2. \A c \in Clients : cpc[c] # "idle" => cjob[c] \in Jobs
    BY CallJob
  <2> QED
    BY <2>1, <2>2 DEF ClientInv
<1>5. RepliesTruthful'
  BY <1>1, <1>2 DEF RepliesTruthful
<1> QED BY <1>3, <1>4, <1>5

\* A client that leaves its call gives its job up.
LEMMA LeaveCall ==
  ASSUME TypeOK, ClientInv, NEW c \in Clients, cpc' = [cpc EXCEPT ![c] = "idle"],
         cjob' = [cjob EXCEPT ![c] = NoJob], state' = state
  PROVE  ClientInv'
<1>1. cpc'[c] = "idle" /\ cjob'[c] = NoJob
  BY DEF TypeOK
<1>2. \A d \in Clients : d # c => cpc'[d] = cpc[d] /\ cjob'[d] = cjob[d]
  BY DEF TypeOK
<1> QED BY <1>1, <1>2 DEF ClientInv

\* SnapshotConsistent in terms of the job's fields, before and after a step.
LEMMA SnapshotFields ==
  LET Fields == \A j \in Jobs :
        /\ state[j] = "complete"  => result[j] = "value" /\ error[j] = ""
        /\ state[j] = "failed"    => result[j] = "null" /\ error[j] = "message"
        /\ state[j] = "cancelled" => result[j] = "null" /\ error[j] = ""
  IN  (SnapshotConsistent <=> Fields) /\ (SnapshotConsistent' <=> Fields')
  BY DEF SnapshotConsistent, Snapshot

\* start(), startWorker() and shutdown() keep the invariant, step by step.
LEMMA OwnerStep == IInv /\ Owner => IInv'
<1> SUFFICES ASSUME TypeOK, WorkerInv, OwnerInv, QueueInv, DataInv, ClientInv,
     CancelInv, TaskHasHardware, SnapshotConsistent, RepliesTruthful, Owner PROVE IInv'
  BY DEF IInv
<1> USE ConstantsAssumption
<1>1. CASE Start
  <2> worker = "none" /\ cur = NoJob
    BY <1>1 DEF Start, Launch, OwnerInv, WorkerInv, Busy
  <2>s. starts \in Nat
    BY DEF TypeOK
  <2>t. starts' = starts + 1
    BY <1>1 DEF Start, Launch
  <2> starts' \in Nat
    BY <2>s, <2>t
  <2>1. QueueInv' /\ ClientInv' /\ SnapshotConsistent' /\ RepliesTruthful'
    BY <1>1, Frame DEF Start, Launch, bridgeVars, jobVars
  <2>2. TypeOK'
    BY <1>1 DEF Start, Launch, TypeOK, WorkerPcs, jobVars, bridgeVars
  <2>3. WorkerInv'
    BY <1>1 DEF Start, Launch, WorkerInv, Busy, Executing, jobVars
  <2>4. OwnerInv'
    BY <1>1 DEF OwnerInv, Start, Launch
  <2>5. DataInv'
    BY <1>1 DEF Start, Launch, DataInv, jobVars
  <2>6. CancelInv'
    BY <1>1 DEF CancelInv, Start, Launch, jobVars
  <2>7. TaskHasHardware'
    BY <1>1 DEF TaskHasHardware, Start, Launch
  <2> QED BY <2>1, <2>2, <2>3, <2>4, <2>5, <2>6, <2>7 DEF IInv
<1>2. CASE StartWorker
  <2> worker = "none" /\ cur = NoJob
    BY <1>2 DEF StartWorker, Launch, OwnerInv, WorkerInv, Busy
  <2>s. starts \in Nat
    BY DEF TypeOK
  <2>t. starts' = starts + 1
    BY <1>2 DEF StartWorker, Launch
  <2> starts' \in Nat
    BY <2>s, <2>t
  <2>1. QueueInv' /\ ClientInv' /\ SnapshotConsistent' /\ RepliesTruthful'
    BY <1>2, Frame DEF StartWorker, Launch, bridgeVars, jobVars
  <2>2. TypeOK'
    BY <1>2 DEF StartWorker, Launch, TypeOK, WorkerPcs, jobVars, bridgeVars
  <2>3. WorkerInv'
    BY <1>2 DEF StartWorker, Launch, WorkerInv, Busy, Executing, jobVars
  <2>4. OwnerInv'
    BY <1>2 DEF OwnerInv, StartWorker, Launch
  <2>5. DataInv'
    BY <1>2 DEF StartWorker, Launch, DataInv, jobVars
  <2>6. CancelInv'
    BY <1>2 DEF CancelInv, StartWorker, Launch, jobVars
  <2>7. TaskHasHardware'
    BY <1>2 DEF TaskHasHardware, StartWorker, Launch
  <2> QED BY <2>1, <2>2, <2>3, <2>4, <2>5, <2>6, <2>7 DEF IInv
<1>3. CASE ShutdownStop
  <2>1. WorkerInv' /\ QueueInv' /\ DataInv' /\ ClientInv' /\ CancelInv' /\
       TaskHasHardware' /\ SnapshotConsistent' /\ RepliesTruthful'
    BY <1>3, Frame DEF ShutdownStop, bridgeVars, jobVars
  <2>2. TypeOK'
    BY <1>3 DEF TypeOK, ShutdownStop, OwnerPcs, bridgeVars, jobVars
  <2>3. OwnerInv'
    BY <1>3 DEF OwnerInv, ShutdownStop
  <2> QED BY <2>1, <2>2, <2>3 DEF IInv
<1>4. CASE ShutdownNotify
  <2>1. QueueInv' /\ ClientInv' /\ SnapshotConsistent' /\ RepliesTruthful'
    BY <1>4, Frame DEF ShutdownNotify, Notified, bridgeVars, jobVars
  <2>2. TypeOK'
    BY <1>4 DEF TypeOK, ShutdownNotify, Notified, WorkerPcs, OwnerPcs, bridgeVars,
         jobVars
  <2>3. WorkerInv'
    BY <1>4 DEF WorkerInv, ShutdownNotify, Notified, Busy, Executing, jobVars
  <2>4. OwnerInv'
    BY <1>4 DEF OwnerInv, ShutdownNotify, Notified
  <2>5. DataInv'
    BY <1>4 DEF DataInv, ShutdownNotify, Notified, WorkerInv, Executing, jobVars
  <2>6. CancelInv'
    BY <1>4 DEF CancelInv, ShutdownNotify, Notified, jobVars
  <2>7. TaskHasHardware'
    BY <1>4 DEF TaskHasHardware, ShutdownNotify, Notified
  <2> QED BY <2>1, <2>2, <2>3, <2>4, <2>5, <2>6, <2>7 DEF IInv
<1>5. CASE ShutdownJoin
  <2>1. QueueInv' /\ ClientInv' /\ SnapshotConsistent' /\ RepliesTruthful'
    BY <1>5, Frame DEF ShutdownJoin, bridgeVars, jobVars
  <2>2. TypeOK'
    BY <1>5 DEF TypeOK, ShutdownJoin, WorkerPcs, OwnerPcs, bridgeVars, jobVars
  <2>3. WorkerInv'
    BY <1>5 DEF WorkerInv, ShutdownJoin, Busy, Executing, jobVars
  <2>4. OwnerInv'
    BY <1>5 DEF OwnerInv, ShutdownJoin
  <2>5. DataInv'
    BY <1>5 DEF DataInv, ShutdownJoin, WorkerInv, Executing, jobVars
  <2>6. CancelInv'
    BY <1>5 DEF CancelInv, ShutdownJoin, jobVars
  <2>7. TaskHasHardware'
    BY <1>5 DEF TaskHasHardware, ShutdownJoin
  <2> QED BY <2>1, <2>2, <2>3, <2>4, <2>5, <2>6, <2>7 DEF IInv
<1>6. CASE ShutdownClear
  <2>1. WorkerInv' /\ QueueInv' /\ DataInv' /\ ClientInv' /\ CancelInv' /\
       TaskHasHardware' /\ SnapshotConsistent' /\ RepliesTruthful'
    BY <1>6, Frame DEF ShutdownClear, bridgeVars, jobVars
  <2>2. TypeOK'
    BY <1>6 DEF TypeOK, ShutdownClear, OwnerPcs, bridgeVars, jobVars
  <2>3. OwnerInv'
    BY <1>6 DEF OwnerInv, ShutdownClear
  <2> QED BY <2>1, <2>2, <2>3 DEF IInv
<1>7. CASE ShutdownClose
  <2>1. WorkerInv' /\ QueueInv' /\ DataInv' /\ ClientInv' /\ CancelInv' /\
       SnapshotConsistent' /\ RepliesTruthful'
    BY <1>7, Frame DEF ShutdownClose, bridgeVars, jobVars
  <2>2. TypeOK'
    BY <1>7 DEF TypeOK, ShutdownClose, OwnerPcs, bridgeVars, jobVars
  <2>3. OwnerInv'
    BY <1>7 DEF OwnerInv, ShutdownClose
  <2>4. TaskHasHardware'
    BY <1>7 DEF ShutdownClose, TaskHasHardware, OwnerInv
  <2> QED BY <2>1, <2>2, <2>3, <2>4 DEF IInv
<1> QED BY <1>1, <1>2, <1>3, <1>4, <1>5, <1>6, <1>7 DEF Owner, ShutdownRest

\* Every step of workerLoop() keeps the invariant.
LEMMA WorkerStep == IInv /\ Worker => IInv'
<1> SUFFICES ASSUME TypeOK, WorkerInv, OwnerInv, QueueInv, DataInv, ClientInv,
     CancelInv, TaskHasHardware, SnapshotConsistent, RepliesTruthful, Worker PROVE
     IInv'
  BY DEF IInv
<1> USE ConstantsAssumption
<1>1. CASE WorkerExit
  <2>1. QueueInv' /\ ClientInv' /\ SnapshotConsistent' /\ RepliesTruthful'
    BY <1>1, Frame DEF WorkerExit, bridgeVars, jobVars
  <2>2. TypeOK'
    BY <1>1 DEF TypeOK, WorkerExit, WorkerPcs, bridgeVars, jobVars
  <2>3. WorkerInv'
    BY <1>1 DEF WorkerInv, WorkerExit, Busy, Executing, jobVars
  <2>4. OwnerInv'
    BY <1>1 DEF OwnerInv, WorkerExit
  <2>5. DataInv'
    BY <1>1 DEF DataInv, WorkerExit, WorkerInv, Executing, jobVars
  <2>6. CancelInv'
    BY <1>1 DEF CancelInv, WorkerExit, jobVars
  <2>7. TaskHasHardware'
    BY <1>1 DEF TaskHasHardware, WorkerExit
  <2> QED BY <2>1, <2>2, <2>3, <2>4, <2>5, <2>6, <2>7 DEF IInv
<1>2. CASE WorkerSleep
  <2>1. QueueInv' /\ ClientInv' /\ SnapshotConsistent' /\ RepliesTruthful'
    BY <1>2, Frame DEF WorkerSleep, bridgeVars, jobVars
  <2>2. TypeOK'
    BY <1>2 DEF TypeOK, WorkerSleep, WorkerPcs, bridgeVars, jobVars
  <2>3. WorkerInv'
    BY <1>2 DEF WorkerInv, WorkerSleep, Busy, Executing, jobVars
  <2>4. OwnerInv'
    BY <1>2 DEF OwnerInv, WorkerSleep
  <2>5. DataInv'
    BY <1>2 DEF DataInv, WorkerSleep, WorkerInv, Executing, jobVars
  <2>6. CancelInv'
    BY <1>2 DEF CancelInv, WorkerSleep, jobVars
  <2>7. TaskHasHardware'
    BY <1>2 DEF TaskHasHardware, WorkerSleep
  <2> QED BY <2>1, <2>2, <2>3, <2>4, <2>5, <2>6, <2>7 DEF IInv
<1>3. CASE WorkerPop
  <2> queue \in Seq(Jobs) /\ queue # <<>>
    BY <1>3 DEF WorkerPop, TypeOK
  <2> DEFINE q == queue
  <2>p. Head(q) \in Jobs /\ Head(q) = q[1] /\ 1 \in 1..Len(q) /\ Tail(q) \in Seq(Jobs)
    BY PopFacts
  <2>t. \A i \in 1..Len(Tail(q)) : i + 1 \in 1..Len(q) /\ Tail(q)[i] = q[i + 1]
    BY PopFacts
  <2>c. cur' \in Jobs /\ cur = NoJob /\ cur' = queue[1] /\ state[cur'] = "queued"
    BY <1>3, <2>p DEF WorkerPop, QueueInv, WorkerInv, Busy
  <2>1. ClientInv' /\ SnapshotConsistent' /\ RepliesTruthful'
    BY <1>3, Frame DEF WorkerPop, bridgeVars, jobVars
  <2>2. TypeOK'
    BY <1>3, <2>p, <2>c DEF WorkerPop, TypeOK, WorkerPcs, jobVars, bridgeVars
  <2>3. WorkerInv'
    BY <1>3, <2>c, ConstantsAssumption DEF WorkerPop, WorkerInv, Busy, Executing, jobVars
  <2>4. OwnerInv'
    BY <1>3 DEF OwnerInv, WorkerPop
  <2>5. QueueInv'
    <3>1. queue' = Tail(q) /\ state' = state
      BY <1>3 DEF WorkerPop, jobVars
    <3>2. \A i \in 1..Len(queue') : state[queue'[i]] = "queued" /\ queue'[i] # cur'
      BY <3>1, <2>p, <2>t, <2>c DEF QueueInv
    <3>3. \A i, k \in 1..Len(queue') : i # k => queue'[i] # queue'[k]
      BY <3>1, <2>t DEF QueueInv
    <3> QED BY <3>1, <3>2, <3>3 DEF QueueInv
  <2>6. DataInv'
    BY <1>3 DEF DataInv, WorkerPop, WorkerInv, Executing, jobVars
  <2>7. CancelInv'
    BY <1>3 DEF CancelInv, WorkerPop, WorkerInv, jobVars
  <2>8. TaskHasHardware'
    BY <1>3 DEF TaskHasHardware, WorkerPop
  <2> QED BY <2>1, <2>2, <2>3, <2>4, <2>5, <2>6, <2>7, <2>8 DEF IInv
<1>4. CASE WorkerIdleTimeout
  <2>1. QueueInv' /\ ClientInv' /\ SnapshotConsistent' /\ RepliesTruthful'
    BY <1>4, Frame DEF WorkerIdleTimeout, bridgeVars, jobVars
  <2>2. TypeOK'
    BY <1>4 DEF TypeOK, WorkerIdleTimeout, WorkerPcs, bridgeVars, jobVars
  <2>3. WorkerInv'
    BY <1>4 DEF WorkerInv, WorkerIdleTimeout, Busy, Executing, jobVars
  <2>4. OwnerInv'
    BY <1>4 DEF OwnerInv, WorkerIdleTimeout
  <2>5. DataInv'
    BY <1>4 DEF DataInv, WorkerIdleTimeout, WorkerInv, Executing, jobVars
  <2>6. CancelInv'
    BY <1>4 DEF CancelInv, WorkerIdleTimeout, jobVars
  <2>7. TaskHasHardware'
    BY <1>4 DEF TaskHasHardware, WorkerIdleTimeout
  <2> QED BY <2>1, <2>2, <2>3, <2>4, <2>5, <2>6, <2>7 DEF IInv
<1>5. CASE WorkerSkip
  <2> cur \in Jobs /\ state[cur] = "queued"
    BY <1>5, BusyJob DEF WorkerSkip, Busy, Executing, WorkerInv
  <2> state'[cur] = "cancelled" /\ \A j \in Jobs : j # cur => state'[j] = state[j]
    BY <1>5, SetState DEF WorkerSkip
  <2>1. TypeOK'
    BY <1>5 DEF TypeOK, WorkerSkip, WorkerPcs, States, bridgeVars
  <2>2. WorkerInv'
    BY <1>5 DEF WorkerSkip, WorkerInv, Busy, Executing
  <2>3. OwnerInv'
    BY <1>5 DEF OwnerInv, WorkerSkip
  <2>4. DataInv'
    BY <1>5 DEF WorkerSkip, WorkerInv, DataInv
  <2>5. CancelInv'
    BY <1>5 DEF WorkerSkip, CancelInv, TypeOK
  <2>6. TaskHasHardware'
    BY <1>5 DEF TaskHasHardware, WorkerSkip
  <2>7. SnapshotConsistent'
    <3>1. UNCHANGED <<result, error>> /\ worker = "check"
      BY <1>5 DEF WorkerSkip
    <3>2. result[cur] = "null" /\ error[cur] = ""
      BY <3>1 DEF DataInv
    <3> QED BY <3>1, <3>2, SnapshotFields
  <2>8. QueueInv' /\ ClientInv' /\ RepliesTruthful'
    BY <1>5, SetStateKeeps DEF WorkerSkip, Busy, bridgeVars
  <2> QED BY <2>1, <2>2, <2>3, <2>4, <2>5, <2>6, <2>7, <2>8 DEF IInv
<1>6. CASE WorkerProceed
  <2>1. QueueInv' /\ ClientInv' /\ SnapshotConsistent' /\ RepliesTruthful'
    BY <1>6, Frame DEF WorkerProceed, bridgeVars, jobVars
  <2>2. TypeOK'
    BY <1>6 DEF TypeOK, WorkerProceed, WorkerPcs, bridgeVars, jobVars
  <2>3. WorkerInv'
    BY <1>6 DEF WorkerInv, WorkerProceed, Busy, Executing, jobVars
  <2>4. OwnerInv'
    BY <1>6 DEF OwnerInv, WorkerProceed
  <2>5. DataInv'
    BY <1>6 DEF DataInv, WorkerProceed, WorkerInv, Executing, jobVars
  <2>6. CancelInv'
    BY <1>6 DEF CancelInv, WorkerProceed, jobVars
  <2>7. TaskHasHardware'
    BY <1>6 DEF TaskHasHardware, WorkerProceed
  <2> QED BY <2>1, <2>2, <2>3, <2>4, <2>5, <2>6, <2>7 DEF IInv
<1>7. CASE WorkerSetRunning
  <2> cur \in Jobs /\ state[cur] = "queued"
    BY <1>7, BusyJob DEF WorkerSetRunning, Busy, Executing, WorkerInv
  <2> state'[cur] = "running" /\ \A j \in Jobs : j # cur => state'[j] = state[j]
    BY <1>7, SetState DEF WorkerSetRunning
  <2>1. TypeOK'
    BY <1>7 DEF TypeOK, WorkerSetRunning, WorkerPcs, States, bridgeVars
  <2>2. WorkerInv'
    BY <1>7 DEF WorkerSetRunning, WorkerInv, Busy, Executing
  <2>3. OwnerInv'
    BY <1>7 DEF OwnerInv, WorkerSetRunning
  <2>4. DataInv'
    BY <1>7 DEF WorkerSetRunning, WorkerInv, DataInv
  <2>5. CancelInv'
    BY <1>7 DEF WorkerSetRunning, CancelInv, TypeOK
  <2>6. TaskHasHardware'
    BY <1>7 DEF TaskHasHardware, WorkerSetRunning
  <2>7. SnapshotConsistent'
    BY ZenonT(60), <1>7, SnapshotFields DEF WorkerSetRunning, DataInv
  <2>8. QueueInv' /\ ClientInv' /\ RepliesTruthful'
    BY <1>7, SetStateKeeps DEF WorkerSetRunning, Busy, bridgeVars
  <2> QED BY <2>1, <2>2, <2>3, <2>4, <2>5, <2>6, <2>7, <2>8 DEF IInv
<1>8. CASE WorkerOpen
  <2>1. QueueInv' /\ ClientInv' /\ SnapshotConsistent' /\ RepliesTruthful'
    BY <1>8, Frame DEF WorkerOpen, bridgeVars, jobVars
  <2>2. TypeOK'
    BY <1>8 DEF TypeOK, WorkerOpen, WorkerPcs, bridgeVars, jobVars
  <2>3. WorkerInv'
    BY <1>8 DEF WorkerInv, WorkerOpen, Busy, Executing, jobVars
  <2>4. OwnerInv'
    BY <1>8 DEF OwnerInv, WorkerOpen
  <2>5. DataInv'
    BY <1>8 DEF DataInv, WorkerOpen, WorkerInv, Executing, jobVars
  <2>6. CancelInv'
    BY <1>8 DEF CancelInv, WorkerOpen, jobVars
  <2>7. TaskHasHardware'
    BY <1>8 DEF TaskHasHardware, WorkerOpen
  <2> QED BY <2>1, <2>2, <2>3, <2>4, <2>5, <2>6, <2>7 DEF IInv
<1>9. CASE WorkerOpenFails
  <2> cur \in Jobs /\ state[cur] = "running"
    BY <1>9, BusyJob DEF WorkerOpenFails, WorkerSetError, Busy, Executing, WorkerInv
  <2> error'[cur] = "message" /\ \A j \in Jobs : j # cur => error'[j] = error[j]
    BY <1>9 DEF WorkerOpenFails, WorkerSetError, TypeOK
  <2>1. QueueInv' /\ ClientInv' /\ RepliesTruthful'
    BY <1>9, Frame DEF WorkerOpenFails, WorkerSetError, bridgeVars
  <2>2. TypeOK'
    BY <1>9 DEF TypeOK, WorkerOpenFails, WorkerSetError, WorkerPcs, bridgeVars
  <2>3. WorkerInv'
    BY <1>9 DEF WorkerInv, WorkerOpenFails, WorkerSetError, Busy, Executing
  <2>4. OwnerInv'
    BY <1>9 DEF OwnerInv, WorkerOpenFails, WorkerSetError
  <2>5. DataInv'
    BY <1>9 DEF WorkerOpenFails, WorkerSetError, WorkerInv, DataInv, Executing
  <2>6. CancelInv'
    BY <1>9 DEF CancelInv, WorkerOpenFails, WorkerSetError
  <2>7. TaskHasHardware'
    BY <1>9 DEF TaskHasHardware, WorkerOpenFails, WorkerSetError
  <2>8. SnapshotConsistent'
    BY ZenonT(60), <1>9, SnapshotFields DEF WorkerOpenFails, WorkerSetError, DataInv
  <2> QED BY <2>1, <2>2, <2>3, <2>4, <2>5, <2>6, <2>7, <2>8 DEF IInv
<1>10. CASE TaskReturns
  <2>1. QueueInv' /\ ClientInv' /\ SnapshotConsistent' /\ RepliesTruthful'
    BY <1>10, Frame DEF TaskReturns, bridgeVars, jobVars
  <2>2. TypeOK'
    BY <1>10 DEF TypeOK, TaskReturns, WorkerPcs, bridgeVars, jobVars
  <2>3. WorkerInv'
    BY <1>10 DEF WorkerInv, TaskReturns, Busy, Executing, jobVars
  <2>4. OwnerInv'
    BY <1>10 DEF OwnerInv, TaskReturns
  <2>5. DataInv'
    BY <1>10 DEF DataInv, TaskReturns, WorkerInv, Executing, jobVars
  <2>6. CancelInv'
    BY <1>10 DEF CancelInv, TaskReturns, jobVars
  <2>7. TaskHasHardware'
    BY <1>10 DEF TaskHasHardware, TaskReturns
  <2> QED BY <2>1, <2>2, <2>3, <2>4, <2>5, <2>6, <2>7 DEF IInv
<1>11. CASE TaskThrows
  <2> cur \in Jobs /\ state[cur] = "running"
    BY <1>11, BusyJob DEF TaskThrows, WorkerSetError, Busy, Executing, WorkerInv
  <2> error'[cur] = "message" /\ \A j \in Jobs : j # cur => error'[j] = error[j]
    BY <1>11 DEF TaskThrows, WorkerSetError, TypeOK
  <2>1. QueueInv' /\ ClientInv' /\ RepliesTruthful'
    BY <1>11, Frame DEF TaskThrows, WorkerSetError, bridgeVars
  <2>2. TypeOK'
    BY <1>11 DEF TypeOK, TaskThrows, WorkerSetError, WorkerPcs, bridgeVars
  <2>3. WorkerInv'
    BY <1>11 DEF WorkerInv, TaskThrows, WorkerSetError, Busy, Executing
  <2>4. OwnerInv'
    BY <1>11 DEF OwnerInv, TaskThrows, WorkerSetError
  <2>5. DataInv'
    BY <1>11 DEF TaskThrows, WorkerSetError, WorkerInv, DataInv, Executing
  <2>6. CancelInv'
    BY <1>11 DEF CancelInv, TaskThrows, WorkerSetError
  <2>7. TaskHasHardware'
    BY <1>11 DEF TaskHasHardware, TaskThrows, WorkerSetError
  <2>8. SnapshotConsistent'
    BY ZenonT(60), <1>11, SnapshotFields DEF TaskThrows, WorkerSetError, DataInv
  <2> QED BY <2>1, <2>2, <2>3, <2>4, <2>5, <2>6, <2>7, <2>8 DEF IInv
<1>12. CASE WorkerDiscard
  <2> cur \in Jobs /\ state[cur] = "running"
    BY <1>12, BusyJob DEF WorkerDiscard, Busy, Executing, WorkerInv
  <2> state'[cur] = "cancelled" /\ \A j \in Jobs : j # cur => state'[j] = state[j]
    BY <1>12, SetState DEF WorkerDiscard
  <2>1. TypeOK'
    BY <1>12 DEF TypeOK, WorkerDiscard, WorkerPcs, States, bridgeVars
  <2>2. WorkerInv'
    BY <1>12 DEF WorkerDiscard, WorkerInv, Busy, Executing
  <2>3. OwnerInv'
    BY <1>12 DEF OwnerInv, WorkerDiscard
  <2>4. DataInv'
    BY <1>12 DEF WorkerDiscard, WorkerInv, DataInv
  <2>5. CancelInv'
    BY <1>12 DEF WorkerDiscard, CancelInv, TypeOK
  <2>6. TaskHasHardware'
    BY <1>12 DEF TaskHasHardware, WorkerDiscard
  <2>7. SnapshotConsistent'
    <3>1. UNCHANGED <<result, error>> /\ worker = "returned"
      BY <1>12 DEF WorkerDiscard
    <3>2. result[cur] = "null" /\ error[cur] = ""
      BY <3>1 DEF DataInv
    <3> QED BY <3>1, <3>2, SnapshotFields
  <2>8. QueueInv' /\ ClientInv' /\ RepliesTruthful'
    BY <1>12, SetStateKeeps DEF WorkerDiscard, Busy, bridgeVars
  <2> QED BY <2>1, <2>2, <2>3, <2>4, <2>5, <2>6, <2>7, <2>8 DEF IInv
<1>13. CASE WorkerKeep
  <2>1. QueueInv' /\ ClientInv' /\ SnapshotConsistent' /\ RepliesTruthful'
    BY <1>13, Frame DEF WorkerKeep, bridgeVars, jobVars
  <2>2. TypeOK'
    BY <1>13 DEF TypeOK, WorkerKeep, WorkerPcs, bridgeVars, jobVars
  <2>3. WorkerInv'
    BY <1>13 DEF WorkerInv, WorkerKeep, Busy, Executing, jobVars
  <2>4. OwnerInv'
    BY <1>13 DEF OwnerInv, WorkerKeep
  <2>5. DataInv'
    BY <1>13 DEF DataInv, WorkerKeep, WorkerInv, Executing, jobVars
  <2>6. CancelInv'
    BY <1>13 DEF CancelInv, WorkerKeep, jobVars
  <2>7. TaskHasHardware'
    BY <1>13 DEF TaskHasHardware, WorkerKeep
  <2> QED BY <2>1, <2>2, <2>3, <2>4, <2>5, <2>6, <2>7 DEF IInv
<1>14. CASE WorkerSetResult
  <2> cur \in Jobs /\ state[cur] = "running"
    BY <1>14, BusyJob DEF WorkerSetResult, Busy, Executing, WorkerInv
  <2> result'[cur] = "value" /\ \A j \in Jobs : j # cur => result'[j] = result[j]
    BY <1>14 DEF WorkerSetResult, TypeOK
  <2>1. QueueInv' /\ ClientInv' /\ RepliesTruthful'
    BY <1>14, Frame DEF WorkerSetResult, bridgeVars
  <2>2. TypeOK'
    BY <1>14 DEF TypeOK, WorkerSetResult, WorkerPcs, bridgeVars
  <2>3. WorkerInv'
    BY <1>14 DEF WorkerInv, WorkerSetResult, Busy, Executing
  <2>4. OwnerInv'
    BY <1>14 DEF OwnerInv, WorkerSetResult
  <2>5. DataInv'
    BY <1>14 DEF WorkerSetResult, WorkerInv, DataInv, Executing
  <2>6. CancelInv'
    BY <1>14 DEF CancelInv, WorkerSetResult
  <2>7. TaskHasHardware'
    BY <1>14 DEF TaskHasHardware, WorkerSetResult
  <2>8. SnapshotConsistent'
    BY ZenonT(60), <1>14, SnapshotFields DEF WorkerSetResult, DataInv
  <2> QED BY <2>1, <2>2, <2>3, <2>4, <2>5, <2>6, <2>7, <2>8 DEF IInv
<1>15. CASE WorkerSetComplete
  <2> cur \in Jobs /\ state[cur] = "running"
    BY <1>15, BusyJob DEF WorkerSetComplete, Busy, Executing, WorkerInv
  <2> state'[cur] = "complete" /\ \A j \in Jobs : j # cur => state'[j] = state[j]
    BY <1>15, SetState DEF WorkerSetComplete
  <2>1. TypeOK'
    BY <1>15 DEF TypeOK, WorkerSetComplete, WorkerPcs, States, bridgeVars
  <2>2. WorkerInv'
    BY <1>15 DEF WorkerSetComplete, WorkerInv, Busy, Executing
  <2>3. OwnerInv'
    BY <1>15 DEF OwnerInv, WorkerSetComplete
  <2>4. DataInv'
    BY <1>15 DEF WorkerSetComplete, WorkerInv, DataInv
  <2>5. CancelInv'
    BY <1>15 DEF WorkerSetComplete, CancelInv, TypeOK
  <2>6. TaskHasHardware'
    BY <1>15 DEF TaskHasHardware, WorkerSetComplete
  <2>7. SnapshotConsistent'
    BY ZenonT(60), <1>15, SnapshotFields DEF WorkerSetComplete, DataInv
  <2>8. QueueInv' /\ ClientInv' /\ RepliesTruthful'
    BY <1>15, SetStateKeeps DEF WorkerSetComplete, Busy, bridgeVars
  <2> QED BY <2>1, <2>2, <2>3, <2>4, <2>5, <2>6, <2>7, <2>8 DEF IInv
<1>16. CASE WorkerSetFailed
  <2> cur \in Jobs /\ state[cur] = "running"
    BY <1>16, BusyJob DEF WorkerSetFailed, Busy, Executing, WorkerInv
  <2> state'[cur] = "failed" /\ \A j \in Jobs : j # cur => state'[j] = state[j]
    BY <1>16, SetState DEF WorkerSetFailed
  <2>1. TypeOK'
    BY <1>16 DEF TypeOK, WorkerSetFailed, WorkerPcs, States, bridgeVars
  <2>2. WorkerInv'
    BY <1>16 DEF WorkerSetFailed, WorkerInv, Busy, Executing
  <2>3. OwnerInv'
    BY <1>16 DEF OwnerInv, WorkerSetFailed
  <2>4. DataInv'
    BY <1>16 DEF WorkerSetFailed, WorkerInv, DataInv
  <2>5. CancelInv'
    BY <1>16 DEF WorkerSetFailed, CancelInv, TypeOK
  <2>6. TaskHasHardware'
    BY <1>16 DEF TaskHasHardware, WorkerSetFailed
  <2>7. SnapshotConsistent'
    BY ZenonT(60), <1>16, SnapshotFields DEF WorkerSetFailed, DataInv
  <2>8. QueueInv' /\ ClientInv' /\ RepliesTruthful'
    BY <1>16, SetStateKeeps DEF WorkerSetFailed, Busy, bridgeVars
  <2> QED BY <2>1, <2>2, <2>3, <2>4, <2>5, <2>6, <2>7, <2>8 DEF IInv
<1> QED BY <1>1, <1>2, <1>3, <1>4, <1>5, <1>6, <1>7, <1>8, <1>9, <1>10, <1>11, <1>12,
     <1>13, <1>14, <1>15, <1>16 DEF Worker

\* Every step of a thread inside the bridge keeps the invariant.
LEMMA ClientStep == IInv /\ (\E c \in Clients : Client(c)) => IInv'
<1> SUFFICES ASSUME TypeOK, WorkerInv, OwnerInv, QueueInv, DataInv, ClientInv,
     CancelInv, TaskHasHardware, SnapshotConsistent, RepliesTruthful, (\E c \in Clients
     : Client(c)) PROVE IInv'
  BY DEF IInv
<1> USE ConstantsAssumption
<1>1. ASSUME NEW c \in Clients, NEW j \in Jobs, NEW sync \in BOOLEAN, SubmitCheck(c, j,
     sync) PROVE IInv'
  <2>1. WorkerInv' /\ OwnerInv' /\ QueueInv' /\ DataInv' /\ CancelInv' /\
       TaskHasHardware' /\ SnapshotConsistent' /\ RepliesTruthful'
    BY <1>1, Frame DEF SubmitCheck, Fresh, execVars, jobVars
  <2>2. TypeOK'
    BY <1>1 DEF TypeOK, SubmitCheck, Fresh, ClientPcs, execVars, jobVars
  <2>3. ClientInv'
    <3>1. /\ cpc'[c] = "enqueue" /\ cjob'[c] = j /\ state' = state
          /\ \A d \in Clients : d # c => cpc'[d] = cpc[d] /\ cjob'[d] = cjob[d]
      BY <1>1 DEF SubmitCheck, TypeOK, jobVars
    <3>2. state[j] = "none" /\ \A d \in Clients : cjob[d] # j
      BY <1>1 DEF SubmitCheck, Fresh
    <3> QED BY <3>1, <3>2, ConstantsAssumption DEF ClientInv
  <2> QED BY <2>1, <2>2, <2>3 DEF IInv
<1>2. ASSUME NEW c \in Clients, NEW j \in Jobs, SubmitReject(c, j) PROVE IInv'
  <2>1. WorkerInv' /\ OwnerInv' /\ QueueInv' /\ DataInv' /\ ClientInv' /\ CancelInv' /\
       TaskHasHardware' /\ SnapshotConsistent'
    BY <1>2, Frame DEF SubmitReject, Fresh, execVars, jobVars
  <2>2. TypeOK'
    BY <1>2 DEF TypeOK, SubmitReject, Fresh, Replies, execVars, jobVars
  <2>3. RepliesTruthful'
    BY <1>2 DEF RepliesTruthful, SubmitReject, Fresh, TypeOK, jobVars
  <2> QED BY <2>1, <2>2, <2>3 DEF IInv
<1>3. ASSUME NEW c \in Clients, NEW j \in Jobs, CancelJob(c, j) PROVE IInv'
  <2>1. WorkerInv' /\ OwnerInv' /\ QueueInv' /\ DataInv' /\ ClientInv' /\
       TaskHasHardware' /\ SnapshotConsistent' /\ RepliesTruthful'
    BY <1>3, Frame DEF CancelJob, bridgeVars, execVars
  <2>2. TypeOK'
    BY <1>3 DEF TypeOK, CancelJob, bridgeVars, execVars
  <2>3. CancelInv'
    <3>1. cancel_requested'[j]
          /\ \A k \in Jobs : k # j => cancel_requested'[k] = cancel_requested[k]
      BY <1>3 DEF CancelJob, TypeOK
    <3>2. state' = state /\ cur' = cur /\ worker' = worker
      BY <1>3 DEF CancelJob, execVars
    <3>3. \A k \in cancelled_in_time' : k \in cancelled_in_time \/
             (k = j /\ state[j] # "complete" /\ ~(cur = j
             /\ worker \in {"commit", "finish"}))
      BY <1>3 DEF CancelJob, Terminal
    <3>4. \A k \in cancelled_in_time : k \in Jobs
      BY DEF TypeOK
    <3> QED BY <3>1, <3>2, <3>3, <3>4 DEF CancelInv
  <2> QED BY <2>1, <2>2, <2>3 DEF IInv
<1>4. ASSUME NEW c \in Clients, SubmitEnqueue(c) PROVE IInv'
  <2> cjob[c] \in Jobs
    BY <1>4, CallJob DEF SubmitEnqueue
  <2> state[cjob[c]] = "none"
    BY <1>4 DEF SubmitEnqueue, ClientInv
  <2>s. state'[cjob[c]] = "queued" /\ \A j \in Jobs : j # cjob[c] => state'[j] = state[j]
    BY <1>4 DEF SubmitEnqueue, TypeOK
  <2>a. \A j \in Jobs : worker \in Busy => cur \in Jobs
        /\ state[cur] \in {"queued", "running"}
    BY BusyJob
  <2>p. queue \in Seq(Jobs) /\ Append(queue, cjob[c]) \in Seq(Jobs)
    BY PushFacts DEF TypeOK
  <2>q. \A i \in 1..Len(Append(queue, cjob[c])) :
          \/ i \in 1..Len(queue) /\ Append(queue, cjob[c])[i] = queue[i]
          \/ i \notin 1..Len(queue) /\ i = Len(queue) + 1
             /\ Append(queue, cjob[c])[i] = cjob[c]
    BY <2>p, PushFacts
  <2>u. queue' = Append(queue, cjob[c]) /\ cur' = cur
    BY <1>4 DEF SubmitEnqueue
  <2>1. OwnerInv' /\ TaskHasHardware'
    BY <1>4, Frame DEF SubmitEnqueue
  <2>2. TypeOK'
    BY <1>4, <2>p DEF SubmitEnqueue, TypeOK, States, ClientPcs
  <2>3. WorkerInv'
    BY <1>4, <2>s, <2>a DEF SubmitEnqueue, WorkerInv, Busy, Executing
  <2>4. QueueInv'
    <3>1. \A i \in 1..Len(queue) : queue[i] \in Jobs /\ state[queue[i]] = "queued"
          /\ queue[i] # cur
      BY QueueJobs DEF QueueInv
    <3>2. cjob[c] # cur
      BY <2>a, ConstantsAssumption DEF WorkerInv
    <3>3. \A i \in 1..Len(queue') : state'[queue'[i]] = "queued" /\ queue'[i] # cur'
      BY <2>q, <2>u, <2>s, <3>1, <3>2
    <3>4. \A i, k \in 1..Len(queue') : i # k => queue'[i] # queue'[k]
      BY <2>q, <2>u, <3>1 DEF QueueInv
    <3> QED BY <3>3, <3>4 DEF QueueInv
  <2>5. DataInv'
    BY <1>4, <2>s DEF SubmitEnqueue, DataInv
  <2>6. ClientInv'
    <3>0. cjob[c] # NoJob
      BY ConstantsAssumption
    <3>1. \A d \in Clients : d # c => cpc'[d] = cpc[d] /\ cjob[d] # cjob[c]
      <4>1. \A d \in Clients : d # c => cpc'[d] = cpc[d]
        BY <1>4 DEF SubmitEnqueue, TypeOK
      <4>2. \A d \in Clients : d # c => cjob[d] # cjob[c]
        BY <3>0 DEF ClientInv
      <4> QED BY <4>1, <4>2
    <3>2. cpc'[c] = "notify" /\ cjob' = cjob
      BY <1>4 DEF SubmitEnqueue, TypeOK
    <3>3. \A d \in Clients : cpc[d] # "idle" => cjob[d] \in Jobs
      BY CallJob
    <3> QED BY <2>s, <3>1, <3>2, <3>3, ConstantsAssumption DEF ClientInv
  <2>7. CancelInv'
    BY <1>4 DEF CancelInv, SubmitEnqueue, TypeOK
  <2>8. SnapshotConsistent'
    BY <1>4, <2>s, SnapshotFields DEF SubmitEnqueue
  <2>9. RepliesTruthful'
    BY <1>4, <2>s DEF SubmitEnqueue, RepliesTruthful
  <2> QED BY <2>1, <2>2, <2>3, <2>4, <2>5, <2>6, <2>7, <2>8, <2>9 DEF IInv
<1>5. ASSUME NEW c \in Clients, SubmitNotify(c) PROVE IInv'
  <2> cjob[c] \in Jobs
    BY <1>5, CallJob DEF SubmitNotify
  <2>1. QueueInv' /\ SnapshotConsistent'
    BY <1>5, Frame DEF SubmitNotify, Notified, jobVars
  <2>2. TypeOK'
    <3>1. CASE csync[c]
      BY <1>5, <3>1 DEF SubmitNotify, Notified, TypeOK, WorkerPcs, ClientPcs, jobVars
    <3>2. CASE ~csync[c]
      BY <1>5, <3>2 DEF SubmitNotify, Notified, TypeOK, WorkerPcs, ClientPcs, Replies, jobVars
    <3> QED BY <3>1, <3>2
  <2>3. WorkerInv'
    BY <1>5 DEF WorkerInv, SubmitNotify, Notified, Busy, Executing, jobVars
  <2>4. OwnerInv'
    BY <1>5 DEF OwnerInv, SubmitNotify, Notified
  <2>5. DataInv'
    BY <1>5 DEF DataInv, SubmitNotify, Notified, WorkerInv, Executing, jobVars
  <2>6. ClientInv'
    <3>1. CASE csync[c]
      <4>1. cpc' = [cpc EXCEPT ![c] = "wait"] /\ cjob' = cjob /\ state' = state
        BY <1>5, <3>1 DEF SubmitNotify, Notified, jobVars
      <4>2. cpc'[c] = "wait" /\ \A d \in Clients : d # c => cpc'[d] = cpc[d]
        BY <4>1 DEF TypeOK
      <4> QED BY <1>5, <4>1, <4>2 DEF ClientInv, SubmitNotify
    <3>2. CASE ~csync[c]
      <4>1. cpc' = [cpc EXCEPT ![c] = "idle"] /\ cjob' = [cjob EXCEPT ![c] = NoJob]
            /\ state' = state
        BY <1>5, <3>2 DEF SubmitNotify, Notified, jobVars
      <4> QED BY <4>1, LeaveCall
    <3> QED BY <3>1, <3>2
  <2>7. CancelInv'
    BY <1>5 DEF CancelInv, SubmitNotify, Notified, jobVars
  <2>8. TaskHasHardware'
    BY <1>5 DEF TaskHasHardware, SubmitNotify, Notified
  <2>9. RepliesTruthful'
    <3>1. CASE csync[c]
      BY <1>5, <3>1, Frame DEF SubmitNotify, jobVars
    <3>2. CASE ~csync[c]
      <4>1. reply' = [reply EXCEPT ![cjob[c]] = "job_id"] /\ state' = state
        BY <1>5, <3>2 DEF SubmitNotify, jobVars
      <4>2. reply'[cjob[c]] = "job_id"
            /\ \A j \in Jobs : j # cjob[c] => reply'[j] = reply[j]
        BY <4>1 DEF TypeOK
      <4> QED BY <4>1, <4>2 DEF RepliesTruthful
    <3> QED BY <3>1, <3>2
  <2> QED BY <2>1, <2>2, <2>3, <2>4, <2>5, <2>6, <2>7, <2>8, <2>9 DEF IInv
<1>6. ASSUME NEW c \in Clients, SyncDone(c) PROVE IInv'
  <2> cjob[c] \in Jobs
    BY <1>6, CallJob DEF SyncDone
  <2>1. WorkerInv' /\ OwnerInv' /\ QueueInv' /\ DataInv' /\ CancelInv' /\
       TaskHasHardware' /\ SnapshotConsistent'
    BY <1>6, Frame DEF SyncDone, SyncReturn, Answer, Snapshot, Terminal, execVars,
         jobVars
  <2>2. TypeOK'
    BY <1>6 DEF TypeOK, SyncDone, SyncReturn, Answer, Snapshot, Terminal, ClientPcs,
         Replies, execVars, jobVars
  <2>3. ClientInv'
    <3>1. cpc' = [cpc EXCEPT ![c] = "idle"] /\ cjob' = [cjob EXCEPT ![c] = NoJob]
          /\ state' = state
      BY <1>6 DEF SyncDone, SyncReturn, jobVars
    <3> QED BY <3>1, LeaveCall
  <2>4. RepliesTruthful'
    <3>1. reply' = [reply EXCEPT ![cjob[c]] = Answer(Snapshot(cjob[c]))] /\ state' = state
      BY <1>6 DEF SyncDone, SyncReturn, jobVars
    <3>2. state[cjob[c]] \in Terminal
      BY <1>6 DEF SyncDone
    <3>3. reply'[cjob[c]] = Answer(Snapshot(cjob[c]))
          /\ \A j \in Jobs : j # cjob[c] => reply'[j] = reply[j]
      BY <3>1 DEF TypeOK
    <3>4. state[cjob[c]] = "complete" => Snapshot(cjob[c]).result = "value"
      BY DEF SnapshotConsistent, Snapshot
    <3>5. /\ state[cjob[c]] = "complete"  => reply'[cjob[c]] = "result"
          /\ state[cjob[c]] = "failed"    => reply'[cjob[c]] = "error"
          /\ state[cjob[c]] = "cancelled" => reply'[cjob[c]] = "cancelled"
      BY <3>3, <3>4 DEF Answer, Snapshot
    <3> QED BY <3>1, <3>2, <3>3, <3>5 DEF RepliesTruthful, Terminal
  <2> QED BY <2>1, <2>2, <2>3, <2>4 DEF IInv
<1>7. ASSUME NEW c \in Clients, SyncTimeout(c) PROVE IInv'
  <2> cjob[c] \in Jobs
    BY <1>7, CallJob DEF SyncTimeout
  <2>1. WorkerInv' /\ OwnerInv' /\ QueueInv' /\ DataInv' /\ CancelInv' /\
       TaskHasHardware' /\ SnapshotConsistent'
    BY <1>7, Frame DEF SyncTimeout, SyncReturn, Terminal, execVars, jobVars
  <2>2. TypeOK'
    BY <1>7 DEF TypeOK, SyncTimeout, SyncReturn, Terminal, ClientPcs, Replies,
         execVars, jobVars
  <2>3. ClientInv'
    <3>1. cpc' = [cpc EXCEPT ![c] = "idle"] /\ cjob' = [cjob EXCEPT ![c] = NoJob]
          /\ state' = state
      BY <1>7 DEF SyncTimeout, SyncReturn, jobVars
    <3> QED BY <3>1, LeaveCall
  <2>4. RepliesTruthful'
    BY <1>7 DEF RepliesTruthful, SyncTimeout, SyncReturn, Terminal, TypeOK, jobVars
  <2> QED BY <2>1, <2>2, <2>3, <2>4 DEF IInv
<1> QED BY <1>1, <1>2, <1>3, <1>4, <1>5, <1>6, <1>7 DEF Client, ClientRest

-----------------------------------------------------------------------------
(***************************************************************************)
(* The theorems.                                                           *)
(***************************************************************************)

\* The invariant holds before the executor is started.
LEMMA InitIInv == Init => IInv
<1> SUFFICES ASSUME Init PROVE IInv
  OBVIOUS
<1>0. queue = <<>> /\ starts = 0
  BY DEF Init
<1>1. TypeOK
  <2>1. starts \in Nat /\ queue \in Seq(Jobs)
    BY <1>0
  <2> QED
    BY <2>1 DEF Init, TypeOK, WorkerPcs, OwnerPcs, States, ClientPcs, Replies
<1>2. QueueInv
  BY <1>0 DEF QueueInv
<1>3. WorkerInv /\ OwnerInv /\ DataInv
  BY DEF Init, WorkerInv, OwnerInv, DataInv, Busy, Executing
<1>4. ClientInv /\ CancelInv /\ TaskHasHardware /\ RepliesTruthful
  BY DEF Init, ClientInv, CancelInv, TaskHasHardware, RepliesTruthful
<1>5. SnapshotConsistent
  BY SnapshotFields DEF Init
<1> QED
  BY <1>1, <1>2, <1>3, <1>4, <1>5 DEF IInv

\* Every step of every thread keeps the invariant.
LEMMA NextIInv == IInv /\ [Next]_vars => IInv'
<1> SUFFICES ASSUME IInv, [Next]_vars PROVE IInv'
  OBVIOUS
<1>1. CASE UNCHANGED vars
  <2>1. TypeOK'
    BY <1>1 DEF IInv, TypeOK, vars, execVars, jobVars, bridgeVars
  <2> QED
    BY <1>1, <2>1, Frame DEF IInv, vars, execVars, jobVars, bridgeVars
<1> QED
  BY <1>1, OwnerStep, WorkerStep, ClientStep DEF Next

\* The inductive invariant holds in every reachable state.
THEOREM Invariance == Spec => []IInv
  BY InitIInv, NextIInv, PTL DEF Spec

\* No interleaving of the owner, the worker and the clients leaves a variable
\* outside its type.
THEOREM TypeCorrect == Spec => []TypeOK
<1>1. IInv => TypeOK
  BY DEF IInv
<1> QED BY <1>1, Invariance, PTL

\* Neither the idle timeout nor shutdown() takes the device away from a
\* running task.
THEOREM HardwareSafety == Spec => []TaskHasHardware
<1>1. IInv => TaskHasHardware
  BY DEF IInv
<1> QED BY <1>1, Invariance, PTL

\* No poll of a job, at whatever moment, sees a terminal state with the data
\* of another one.
THEOREM PollSafety == Spec => []SnapshotConsistent
<1>1. IInv => SnapshotConsistent
  BY DEF IInv
<1> QED BY <1>1, Invariance, PTL

\* A cancel request made before the worker's last look at the flag keeps the
\* job from completing.
THEOREM CancelSafety == Spec => []CancelHonoured
<1>1. IInv => CancelHonoured
  BY DEF IInv, CancelInv, CancelHonoured
<1> QED BY <1>1, Invariance, PTL

\* What submitSync() answered is how the job ended.
THEOREM ReplySafety == Spec => []RepliesTruthful
<1>1. IInv => RepliesTruthful
  BY DEF IInv
<1> QED BY <1>1, Invariance, PTL

---------------------------------------------------------------------------
(* The executor, with its threads, locks and timeouts, implements the      *)
(* serial FIFO job service of JobService.                                  *)

\* A waiting job in front of the queue, seen as one sequence.
LEMMA FrontFacts ==
  ASSUME NEW q \in Seq(Jobs), NEW k \in Jobs
  PROVE  /\ <<k>> \o q # <<>> /\ Head(<<k>> \o q) = k /\ Tail(<<k>> \o q) = q
         /\ \A j \in Jobs : Append(<<k>> \o q, j) = <<k>> \o Append(q, j)
  OBVIOUS

\* The four mapped variables after a step that leaves alone what they are
\* made of.
LEMMA Stutter ==
  ASSUME UNCHANGED <<queue, cur, state, cancel_requested>>,
         worker' \in {"check", "start"} <=> worker \in {"check", "start"},
         worker' \in Executing <=> worker \in Executing
  PROVE  UNCHANGED <<Pending, Active, Outcome, Asked>>
  BY DEF Pending, Active, Outcome, Asked

\* Owner steps are invisible to the callers of the service.
LEMMA OwnerRefines == IInv /\ Owner => UNCHANGED <<Pending, Active, Outcome, Asked>>
<1> SUFFICES ASSUME IInv, Owner PROVE UNCHANGED <<Pending, Active, Outcome, Asked>>
  OBVIOUS
<1>1. UNCHANGED <<queue, cur, state, cancel_requested>>
  BY DEF Owner, Start, StartWorker, Launch, ShutdownStop, ShutdownRest, ShutdownNotify,
         ShutdownJoin, ShutdownClear, ShutdownClose, jobVars
<1>2. worker' = worker \/ (worker \in {"none", "sleep", "exited"}
      /\ worker' \in {"loop", "none"})
  BY DEF Owner, Start, StartWorker, Launch, ShutdownStop, ShutdownRest, ShutdownNotify,
         ShutdownJoin, ShutdownClear, ShutdownClose, Notified, IInv, OwnerInv
<1> QED BY <1>1, <1>2, Stutter DEF Executing

\* What an outcome becomes when the worker gives its job a terminal state.
LEMMA OutcomeEnds ==
  ASSUME TypeOK, cur \in Jobs, NEW s \in Terminal, state' = [state EXCEPT ![cur] = s]
  PROVE  Outcome' = [Outcome EXCEPT ![cur] = s]
<1>1. state'[cur] = s /\ \A j \in Jobs : j # cur => state'[j] = state[j]
  BY SetState
<1> QED BY <1>1 DEF Outcome

\* ... and when the new state is not terminal.
LEMMA OutcomeKept ==
  ASSUME \A j \in Jobs : state'[j] = state[j] \/ {state[j], state'[j]} \cap Terminal = {}
  PROVE  Outcome' = Outcome
  BY DEF Outcome

\* Each step of workerLoop() is a step of the service or invisible: the job
\* leaves the service's queue when it is marked running, not when it is
\* popped, and ends at the final setState().
LEMMA WorkerRefines == IInv /\ Worker => [Service!Next]_<<Pending, Active, Outcome, Asked>>
<1> SUFFICES ASSUME IInv, Worker PROVE [Service!Next]_<<Pending, Active, Outcome, Asked>>
  OBVIOUS
<1>t. TypeOK /\ WorkerInv /\ queue \in Seq(Jobs)
  BY DEF IInv, TypeOK
<1>1. CASE WorkerExit \/ WorkerSleep \/ WorkerIdleTimeout \/ WorkerProceed \/ WorkerOpen
           \/ WorkerOpenFails \/ TaskReturns \/ TaskThrows \/ WorkerKeep \/ WorkerSetResult
  <2>1. UNCHANGED <<queue, cur, state, cancel_requested>>
    BY <1>1 DEF WorkerExit, WorkerSleep, WorkerIdleTimeout, WorkerProceed, WorkerOpen,
           WorkerOpenFails, TaskReturns, TaskThrows, WorkerSetError, WorkerKeep,
           WorkerSetResult, jobVars
  <2>2. \/ worker \in Executing /\ worker' \in Executing
        \/ worker \in {"check", "start"} /\ worker' \in {"check", "start"}
        \/ worker \in {"loop", "sleep"} /\ worker' \in {"loop", "sleep", "exited"}
    BY <1>1 DEF WorkerExit, WorkerSleep, WorkerIdleTimeout, WorkerProceed, WorkerOpen,
           WorkerOpenFails, TaskReturns, TaskThrows, WorkerSetError, WorkerKeep,
           WorkerSetResult, Executing
  <2>3. UNCHANGED <<Pending, Active, Outcome, Asked>>
    BY <2>1, <2>2, Stutter DEF Executing
  <2> QED BY <2>3
<1>2. CASE WorkerPop
  <2>1. /\ worker = "loop" /\ worker' = "check" /\ queue # <<>>
        /\ cur' = Head(queue) /\ queue' = Tail(queue)
        /\ state' = state /\ cancel_requested' = cancel_requested
    BY <1>2 DEF WorkerPop, jobVars
  <2>2. <<Head(queue)>> \o Tail(queue) = queue
    BY <1>t, <2>1
  <2>3. Pending' = Pending
    BY <2>1, <2>2 DEF Pending
  <2>4. UNCHANGED <<Active, Outcome, Asked>>
    BY <2>1 DEF Active, Outcome, Asked, Executing
  <2> QED BY <2>3, <2>4
<1>3. CASE WorkerSkip
  <2>1. /\ worker = "check" /\ worker' = "loop" /\ cancel_requested[cur]
        /\ state' = [state EXCEPT ![cur] = "cancelled"]
        /\ UNCHANGED <<queue, cancel_requested>>
    BY <1>3 DEF WorkerSkip
  <2>2. cur \in Jobs
    BY <1>t, <2>1, BusyJob DEF Busy
  <2>3. Pending # <<>> /\ Head(Pending) = cur /\ Tail(Pending) = queue /\ Pending' = queue
    BY <1>t, <2>1, <2>2, FrontFacts DEF Pending
  <2>4. Active = NoJob /\ Active' = NoJob /\ Asked' = Asked /\ cur \in Asked
    BY <2>1, <2>2 DEF Active, Executing, Asked
  <2>5. Outcome' = [Outcome EXCEPT ![cur] = "cancelled"]
    BY <1>t, <2>1, <2>2, OutcomeEnds DEF Terminal
  <2> QED BY <2>3, <2>4, <2>5 DEF Service!Next, Service!Drop
<1>4. CASE WorkerSetRunning
  <2>1. /\ worker = "start" /\ worker' = "open" /\ cur' = cur
        /\ state' = [state EXCEPT ![cur] = "running"]
        /\ UNCHANGED <<queue, cancel_requested>>
    BY <1>4 DEF WorkerSetRunning
  <2>2. cur \in Jobs /\ state[cur] = "queued"
    BY <1>t, <2>1, BusyJob DEF Busy, WorkerInv
  <2>3. Pending # <<>> /\ Head(Pending) = cur /\ Tail(Pending) = queue /\ Pending' = queue
    BY <1>t, <2>1, <2>2, FrontFacts DEF Pending
  <2>4. Active = NoJob /\ Active' = cur /\ Asked' = Asked
    BY <2>1 DEF Active, Executing, Asked
  <2>5. state'[cur] = "running" /\ \A j \in Jobs : j # cur => state'[j] = state[j]
    BY <1>t, <2>1, <2>2, SetState
  <2>6. Outcome' = Outcome
    BY <2>2, <2>5, OutcomeKept DEF Terminal
  <2> QED BY <2>3, <2>4, <2>6 DEF Service!Next, Service!Begin
<1>5. CASE WorkerDiscard \/ WorkerSetComplete \/ WorkerSetFailed
  <2>1. PICK s \in Terminal :
          /\ state' = [state EXCEPT ![cur] = s]
          /\ s = "cancelled" => cancel_requested[cur]
          /\ worker \in Executing /\ worker' = "loop"
          /\ UNCHANGED <<queue, cancel_requested>>
    BY <1>5 DEF WorkerDiscard, WorkerSetComplete, WorkerSetFailed, Terminal, Executing
  <2>2. cur \in Jobs
    BY <1>t, <2>1, BusyJob DEF Busy, Executing
  <2>3. Pending' = Pending /\ Asked' = Asked
    BY <2>1 DEF Pending, Asked, Executing
  <2>4. Active = cur /\ Active' = NoJob /\ cur # NoJob
    BY <2>1, <2>2, ConstantsAssumption DEF Active, Executing
  <2>5. Outcome' = [Outcome EXCEPT ![cur] = s]
    BY <1>t, <2>1, <2>2, OutcomeEnds
  <2>6. s = "cancelled" => cur \in Asked
    BY <2>1, <2>2 DEF Asked
  <2>7. Service!End(s)
    BY <2>3, <2>4, <2>5, <2>6 DEF Service!End
  <2>8. s \in Service!Outcomes
    BY DEF Terminal, Service!Outcomes
  <2> QED BY <2>7, <2>8 DEF Service!Next
<1> QED BY <1>1, <1>2, <1>3, <1>4, <1>5 DEF Worker

\* A client's step is invisible, or it is the acceptance of its job or a
\* request to cancel one.
LEMMA ClientRefines ==
  ASSUME IInv, NEW c \in Clients, Client(c)
  PROVE  [Service!Next]_<<Pending, Active, Outcome, Asked>>
<1>t. TypeOK /\ WorkerInv /\ QueueInv /\ ClientInv /\ queue \in Seq(Jobs)
  BY DEF IInv, TypeOK
<1>1. CASE SubmitEnqueue(c)
  <2> DEFINE j == cjob[c]
  <2>1. /\ queue' = Append(queue, j) /\ state' = [state EXCEPT ![j] = "queued"]
        /\ UNCHANGED <<worker, cur, cancel_requested>>
    BY <1>1 DEF SubmitEnqueue
  <2>2. j \in Jobs /\ state[j] = "none"
    BY <1>t, <1>1, CallJob DEF SubmitEnqueue, ClientInv
  <2>3. state'[j] = "queued" /\ \A k \in Jobs : k # j => state'[k] = state[k]
    BY <1>t, <2>1, <2>2 DEF TypeOK
  <2>4. worker \in Busy => cur \in Jobs /\ cur # j
    BY <1>t, <2>2, BusyJob
  <2>5. Pending' = Append(Pending, j)
    <3>1. CASE worker \in {"check", "start"}
      BY <1>t, <2>1, <2>2, <2>4, <3>1, FrontFacts DEF Pending, Busy
    <3>2. CASE worker \notin {"check", "start"}
      BY <2>1, <3>2 DEF Pending
    <3> QED BY <3>1, <3>2
  <2>6. UNCHANGED <<Active, Asked>> /\ Active # j
    BY <2>1, <2>2, <2>4, ConstantsAssumption DEF Active, Asked, Executing, Busy
  <2>7. Outcome' = Outcome /\ Outcome[j] = "none"
    BY <2>2, <2>3, OutcomeKept DEF Terminal, Outcome
  <2>8. \A i \in DOMAIN Pending : Pending[i] # j
    <3>1. \A i \in 1..Len(queue) : queue[i] # j
      BY <1>t, <2>2 DEF QueueInv
    <3>2. CASE worker \in {"check", "start"}
      <4>1. cur \in Jobs /\ cur # j
        BY <2>4, <3>2 DEF Busy
      <4>2. Pending = <<cur>> \o queue
        BY <3>2 DEF Pending
      <4>3. \A i \in DOMAIN (<<cur>> \o queue) : (<<cur>> \o queue)[i] # j
        BY <1>t, <3>1, <4>1
      <4> QED BY <4>2, <4>3
    <3>3. CASE worker \notin {"check", "start"}
      BY <1>t, <3>1, <3>3 DEF Pending
    <3> QED BY <3>2, <3>3
  <2>9. Service!Accept(j)
    BY <2>5, <2>6, <2>7, <2>8 DEF Service!Accept, Service!Accepted
  <2> QED BY <2>2, <2>9 DEF Service!Next
<1>2. ASSUME NEW j \in Jobs, CancelJob(c, j)
      PROVE  [Service!Next]_<<Pending, Active, Outcome, Asked>>
  <2>1. /\ UNCHANGED <<worker, cur, queue, state>>
        /\ cancel_requested' = [cancel_requested EXCEPT ![j] = TRUE]
    BY <1>2 DEF CancelJob, execVars
  <2>2. \A k \in Jobs : cancel_requested'[k] <=> (cancel_requested[k] \/ k = j)
    BY <1>t, <2>1 DEF TypeOK
  <2>3. Asked' = Asked \cup {j}
    BY <2>2 DEF Asked
  <2>4. UNCHANGED <<Pending, Active, Outcome>>
    BY <2>1 DEF Pending, Active, Outcome
  <2> QED BY <2>3, <2>4 DEF Service!Next, Service!Ask
<1>3. CASE \/ \E j \in Jobs : \/ \E sync \in BOOLEAN : SubmitCheck(c, j, sync)
                              \/ SubmitReject(c, j)
           \/ SubmitNotify(c) \/ SyncDone(c) \/ SyncTimeout(c)
  <2>1. UNCHANGED <<queue, cur, state, cancel_requested>>
    BY <1>3 DEF SubmitCheck, SubmitReject, SubmitNotify, SyncDone, SyncTimeout, SyncReturn,
                execVars, jobVars
  <2>2. worker' = worker \/ (worker = "sleep" /\ worker' = "loop")
    BY <1>3 DEF SubmitCheck, SubmitReject, SubmitNotify, Notified, SyncDone, SyncTimeout,
                SyncReturn, execVars
  <2>3. UNCHANGED <<Pending, Active, Outcome, Asked>>
    BY <2>1, <2>2, Stutter DEF Executing
  <2> QED BY <2>3
<1> QED BY <1>1, <1>2, <1>3 DEF Client, ClientRest

-----------------------------------------------------------------------------

\* The executor with its threads, locks and timeouts implements the serial
\* FIFO job service.
THEOREM Refinement == Spec => ImplementsJobService
<1>1. Init => Service!Init
  BY DEF Init, Service!Init, Pending, Active, Outcome, Asked, Executing, Terminal
<1>2. IInv /\ [Next]_vars => [Service!Next]_<<Pending, Active, Outcome, Asked>>
  <2> SUFFICES ASSUME IInv, [Next]_vars
               PROVE  [Service!Next]_<<Pending, Active, Outcome, Asked>>
    OBVIOUS
  <2>1. CASE UNCHANGED vars
    BY <2>1, Stutter DEF vars, execVars, jobVars
  <2> QED
    BY <2>1, OwnerRefines, WorkerRefines, ClientRefines DEF Next
<1> QED
  BY <1>1, <1>2, Invariance, PTL
     DEF Spec, ImplementsJobService, Service!Spec, Service!svars
=============================================================================
