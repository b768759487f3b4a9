--------------------------- MODULE AppWindowProofs ---------------------------
(***************************************************************************)
(* The client that the GUI's threads share: answers reach the calls they   *)
(* belong to, no promise is left behind but by an exception, and no        *)
(* running capture job is lost, for any number of inputs, faults and       *)
(* capture jobs.                                                           *)
(*                                                                         *)
(* ClientInv says so of the client: ids are handed out once, and those     *)
(* that an exception abandons belong to no call any more (IdInv); a        *)
(* message under way that carries the id of a call in progress is about    *)
(* that call's request, and none carries an abandoned id (MatchInv). A     *)
(* thread that began a call while its last one waits would leave its       *)
(* promise behind; that none does is what MainInv, OthersInv and ConnBusy  *)
(* say of the places the three threads are at.                             *)
(*                                                                         *)
(* JobInv says that the daemon's running capture job is the one the GUI    *)
(* knows: what answers say of jobs stays true (TruthInv), the main thread  *)
(* is in the call its place says (CallInv), and between capture_start and  *)
(* the job's id the one request, the one answer or the call itself tells   *)
(* of the job (StartInv, HeldInv). RestTypes has the other variables.      *)
(***************************************************************************)
EXTENDS AppWindow, TLAPS

\* What goes over the connection.
Methods == {"capture_stop", "capture_get_samples", "load_bsdl", "list_pins", "capture_start",
            "sample_bsr", "run_script", "program_pl", "detect_devices"}
Asked == Methods \X Nat
Requests == [id : Nat, req : Asked]
Answers == [id : Nat, req : Asked, ok : BOOLEAN, job : Nat, terminal : BOOLEAN]
Calls == [pc : CallPcs, id : Nat, req : Asked \cup {<<>>}, ans : Answers \cup {<<>>}]

\* The part of the client that the properties depend on.
pvars == <<call, pending, abandoned, next_id, to_server, to_client>>

---------------------------------------------------------------------------
(* The client's part of the invariant                                      *)

ClientTypes ==
  /\ call \in [Threads -> Calls] /\ next_id \in Nat
  /\ to_server \in Seq(Requests) /\ to_client \in Seq(Answers)
  /\ \A t \in Threads : call[t].pc # "idle" => call[t].req \in Asked
  /\ \A t \in Threads : call[t].pc = "ok" => call[t].ans \in Answers

\* Ids under way have been handed out, and are not handed out again. A call in
\* progress has its id for itself.
Active(t) == call[t].pc \in InProgress
IdInv ==
  /\ \A t \in Threads : Active(t) => call[t].id < next_id /\ call[t].id \notin abandoned
  /\ \A t, u \in Threads : Active(t) /\ Active(u) /\ call[t].id = call[u].id => t = u
  /\ \A i \in abandoned : i \in Nat /\ i < next_id
  /\ \A i \in DOMAIN to_server : to_server[i].id < next_id
  /\ \A i \in DOMAIN to_client : to_client[i].id < next_id

\* A message that carries the id of a call in progress is about that call's
\* request, which has been sent; no message carries an abandoned id.
Matches(m) ==
  /\ m.id \notin abandoned
  /\ \A t \in Threads : Active(t) /\ call[t].id = m.id => call[t].pc = "wait" /\ m.req = call[t].req
MatchInv ==
  /\ \A i \in DOMAIN to_server : Matches(to_server[i])
  /\ \A i \in DOMAIN to_client : Matches(to_client[i])

\* A promise that was abandoned stays registered: no answer takes it away.
PromiseInv == abandoned \subseteq pending /\ NoLeakedPromise

ClientInv == ClientTypes /\ IdInv /\ MatchInv /\ AnswersOwn /\ PromiseInv

---------------------------------------------------------------------------
(* What the steps of the program do to the client                          *)

NetStill == UNCHANGED <<pending, abandoned, next_id, to_server, to_client>>
Begins(t) == /\ call[t].pc \in {"idle", "ok", "failed"}
             /\ \E r \in Asked : CallBegin(t, r)
             /\ NetStill
Ends(t) == /\ call[t].pc \in {"ok", "failed"}
           /\ call' = [call EXCEPT ![t] = Idle]
           /\ NetStill
Fails == failAllPending /\ UNCHANGED <<next_id, to_server, to_client>>
Cuts == /\ to_server' = <<>> /\ to_client' \in {<<>>, to_client}
        /\ UNCHANGED <<call, pending, abandoned, next_id>>
Serves == /\ to_server # <<>> /\ to_server' = Tail(to_server)
          /\ \E a \in Answers : /\ a.id = Head(to_server).id /\ a.req = Head(to_server).req
                                /\ to_client' = Append(to_client, a)
          /\ UNCHANGED <<call, pending, abandoned, next_id>>
Calling(t) == CallStep(t)

\* Steps that leave it open whether a thread is in a call, and steps that do not.
QuietStep == \/ UNCHANGED pvars \/ ReaderMatch \/ Fails \/ Cuts \/ Serves
             \/ \E t \in Threads : Calling(t)
ClientStep == QuietStep \/ \E t \in Threads : Begins(t) \/ Ends(t)

\* Which threads are in a call does not change.
SameCallers == \A t \in Threads : call'[t].pc = "idle" <=> call[t].pc = "idle"

\* A thread that is in no call.
LEMMA IdleCall == Idle \in Calls /\ Idle.pc = "idle"
  BY DEF Idle, Calls, CallPcs

\* One call changes, the others do not.
LEMMA OneCall ==
  ASSUME call \in [Threads -> Calls], NEW t \in Threads, NEW c \in Calls,
         call' = [call EXCEPT ![t] = c]
  PROVE  /\ call' \in [Threads -> Calls] /\ call'[t] = c
         /\ \A u \in Threads : u # t => call'[u] = call[u]
  OBVIOUS

\* The elements of sequences that grow and shrink.
LEMMA Elements ==
  ASSUME NEW S, NEW s \in Seq(S)
  PROVE  \A i \in DOMAIN s : s[i] \in S
  BY SMT

\* A sequence that grows has one element more.
LEMMA AppendElements ==
  ASSUME NEW S, NEW s \in Seq(S), NEW x \in S
  PROVE  /\ Append(s, x) \in Seq(S)
         /\ \A i \in DOMAIN Append(s, x) :
               Append(s, x)[i] = x \/ \E j \in DOMAIN s : Append(s, x)[i] = s[j]
<1>1. Append(s, x) \in Seq(S) /\ DOMAIN Append(s, x) = 1 .. Len(s) + 1 /\ DOMAIN s = 1 .. Len(s)
      /\ Len(s) \in Nat
  BY SMT
<1>2. ASSUME NEW i \in DOMAIN Append(s, x), i # Len(s) + 1
      PROVE  i \in DOMAIN s /\ Append(s, x)[i] = s[i]
  <2>1. i \in 1 .. Len(s)
    BY <1>1, <1>2
  <2> QED BY <1>1, <2>1
<1>3. Append(s, x)[Len(s) + 1] = x
  BY <1>1
<1> QED BY <1>1, <1>2, <1>3

\* A sequence that loses its first element has no new ones.
LEMMA TailElements ==
  ASSUME NEW S, NEW s \in Seq(S), s # <<>>
  PROVE  /\ Head(s) \in S /\ Tail(s) \in Seq(S)
         /\ \E j \in DOMAIN s : Head(s) = s[j]
         /\ \A i \in DOMAIN Tail(s) : \E j \in DOMAIN s : Tail(s)[i] = s[j]
<1>1. Len(s) \in Nat \ {0} /\ DOMAIN s = 1 .. Len(s)
  BY SMT
<1>2. Head(s) = s[1] /\ s[1] \in S /\ Tail(s) \in Seq(S)
  BY <1>1
<1>3. DOMAIN Tail(s) = 1 .. Len(s) - 1 /\ \A i \in 1 .. Len(s) - 1 : Tail(s)[i] = s[i + 1]
  BY <1>1
<1>4. \A i \in DOMAIN Tail(s) : i + 1 \in DOMAIN s
  BY <1>1, <1>3
<1>5. 1 \in DOMAIN s
  BY <1>1
<1> QED BY <1>2, <1>3, <1>4, <1>5

\* Every message under way has an id.
LEMMA MessageTypes ==
  ASSUME ClientTypes
  PROVE  /\ \A i \in DOMAIN to_server : to_server[i].id \in Nat
         /\ \A i \in DOMAIN to_client : to_client[i].id \in Nat
<1>1. to_server \in Seq(Requests) /\ to_client \in Seq(Answers)
  BY DEF ClientTypes
<1>2. \A i \in DOMAIN to_server : to_server[i] \in Requests
  BY <1>1, Elements, Zenon
<1>3. \A i \in DOMAIN to_client : to_client[i] \in Answers
  BY <1>1, Elements, Zenon
<1> QED BY <1>2, <1>3 DEF Requests, Answers

\* A step that takes no message and no call further keeps what is said of the
\* messages that stay. An id that it abandons is of a call that has sent nothing.
LEMMA FewerWaiting ==
  ASSUME ClientInv, next_id' = next_id,
         call' \in [Threads -> Calls],
         \A t \in Threads : Active(t)' =>
            Active(t) /\ call'[t].pc = call[t].pc /\ call'[t].id = call[t].id /\ call'[t].req = call[t].req,
         \A i \in abandoned' : i \in abandoned \/ \E t \in Threads :
            call[t].pc = "send" /\ call[t].id = i /\ ~Active(t)',
         to_server' \in Seq(Requests), to_client' \in Seq(Answers),
         \A i \in DOMAIN to_server' : \E j \in DOMAIN to_server : to_server'[i] = to_server[j],
         \A i \in DOMAIN to_client' :
            \/ \E j \in DOMAIN to_client : to_client'[i] = to_client[j]
            \/ \E j \in DOMAIN to_server : /\ to_client'[i].id = to_server[j].id
                                           /\ to_client'[i].req = to_server[j].req
  PROVE  IdInv' /\ MatchInv'
<1>1. ASSUME NEW i \in abandoned', i \notin abandoned
      PROVE  \E t \in Threads : Active(t) /\ call[t].pc = "send" /\ call[t].id = i /\ ~Active(t)'
  BY <1>1 DEF Active, InProgress
<1>2. \A t \in Threads : call[t].id \in Nat
  BY DEF ClientInv, ClientTypes, Calls
<1>3. IdInv'
  <2>1. \A t \in Threads : Active(t)' => call'[t].id < next_id' /\ call'[t].id \notin abandoned'
    BY <1>1 DEF ClientInv, IdInv
  <2>2. \A t, u \in Threads : Active(t)' /\ Active(u)' /\ call'[t].id = call'[u].id => t = u
    BY DEF ClientInv, IdInv
  <2>3. \A i \in abandoned' : i \in Nat /\ i < next_id'
    BY <1>1, <1>2 DEF ClientInv, IdInv
  <2>4. \A i \in DOMAIN to_server' : to_server'[i].id < next_id'
    BY DEF ClientInv, IdInv
  <2>5. \A i \in DOMAIN to_client' : to_client'[i].id < next_id'
    BY DEF ClientInv, IdInv
  <2> QED BY <2>1, <2>2, <2>3, <2>4, <2>5 DEF IdInv
<1>4. ASSUME NEW m, Matches(m), NEW n, n.id = m.id, n.req = m.req
      PROVE  /\ n.id \notin abandoned'
             /\ \A t \in Threads : Active(t)' /\ call'[t].id = n.id =>
                   call'[t].pc = "wait" /\ n.req = call'[t].req
  <2>1. n.id \notin abandoned'
    BY <1>1, <1>4 DEF Matches
  <2> QED BY <1>4, <2>1 DEF Matches
<1>5. MatchInv'
  <2>1. ASSUME NEW i \in DOMAIN to_server' PROVE Matches(to_server[i])'
    <3>1. PICK j \in DOMAIN to_server : to_server'[i] = to_server[j]
      OBVIOUS
    <3>2. Matches(to_server[j])
      BY DEF ClientInv, MatchInv
    <3> QED BY <1>4, <3>1, <3>2 DEF Matches
  <2>2. ASSUME NEW i \in DOMAIN to_client' PROVE Matches(to_client[i])'
    <3>1. CASE \E j \in DOMAIN to_client : to_client'[i] = to_client[j]
      <4>1. PICK j \in DOMAIN to_client : to_client'[i] = to_client[j]
        BY <3>1
      <4>2. Matches(to_client[j])
        BY DEF ClientInv, MatchInv
      <4> QED BY <1>4, <4>1, <4>2 DEF Matches
    <3>2. CASE \E j \in DOMAIN to_server : /\ to_client'[i].id = to_server[j].id
                                           /\ to_client'[i].req = to_server[j].req
      <4>1. PICK j \in DOMAIN to_server : /\ to_client'[i].id = to_server[j].id
                                          /\ to_client'[i].req = to_server[j].req
        BY <3>2
      <4>2. Matches(to_server[j])
        BY DEF ClientInv, MatchInv
      <4> QED BY <1>4, <4>1, <4>2 DEF Matches
    <3> QED BY <3>1, <3>2
  <2> QED BY <2>1, <2>2 DEF MatchInv
<1> QED BY <1>3, <1>5

\* The same for a step that leaves all messages where they are.
LEMMA MessagesStay ==
  ASSUME ClientInv, UNCHANGED <<next_id, to_server, to_client>>,
         call' \in [Threads -> Calls],
         \A t \in Threads : Active(t)' =>
            Active(t) /\ call'[t].pc = call[t].pc /\ call'[t].id = call[t].id /\ call'[t].req = call[t].req,
         \A i \in abandoned' : i \in abandoned \/ \E t \in Threads :
            call[t].pc = "send" /\ call[t].id = i /\ ~Active(t)'
  PROVE  IdInv' /\ MatchInv'
<1>1. to_server \in Seq(Requests) /\ to_client \in Seq(Answers)
  BY DEF ClientInv, ClientTypes
<1> QED BY <1>1, FewerWaiting

\* A call changes and is not in progress afterwards: its promise goes, or an
\* exception abandons it before the request is sent.
LEMMA CallMoves ==
  ASSUME ClientInv, NEW t \in Threads, NEW c \in Calls, call' = [call EXCEPT ![t] = c],
         c.pc \notin InProgress, c.pc # "idle" => c.req \in Asked, c.pc # "ok",
         \/ ~Active(t) /\ UNCHANGED <<pending, abandoned>>
         \/ Active(t) /\ pending' = pending \ {call[t].id} /\ abandoned' = abandoned
         \/ call[t].pc = "send" /\ pending' = pending
            /\ abandoned' = abandoned \cup (pending \cap {call[t].id}),
         UNCHANGED <<next_id, to_server, to_client>>
  PROVE  ClientInv'
<1>1. call \in [Threads -> Calls]
  BY DEF ClientInv, ClientTypes
<1>2. /\ call' \in [Threads -> Calls] /\ call'[t] = c
      /\ \A u \in Threads : u # t => call'[u] = call[u]
  BY <1>1, OneCall
<1>3. ClientTypes'
  BY <1>2 DEF ClientInv, ClientTypes
<1>4. IdInv' /\ MatchInv'
  <2>1. \A u \in Threads : Active(u)' =>
          Active(u) /\ call'[u].pc = call[u].pc /\ call'[u].id = call[u].id /\ call'[u].req = call[u].req
    BY <1>2 DEF Active
  <2>2. \A i \in abandoned' : i \in abandoned \/ \E u \in Threads :
          call[u].pc = "send" /\ call[u].id = i /\ ~Active(u)'
    BY <1>2 DEF Active
  <2> QED BY <1>2, <2>1, <2>2, MessagesStay
<1>5. AnswersOwn'
  BY <1>2 DEF ClientInv, AnswersOwn
<1>6. abandoned' \subseteq pending'
  BY DEF ClientInv, PromiseInv, IdInv
<1>7. NoLeakedPromise'
  <2> SUFFICES ASSUME NEW i \in pending' \ abandoned'
               PROVE  \E u \in Threads : call'[u].pc \in InProgress /\ call'[u].id = i
    BY DEF NoLeakedPromise
  <2>1. PICK u \in Threads : call[u].pc \in InProgress /\ call[u].id = i
    BY DEF ClientInv, PromiseInv, NoLeakedPromise
  <2>2. u # t
    BY <2>1 DEF Active, InProgress
  <2> QED BY <1>2, <2>1, <2>2
<1> QED BY <1>3, <1>4, <1>5, <1>6, <1>7 DEF ClientInv, PromiseInv

\* A thread that begins a call (CallBegin) is in one; no other thread is disturbed.
LEMMA BeginKeeps ==
  ASSUME ClientInv, NEW t \in Threads, Begins(t)
  PROVE  /\ ClientInv' /\ call'[t].pc # "idle"
         /\ \A u \in Threads : u # t => call'[u] = call[u]
<1>1. PICK r \in Asked : CallBegin(t, r)
  BY DEF Begins
<1> DEFINE c == [Idle EXCEPT !.pc = "check", !.req = r]
<1>2. c \in Calls /\ c.pc = "check" /\ c.req \in Asked
  BY DEF Idle, Calls, CallPcs
<1>3. call' = [call EXCEPT ![t] = c]
  BY <1>1 DEF CallBegin
<1> HIDE DEF c
<1>4. ClientInv'
  <2>1. ~Active(t) /\ c.pc \notin InProgress /\ c.pc # "ok"
    BY <1>2 DEF Begins, Active, InProgress
  <2> QED BY <1>2, <1>3, <2>1, CallMoves DEF Begins, NetStill
<1> QED BY <1>2, <1>3, <1>4, OneCall DEF ClientInv, ClientTypes

\* A thread whose call has returned (Returned) is in none.
LEMMA EndKeeps ==
  ASSUME ClientInv, NEW t \in Threads, Ends(t)
  PROVE  /\ ClientInv' /\ call'[t].pc = "idle"
         /\ \A u \in Threads : u # t => call'[u] = call[u]
<1>1. ClientInv'
  <2>1. ~Active(t) /\ Idle.pc \notin InProgress /\ Idle.pc = "idle"
    BY IdleCall DEF Ends, Active, InProgress
  <2> QED BY IdleCall, <2>1, CallMoves DEF Ends, NetStill
<1> QED BY <1>1, IdleCall, OneCall DEF ClientInv, ClientTypes, Ends

\* The test of connected in call() keeps the invariant of the client.
LEMMA CheckKeeps ==
  ASSUME ClientInv, NEW t \in Threads, CallCheck(t)
  PROVE  ClientInv' /\ SameCallers
<1> DEFINE c == [call[t] EXCEPT !.pc = IF connected THEN "register" ELSE "failed"]
<1>1. call[t] \in Calls /\ call[t].req \in Asked /\ call[t].pc = "check"
  BY DEF ClientInv, ClientTypes, CallCheck
<1>2. c \in Calls /\ c.pc \in {"register", "failed"} /\ c.req = call[t].req
  BY <1>1 DEF Calls, CallPcs
<1>3. call' = [call EXCEPT ![t] = c]
  BY DEF CallCheck
<1> HIDE DEF c
<1>4. ClientInv'
  <2>1. ~Active(t) /\ c.pc \notin InProgress /\ c.pc # "ok"
    BY <1>1, <1>2 DEF Active, InProgress
  <2> QED BY <1>1, <1>2, <1>3, <2>1, CallMoves DEF CallCheck, netVars
<1> QED BY <1>1, <1>2, <1>3, <1>4, OneCall DEF ClientInv, ClientTypes, SameCallers

\* A call that times out takes its promise with it.
LEMMA TimeoutKeeps ==
  ASSUME ClientInv, NEW t \in Threads, CallTimeout(t)
  PROVE  ClientInv' /\ SameCallers
<1> DEFINE c == [call[t] EXCEPT !.pc = "failed"]
<1>1. call[t] \in Calls /\ call[t].req \in Asked /\ call[t].pc = "wait"
  BY DEF ClientInv, ClientTypes, CallTimeout
<1>2. c \in Calls /\ c.pc = "failed" /\ c.req = call[t].req
  BY <1>1 DEF Calls, CallPcs
<1>3. call' = [call EXCEPT ![t] = c]
  BY DEF CallTimeout
<1> HIDE DEF c
<1>4. ClientInv'
  <2>1. Active(t) /\ c.pc \notin InProgress /\ c.pc # "ok"
    BY <1>1, <1>2 DEF Active, InProgress
  <2> QED BY <1>1, <1>2, <1>3, <2>1, CallMoves DEF CallTimeout, netVars
<1> QED BY <1>1, <1>2, <1>3, <1>4, OneCall DEF ClientInv, ClientTypes, SameCallers

\* An exception before the request is sent leaves the promise behind.
LEMMA ThrowsKeeps ==
  ASSUME ClientInv, NEW t \in Threads, CallThrows(t)
  PROVE  ClientInv' /\ SameCallers
<1> DEFINE c == [call[t] EXCEPT !.pc = "failed"]
<1>1. call[t] \in Calls /\ call[t].req \in Asked /\ call[t].pc = "send"
  BY DEF ClientInv, ClientTypes, CallThrows
<1>2. c \in Calls /\ c.pc = "failed" /\ c.req = call[t].req
  BY <1>1 DEF Calls, CallPcs
<1>3. call' = [call EXCEPT ![t] = c]
  BY DEF CallThrows
<1> HIDE DEF c
<1>4. ClientInv'
  <2>1. c.pc \notin InProgress /\ c.pc # "ok"
    BY <1>2 DEF InProgress
  <2> QED BY <1>1, <1>2, <1>3, <2>1, CallMoves DEF CallThrows, netVars
<1> QED BY <1>1, <1>2, <1>3, <1>4, OneCall DEF ClientInv, ClientTypes, SameCallers

\* The id of a new promise is on no message, and belongs to no other call.
LEMMA RegisterKeeps ==
  ASSUME ClientInv, NEW t \in Threads, CallRegister(t)
  PROVE  ClientInv' /\ SameCallers
<1>1. call[t] \in Calls /\ call[t].req \in Asked /\ call[t].pc = "register" /\ next_id \in Nat
      /\ call \in [Threads -> Calls] /\ to_server \in Seq(Requests) /\ to_client \in Seq(Answers)
  BY DEF ClientInv, ClientTypes, CallRegister
<1>2. /\ next_id' = next_id + 1 /\ pending' = pending \cup {next_id}
      /\ UNCHANGED <<abandoned, to_server, to_client>>
  BY DEF CallRegister, netVars
<1> DEFINE c == [[call[t] EXCEPT !.pc = "send"] EXCEPT !.id = next_id]
<1>3. c \in Calls /\ c.pc = "send" /\ c.req = call[t].req /\ c.id = next_id
  BY <1>1 DEF Calls, CallPcs
<1>4. call' = [call EXCEPT ![t] = c]
  BY <1>1 DEF CallRegister
<1> HIDE DEF c
<1>5. /\ call' \in [Threads -> Calls] /\ call'[t] = c
      /\ \A u \in Threads : u # t => call'[u] = call[u]
  BY <1>1, <1>3, <1>4, OneCall
<1>6. /\ \A i \in DOMAIN to_server : to_server[i].id \in Nat /\ to_server[i].id < next_id
      /\ \A i \in DOMAIN to_client : to_client[i].id \in Nat /\ to_client[i].id < next_id
      /\ \A i \in abandoned : i \in Nat /\ i < next_id
  BY MessageTypes DEF ClientInv, IdInv
<1>7. \A u \in Threads : Active(u) => call[u].id \in Nat /\ call[u].id < next_id
  BY <1>1 DEF ClientInv, IdInv, Calls
<1>8. \A u \in Threads : u # t => (Active(u)' <=> Active(u))
  BY <1>5 DEF Active
<1>9. ClientTypes'
  BY <1>1, <1>2, <1>3, <1>5 DEF ClientInv, ClientTypes
<1>10. IdInv'
  <2>1. \A u \in Threads : Active(u)' => call'[u].id < next_id' /\ call'[u].id \notin abandoned'
    <3> SUFFICES ASSUME NEW u \in Threads, Active(u)'
                 PROVE  call'[u].id < next_id' /\ call'[u].id \notin abandoned
      BY <1>2
    <3>1. CASE u = t
      BY <1>1, <1>2, <1>3, <1>5, <1>6, <3>1
    <3>2. CASE u # t
      <4>1. Active(u) /\ call'[u] = call[u]
        BY <1>5, <1>8, <3>2
      <4>2. call[u].id < next_id'
        BY <1>1, <1>2, <1>7, <4>1
      <4> QED BY <4>1, <4>2 DEF ClientInv, IdInv
    <3> QED BY <3>1, <3>2
  <2>2. \A u, v \in Threads : Active(u)' /\ Active(v)' /\ call'[u].id = call'[v].id => u = v
    <3> SUFFICES ASSUME NEW u \in Threads, NEW v \in Threads, Active(u)', Active(v)',
                        call'[u].id = call'[v].id, u # v
                 PROVE  FALSE
      OBVIOUS
    <3>1. \A x \in Threads : x # t /\ Active(x)' => Active(x) /\ call'[x] = call[x] /\ call[x].id # next_id
      BY <1>1, <1>5, <1>7, <1>8
    <3>2. u # t /\ v # t
      BY <1>3, <1>5, <3>1
    <3> QED BY <3>1, <3>2 DEF ClientInv, IdInv
  <2>3. /\ \A i \in abandoned' : i \in Nat /\ i < next_id'
        /\ \A i \in DOMAIN to_server' : to_server'[i].id < next_id'
        /\ \A i \in DOMAIN to_client' : to_client'[i].id < next_id'
    BY <1>1, <1>2, <1>6
  <2> QED BY <2>1, <2>2, <2>3 DEF IdInv
<1>11. ASSUME NEW m, Matches(m), m.id \in Nat, m.id < next_id
       PROVE  /\ m.id \notin abandoned'
              /\ \A u \in Threads : Active(u)' /\ call'[u].id = m.id =>
                    call'[u].pc = "wait" /\ m.req = call'[u].req
  <2> SUFFICES ASSUME NEW u \in Threads, Active(u)', call'[u].id = m.id
               PROVE  call'[u].pc = "wait" /\ m.req = call'[u].req
    BY <1>2, <1>11 DEF Matches
  <2>1. u # t
    BY <1>1, <1>3, <1>5, <1>11
  <2> QED BY <1>5, <1>8, <1>11, <2>1 DEF Matches
<1>12. MatchInv'
  <2>1. ASSUME NEW i \in DOMAIN to_server' PROVE Matches(to_server[i])'
    <3>1. to_server' = to_server /\ Matches(to_server[i])
      BY <1>2 DEF ClientInv, MatchInv
    <3> QED BY <1>2, <1>6, <1>11, <3>1 DEF Matches
  <2>2. ASSUME NEW i \in DOMAIN to_client' PROVE Matches(to_client[i])'
    <3>1. to_client' = to_client /\ Matches(to_client[i])
      BY <1>2 DEF ClientInv, MatchInv
    <3> QED BY <1>2, <1>6, <1>11, <3>1 DEF Matches
  <2> QED BY <2>1, <2>2 DEF MatchInv
<1>13. AnswersOwn'
  BY <1>3, <1>5 DEF ClientInv, AnswersOwn
<1>14. PromiseInv'
  <2>1. abandoned' \subseteq pending'
    BY <1>2 DEF ClientInv, PromiseInv
  <2>2. NoLeakedPromise'
    <3> SUFFICES ASSUME NEW i \in pending' \ abandoned'
                 PROVE  \E u \in Threads : call'[u].pc \in InProgress /\ call'[u].id = i
      BY DEF NoLeakedPromise
    <3>1. CASE i = next_id
      BY <1>3, <1>5, <3>1 DEF InProgress
    <3>2. CASE i # next_id
      <4>1. PICK u \in Threads : call[u].pc \in InProgress /\ call[u].id = i
        BY <1>2, <3>2 DEF ClientInv, PromiseInv, NoLeakedPromise
      <4>2. u # t
        BY <1>1, <4>1 DEF InProgress
      <4> QED BY <1>5, <4>1, <4>2
    <3> QED BY <3>1, <3>2
  <2> QED BY <2>1, <2>2 DEF PromiseInv
<1> QED BY <1>1, <1>3, <1>5, <1>9, <1>10, <1>12, <1>13, <1>14 DEF ClientInv, SameCallers

\* The request of a call is the one message with its id.
LEMMA SendKeeps ==
  ASSUME ClientInv, NEW t \in Threads, CallSend(t)
  PROVE  ClientInv' /\ SameCallers
<1>1. call[t] \in Calls /\ call[t].req \in Asked /\ call[t].pc = "send" /\ Active(t)
      /\ call \in [Threads -> Calls] /\ to_server \in Seq(Requests) /\ to_client \in Seq(Answers)
  BY DEF ClientInv, ClientTypes, CallSend, Active, InProgress
<1>2. CASE /\ pending' = pending \ {call[t].id} /\ UNCHANGED to_server
           /\ call' = [call EXCEPT ![t].pc = "failed"]
  <2> DEFINE c == [call[t] EXCEPT !.pc = "failed"]
  <2>1. c \in Calls /\ c.pc = "failed" /\ c.req = call[t].req
    BY <1>1 DEF Calls, CallPcs
  <2>2. call' = [call EXCEPT ![t] = c]
    BY <1>2
  <2>3. UNCHANGED <<abandoned, next_id, to_server, to_client>>
    BY <1>2 DEF CallSend
  <2> HIDE DEF c
  <2>4. ClientInv'
    <3>1. c.pc \notin InProgress /\ c.pc # "ok"
      BY <2>1 DEF InProgress
    <3> QED BY <1>1, <1>2, <2>1, <2>2, <2>3, <3>1, CallMoves
  <2> QED BY <1>1, <2>1, <2>2, <2>4, OneCall DEF SameCallers
<1>3. CASE /\ UNCHANGED pending
           /\ to_server' \in {to_server, Append(to_server, [id |-> call[t].id, req |-> call[t].req])}
           /\ call' = [call EXCEPT ![t].pc = IF call[t].id \in pending THEN "wait" ELSE "failed"]
  <2> DEFINE c == [call[t] EXCEPT !.pc = IF call[t].id \in pending THEN "wait" ELSE "failed"]
             m == [id |-> call[t].id, req |-> call[t].req]
  <2>1. /\ c \in Calls /\ c.pc \in {"wait", "failed"} /\ c.req = call[t].req /\ c.id = call[t].id
        /\ call[t].id \in pending => c.pc = "wait"
    BY <1>1 DEF Calls, CallPcs
  <2>2. call' = [call EXCEPT ![t] = c]
    BY <1>3
  <2>3. m \in Requests /\ m.id = call[t].id /\ m.req = call[t].req
    BY <1>1 DEF Requests, Calls
  <2>4. to_server' \in {to_server, Append(to_server, m)}
    BY <1>3
  <2> HIDE DEF c, m
  <2>5. /\ call' \in [Threads -> Calls] /\ call'[t] = c
        /\ \A u \in Threads : u # t => call'[u] = call[u]
    BY <1>1, <2>1, <2>2, OneCall
  <2>6. UNCHANGED <<pending, abandoned, next_id, to_client>>
    BY <1>3 DEF CallSend
  <2>7. to_server' \in Seq(Requests)
        /\ \A i \in DOMAIN to_server' : to_server'[i] = m
              \/ \E j \in DOMAIN to_server : to_server'[i] = to_server[j]
    <3>1. CASE to_server' = to_server
      BY <1>1, <3>1
    <3>2. CASE to_server' = Append(to_server, m)
      <4>1. /\ Append(to_server, m) \in Seq(Requests)
            /\ \A i \in DOMAIN Append(to_server, m) : Append(to_server, m)[i] = m
                 \/ \E j \in DOMAIN to_server : Append(to_server, m)[i] = to_server[j]
        BY <1>1, <2>3, AppendElements
      <4> QED BY <3>2, <4>1, Zenon
    <3> QED BY <2>4, <3>1, <3>2
  <2>8. ClientTypes'
    BY <1>1, <2>1, <2>5, <2>6, <2>7 DEF ClientInv, ClientTypes
  <2>9. \A u \in Threads : Active(u)' => Active(u) /\ call'[u].id = call[u].id /\ call'[u].req = call[u].req
    BY <1>1, <2>1, <2>5 DEF Active
  <2>10. IdInv'
    <3>1. /\ \A u \in Threads : Active(u)' => call'[u].id < next_id' /\ call'[u].id \notin abandoned'
          /\ \A u, v \in Threads : Active(u)' /\ Active(v)' /\ call'[u].id = call'[v].id => u = v
          /\ \A i \in abandoned' : i \in Nat /\ i < next_id'
          /\ \A i \in DOMAIN to_client' : to_client'[i].id < next_id'
      BY <2>6, <2>9 DEF ClientInv, IdInv
    <3>2. m.id < next_id
      BY <1>1, <2>3 DEF ClientInv, IdInv
    <3>3. \A i \in DOMAIN to_server' : to_server'[i].id < next_id'
      BY <2>6, <2>7, <3>2 DEF ClientInv, IdInv
    <3> QED BY <3>1, <3>3 DEF IdInv
  <2>11. ASSUME NEW n, Matches(n)
         PROVE  /\ n.id \notin abandoned'
                /\ \A u \in Threads : Active(u)' /\ call'[u].id = n.id =>
                      call'[u].pc = "wait" /\ n.req = call'[u].req
    <3>1. n.id # call[t].id
      BY <1>1, <2>11 DEF Matches
    <3> SUFFICES ASSUME NEW u \in Threads, Active(u)', call'[u].id = n.id
                 PROVE  call'[u].pc = "wait" /\ n.req = call'[u].req
      BY <2>6, <2>11 DEF Matches
    <3>2. u # t
      BY <2>1, <2>5, <3>1
    <3> QED BY <2>5, <2>9, <2>11, <3>2 DEF Matches
  <2>12. /\ m.id \notin abandoned'
         /\ \A u \in Threads : Active(u)' /\ call'[u].id = m.id =>
               call'[u].pc = "wait" /\ m.req = call'[u].req
    <3>1. m.id \notin abandoned'
      BY <1>1, <2>3, <2>6 DEF ClientInv, IdInv
    <3> SUFFICES ASSUME NEW u \in Threads, Active(u)', call'[u].id = m.id
                 PROVE  call'[u].pc = "wait" /\ m.req = call'[u].req
      BY <3>1
    <3>2. u = t
      BY <1>1, <2>3, <2>9 DEF ClientInv, IdInv
    <3>3. call'[t].pc = "wait"
      BY <2>1, <2>5, <3>2 DEF Active, InProgress
    <3> QED BY <2>1, <2>3, <2>5, <3>2, <3>3
  <2>13. MatchInv'
    <3>1. ASSUME NEW i \in DOMAIN to_server' PROVE Matches(to_server[i])'
      <4>1. CASE to_server'[i] = m
        BY <2>12, <4>1 DEF Matches
      <4>2. CASE \E j \in DOMAIN to_server : to_server'[i] = to_server[j]
        <5>1. PICK j \in DOMAIN to_server : to_server'[i] = to_server[j]
          BY <4>2
        <5>2. Matches(to_server[j])
          BY DEF ClientInv, MatchInv
        <5> QED BY <2>11, <5>1, <5>2 DEF Matches
      <4> QED BY <2>7, <4>1, <4>2
    <3>2. ASSUME NEW i \in DOMAIN to_client' PROVE Matches(to_client[i])'
      <4>1. to_client' = to_client /\ Matches(to_client[i])
        BY <2>6 DEF ClientInv, MatchInv
      <4> QED BY <2>11, <4>1 DEF Matches
    <3> QED BY <3>1, <3>2 DEF MatchInv
  <2>14. AnswersOwn'
    BY <2>1, <2>5 DEF ClientInv, AnswersOwn
  <2>15. NoLeakedPromise'
    <3> SUFFICES ASSUME NEW i \in pending' \ abandoned'
                 PROVE  \E u \in Threads : call'[u].pc \in InProgress /\ call'[u].id = i
      BY DEF NoLeakedPromise
    <3>1. PICK u \in Threads : call[u].pc \in InProgress /\ call[u].id = i
      BY <2>6 DEF ClientInv, PromiseInv, NoLeakedPromise
    <3>2. call'[u].pc \in InProgress /\ call'[u].id = i
      BY <2>1, <2>5, <2>6, <3>1 DEF InProgress
    <3> QED BY <3>2
  <2> QED BY <1>1, <2>1, <2>5, <2>6, <2>8, <2>10, <2>13, <2>14, <2>15
      DEF ClientInv, PromiseInv, SameCallers
<1> QED BY <1>2, <1>3 DEF CallSend

\* Waiting calls fail, or return answers to their own requests.
LEMMA CallsReturn ==
  ASSUME ClientInv, NEW W \in SUBSET Threads, NEW c \in Calls, c.pc \in {"ok", "failed"},
         c.pc = "ok" => c.ans \in Answers,
         \A t \in W : /\ call[t].pc = "wait"
                      /\ c.pc = "ok" => c.ans.id = call[t].id /\ c.ans.req = call[t].req,
         call' = [t \in Threads |-> IF t \in W
                    THEN IF c.pc = "ok" THEN [call[t] EXCEPT !.pc = "ok", !.ans = c.ans]
                         ELSE [call[t] EXCEPT !.pc = "failed"]
                    ELSE call[t]],
         next_id' = next_id
  PROVE  /\ call' \in [Threads -> Calls] /\ SameCallers /\ AnswersOwn'
         /\ \A t \in Threads : call'[t].pc # "idle" => call'[t].req \in Asked
         /\ \A t \in Threads : call'[t].pc = "ok" => call'[t].ans \in Answers
         /\ \A t \in Threads : Active(t)' => t \notin W /\ Active(t) /\ call'[t] = call[t]
<1>1. \A t \in Threads : call[t] \in Calls
  BY DEF ClientInv, ClientTypes
<1>2. ASSUME NEW t \in W
      PROVE  /\ call'[t] \in Calls /\ call'[t].pc \in {"ok", "failed"} /\ call[t].pc = "wait"
             /\ call'[t].req = call[t].req /\ call'[t].id = call[t].id
             /\ call'[t].pc = "ok" => c.pc = "ok" /\ call'[t].ans = c.ans
  <2>1. CASE c.pc = "ok"
    <3> DEFINE d == [[call[t] EXCEPT !.pc = "ok"] EXCEPT !.ans = c.ans]
    <3>1. call'[t] = d
      BY <2>1
    <3>2. /\ d \in Calls /\ d.pc = "ok" /\ d.req = call[t].req /\ d.id = call[t].id /\ d.ans = c.ans
      BY <1>1, <2>1 DEF Calls, CallPcs
    <3> HIDE DEF d
    <3> QED BY <2>1, <3>1, <3>2
  <2>2. CASE c.pc = "failed"
    <3> DEFINE d == [call[t] EXCEPT !.pc = "failed"]
    <3>1. call'[t] = d
      BY <2>2
    <3>2. /\ d \in Calls /\ d.pc = "failed" /\ d.req = call[t].req /\ d.id = call[t].id
      BY <1>1, <2>2 DEF Calls, CallPcs
    <3> HIDE DEF d
    <3> QED BY <2>2, <3>1, <3>2
  <2> QED BY <2>1, <2>2
<1>3. \A t \in Threads : t \notin W => call'[t] = call[t]
  OBVIOUS
<1>4. DOMAIN call' = Threads /\ call' = [t \in Threads |-> call'[t]]
  OBVIOUS
<1>5. \A t \in Threads : call'[t] \in Calls
  BY <1>1, <1>2, <1>3
<1>6. call' \in [Threads -> Calls]
  BY <1>4, <1>5
<1>7. SameCallers
  BY <1>2, <1>3 DEF SameCallers
<1>8. AnswersOwn'
  BY ZenonT(60), <1>2, <1>3 DEF ClientInv, AnswersOwn
<1>9. \A t \in Threads : call'[t].pc # "idle" => call'[t].req \in Asked
  BY <1>2, <1>3 DEF ClientInv, ClientTypes
<1>10. \A t \in Threads : call'[t].pc = "ok" => call'[t].ans \in Answers
  BY <1>2, <1>3 DEF ClientInv, ClientTypes
<1>11. \A t \in Threads : Active(t)' => t \notin W /\ Active(t) /\ call'[t] = call[t]
  BY <1>2, <1>3 DEF Active, InProgress
<1> QED BY <1>6, <1>7, <1>8, <1>9, <1>10, <1>11

\* An answer goes to the waiting call that has its id, and to no other.
LEMMA MatchKeeps ==
  ASSUME ClientInv, ReaderMatch
  PROVE  ClientInv' /\ SameCallers
<1> DEFINE m == Head(to_client)
           W == Waiting(pending \cap {m.id})
           c == [pc |-> "ok", id |-> 0, req |-> <<>>, ans |-> m]
<1>1. to_client \in Seq(Answers) /\ to_client # <<>> /\ to_server \in Seq(Requests)
  BY DEF ClientInv, ClientTypes, ReaderMatch
<1>2. /\ m \in Answers /\ Tail(to_client) \in Seq(Answers)
      /\ \E j \in DOMAIN to_client : m = to_client[j]
      /\ \A i \in DOMAIN Tail(to_client) : \E j \in DOMAIN to_client : Tail(to_client)[i] = to_client[j]
  BY <1>1, TailElements
<1>3. c \in Calls /\ c.pc = "ok" /\ c.ans = m
  BY <1>2 DEF Calls, CallPcs
<1>4. /\ pending' = pending \ {m.id} /\ to_client' = Tail(to_client)
      /\ UNCHANGED <<abandoned, next_id, to_server>>
      /\ call' = [t \in Threads |-> IF t \in W THEN [call[t] EXCEPT !.pc = "ok", !.ans = m] ELSE call[t]]
  BY DEF ReaderMatch
<1> HIDE DEF m
<1>5. \A t \in W : t \in Threads /\ call[t].pc = "wait" /\ m.id = call[t].id /\ m.req = call[t].req
  BY <1>2 DEF Waiting, ClientInv, MatchInv, Matches, Active, InProgress
<1>6. m.id \notin abandoned
      /\ \A t \in Threads : Active(t) /\ call[t].id \in pending /\ call[t].id = m.id => t \in W
  BY <1>2 DEF Waiting, ClientInv, MatchInv, Matches
<1> HIDE DEF W, c
<1>7. call' = [t \in Threads |-> IF t \in W
                 THEN IF c.pc = "ok" THEN [call[t] EXCEPT !.pc = "ok", !.ans = c.ans]
                      ELSE [call[t] EXCEPT !.pc = "failed"]
                 ELSE call[t]]
  BY <1>3, <1>4
<1>8. W \in SUBSET Threads
  BY <1>5
<1>9. /\ call' \in [Threads -> Calls] /\ SameCallers /\ AnswersOwn'
      /\ \A t \in Threads : call'[t].pc # "idle" => call'[t].req \in Asked
      /\ \A t \in Threads : call'[t].pc = "ok" => call'[t].ans \in Answers
      /\ \A t \in Threads : Active(t)' => t \notin W /\ Active(t) /\ call'[t] = call[t]
  BY ZenonT(60), <1>2, <1>3, <1>4, <1>5, <1>7, <1>8, CallsReturn
<1>10. ClientTypes'
  BY <1>1, <1>2, <1>4, <1>9 DEF ClientInv, ClientTypes
<1>11. IdInv' /\ MatchInv'
  BY <1>1, <1>2, <1>4, <1>9, FewerWaiting
<1>12. NoLeakedPromise'
  <2> SUFFICES ASSUME NEW i \in pending' \ abandoned'
               PROVE  \E u \in Threads : call'[u].pc \in InProgress /\ call'[u].id = i
    BY DEF NoLeakedPromise
  <2>1. PICK u \in Threads : call[u].pc \in InProgress /\ call[u].id = i
    BY <1>4 DEF ClientInv, PromiseInv, NoLeakedPromise
  <2>2. u \notin W
    BY <1>4, <1>5, <2>1
  <2> QED BY <1>4, <2>1, <2>2
<1>13. abandoned' \subseteq pending'
  BY <1>4, <1>6 DEF ClientInv, PromiseInv
<1> QED BY <1>9, <1>10, <1>11, <1>12, <1>13 DEF ClientInv, PromiseInv

\* failAllPending() leaves no promise.
LEMMA FailKeeps ==
  ASSUME ClientInv, Fails
  PROVE  ClientInv' /\ SameCallers
<1> DEFINE W == Waiting(pending)
           c == [pc |-> "failed", id |-> 0, req |-> <<>>, ans |-> <<>>]
<1>1. c \in Calls /\ c.pc = "failed"
  BY DEF Calls, CallPcs
<1>2. W \in SUBSET Threads /\ \A t \in W : call[t].pc = "wait"
  BY DEF Waiting
<1>3. call' = [t \in Threads |-> IF t \in W THEN [call[t] EXCEPT !.pc = "failed"] ELSE call[t]]
  BY DEF Fails, failAllPending
<1> HIDE DEF W, c
<1>4. call' = [t \in Threads |-> IF t \in W
                 THEN IF c.pc = "ok" THEN [call[t] EXCEPT !.pc = "ok", !.ans = c.ans]
                      ELSE [call[t] EXCEPT !.pc = "failed"]
                 ELSE call[t]]
  BY <1>1, <1>3
<1>5. next_id' = next_id /\ UNCHANGED <<to_server, to_client>> /\ pending' = {} /\ abandoned' = {}
  BY DEF Fails, failAllPending
<1>6. /\ call' \in [Threads -> Calls] /\ SameCallers /\ AnswersOwn'
      /\ \A t \in Threads : call'[t].pc # "idle" => call'[t].req \in Asked
      /\ \A t \in Threads : call'[t].pc = "ok" => call'[t].ans \in Answers
      /\ \A t \in Threads : Active(t)' => t \notin W /\ Active(t) /\ call'[t] = call[t]
  BY <1>1, <1>2, <1>4, <1>5, CallsReturn
<1>7. ClientTypes'
  BY <1>5, <1>6 DEF ClientInv, ClientTypes
<1>8. IdInv' /\ MatchInv'
  BY <1>5, <1>6, MessagesStay
<1>9. PromiseInv'
  BY <1>5 DEF PromiseInv, NoLeakedPromise
<1> QED BY <1>6, <1>7, <1>8, <1>9 DEF ClientInv

\* What the connection drops or delivers.
LEMMA NetKeeps ==
  ASSUME ClientInv, Cuts \/ Serves
  PROVE  ClientInv' /\ SameCallers
<1>1. UNCHANGED <<call, pending, abandoned, next_id>>
  BY DEF Cuts, Serves
<1>2. to_server \in Seq(Requests) /\ to_client \in Seq(Answers) /\ call' \in [Threads -> Calls]
  BY <1>1 DEF ClientInv, ClientTypes
<1>3. /\ \A t \in Threads : Active(t)' =>
            Active(t) /\ call'[t].pc = call[t].pc /\ call'[t].id = call[t].id /\ call'[t].req = call[t].req
      /\ SameCallers /\ AnswersOwn' /\ PromiseInv'
  BY <1>1 DEF ClientInv, Active, SameCallers, AnswersOwn, PromiseInv, NoLeakedPromise
<1>4. CASE Cuts
  <2>1. /\ to_server' = <<>> /\ to_client' \in {<<>>, to_client}
    BY <1>4 DEF Cuts
  <2>2. to_server' \in Seq(Requests) /\ to_client' \in Seq(Answers)
    <3>1. <<>> \in Seq(Requests) /\ <<>> \in Seq(Answers)
      BY SMT
    <3> QED BY <1>2, <2>1, <3>1, Zenon
  <2>3. \A i \in DOMAIN to_server' : \E j \in DOMAIN to_server : to_server'[i] = to_server[j]
    BY <2>1
  <2>4. \A i \in DOMAIN to_client' : \E j \in DOMAIN to_client : to_client'[i] = to_client[j]
    BY <2>1
  <2>5. IdInv' /\ MatchInv'
    BY <1>1, <1>2, <1>3, <2>2, <2>3, <2>4, FewerWaiting
  <2> QED BY <1>1, <1>3, <2>2, <2>5 DEF ClientInv, ClientTypes
<1>5. CASE Serves
  <2>1. to_server # <<>> /\ to_server' = Tail(to_server)
    BY <1>5 DEF Serves
  <2>2. PICK a \in Answers : /\ a.id = Head(to_server).id /\ a.req = Head(to_server).req
                             /\ to_client' = Append(to_client, a)
    BY <1>5 DEF Serves
  <2>3. /\ Tail(to_server) \in Seq(Requests)
        /\ \E j \in DOMAIN to_server : Head(to_server) = to_server[j]
        /\ \A i \in DOMAIN Tail(to_server) : \E j \in DOMAIN to_server : Tail(to_server)[i] = to_server[j]
    BY <1>2, <2>1, TailElements
  <2>4. /\ Append(to_client, a) \in Seq(Answers)
        /\ \A i \in DOMAIN Append(to_client, a) : Append(to_client, a)[i] = a
              \/ \E j \in DOMAIN to_client : Append(to_client, a)[i] = to_client[j]
    BY <1>2, AppendElements
  <2>5. to_server' \in Seq(Requests) /\ to_client' \in Seq(Answers)
    BY <2>1, <2>2, <2>3, <2>4
  <2>6. \A i \in DOMAIN to_server' : \E j \in DOMAIN to_server : to_server'[i] = to_server[j]
    BY <2>1, <2>3, Zenon
  <2>7. \A i \in DOMAIN to_client' :
          \/ \E j \in DOMAIN to_client : to_client'[i] = to_client[j]
          \/ \E j \in DOMAIN to_server : /\ to_client'[i].id = to_server[j].id
                                         /\ to_client'[i].req = to_server[j].req
    BY <2>2, <2>3, <2>4, Zenon
  <2>8. IdInv' /\ MatchInv'
    BY <1>1, <1>2, <1>3, <2>5, <2>6, <2>7, FewerWaiting
  <2> QED BY <1>1, <1>3, <2>5, <2>8 DEF ClientInv, ClientTypes
<1> QED BY <1>4, <1>5

\* No step of the client, the connection or the daemon begins or ends a call.
LEMMA QuietKeeps ==
  ASSUME ClientInv, QuietStep
  PROVE  ClientInv' /\ SameCallers
<1>1. CASE UNCHANGED pvars
  BY <1>1 DEF pvars, ClientInv, ClientTypes, IdInv, MatchInv, Matches, AnswersOwn,
     Active, PromiseInv, NoLeakedPromise, SameCallers
<1>2. CASE \E t \in Threads : Calling(t)
  BY <1>2, CheckKeeps, RegisterKeeps, ThrowsKeeps, SendKeeps, TimeoutKeeps DEF Calling, CallStep
<1> QED BY <1>1, <1>2, MatchKeeps, FailKeeps, NetKeeps DEF QuietStep

---------------------------------------------------------------------------
(* The threads of the GUI                                                  *)

\* The steps of the main thread at which a call returns.
ReturnSteps == {"cancelled", "stopped", "refreshed", "bsdl_pins", "bsdl_done",
                "capture_started", "view_done"}
Plain == MainSteps \ (ReturnSteps \cup {"capture_start"})
Silent == Plain \cup {"capture_start"}

\* The main thread is in a call when it waits for one to return; no step further
\* back waits for one, or starts a capture.
MainInv ==
  /\ todo \in Seq(MainSteps) /\ (todo # <<>> => Tail(todo) \in Seq(Plain))
  /\ call["main"].pc # "idle" <=> todo # <<>> /\ Head(todo) \in ReturnSteps

\* The other two threads are in a call when they are at one.
OthersInv ==
  /\ call["conn"].pc # "idle" <=> conn = "detect"
  /\ call["prog"].pc # "idle" <=> prog = "call"

JobTypes == job_id \in Nat /\ jobs \in Seq({"running", "cancelling", "done"})

\* The connect thread's result is not taken before the thread has ended.
ConnBusy == conn \notin {"none", "ended"} => conn_running

AInv == ClientInv /\ MainInv /\ OthersInv /\ JobTypes /\ ConnBusy

\* The threads of the GUI that use the client.
LEMMA ThreadNames == Threads = {"main", "conn", "prog"}
  BY AppAssumption

\* What is left of a list of plain steps is plain.
LEMMA PlainTodo ==
  ASSUME NEW q \in Seq(Plain)
  PROVE  q \in Seq(MainSteps) /\ (q # <<>> => Head(q) \in Plain /\ Tail(q) \in Seq(Plain))
  BY SMT DEF Plain

\* Lists that the handlers put together.
LEMMA Lists ==
  ASSUME NEW S
  PROVE  /\ <<>> \in Seq(S) /\ \A x \in S : <<x>> \in Seq(S)
         /\ \A x, y \in S : <<x, y>> \in Seq(S)
         /\ \A p, q \in Seq(S) : p \o q \in Seq(S)
  BY SMT

\* A step put in front of a list is its head.
LEMMA InFront ==
  ASSUME NEW S, NEW x \in S, NEW q \in Seq(S)
  PROVE  /\ <<x>> \o q \in Seq(S) /\ <<x>> \o q # <<>>
         /\ Head(<<x>> \o q) = x /\ Tail(<<x>> \o q) = q
<1>1. /\ <<x>> \o q \in Seq(S) /\ Len(<<x>> \o q) = Len(q) + 1 /\ Len(q) \in Nat
      /\ \A i \in 1 .. Len(q) : (<<x>> \o q)[i + 1] = q[i]
      /\ (<<x>> \o q)[1] = x
  BY SMT
<1>2. <<x>> \o q # <<>> /\ Head(<<x>> \o q) = x
  BY <1>1
<1>3. Tail(<<x>> \o q) = q
  BY <1>1, <1>2
<1> QED BY <1>1, <1>2, <1>3

\* Plain steps put in front of the rest leave a list of plain steps.
LEMMA PlainThen ==
  ASSUME MainInv, todo # <<>>, NEW s \in Seq(Plain), Then(s)
  PROVE  todo' \in Seq(Plain)
  BY DEF MainInv, Then

\* A step at which a call returns is put in front of plain steps only.
LEMMA ReturnThen ==
  ASSUME MainInv, todo # <<>>, NEW r \in ReturnSteps, Then(<<r>>)
  PROVE  todo' \in Seq(MainSteps) /\ todo' # <<>> /\ Head(todo') = r /\ Tail(todo') \in Seq(Plain)
<1>1. Tail(todo) \in Seq(Plain) /\ todo' = <<r>> \o Tail(todo)
  BY DEF MainInv, Then
<1>2. Tail(todo) \in Seq(MainSteps)
  BY <1>1, PlainTodo
<1>3. r \in MainSteps
  BY DEF ReturnSteps, MainSteps
<1>4. todo' # <<>> /\ Head(todo') = r /\ Tail(todo') = Tail(todo) /\ todo' \in Seq(MainSteps)
  BY <1>1, <1>2, <1>3, InFront, Zenon
<1> QED BY <1>1, <1>4

\* A step of the main thread makes no call, begins one, or ends one.
PlainStep == /\ todo # <<>> /\ Head(todo) \notin ReturnSteps
             /\ \E s \in Seq(Plain) : Then(s)
             /\ UNCHANGED pvars \/ Fails \/ Cuts
CallingStep == /\ todo # <<>> /\ \E r \in ReturnSteps : Then(<<r>>)
               /\ Begins("main")
ReturningStep == /\ todo # <<>> /\ \E s \in Seq(Plain) : Then(s)
                 /\ Ends("main")
MainKind == PlainStep \/ CallingStep \/ ReturningStep

\* In a list of plain steps the main thread is in no call.
LEMMA PlainMain ==
  ASSUME todo' \in Seq(Plain), call'["main"].pc = "idle"
  PROVE  MainInv'
<1>1. todo' \in Seq(MainSteps) /\ (todo' # <<>> => Head(todo') \in Plain /\ Tail(todo') \in Seq(Plain))
  BY PlainTodo
<1> QED BY <1>1 DEF MainInv, Plain

\* Each kind of step of the main thread keeps the invariants of client and main thread.
LEMMA MainKindKeeps ==
  ASSUME AInv, MainKind
  PROVE  /\ ClientInv' /\ MainInv'
         /\ call'["conn"].pc = "idle" <=> call["conn"].pc = "idle"
         /\ call'["prog"].pc = "idle" <=> call["prog"].pc = "idle"
<1>1. ClientInv /\ MainInv
  BY DEF AInv
<1>2. CASE PlainStep
  <2>1. PICK s \in Seq(Plain) : Then(s)
    BY <1>2 DEF PlainStep
  <2>2. todo' \in Seq(Plain)
    BY <1>1, <1>2, <2>1, PlainThen DEF PlainStep
  <2>3. ClientInv' /\ SameCallers
    BY <1>1, <1>2, QuietKeeps DEF PlainStep, QuietStep
  <2>4. call["main"].pc = "idle"
    BY <1>1, <1>2 DEF PlainStep, MainInv
  <2>5. call'["main"].pc = "idle"
    BY <2>3, <2>4, ThreadNames DEF SameCallers
  <2>6. MainInv'
    BY <2>2, <2>5, PlainMain
  <2> QED BY <2>3, <2>6, ThreadNames DEF SameCallers
<1>3. CASE CallingStep
  <2>1. PICK r \in ReturnSteps : Then(<<r>>)
    BY <1>3 DEF CallingStep
  <2>2. todo' \in Seq(MainSteps) /\ todo' # <<>> /\ Head(todo') = r /\ Tail(todo') \in Seq(Plain)
    BY <1>1, <1>3, <2>1, ReturnThen DEF CallingStep
  <2>3. /\ ClientInv' /\ call'["main"].pc # "idle"
        /\ \A u \in Threads : u # "main" => call'[u] = call[u]
    BY <1>1, <1>3, BeginKeeps, ThreadNames DEF CallingStep
  <2>4. MainInv'
    BY <2>2, <2>3 DEF MainInv
  <2> QED BY <2>3, <2>4, ThreadNames
<1>4. CASE ReturningStep
  <2>1. PICK s \in Seq(Plain) : Then(s)
    BY <1>4 DEF ReturningStep
  <2>2. todo' \in Seq(Plain)
    BY <1>1, <1>4, <2>1, PlainThen DEF ReturningStep
  <2>3. /\ ClientInv' /\ call'["main"].pc = "idle"
        /\ \A u \in Threads : u # "main" => call'[u] = call[u]
    BY <1>1, <1>4, EndKeeps, ThreadNames DEF ReturningStep
  <2>4. MainInv'
    BY <2>2, <2>3, PlainMain
  <2> QED BY <2>3, <2>4, ThreadNames
<1> QED BY <1>2, <1>3, <1>4 DEF MainKind

\* The forms in which the handlers say so.
LEMMA KindNone ==
  ASSUME NEW h \in Silent, At(h), NEW s \in Seq(Plain), Then(s), NoCall
  PROVE  MainKind
<1>1. UNCHANGED pvars
  BY DEF NoCall, pvars, clientVars, netVars
<1>2. Head(todo) \notin ReturnSteps /\ todo # <<>>
  BY DEF At, Plain, Silent, ReturnSteps
<1> QED BY <1>1, <1>2 DEF MainKind, PlainStep

\* A handler that calls the daemon (MainCalls).
LEMMA KindCall ==
  ASSUME MainInv, NEW h, At(h), NEW r \in ReturnSteps, NEW m \in Methods, NEW j \in Nat,
         MainCalls(m, j, r), h \in Silent \/ call["main"].pc \in {"ok", "failed"}
  PROVE  MainKind
<1>1. call["main"].pc \in {"idle", "ok", "failed"} /\ todo # <<>>
  BY DEF MainInv, At, Plain, Silent, ReturnSteps
<1>2. <<m, j>> \in Asked /\ CallBegin("main", <<m, j>>) /\ NetStill /\ Then(<<r>>)
  BY DEF MainCalls, Asked, NetStill, netVars
<1>3. Begins("main")
  BY <1>1, <1>2 DEF Begins
<1> QED BY <1>1, <1>2, <1>3 DEF MainKind, CallingStep

\* A handler to which a call has returned.
LEMMA KindReturn ==
  ASSUME NEW h, At(h), NEW s \in Seq(Plain), Then(s), Returned("main")
  PROVE  MainKind
<1>1. Ends("main") /\ todo # <<>>
  BY DEF Returned, Ends, NetStill, netVars, At
<1> QED BY <1>1 DEF MainKind, ReturningStep

\* What is left of the invariant when a step of the main thread has its kind.
MainMove == /\ MainKind
            /\ conn' = "detect" <=> conn = "detect"
            /\ prog' = "call" <=> prog = "call"
            /\ JobTypes' /\ ConnBusy'

\* What a step of the main thread has to show.
LEMMA MainMoveKeeps ==
  ASSUME AInv, MainMove
  PROVE  AInv'
<1>1. /\ ClientInv' /\ MainInv'
      /\ call'["conn"].pc = "idle" <=> call["conn"].pc = "idle"
      /\ call'["prog"].pc = "idle" <=> call["prog"].pc = "idle"
  BY MainKindKeeps DEF MainMove
<1>2. OthersInv'
  BY <1>1 DEF MainMove, AInv, OthersInv
<1> QED BY <1>1, <1>2 DEF MainMove, AInv

\* Most steps leave the other threads and the jobs alone.
LEMMA StillMove ==
  ASSUME AInv, MainKind, UNCHANGED <<workVars, jobs>>, job_id' \in Nat
  PROVE  MainMove
  BY DEF AInv, OthersInv, JobTypes, ConnBusy, MainMove, workVars

\* The steps that wait for no call and start no capture.
LEMMA PlainNames ==
  /\ Plain \subseteq Silent /\ "capture_start" \in Silent
  /\ {"cancel_job", "stop_if_capturing", "stop_call", "refresh", "d_check", "d_join", "reset"}
        \subseteq Plain
  /\ {"daemon_start", "daemon_connect", "connect_now", "launch", "auto_connect", "drain"}
        \subseteq Plain
  /\ {"bsdl_load", "sample_call", "script_call", "dtor_disc", "join_conn",
       "ctrl_stop", "ctrl_join", "exit"} \subseteq Plain
  BY DEF Plain, Silent, ReturnSteps, MainSteps

\* Short lists of plain steps, and lists of such lists.
LEMMA PlainLists ==
  /\ <<>> \in Seq(Plain) /\ \A x \in Plain : <<x>> \in Seq(Plain)
  /\ \A x, y \in Plain : <<x, y>> \in Seq(Plain)
  /\ \A p, q \in Seq(Plain) : p \o q \in Seq(Plain)
  BY Lists, Zenon

\* The steps that stop a capture and end the session.
LEMMA StopMoves ==
  ASSUME AInv,
         CancelJob \/ Cancelled \/ StopIfCapturing \/ StopCall \/ Stopped \/ Refresh \/ Refreshed
           \/ ResetSession
  PROVE  MainMove
<1>1. MainInv /\ job_id \in Nat
  BY DEF AInv, JobTypes
<1>2. CASE CancelJob
  <2>1. At("cancel_job")
    BY <1>2 DEF CancelJob
  <2>2. MainKind
    <3>1. CASE job_id # 0 /\ connected
      <4>1. MainCalls("capture_stop", job_id, "cancelled")
        BY <1>2, <3>1 DEF CancelJob
      <4> QED BY <1>1, <2>1, <4>1, KindCall, PlainNames DEF ReturnSteps, Methods
    <3>2. CASE ~(job_id # 0 /\ connected)
      <4>1. Then(<<>>) /\ NoCall
        BY <1>2, <3>2 DEF CancelJob
      <4> QED BY <2>1, <4>1, KindNone, PlainNames, PlainLists
    <3> QED BY <3>1, <3>2
  <2> QED BY <1>2, <2>2 DEF CancelJob, MainMove, AInv, JobTypes, ConnBusy
<1>3. CASE Cancelled
  <2>1. MainKind
    BY <1>3, KindReturn, PlainLists DEF Cancelled
  <2> QED BY <1>3, <2>1, StillMove DEF Cancelled, MainOnly
<1>4. CASE StopIfCapturing
  <2>1. MainKind
    <3>1. CASE capturing_
      BY <1>4, <3>1, KindNone, PlainNames, PlainLists DEF StopIfCapturing
    <3>2. CASE ~capturing_
      BY <1>4, <3>2, KindNone, PlainNames, PlainLists DEF StopIfCapturing
    <3> QED BY <3>1, <3>2
  <2> QED BY <1>1, <1>4, <2>1, StillMove DEF StopIfCapturing, MainOnly
<1>5. CASE StopCall
  <2>1. MainKind
    <3>1. CASE job_id # 0
      BY <1>1, <1>5, <3>1, KindCall, PlainNames DEF StopCall, ReturnSteps, Methods
    <3>2. CASE job_id = 0
      BY <1>5, <3>2, KindNone, PlainNames, PlainLists DEF StopCall
    <3> QED BY <3>1, <3>2
  <2> QED BY <1>1, <1>5, <2>1, StillMove DEF StopCall, MainOnly
<1>6. CASE Stopped
  <2>1. MainKind
    BY <1>6, KindReturn, PlainNames, PlainLists DEF Stopped
  <2> QED BY <1>1, <1>6, <2>1, StillMove DEF Stopped, MainOnly
<1>7. CASE Refresh
  <2>1. MainKind
    <3>1. CASE job_id # 0
      BY <1>1, <1>7, <3>1, KindCall, PlainNames DEF Refresh, ReturnSteps, Methods
    <3>2. CASE job_id = 0
      BY <1>7, <3>2, KindNone, PlainNames, PlainLists DEF Refresh
    <3> QED BY <3>1, <3>2
  <2> QED BY <1>1, <1>7, <2>1, StillMove DEF Refresh, MainOnly
<1>8. CASE Refreshed
  <2>1. MainKind
    BY <1>8, KindReturn, PlainLists DEF Refreshed
  <2>2. job_id' \in Nat
    BY <1>1, <1>8 DEF Refreshed
  <2> QED BY <1>8, <2>1, <2>2, StillMove DEF Refreshed, MainOnly
<1>9. CASE ResetSession
  <2>1. MainKind
    BY <1>9, KindNone, PlainNames, PlainLists DEF ResetSession
  <2> QED BY <1>1, <1>9, <2>1, StillMove DEF ResetSession, MainOnly
<1> QED BY <1>2, <1>3, <1>4, <1>5, <1>6, <1>7, <1>8, <1>9

\* The steps that end the connection and set it up.
LEMMA ConnectMoves ==
  ASSUME AInv,
         ClientDisconnect \/ DaemonStart \/ ConnectNow \/ DaemonConnect \/ Launch \/ AutoConnect
           \/ DrainResult \/ DtorDisconnect \/ JoinConnect \/ ControllerStop
  PROVE  MainMove
<1>1. MainInv /\ job_id \in Nat
  BY DEF AInv, JobTypes
<1>2. CASE ClientDisconnect
  <2>1. \/ At("d_check") /\ Then(<<>>) /\ UNCHANGED pvars
        \/ At("d_check") /\ Then(<<"d_join">>) /\ Cuts
        \/ At("d_join") /\ Then(<<>>) /\ Fails
    BY <1>2 DEF ClientDisconnect, DisconnectClose, DisconnectJoin, Cuts, Fails, clientVars, netVars,
       pvars
  <2>2. todo # <<>> /\ Head(todo) \in {"d_check", "d_join"}
    BY <2>1 DEF At
  <2>3. (\E s \in Seq(Plain) : Then(s)) /\ (UNCHANGED pvars \/ Fails \/ Cuts)
    BY <2>1, PlainLists, PlainNames
  <2>4. MainKind
    BY <2>2, <2>3 DEF MainKind, PlainStep, ReturnSteps
  <2> QED BY <1>1, <1>2, <2>4, StillMove DEF ClientDisconnect, MainOnly
<1>3. CASE DaemonStart
  <2>1. MainKind
    BY <1>3, KindNone, PlainNames, PlainLists DEF DaemonStart
  <2> QED BY <1>1, <1>3, <2>1, StillMove DEF DaemonStart
<1>4. CASE ConnectNow
  <2>1. MainKind
    <3>1. CASE Reachable
      BY <1>4, <3>1, KindNone, PlainNames, PlainLists DEF ConnectNow
    <3>2. CASE ~Reachable
      BY <1>4, <3>2, KindNone, PlainNames, PlainLists DEF ConnectNow
    <3> QED BY <3>1, <3>2
  <2> QED BY <1>1, <1>4, <2>1, StillMove DEF ConnectNow, MainOnly
<1>5. CASE DaemonConnect
  <2>1. /\ At("daemon_connect") /\ NoCall
        /\ Then(<<>>) \/ Then(<<"d_check", "launch">>) \/ Then(<<"launch">>)
    BY <1>5 DEF DaemonConnect
  <2>2. MainKind
    BY <2>1, KindNone, PlainNames, PlainLists
  <2> QED BY <1>1, <1>5, <2>2, StillMove DEF DaemonConnect, MainOnly
<1>6. CASE Launch
  <2>1. MainKind
    BY <1>6, KindNone, PlainNames, PlainLists DEF Launch
  <2> QED BY <1>6, <2>1 DEF Launch, MainMove, AInv, JobTypes, ConnBusy
<1>7. CASE AutoConnect
  <2>1. At("auto_connect") /\ NoCall /\ (Then(<<>>) \/ Then(<<"daemon_connect">>))
    BY <1>7 DEF AutoConnect
  <2>2. MainKind
    BY <2>1, KindNone, PlainNames, PlainLists
  <2> QED BY <1>1, <1>7, <2>2, StillMove DEF AutoConnect, MainOnly
<1>8. CASE DrainResult
  <2>1. MainKind
    BY <1>8, KindNone, PlainNames, PlainLists DEF DrainResult
  <2>2. \/ conn' = conn
        \/ ~conn_running /\ conn' = "none"
    BY <1>8 DEF DrainResult
  <2>3. /\ conn' = "detect" <=> conn = "detect"
        /\ ConnBusy'
    BY <1>8, <2>2 DEF DrainResult, AInv, ConnBusy
  <2> QED BY <1>8, <2>1, <2>3 DEF DrainResult, MainMove, AInv, JobTypes
<1>9. CASE DtorDisconnect
  <2>1. At("dtor_disc") /\ NoCall /\ (Then(<<>>) \/ Then(<<"d_check">>))
    BY <1>9 DEF DtorDisconnect
  <2>2. MainKind
    BY <2>1, KindNone, PlainNames, PlainLists
  <2> QED BY <1>1, <1>9, <2>2, StillMove DEF DtorDisconnect, MainOnly, View
<1>10. CASE JoinConnect
  <2>1. MainKind
    BY <1>10, KindNone, PlainNames, PlainLists DEF JoinConnect
  <2> QED BY <1>10, <2>1 DEF JoinConnect, View, MainMove, AInv, JobTypes, ConnBusy
<1>11. CASE ControllerStop
  <2>1. /\ At("ctrl_stop") \/ At("ctrl_join") \/ At("exit")
        /\ NoCall /\ (Then(<<>>) \/ Then(<<"ctrl_join">>))
    BY <1>11 DEF ControllerStop
  <2>2. MainKind
    BY <2>1, KindNone, PlainNames, PlainLists
  <2> QED BY <1>1, <1>11, <2>2, StillMove DEF ControllerStop, View
<1> QED BY <1>2, <1>3, <1>4, <1>5, <1>6, <1>7, <1>8, <1>9, <1>10, <1>11

\* The steps that make the calls the user asked for.
LEMMA AskMoves ==
  ASSUME AInv,
         CallLoad \/ LoadDone \/ PinsDone \/ CallStart \/ CaptureStarted \/ refreshPinReadback
           \/ CallScript \/ ViewDone
  PROVE  MainMove
<1>1. MainInv /\ job_id \in Nat /\ 0 \in Nat
  BY DEF AInv, JobTypes
<1>2. CASE CallLoad
  <2>1. MainKind
    BY <1>1, <1>2, KindCall, PlainNames DEF CallLoad, ReturnSteps, Methods
  <2> QED BY <1>1, <1>2, <2>1, StillMove DEF CallLoad, MainOnly, View
<1>3. CASE LoadDone
  <2>1. MainKind
    <3>1. CASE Result("main")
      BY <1>1, <1>3, <3>1, KindCall DEF LoadDone, ReturnSteps, Methods
    <3>2. CASE ~Result("main")
      BY <1>3, <3>2, KindReturn, PlainLists DEF LoadDone
    <3> QED BY <3>1, <3>2
  <2> QED BY <1>1, <1>3, <2>1, StillMove DEF LoadDone, MainOnly, View
<1>4. CASE PinsDone
  <2>1. MainKind
    BY <1>4, KindReturn, PlainLists DEF PinsDone
  <2> QED BY <1>1, <1>4, <2>1, StillMove DEF PinsDone, MainOnly
<1>5. CASE CallStart
  <2>1. MainKind
    <3>1. CASE connected
      BY <1>1, <1>5, <3>1, KindCall, PlainNames DEF CallStart, ReturnSteps, Methods
    <3>2. CASE ~connected
      BY <1>5, <3>2, KindNone, PlainNames, PlainLists DEF CallStart
    <3> QED BY <3>1, <3>2
  <2> QED BY <1>1, <1>5, <2>1, StillMove DEF CallStart, MainOnly, View
<1>6. CASE CaptureStarted
  <2>1. MainKind
    BY <1>6, KindReturn, PlainLists DEF CaptureStarted
  <2>2. job_id' \in Nat
    <3>1. CASE Result("main")
      <4>1. call["main"].ans \in Answers
        BY <3>1, ThreadNames DEF Result, AInv, ClientInv, ClientTypes
      <4> QED BY <1>6, <3>1, <4>1 DEF CaptureStarted, Answers
    <3>2. CASE ~Result("main")
      BY <1>1, <1>6, <3>2 DEF CaptureStarted
    <3> QED BY <3>1, <3>2
  <2> QED BY <1>6, <2>1, <2>2, StillMove DEF CaptureStarted, MainOnly
<1>7. CASE refreshPinReadback
  <2>1. MainKind
    <3>1. CASE connected
      BY <1>1, <1>7, <3>1, KindCall, PlainNames DEF refreshPinReadback, ReturnSteps, Methods
    <3>2. CASE ~connected
      BY <1>7, <3>2, KindNone, PlainNames, PlainLists DEF refreshPinReadback
    <3> QED BY <3>1, <3>2
  <2> QED BY <1>1, <1>7, <2>1, StillMove DEF refreshPinReadback, MainOnly, View
<1>8. CASE CallScript
  <2>1. MainKind
    BY <1>1, <1>8, KindCall, PlainNames DEF CallScript, ReturnSteps, Methods
  <2> QED BY <1>1, <1>8, <2>1, StillMove DEF CallScript, MainOnly, View
<1>9. CASE ViewDone
  <2>1. MainKind
    BY <1>9, KindReturn, PlainLists DEF ViewDone
  <2> QED BY <1>1, <1>9, <2>1, StillMove DEF ViewDone, MainOnly, View
<1> QED BY <1>2, <1>3, <1>4, <1>5, <1>6, <1>7, <1>8, <1>9

\* Every step of the main thread keeps the invariant.
LEMMA MainKeeps ==
  ASSUME AInv, Main
  PROVE  AInv'
<1>1. MainMove
  BY StopMoves, ConnectMoves, AskMoves DEF Main
<1> QED BY <1>1, MainMoveKeeps

---------------------------------------------------------------------------
(* The event loop, the user and the other threads                          *)

\* Between handlers the main thread may be given any list of plain steps.
LEMMA IdleMain ==
  ASSUME AInv, todo = <<>>, todo' \in Seq(Plain) \/ todo' = <<"capture_start">>,
         call'["main"].pc = "idle" <=> call["main"].pc = "idle"
  PROVE  MainInv'
<1>1. call["main"].pc = "idle"
  BY DEF AInv, MainInv
<1>2. CASE todo' = <<"capture_start">>
  <2>1. <<>> \in Seq(Plain) /\ <<"capture_start">> \o <<>> = <<"capture_start">>
    BY SMT
  <2>2. "capture_start" \in MainSteps /\ "capture_start" \notin ReturnSteps
    BY DEF MainSteps, ReturnSteps
  <2>3. /\ todo' \in Seq(MainSteps) /\ todo' # <<>> /\ Head(todo') = "capture_start"
        /\ Tail(todo') = <<>>
    BY <1>2, <2>2, SMT
  <2> QED BY <1>1, <2>1, <2>2, <2>3 DEF MainInv
<1> QED BY <1>1, <1>2, PlainMain

\* A step that makes no call and leaves the other threads where they are.
LEMMA NewTodo ==
  ASSUME AInv, todo = <<>>, todo' \in Seq(Plain) \/ todo' = <<"capture_start">>, NoCall, JobTypes',
         UNCHANGED <<conn, conn_running>>, prog' = "call" <=> prog = "call"
  PROVE  AInv'
<1>1. UNCHANGED pvars
  BY DEF NoCall, pvars, clientVars, netVars
<1>2. ClientInv'
  BY <1>1, QuietKeeps DEF AInv, QuietStep
<1>3. MainInv'
  BY <1>1, IdleMain DEF pvars
<1>4. OthersInv' /\ ConnBusy'
  BY <1>1 DEF AInv, OthersInv, ConnBusy, pvars
<1> QED BY <1>2, <1>3, <1>4 DEF AInv

\* A frame of run() puts plain steps together.
LEMMA FrameKeeps ==
  ASSUME AInv, Frame
  PROVE  AInv'
<1>2. PICK refreshes \in BOOLEAN :
        todo' = (IF pending_connect THEN <<"auto_connect">> ELSE <<>>)
                  \o (IF conn_result /\ ~conn_running THEN <<"drain">> ELSE <<>>)
                  \o (IF refreshes THEN <<"refresh">> ELSE <<>>)
  BY DEF Frame
<1>3. todo' \in Seq(Plain)
  <2>1. (IF pending_connect THEN <<"auto_connect">> ELSE <<>>) \in Seq(Plain)
    BY PlainLists, PlainNames
  <2>2. (IF conn_result /\ ~conn_running THEN <<"drain">> ELSE <<>>) \in Seq(Plain)
    BY PlainLists, PlainNames
  <2>3. (IF refreshes THEN <<"refresh">> ELSE <<>>) \in Seq(Plain)
    BY PlainLists, PlainNames
  <2> QED BY <1>2, <2>1, <2>2, <2>3, PlainLists
<1>4. JobTypes'
  BY DEF Frame, AInv, JobTypes
<1> QED BY <1>3, <1>4, NewTodo DEF Frame, workVars

\* The handlers that others are built from are lists of plain steps.
LEMMA Handlers ==
  /\ onDisconnect \in Seq(Plain) /\ onConnect \in Seq(Plain)
  /\ onDisconnect \o <<"dtor_disc", "join_conn", "d_check", "ctrl_stop", "exit">> \in Seq(Plain)
<1>1. \A a, b, c, d \in Plain : <<a, b, c, d>> \in Seq(Plain)
  <2> TAKE a, b, c, d \in Plain
  <2> QED BY SMT
<1>2. \A a, b, c, d, e \in Plain : <<a, b, c, d, e>> \in Seq(Plain)
  <2> TAKE a, b, c, d, e \in Plain
  <2> QED BY SMT
<1>3. onDisconnect \in Seq(Plain)
  BY <1>1, PlainNames DEF onDisconnect
<1>4. <<"dtor_disc", "join_conn", "d_check", "ctrl_stop", "exit">> \in Seq(Plain)
  BY <1>2, PlainNames
<1>5. <<"daemon_start", "connect_now">> \in Seq(Plain)
  BY PlainLists, PlainNames
<1> QED BY <1>3, <1>4, <1>5, PlainLists DEF onConnect

\* An input of the user that starts a handler.
LEMMA InputKeeps ==
  ASSUME AInv, NEW s, s \in Seq(Plain) \/ s = <<"capture_start">>, Input(s), job_id' \in Nat,
         prog' = "call" <=> prog = "call"
  PROVE  AInv'
<1>1. JobTypes'
  BY DEF Input, AInv, JobTypes
<1> QED BY <1>1, NewTodo DEF Input

\* Every input of the user keeps the invariant; onProgramPl() begins a call.
LEMMA UserKeeps ==
  ASSUME AInv, User
  PROVE  AInv'
<1>1. job_id \in Nat
  BY DEF AInv, JobTypes
<1>2. CASE OpenDialog
  <2>1. todo' \in Seq(Plain) /\ JobTypes'
    BY <1>2, PlainLists DEF OpenDialog, View, AInv, JobTypes
  <2> QED BY <1>2, <2>1, NewTodo DEF OpenDialog, workVars
<1>3. CASE AcceptDialog
  BY <1>1, <1>3, Handlers, InputKeeps DEF AcceptDialog, View
<1>4. CASE MenuDisconnect
  BY <1>1, <1>4, Handlers, InputKeeps DEF MenuDisconnect, View
<1>5. CASE MenuStop
  BY <1>1, <1>5, PlainLists, PlainNames, InputKeeps DEF MenuStop, View
<1>6. CASE OpenBsdl
  BY <1>1, <1>6, PlainLists, PlainNames, InputKeeps DEF OpenBsdl, View
<1>7. CASE MenuRun
  BY <1>1, <1>7, InputKeeps DEF MenuRun, View
<1>8. CASE onClearWaveforms
  BY <1>1, <1>8, PlainLists, InputKeeps DEF onClearWaveforms
<1>9. CASE Readback
  BY <1>1, <1>9, PlainLists, PlainNames, InputKeeps DEF Readback, View
<1>10. CASE RunScript
  BY <1>1, <1>10, PlainLists, PlainNames, InputKeeps DEF RunScript, View
<1>11. CASE CloseProgramModal
  <2>1. prog' = "call" <=> prog = "call"
    BY <1>11 DEF CloseProgramModal
  <2> QED BY <1>1, <1>11, <2>1, PlainLists, InputKeeps DEF CloseProgramModal, View
<1>12. CASE CloseWindow
  BY <1>1, <1>12, Handlers, InputKeeps DEF CloseWindow, View
<1>13. CASE onProgramPl
  <2>1. JobTypes' /\ ConnBusy'
    BY <1>13 DEF onProgramPl, View, AInv, JobTypes, ConnBusy
  <2>2. prog # "call" /\ call["prog"].pc = "idle" /\ todo = <<>> /\ todo' = <<>>
    BY <1>13 DEF onProgramPl, AInv, OthersInv
  <2>3. CASE connected
    <3>1. Begins("prog")
      <4>1. <<"program_pl", 0>> \in Asked
        BY DEF Asked, Methods
      <4> QED BY <1>13, <2>2, <2>3, <4>1 DEF onProgramPl, Begins, NetStill, netVars
    <3>2. /\ ClientInv' /\ call'["prog"].pc # "idle"
          /\ call'["main"] = call["main"] /\ call'["conn"] = call["conn"]
      BY <3>1, BeginKeeps, ThreadNames DEF AInv
    <3>3. MainInv'
      BY <2>2, <3>2, IdleMain, PlainLists
    <3>4. OthersInv'
      BY <1>13, <2>3, <3>2 DEF onProgramPl, AInv, OthersInv
    <3> QED BY <2>1, <3>2, <3>3, <3>4 DEF AInv
  <2>4. CASE ~connected
    <3>1. NoCall /\ todo' \in Seq(Plain) /\ (prog' = "call" <=> prog = "call")
          /\ UNCHANGED <<conn, conn_running>>
      BY <1>13, <2>4, <2>2, PlainLists DEF onProgramPl, NoCall, clientVars
    <3> QED BY <2>1, <2>2, <3>1, NewTodo
  <2> QED BY <2>3, <2>4
<1> QED BY <1>2, <1>3, <1>4, <1>5, <1>6, <1>7, <1>8, <1>9, <1>10, <1>11, <1>12, <1>13 DEF User

\* The connect thread.
LEMMA ConnKeeps ==
  ASSUME AInv, ConnThread
  PROVE  AInv'
<1>1. UNCHANGED <<appVars, prog, jobs>>
  BY DEF ConnThread
<1>2. JobTypes'
  BY <1>1 DEF appVars, AInv, JobTypes
<1>3. /\ call["conn"].pc # "idle" <=> conn = "detect"
      /\ call["prog"].pc # "idle" <=> prog = "call"
  BY DEF AInv, OthersInv
<1>4. ASSUME QuietStep, conn # "detect", conn' # "detect", ConnBusy'
      PROVE  AInv'
  <2>1. ClientInv' /\ SameCallers
    BY <1>4, QuietKeeps DEF AInv
  <2>2. MainInv'
    BY <1>1, <2>1, ThreadNames DEF AInv, MainInv, SameCallers, appVars
  <2>3. OthersInv'
    BY <1>1, <1>3, <1>4, <2>1, ThreadNames DEF OthersInv, SameCallers
  <2> QED BY <1>2, <1>4, <2>1, <2>2, <2>3 DEF AInv
<1>5. CASE conn = "begin" /\ ConnectSock /\ conn' = "up" /\ conn_running' = conn_running
  <2>1. QuietStep
    BY <1>5 DEF ConnectSock, QuietStep, Cuts
  <2> QED BY <1>4, <1>5, <2>1 DEF AInv, ConnBusy
<1>6. CASE conn = "begin" /\ ConnEnds /\ NoCall
  <2>1. QuietStep
    BY <1>6 DEF NoCall, clientVars, netVars, QuietStep, pvars
  <2> QED BY <1>4, <1>6, <2>1 DEF ConnEnds, ConnBusy
<1>7. CASE conn = "up" /\ ConnectUp /\ conn' = "spawn" /\ conn_running' = conn_running
  <2>1. QuietStep
    BY <1>7 DEF ConnectUp, netVars, QuietStep, pvars
  <2> QED BY <1>4, <1>7, <2>1 DEF AInv, ConnBusy
<1>8. CASE /\ conn = "spawn" /\ ConnectSpawn(<<"detect_devices", 0>>) /\ conn' = "detect"
           /\ conn_running' = conn_running
  <2>1. Begins("conn")
    <3>1. <<"detect_devices", 0>> \in Asked
      BY DEF Asked, Methods
    <3>2. call["conn"].pc = "idle"
      BY <1>3, <1>8, ThreadNames DEF AInv, ClientInv, ClientTypes
    <3> QED BY <1>8, <3>1, <3>2 DEF ConnectSpawn, Begins, NetStill, netVars
  <2>2. /\ ClientInv' /\ call'["conn"].pc # "idle"
        /\ call'["main"] = call["main"] /\ call'["prog"] = call["prog"]
    BY <2>1, BeginKeeps, ThreadNames DEF AInv
  <2>3. MainInv'
    BY <1>1, <2>2 DEF AInv, MainInv, appVars
  <2>4. OthersInv' /\ ConnBusy'
    BY <1>1, <1>3, <1>8, <2>2 DEF OthersInv, AInv, ConnBusy
  <2> QED BY <1>2, <2>2, <2>3, <2>4 DEF AInv
<1>9. CASE conn = "spawn" /\ NoCall /\ UNCHANGED <<conn, conn_running>>
  <2>1. QuietStep
    BY <1>9 DEF NoCall, clientVars, netVars, QuietStep, pvars
  <2> QED BY <1>4, <1>9, <2>1 DEF AInv, ConnBusy
<1>10. CASE conn = "detect" /\ Returned("conn") /\ ConnEnds
  <2>1. Ends("conn")
    BY <1>10 DEF Returned, Ends, NetStill, netVars
  <2>2. /\ ClientInv' /\ call'["conn"].pc = "idle"
        /\ call'["main"] = call["main"] /\ call'["prog"] = call["prog"]
    BY <2>1, EndKeeps, ThreadNames DEF AInv
  <2>3. MainInv'
    BY <1>1, <2>2 DEF AInv, MainInv, appVars
  <2>4. OthersInv' /\ ConnBusy'
    BY <1>1, <1>3, <1>10, <2>2 DEF OthersInv, ConnBusy, ConnEnds
  <2> QED BY <1>2, <2>2, <2>3, <2>4 DEF AInv
<1> QED BY <1>5, <1>6, <1>7, <1>8, <1>9, <1>10 DEF ConnThread

\* The thread that programs the PL ends with its call.
LEMMA ProgramKeeps ==
  ASSUME AInv, ProgramThread
  PROVE  AInv'
<1>1. Ends("prog")
  BY DEF ProgramThread, Returned, Ends, NetStill, netVars
<1>2. /\ ClientInv' /\ call'["prog"].pc = "idle"
      /\ call'["main"] = call["main"] /\ call'["conn"] = call["conn"]
  BY <1>1, EndKeeps, ThreadNames DEF AInv
<1>3. MainInv' /\ JobTypes'
  BY <1>2 DEF ProgramThread, appVars, AInv, MainInv, JobTypes
<1>4. OthersInv' /\ ConnBusy'
  BY <1>2 DEF ProgramThread, AInv, OthersInv, ConnBusy
<1> QED BY <1>2, <1>3, <1>4 DEF AInv

\* Steps of the client, the connection and the daemon.
LEMMA OutsideKeeps ==
  ASSUME AInv, QuietStep, UNCHANGED <<appVars, workVars>>,
         jobs' \in Seq({"running", "cancelling", "done"})
  PROVE  AInv'
<1>1. ClientInv' /\ SameCallers
  BY QuietKeeps DEF AInv
<1>2. MainInv' /\ OthersInv'
  BY <1>1, ThreadNames DEF AInv, MainInv, OthersInv, SameCallers, appVars, workVars
<1>3. JobTypes' /\ ConnBusy'
  BY DEF AInv, JobTypes, ConnBusy, appVars, workVars
<1> QED BY <1>1, <1>2, <1>3 DEF AInv

\* A function on an initial segment of the naturals is a sequence.
LEMMA SequenceOf ==
  ASSUME NEW S, NEW n \in Nat, NEW f \in [1 .. n -> S]
  PROVE  f \in Seq(S)
  BY SMT

\* A sequence as such a function.
LEMMA JobsOf ==
  ASSUME NEW S, NEW s \in Seq(S)
  PROVE  /\ Len(s) \in Nat /\ s \in [1 .. Len(s) -> S] /\ DOMAIN s = 1 .. Len(s)
         /\ \A x \in S : Append(s, x) \in Seq(S)
  BY SMT

JobStates == {"running", "cancelling", "done"}

\* The daemon takes one request and answers it.
LEMMA ServeKeeps ==
  ASSUME AInv, Serve
  PROVE  AInv'
<1> DEFINE m == Head(to_server)
           j == m.req[2]
<1>1. /\ jobs \in Seq(JobStates) /\ to_server \in Seq(Requests) /\ to_server # <<>>
  BY DEF AInv, JobTypes, ClientInv, ClientTypes, Serve, JobStates
<1>2. m \in Requests
  BY <1>1, TailElements
<1>3. j \in Nat /\ m.id \in Nat /\ m.req \in Asked
  BY <1>2 DEF Requests, Asked
<1>4. /\ Len(jobs) \in Nat /\ jobs \in [1 .. Len(jobs) -> JobStates]
      /\ Append(jobs, "running") \in Seq(JobStates)
  <2>1. "running" \in JobStates
    BY DEF JobStates
  <2> QED BY <1>1, <2>1, JobsOf
<1>5. [jobs EXCEPT ![j] = IF @ = "running" THEN "cancelling" ELSE @] \in Seq(JobStates)
  <2> DEFINE f == [jobs EXCEPT ![j] = IF @ = "running" THEN "cancelling" ELSE @]
  <2>1. f \in [1 .. Len(jobs) -> JobStates]
    BY <1>4 DEF JobStates
  <2> HIDE DEF f
  <2>2. f \in Seq(JobStates)
    BY <1>4, <2>1, SequenceOf, Zenon
  <2> QED BY <2>2 DEF f
<1>6. \A ok, terminal \in BOOLEAN, k \in Nat :
         /\ Answer(m, ok, k, terminal) \in Answers
         /\ Answer(m, ok, k, terminal).id = m.id /\ Answer(m, ok, k, terminal).req = m.req
  BY <1>3 DEF Answer, Answers
<1>7. \E ok, terminal \in BOOLEAN, k \in Nat :
         /\ to_client' = Append(to_client, Answer(m, ok, k, terminal))
         /\ jobs' = jobs \/ jobs' = Append(jobs, "running")
              \/ jobs' = [jobs EXCEPT ![j] = IF @ = "running" THEN "cancelling" ELSE @]
  <2>1. CASE m.req[1] = "capture_start"
    <3>1. \/ to_client' = Append(to_client, Answer(m, TRUE, Len(jobs) + 1, FALSE))
              /\ jobs' = Append(jobs, "running")
          \/ to_client' = Append(to_client, Answer(m, FALSE, 0, FALSE)) /\ jobs' = jobs
      BY <2>1 DEF Serve
    <3>2. Len(jobs) + 1 \in Nat /\ 0 \in Nat
      BY <1>4
    <3> HIDE DEF m
    <3> QED BY <3>1, <3>2, Zenon
  <2>2. CASE m.req[1] = "capture_stop"
    <3>1. /\ to_client' = Append(to_client, Answer(m, TRUE, j, FALSE))
          /\ jobs' = [jobs EXCEPT ![j] = IF @ = "running" THEN "cancelling" ELSE @]
      BY <2>2 DEF Serve
    <3> QED BY <1>3, <3>1
  <2>3. CASE m.req[1] = "capture_get_samples"
    <3>1. to_client' = Append(to_client, Answer(m, TRUE, j, jobs[j] = "done")) /\ jobs' = jobs
      BY <2>3 DEF Serve
    <3>2. (jobs[j] = "done") \in BOOLEAN
      OBVIOUS
    <3> j \in Nat
      BY <1>3
    <3> WITNESS TRUE \in BOOLEAN, (jobs[j] = "done") \in BOOLEAN, j \in Nat
    <3> QED BY <3>1
  <2>4. CASE m.req[1] \notin {"capture_start", "capture_stop", "capture_get_samples"}
    <3>1. PICK ok \in BOOLEAN : to_client' = Append(to_client, Answer(m, ok, 0, FALSE))
      BY <2>4 DEF Serve
    <3>2. jobs' = jobs
      BY <2>4 DEF Serve
    <3> QED BY <3>1, <3>2
  <2> QED BY <2>1, <2>2, <2>3, <2>4
<1>8. QuietStep
  <2>1. /\ to_server' = Tail(to_server) /\ UNCHANGED <<call, pending, abandoned, next_id>>
    BY DEF Serve, clientVars
  <2>2. Serves
    BY <1>1, <1>6, <1>7, <2>1 DEF Serves
  <2> QED BY <2>2 DEF QuietStep
<1>9. jobs' \in Seq(JobStates)
  BY <1>1, <1>4, <1>5, <1>7
<1>10. UNCHANGED <<appVars, workVars>>
  BY DEF Serve
<1> QED BY <1>8, <1>9, <1>10, OutsideKeeps DEF JobStates

\* Every step keeps the invariant.
LEMMA NextKeeps ==
  ASSUME AInv, [AppNext]_avars
  PROVE  AInv'
<1>1. jobs \in Seq(JobStates)
  BY DEF AInv, JobTypes, JobStates
<1>2. Len(jobs) \in Nat /\ jobs \in [1 .. Len(jobs) -> JobStates] /\ DOMAIN jobs = 1 .. Len(jobs)
  BY <1>1, JobsOf
<1>3. CASE Main
  BY <1>3, MainKeeps
<1>4. CASE Frame
  BY <1>4, FrameKeeps
<1>5. CASE User
  BY <1>5, UserKeeps
<1>6. CASE ConnThread
  BY <1>6, ConnKeeps
<1>7. CASE ProgramThread
  BY <1>7, ProgramKeeps
<1>8. CASE Serve
  BY <1>8, ServeKeeps
<1>9. CASE ClientThreads
  <2>1. QuietStep
    <3>1. CASE Reader
      BY <3>1 DEF Reader, ReaderLost, ReaderFail, QuietStep, Fails, pvars, netVars
    <3>2. CASE \E t \in Threads : CallStep(t)
      BY <3>2 DEF QuietStep, Calling
    <3> QED BY <1>9, <3>1, <3>2 DEF ClientThreads, CallStep
  <2> QED BY <1>1, <1>9, <2>1, OutsideKeeps DEF ClientThreads, JobStates
<1>10. CASE ControllerThread
  <2>1. UNCHANGED pvars /\ UNCHANGED jobs /\ UNCHANGED <<appVars, workVars>>
    BY <1>10 DEF ControllerThread, clientVars, netVars, pvars, envVars
  <2> QED BY <1>1, <2>1, OutsideKeeps DEF QuietStep, JobStates
<1>11. CASE JobEnds
  <2>1. PICK j \in DOMAIN jobs : jobs' = [jobs EXCEPT ![j] = "done"]
    BY <1>11 DEF JobEnds
  <2>2. jobs' \in [1 .. Len(jobs) -> JobStates]
    BY <1>2, <2>1 DEF JobStates
  <2>3. jobs' \in Seq(JobStates)
    BY <1>2, <2>2, SequenceOf, Zenon
  <2>4. UNCHANGED pvars /\ UNCHANGED <<appVars, workVars>>
    BY <1>11 DEF JobEnds, clientVars, netVars, pvars
  <2> QED BY <2>3, <2>4, OutsideKeeps DEF QuietStep, JobStates
<1>12. CASE DaemonProcess
  <2>1. QuietStep
    BY <1>12 DEF DaemonProcess, PeerCloses, clientVars, netVars, QuietStep, Cuts, pvars
  <2>2. jobs' \in Seq(JobStates)
    <3>1. CASE jobs' = jobs
      BY <1>1, <3>1
    <3>2. CASE jobs' = [j \in DOMAIN jobs |-> "done"]
      <4>1. jobs' \in [1 .. Len(jobs) -> JobStates]
        BY <1>2, <3>2 DEF JobStates
      <4> QED BY <1>2, <4>1, SequenceOf, Zenon
    <3> QED BY <1>12, <3>1, <3>2 DEF DaemonProcess
  <2>3. UNCHANGED <<appVars, workVars>>
    BY <1>12 DEF DaemonProcess
  <2> QED BY <2>1, <2>2, <2>3, OutsideKeeps DEF JobStates
<1>13. CASE UNCHANGED avars
  <2>1. UNCHANGED pvars /\ UNCHANGED jobs /\ UNCHANGED <<appVars, workVars>>
    BY <1>13 DEF avars, clientVars, netVars, pvars, envVars
  <2> QED BY <1>1, <2>1, OutsideKeeps DEF QuietStep, JobStates
<1> QED BY <1>3, <1>4, <1>5, <1>6, <1>7, <1>8, <1>9, <1>10, <1>11, <1>12, <1>13 DEF AppNext

\* The invariant holds initially.
LEMMA InitKeeps ==
  ASSUME AppInit
  PROVE  AInv
<1>1. ClientTypes
  <2>1. \A t \in Threads : call[t] = Idle
    BY DEF AppInit, ClientInit
  <2>2. call \in [Threads -> Calls] /\ next_id \in Nat
    BY IdleCall DEF AppInit, ClientInit
  <2>3. to_server \in Seq(Requests) /\ to_client \in Seq(Answers)
    BY Lists DEF AppInit, ClientInit
  <2> QED BY <2>1, <2>2, <2>3, IdleCall DEF ClientTypes, Idle
<1>2. \A t \in Threads : call[t].pc = "idle"
  BY DEF AppInit, ClientInit, Idle
<1>3. DOMAIN to_server = {} /\ DOMAIN to_client = {} /\ pending = {} /\ abandoned = {}
  <2>1. to_server = <<>> /\ to_client = <<>> /\ pending = {} /\ abandoned = {}
    BY DEF AppInit, ClientInit
  <2>2. DOMAIN <<>> = {}
    BY SMT
  <2> QED BY <2>1, <2>2, Zenon
<1>4. ClientInv
  BY <1>1, <1>2, <1>3 DEF ClientInv, IdInv, MatchInv, AnswersOwn, PromiseInv, NoLeakedPromise,
     Active, InProgress
<1>5. MainInv
  <2>1. todo = <<>> /\ todo \in Seq(MainSteps)
    BY Lists DEF AppInit
  <2> QED BY <1>2, <2>1, ThreadNames DEF MainInv
<1>6. OthersInv /\ ConnBusy
  BY <1>2, ThreadNames DEF AppInit, OthersInv, ConnBusy
<1>7. JobTypes
  BY Lists DEF AppInit, JobTypes
<1> QED BY <1>4, <1>5, <1>6, <1>7 DEF AInv

\* The invariant holds always.
LEMMA Inductive == AppSpec => []AInv
<1>1. AInv /\ [AppNext]_avars => AInv'
  BY NextKeeps
<1> QED BY <1>1, InitKeeps, PTL DEF AppSpec

\* Whatever the connection, the daemon and the user do, a call that returns a
\* result returns the answer to its own request (call() and the reader thread
\* of GuiDaemonClient match by ids that are never used twice).
THEOREM AnswersAreOwn == AppSpec => []AnswersOwn
<1>1. AInv => AnswersOwn
  BY DEF AInv, ClientInv
<1> QED BY <1>1, Inductive, PTL

\* Every promise that is registered belongs to a call in progress, unless the
\* exception of frameMessage() (a text that is no UTF-8) took that call away: no
\* other exit of call(), of the reader thread or of disconnect() leaves one, and
\* failAllPending() removes those too.
THEOREM PromisesAreKept == AppSpec => []NoLeakedPromise
<1>1. AInv => NoLeakedPromise
  BY DEF AInv, ClientInv, PromiseInv
<1> QED BY <1>1, Inductive, PTL

---------------------------------------------------------------------------
(* What is known of the jobs that requests and answers name                *)

\* The requests that name a job name one the daemon has.
Names(r) == r[1] \in {"capture_stop", "capture_get_samples"} => r[2] \in DOMAIN jobs

\* What an answer says of a job is true from then on.
Holds(a) ==
  /\ a.job <= Len(jobs) /\ Names(a.req)
  /\ a.req[1] \in {"capture_stop", "capture_get_samples"} => a.ok
  /\ a.req[1] = "capture_stop" => jobs[a.req[2]] # "running"
  /\ a.req[1] = "capture_get_samples" /\ a.terminal => jobs[a.req[2]] = "done"

\* Requests name jobs there are, and answers are true.
TruthInv ==
  /\ \A t \in Threads : call[t].pc # "idle" => Names(call[t].req)
  /\ \A t \in Threads : call[t].pc = "ok" => Holds(call[t].ans)
  /\ \A i \in DOMAIN to_server : Names(to_server[i].req)
  /\ \A i \in DOMAIN to_client : Holds(to_client[i])
  /\ job_id <= Len(jobs) /\ cached \in 0 .. Len(jobs) /\ Len(jobs) <= MaxJobs

---------------------------------------------------------------------------
(* The call the main thread is in                                          *)

\* The step the main thread is at.
Due(s) == todo # <<>> /\ Head(todo) = s
Starting == Due("capture_started")

\* The call the main thread waits for is the one its place says, and only
\* onStartCapture() calls capture_start.
CallInv ==
  /\ Due("cancelled") \/ Due("stopped") => call["main"].req = <<"capture_stop", job_id>>
  /\ Due("refreshed") => call["main"].req = <<"capture_get_samples", job_id>>
  /\ \A t \in Threads : call[t].pc # "idle" =>
        (call[t].req[1] = "capture_start" <=> t = "main" /\ Starting)

---------------------------------------------------------------------------
(* Between capture_start and the job's id                                  *)

\* No job runs; an answer tells of every job that runs; the messages that are
\* about capture_start, of which there is one at most.
NoneRuns == \A j \in DOMAIN jobs : jobs[j] # "running"
Tells(a) == \A j \in DOMAIN jobs : jobs[j] = "running" => a.ok /\ a.job = j
Starts(s) == {i \in DOMAIN s : s[i].req[1] = "capture_start"}
Once(s) == \A i, k \in Starts(s) : i = k

\* At most one capture_start is under way, or one answer to it; no job runs
\* until it is served, and then its answer tells of the job.
StartInv ==
  /\ Once(to_server) /\ Once(to_client)
  /\ Starts(to_server) = {} \/ Starts(to_client) = {}
  /\ Starts(to_server) \cup Starts(to_client) # {} => Starting /\ call["main"].pc \in {"wait", "failed"}
  /\ Starts(to_server) # {} => NoneRuns
  /\ \A i \in Starts(to_client) : Tells(to_client[i])
  /\ Starting /\ call["main"].pc \in {"check", "register", "send"} => NoneRuns
  /\ Starting /\ call["main"].pc = "ok" => Tells(call["main"].ans)

\* No job runs unless capturing_ is set or a capture starts; then it is the one
\* whose id is held.
HeldInv ==
  /\ Due("capture_start") => ~capturing_
  /\ ~capturing_ /\ ~Starting => NoneRuns
  /\ ~Starting => \A j \in DOMAIN jobs : jobs[j] = "running" => j = job_id

\* No call to the daemon has failed.
Sound == ~faulted
JobInv == TruthInv /\ CallInv /\ (Sound => StartInv /\ HeldInv)

\* A message under way is the one it was, or the first of a longer list.
LEMMA TailStarts ==
  ASSUME NEW S, NEW s \in Seq(S), s # <<>>
  PROVE  /\ 1 \in DOMAIN s /\ Head(s) = s[1]
         /\ \A i \in DOMAIN Tail(s) : i + 1 \in DOMAIN s /\ i + 1 # 1 /\ Tail(s)[i] = s[i + 1]
<1>1. Len(s) \in Nat \ {0} /\ DOMAIN s = 1 .. Len(s)
  BY SMT
<1>2. DOMAIN Tail(s) = 1 .. Len(s) - 1 /\ \A i \in 1 .. Len(s) - 1 : Tail(s)[i] = s[i + 1]
  BY <1>1
<1>3. \A i \in 1 .. Len(s) - 1 : i + 1 \in 1 .. Len(s) /\ i + 1 # 1
  BY <1>1
<1>4. Head(s) = s[1] /\ 1 \in 1 .. Len(s)
  BY <1>1
<1> QED BY <1>1, <1>2, <1>3, <1>4

\* A capture_start that is under way once stays so, and is gone when it is taken.
LEMMA OnceTail ==
  ASSUME NEW S, NEW s \in Seq(S), s # <<>>, Once(s)
  PROVE  /\ Once(Tail(s)) /\ (Starts(s) = {} => Starts(Tail(s)) = {})
         /\ Head(s).req[1] = "capture_start" => 1 \in Starts(s) /\ Starts(Tail(s)) = {}
         /\ \A i \in Starts(Tail(s)) : i + 1 \in Starts(s) /\ Tail(s)[i] = s[i + 1]
<1>1. /\ 1 \in DOMAIN s /\ Head(s) = s[1]
      /\ \A i \in DOMAIN Tail(s) : i + 1 \in DOMAIN s /\ i + 1 # 1 /\ Tail(s)[i] = s[i + 1]
  BY TailStarts
<1>2. \A i \in Starts(Tail(s)) : i + 1 \in Starts(s) /\ i + 1 # 1 /\ Tail(s)[i] = s[i + 1]
  BY <1>1 DEF Starts
<1>3. \A i, k \in Starts(Tail(s)) : i + 1 = k + 1
  BY <1>2 DEF Once
<1>4. \A i \in Starts(Tail(s)) : i \in Nat
  <2>1. DOMAIN Tail(s) = 1 .. Len(s) - 1 /\ Len(s) \in Nat
    BY SMT
  <2> QED BY <2>1 DEF Starts
<1>5. Once(Tail(s))
  BY <1>3, <1>4 DEF Once
<1>6. ASSUME Head(s).req[1] = "capture_start"
      PROVE  1 \in Starts(s) /\ Starts(Tail(s)) = {}
  <2>1. 1 \in Starts(s)
    BY <1>1, <1>6 DEF Starts
  <2> QED BY <1>2, <2>1 DEF Once
<1>7. Starts(s) = {} => Starts(Tail(s)) = {}
  BY <1>2
<1> QED BY <1>2, <1>5, <1>6, <1>7

\* What a message adds to those under way.
LEMMA OnceAppend ==
  ASSUME NEW S, NEW s \in Seq(S), NEW x \in S
  PROVE  /\ x.req[1] # "capture_start" => Starts(Append(s, x)) = Starts(s)
         /\ Starts(s) = {} => Starts(Append(s, x)) \subseteq {Len(s) + 1}
         /\ \A i \in Starts(Append(s, x)) :
               \/ i \in Starts(s) /\ Append(s, x)[i] = s[i]
               \/ i = Len(s) + 1 /\ Append(s, x)[i] = x
<1>1. Append(s, x) \in Seq(S) /\ DOMAIN Append(s, x) = 1 .. Len(s) + 1 /\ DOMAIN s = 1 .. Len(s)
      /\ Len(s) \in Nat
  BY SMT
<1>2. \A i \in 1 .. Len(s) : Append(s, x)[i] = s[i] /\ i \in 1 .. Len(s) + 1 /\ i # Len(s) + 1
  BY <1>1
<1>3. Append(s, x)[Len(s) + 1] = x
  BY <1>1
<1>4. \A i \in 1 .. Len(s) + 1 : i = Len(s) + 1 \/ i \in 1 .. Len(s)
  BY <1>1
<1>5. \A i \in Starts(Append(s, x)) :
        \/ i \in Starts(s) /\ Append(s, x)[i] = s[i]
        \/ i = Len(s) + 1 /\ Append(s, x)[i] = x
  BY <1>1, <1>2, <1>3, <1>4 DEF Starts
<1>6. ASSUME x.req[1] # "capture_start"
      PROVE  Starts(Append(s, x)) = Starts(s)
  <2>1. Starts(Append(s, x)) \subseteq Starts(s)
    BY <1>5, <1>6 DEF Starts
  <2>2. Starts(s) \subseteq Starts(Append(s, x))
    BY <1>1, <1>2 DEF Starts
  <2> QED BY <2>1, <2>2
<1> QED BY <1>5, <1>6

---------------------------------------------------------------------------
(* What answers say stays true                                             *)

\* Jobs are added; one that does not run never runs again, one that is done stays so.
JobsGrow ==
  /\ Len(jobs) <= Len(jobs') /\ Len(jobs') <= MaxJobs
  /\ \A j \in DOMAIN jobs : /\ j \in DOMAIN jobs'
                            /\ jobs'[j] = "running" => jobs[j] = "running"
                            /\ jobs[j] = "done" => jobs'[j] = "done"

\* How a step that serves no request moves messages: into a call that returns, and
\* from a call to the server.
Carries ==
  /\ \A t \in Threads : call'[t].pc = "ok" =>
        \/ call[t].pc = "ok" /\ call'[t].ans = call[t].ans
        \/ \E i \in DOMAIN to_client : call'[t].ans = to_client[i]
  /\ \A i \in DOMAIN to_server' :
        \/ \E k \in DOMAIN to_server : to_server'[i] = to_server[k]
        \/ \E t \in Threads : call[t].pc # "idle" /\ to_server'[i].req = call[t].req

\* The numbers of jobs.
LEMMA Lengths ==
  ASSUME AInv
  PROVE  /\ Len(jobs) \in Nat /\ DOMAIN jobs = 1 .. Len(jobs) /\ job_id \in Nat
         /\ \A t \in Threads : call[t].pc = "ok" => call[t].ans.job \in Nat
         /\ \A i \in DOMAIN to_client : to_client[i].job \in Nat
<1>1. jobs \in Seq({"running", "cancelling", "done"}) /\ job_id \in Nat
  BY DEF AInv, JobTypes
<1>2. Len(jobs) \in Nat /\ DOMAIN jobs = 1 .. Len(jobs)
  BY <1>1, JobsOf
<1>3. \A t \in Threads : call[t].pc = "ok" => call[t].ans.job \in Nat
  BY DEF AInv, ClientInv, ClientTypes, Answers
<1>4. to_client \in Seq(Answers)
  BY DEF AInv, ClientInv, ClientTypes
<1>5. \A i \in DOMAIN to_client : to_client[i] \in Answers
  BY <1>4, Elements, Zenon
<1> QED BY <1>1, <1>2, <1>3, <1>5 DEF Answers

\* A job that is named stays, and what is said of it stays true.
LEMMA StaysTrue ==
  ASSUME AInv, AInv', JobsGrow
  PROVE  /\ \A r : Names(r) => Names(r)'
         /\ \A a : a.job \in Nat /\ Holds(a) => Holds(a)'
<1>1. \A r : Names(r) => Names(r)'
  BY DEF Names, JobsGrow
<1>2. Len(jobs) \in Nat /\ Len(jobs') \in Nat
  BY Lengths
<1>3. ASSUME NEW a, a.job \in Nat, Holds(a) PROVE Holds(a)'
  <2>1. a.job <= Len(jobs')
    BY <1>2, <1>3 DEF Holds, JobsGrow
  <2>2. Names(a.req)'
    BY <1>1, <1>3 DEF Holds
  <2> QED BY <1>3, <2>1, <2>2 DEF Holds, Names, JobsGrow
<1> QED BY <1>1, <1>3

\* Answers are true when they are made, and requests name jobs there are.
LEMMA TruthKeeps ==
  ASSUME AInv, AInv', TruthInv, JobsGrow, Carries,
         \A t \in Threads : call'[t].pc # "idle" =>
            \/ call[t].pc # "idle" /\ call'[t].req = call[t].req
            \/ Names(call[t].req)',
         \A i \in DOMAIN to_client' :
            (\E k \in DOMAIN to_client : to_client'[i] = to_client[k]) \/ Holds(to_client[i])',
         job_id' <= Len(jobs'), cached' \in 0 .. Len(jobs')
  PROVE  TruthInv'
<1>1. /\ \A r : Names(r) => Names(r)'
      /\ \A a : a.job \in Nat /\ Holds(a) => Holds(a)'
  BY StaysTrue
<1>2. /\ \A t \in Threads : call[t].pc = "ok" => call[t].ans.job \in Nat /\ Holds(call[t].ans)
      /\ \A i \in DOMAIN to_client : to_client[i].job \in Nat /\ Holds(to_client[i])
  <2>1. /\ \A t \in Threads : call[t].pc = "ok" => call[t].ans.job \in Nat
        /\ \A i \in DOMAIN to_client : to_client[i].job \in Nat
    BY Lengths
  <2>2. /\ \A t \in Threads : call[t].pc = "ok" => Holds(call[t].ans)
        /\ \A i \in DOMAIN to_client : Holds(to_client[i])
    BY DEF TruthInv
  <2> QED BY <2>1, <2>2
<1>3. \A t \in Threads : call'[t].pc # "idle" => Names(call[t].req)'
  <2> SUFFICES ASSUME NEW t \in Threads, call[t].pc # "idle", call'[t].req = call[t].req
               PROVE  Names(call[t].req)'
    OBVIOUS
  <2>1. Names(call[t].req)
    BY DEF TruthInv
  <2> QED BY <2>1 DEF Names, JobsGrow
<1>4. \A t \in Threads : call'[t].pc = "ok" => Holds(call[t].ans)'
  <2> SUFFICES ASSUME NEW t \in Threads, call'[t].pc = "ok" PROVE Holds(call[t].ans)'
    OBVIOUS
  <2>1. PICK a : a = call'[t].ans
    OBVIOUS
  <2>2. a.job \in Nat /\ Holds(a)
    BY <1>2, <2>1 DEF Carries
  <2>3. Holds(a)'
    BY <1>1, <2>2
  <2> QED BY <2>1, <2>3 DEF Holds, Names
<1>5. \A i \in DOMAIN to_server' : Names(to_server[i].req)'
  <2> SUFFICES ASSUME NEW i \in DOMAIN to_server' PROVE Names(to_server[i].req)'
    OBVIOUS
  <2>1. PICK r : r = to_server'[i].req
    OBVIOUS
  <2>2. Names(r)
    BY <2>1 DEF Carries, TruthInv
  <2>3. Names(r)'
    BY <1>1, <2>2
  <2> QED BY <2>1, <2>3 DEF Names
<1>6. \A i \in DOMAIN to_client' : Holds(to_client[i])'
  <2> SUFFICES ASSUME NEW i \in DOMAIN to_client', NEW k \in DOMAIN to_client,
                      to_client'[i] = to_client[k]
               PROVE  Holds(to_client[i])'
    OBVIOUS
  <2>1. PICK a : a = to_client[k]
    OBVIOUS
  <2>2. a.job \in Nat /\ Holds(a)
    BY <1>2, <2>1
  <2>3. Holds(a)'
    BY <1>1, <2>2
  <2> QED BY <2>1, <2>3 DEF Holds, Names
<1> QED BY <1>3, <1>4, <1>5, <1>6 DEF TruthInv, JobsGrow

---------------------------------------------------------------------------
(* How a call goes on                                                      *)

\* A call keeps its request and goes on by one step, without an answer.
Advances(u) ==
  /\ call'[u].req = call[u].req
  /\ \/ call'[u] = call[u]
     \/ call[u].pc = "check" /\ call'[u].pc \in {"register", "failed"}
     \/ call[u].pc = "register" /\ call'[u].pc = "send"
     \/ call[u].pc = "send" /\ call'[u].pc \in {"wait", "failed"}
     \/ call[u].pc = "wait" /\ call'[u].pc = "failed"

\* The steps of call() that send nothing.
LEMMA CheckAdvances ==
  ASSUME AInv, NEW t \in Threads,
         CallCheck(t) \/ CallRegister(t) \/ CallThrows(t) \/ CallTimeout(t)
  PROVE  (\A u \in Threads : Advances(u)) /\ UNCHANGED <<to_server, to_client>>
<1>1. call[t] \in Calls /\ call \in [Threads -> Calls]
  BY DEF AInv, ClientInv, ClientTypes
<1>2. \A u \in Threads : u # t => call'[u] = call[u]
  BY <1>1 DEF CallCheck, CallRegister, CallThrows, CallTimeout
<1>3. UNCHANGED <<to_server, to_client>>
  BY DEF CallCheck, CallRegister, CallThrows, CallTimeout, netVars
<1>4. CASE CallCheck(t)
  <2>1. call'[t] = [call[t] EXCEPT !.pc = IF connected THEN "register" ELSE "failed"]
    BY <1>1, <1>4 DEF CallCheck
  <2>2. call[t].pc = "check" /\ call'[t].pc \in {"register", "failed"} /\ call'[t].req = call[t].req
    BY <1>1, <1>4, <2>1 DEF Calls, CallCheck
  <2> QED BY <1>2, <1>3, <2>2 DEF Advances
<1>5. CASE CallRegister(t)
  <2>1. call'[t] = [[call[t] EXCEPT !.pc = "send"] EXCEPT !.id = next_id]
    BY <1>1, <1>5 DEF CallRegister
  <2>2. call[t].pc = "register" /\ call'[t].pc = "send" /\ call'[t].req = call[t].req
    BY <1>1, <1>5, <2>1 DEF Calls, CallRegister
  <2> QED BY <1>2, <1>3, <2>2 DEF Advances
<1>6. CASE CallThrows(t) \/ CallTimeout(t)
  <2>1. call'[t] = [call[t] EXCEPT !.pc = "failed"]
    BY <1>1, <1>6 DEF CallThrows, CallTimeout
  <2>2. call[t].pc \in {"send", "wait"} /\ call'[t].pc = "failed" /\ call'[t].req = call[t].req
    BY <1>1, <1>6, <2>1 DEF Calls, CallThrows, CallTimeout
  <2> QED BY <1>2, <1>3, <2>2 DEF Advances
<1> QED BY <1>4, <1>5, <1>6

\* A request that is sent is the one of the call that sends it.
LEMMA SendAdvances ==
  ASSUME AInv, NEW t \in Threads, CallSend(t)
  PROVE  /\ \A u \in Threads : Advances(u)
         /\ call[t].pc = "send" /\ call'[t].pc \in {"wait", "failed"} /\ UNCHANGED to_client
         /\ \/ to_server' = to_server
            \/ \E x \in Requests : x.req = call[t].req /\ to_server' = Append(to_server, x)
<1> DEFINE x == [id |-> call[t].id, req |-> call[t].req]
<1>1. /\ call[t] \in Calls /\ call[t].pc = "send" /\ call \in [Threads -> Calls]
      /\ call[t].req \in Asked
  BY DEF AInv, ClientInv, ClientTypes, CallSend
<1>2. PICK pc \in {"wait", "failed"} :
        /\ call' = [call EXCEPT ![t].pc = pc]
        /\ to_server' = to_server \/ to_server' = Append(to_server, x)
  BY DEF CallSend
<1> DEFINE c == [call[t] EXCEPT !.pc = pc]
<1>3. c \in Calls /\ c.pc = pc /\ c.req = call[t].req
  BY <1>1 DEF Calls, CallPcs
<1>4. call' = [call EXCEPT ![t] = c]
  BY <1>1, <1>2
<1>5. x \in Requests /\ x.req = call[t].req
  BY <1>1 DEF Requests, Calls
<1> HIDE DEF c, x
<1>6. call'[t] = c /\ \A u \in Threads : u # t => call'[u] = call[u]
  BY <1>1, <1>3, <1>4, OneCall
<1>7. \A u \in Threads : Advances(u)
  BY <1>1, <1>3, <1>6 DEF Advances
<1>8. to_client' = to_client
  BY DEF CallSend
<1> QED BY <1>1, <1>2, <1>3, <1>5, <1>6, <1>7, <1>8

\* failAllPending() fails waiting calls.
LEMMA FailAdvances ==
  ASSUME AInv, Fails
  PROVE  (\A u \in Threads : Advances(u)) /\ UNCHANGED <<to_server, to_client>>
<1>1. call \in [Threads -> Calls] /\ UNCHANGED <<to_server, to_client>>
  BY DEF AInv, ClientInv, ClientTypes, Fails
<1>2. call' = [u \in Threads |-> IF u \in Waiting(pending) THEN [call[u] EXCEPT !.pc = "failed"] ELSE call[u]]
  BY DEF Fails, failAllPending
<1>3. ASSUME NEW u \in Threads PROVE Advances(u)
  <2>1. CASE u \in Waiting(pending)
    <3> DEFINE c == [call[u] EXCEPT !.pc = "failed"]
    <3>1. call[u].pc = "wait"
      BY <2>1 DEF Waiting
    <3>2. c.pc = "failed" /\ c.req = call[u].req
      BY <1>1 DEF Calls
    <3>3. call'[u] = c
      BY <1>2, <2>1
    <3> HIDE DEF c
    <3> QED BY <3>1, <3>2, <3>3 DEF Advances
  <2>2. CASE u \notin Waiting(pending)
    <3>1. call'[u] = call[u]
      BY <1>2, <2>2
    <3> QED BY <3>1 DEF Advances
  <2> QED BY <2>1, <2>2
<1> QED BY <1>1, <1>3

\* The reader takes an answer, which belongs to the call it ends.
LEMMA MatchTakes ==
  ASSUME AInv, ReaderMatch
  PROVE  /\ to_client # <<>> /\ to_client' = Tail(to_client) /\ UNCHANGED to_server
         /\ \A u \in Threads :
              \/ call'[u] = call[u]
              \/ /\ call[u].pc = "wait" /\ call'[u].pc = "ok" /\ call'[u].req = call[u].req
                 /\ call'[u].ans = Head(to_client) /\ Head(to_client).req = call[u].req
<1> DEFINE m == Head(to_client)
           W == Waiting(pending \cap {m.id})
<1>1. /\ call \in [Threads -> Calls] /\ to_client \in Seq(Answers) /\ to_client # <<>>
      /\ UNCHANGED to_server /\ to_client' = Tail(to_client)
  BY DEF AInv, ClientInv, ClientTypes, ReaderMatch
<1>2. call' = [u \in Threads |-> IF u \in W THEN [call[u] EXCEPT !.pc = "ok", !.ans = m] ELSE call[u]]
  BY DEF ReaderMatch
<1>3. PICK k \in DOMAIN to_client : m = to_client[k]
  BY <1>1, TailElements
<1> HIDE DEF m
<1>4. ASSUME NEW u \in W
      PROVE  /\ call[u].pc = "wait" /\ call'[u].pc = "ok" /\ call'[u].req = call[u].req
             /\ call'[u].ans = m /\ m.req = call[u].req
  <2>1. u \in Threads /\ call[u].pc = "wait" /\ call[u].id = m.id
    BY DEF Waiting
  <2>2. m.req = call[u].req
    BY <1>3, <2>1 DEF AInv, ClientInv, MatchInv, Matches, Active, InProgress
  <2> DEFINE c == [[call[u] EXCEPT !.pc = "ok"] EXCEPT !.ans = m]
  <2>3. c.pc = "ok" /\ c.ans = m /\ c.req = call[u].req
    BY <1>1, <2>1 DEF Calls
  <2>4. call'[u] = c
    BY <1>2, <2>1
  <2> HIDE DEF c
  <2> QED BY <2>1, <2>2, <2>3, <2>4
<1>5. ASSUME NEW u \in Threads, u \notin W PROVE call'[u] = call[u]
  BY <1>2, <1>5
<1> HIDE DEF W
<1> QED BY <1>1, <1>4, <1>5 DEF m

---------------------------------------------------------------------------
(* From capture_start to the job's id                                      *)

\* No job runs that did not run before.
FewerRun == \A j \in DOMAIN jobs' : jobs'[j] = "running" => j \in DOMAIN jobs /\ jobs[j] = "running"

\* What is known of running jobs.
LEMMA StaysTold ==
  ASSUME FewerRun
  PROVE  (NoneRuns => NoneRuns') /\ \A a : Tells(a) => Tells(a)'
  BY DEF FewerRun, NoneRuns, Tells

\* The job that runs is held while the main thread rests.
LEMMA HeldStays ==
  ASSUME HeldInv, FewerRun, UNCHANGED <<todo, capturing_, job_id>>
  PROVE  HeldInv'
<1>1. UNCHANGED <<Due("capture_start"), Starting>>
  BY DEF Due, Starting
<1>2. NoneRuns => NoneRuns'
  BY StaysTold
<1> QED BY <1>1, <1>2 DEF HeldInv, FewerRun, Due, Starting

\* Calls advance; the messages stay, or are lost with the connection.
LEMMA StartAdvances ==
  ASSUME AInv, StartInv, FewerRun, UNCHANGED todo, Advances("main"),
         to_server' \in {<<>>, to_server}, to_client' \in {<<>>, to_client}
  PROVE  StartInv'
<1>1. Advances("main") /\ Starting' = Starting
  BY DEF Starting, Due
<1>2. Starts(<<>>) = {} /\ Once(<<>>)
  <2>1. DOMAIN <<>> = {}
    BY SMT
  <2> QED BY <2>1 DEF Starts, Once
<1>3. /\ Starts(to_server)' = {} \/ (to_server' = to_server /\ Starts(to_server)' = Starts(to_server))
      /\ Starts(to_client)' = {} \/ (to_client' = to_client /\ Starts(to_client)' = Starts(to_client))
      /\ Once(to_server)' /\ Once(to_client)'
  BY <1>2 DEF StartInv, Starts, Once
<1>4. (NoneRuns => NoneRuns') /\ \A a : Tells(a) => Tells(a)'
  BY StaysTold
<1>5. \A i \in Starts(to_client)' : Tells(to_client[i])'
  <2> SUFFICES ASSUME NEW i \in Starts(to_client)' PROVE Tells(to_client[i])'
    OBVIOUS
  <2>1. i \in Starts(to_client) /\ to_client' = to_client
    BY <1>3
  <2>2. PICK a : a = to_client[i]
    OBVIOUS
  <2>3. Tells(a)'
    BY <1>4, <2>1, <2>2 DEF StartInv
  <2> QED BY <2>1, <2>2, <2>3 DEF Tells
<1>6. Starting' /\ call'["main"].pc = "ok" => Tells(call["main"].ans)'
  <2> SUFFICES ASSUME Starting', call'["main"].pc = "ok" PROVE Tells(call["main"].ans)'
    OBVIOUS
  <2>1. call'["main"] = call["main"]
    BY <1>1 DEF Advances
  <2>2. PICK a : a = call["main"].ans
    OBVIOUS
  <2>3. Tells(a)'
    BY <1>1, <1>4, <2>1, <2>2 DEF StartInv
  <2> QED BY <2>1, <2>2, <2>3 DEF Tells
<1>7. Starting' /\ call'["main"].pc \in {"check", "register", "send"} => NoneRuns'
  BY <1>1, <1>4 DEF StartInv, Advances
<1>8. Starts(to_server)' # {} => NoneRuns'
  BY <1>3, <1>4 DEF StartInv
<1>9. Starts(to_server)' = {} \/ Starts(to_client)' = {}
  BY <1>3 DEF StartInv
<1>10. Starts(to_server)' \cup Starts(to_client)' # {} =>
         Starting' /\ call'["main"].pc \in {"wait", "failed"}
  BY <1>1, <1>3 DEF StartInv, Advances
<1> QED BY <1>3, <1>5, <1>6, <1>7, <1>8, <1>9, <1>10 DEF StartInv

\* A request is sent: a capture_start only by the call that is under way, and once.
LEMMA StartSends ==
  ASSUME AInv, CallInv, StartInv, NEW t \in Threads, CallSend(t), UNCHANGED <<todo, jobs>>
  PROVE  StartInv'
<1>1. /\ \A u \in Threads : Advances(u)
      /\ call[t].pc = "send" /\ call'[t].pc \in {"wait", "failed"} /\ UNCHANGED to_client
      /\ \/ to_server' = to_server
         \/ \E x \in Requests : x.req = call[t].req /\ to_server' = Append(to_server, x)
  BY SendAdvances
<1>2. FewerRun
  BY DEF FewerRun
<1>3. CASE to_server' = to_server
  BY <1>1, <1>2, <1>3, ThreadNames, StartAdvances
<1>4. ASSUME NEW x \in Requests, x.req = call[t].req, to_server' = Append(to_server, x)
      PROVE  StartInv'
  <2>1. to_server \in Seq(Requests)
    BY DEF AInv, ClientInv, ClientTypes
  <2>2. /\ x.req[1] # "capture_start" => Starts(to_server)' = Starts(to_server)
        /\ Starts(to_server) = {} => Starts(to_server)' \subseteq {Len(to_server) + 1}
    BY <1>4, <2>1, OnceAppend DEF Starts
  <2>3. Starts(to_client)' = Starts(to_client) /\ Once(to_client)' = Once(to_client)
    BY <1>1 DEF Starts, Once
  <2>4. Starting' = Starting /\ NoneRuns' = NoneRuns
    BY DEF Starting, Due, NoneRuns
  <2>5. Advances("main") /\ "main" \in Threads
    BY <1>1, ThreadNames
  <2>6. CASE x.req[1] = "capture_start"
    <3>1. t = "main" /\ Starting
      BY <1>1, <1>4, <2>6 DEF CallInv
    <3>2. Starts(to_server) = {} /\ Starts(to_client) = {} /\ NoneRuns
      BY <1>1, <3>1 DEF StartInv
    <3>3. Once(to_server)'
      BY <2>2, <3>2 DEF Once, Starts
    <3> QED BY <1>1, <2>3, <2>4, <3>1, <3>2, <3>3 DEF StartInv
  <2>7. CASE x.req[1] # "capture_start"
    <3>1. Starts(to_server)' = Starts(to_server)
      BY <2>2, <2>7
    <3>2. Once(to_server)'
      BY <3>1 DEF StartInv, Once, Starts
    <3>3. t # "main" \/ ~Starting
      BY <1>1, <1>4, <2>7 DEF CallInv
    <3>4. \A i \in Starts(to_client)' : Tells(to_client[i])'
      BY <1>1, <2>3 DEF StartInv, Tells
    <3>5. Starting' /\ call'["main"].pc = "ok" => Tells(call["main"].ans)'
      BY <2>4, <2>5 DEF StartInv, Advances, Tells
    <3>6. Starting' /\ call'["main"].pc \in {"check", "register", "send"} => NoneRuns'
      BY <2>4, <2>5 DEF StartInv, Advances
    <3>7. Starts(to_server) \cup Starts(to_client) # {} =>
            Starting' /\ call'["main"].pc \in {"wait", "failed"}
      BY <2>4, <2>5 DEF StartInv, Advances
    <3> QED BY <2>3, <2>4, <3>1, <3>2, <3>4, <3>5, <3>6, <3>7 DEF StartInv
  <2> QED BY <2>6, <2>7
<1> QED BY <1>1, <1>3, <1>4

\* An answer is taken: the answer to capture_start by the call that waits for it.
LEMMA StartTakes ==
  ASSUME AInv, CallInv, StartInv, ReaderMatch, UNCHANGED <<todo, jobs>>
  PROVE  StartInv'
<1>1. /\ to_client # <<>> /\ to_client' = Tail(to_client) /\ UNCHANGED to_server
      /\ \A u \in Threads :
           \/ call'[u] = call[u]
           \/ /\ call[u].pc = "wait" /\ call'[u].pc = "ok" /\ call'[u].req = call[u].req
              /\ call'[u].ans = Head(to_client) /\ Head(to_client).req = call[u].req
  BY MatchTakes
<1>2. to_client \in Seq(Answers)
  BY DEF AInv, ClientInv, ClientTypes
<1>3. /\ Once(to_client)' /\ (Starts(to_client) = {} => Starts(to_client)' = {})
      /\ Head(to_client).req[1] = "capture_start" => 1 \in Starts(to_client) /\ Starts(to_client)' = {}
      /\ \A i \in Starts(to_client)' : i + 1 \in Starts(to_client) /\ to_client'[i] = to_client[i + 1]
  <2>1. Once(to_client)
    BY DEF StartInv
  <2> QED BY <1>1, <1>2, <2>1, OnceTail DEF Starts, Once
<1>4. Head(to_client) = to_client[1]
  BY <1>1, <1>2, TailStarts
<1>5. Starts(to_server)' = Starts(to_server) /\ Once(to_server)' = Once(to_server)
      /\ Starting' = Starting /\ NoneRuns' = NoneRuns
  BY <1>1 DEF Starts, Once, Starting, Due, NoneRuns
<1>6. \A a : Tells(a)' = Tells(a)
  BY DEF Tells
<1>7. \A i \in Starts(to_client)' : Tells(to_client[i])'
  <2> SUFFICES ASSUME NEW i \in Starts(to_client)' PROVE Tells(to_client[i])'
    OBVIOUS
  <2>1. Tells(to_client[i + 1]) /\ to_client'[i] = to_client[i + 1]
    BY <1>3 DEF StartInv
  <2> QED BY <2>1 DEF Tells
<1>8. "main" \in Threads
  BY ThreadNames
<1>9. CASE call'["main"] = call["main"]
  <2>1. Starting' /\ call'["main"].pc = "ok" => Tells(call["main"].ans)'
    BY <1>5, <1>9 DEF StartInv, Tells
  <2> QED BY <1>3, <1>5, <1>7, <1>9, <2>1 DEF StartInv
<1>10. CASE /\ call["main"].pc = "wait" /\ call'["main"].pc = "ok"
            /\ call'["main"].req = call["main"].req
            /\ call'["main"].ans = Head(to_client) /\ Head(to_client).req = call["main"].req
  <2>1. Head(to_client).req[1] = "capture_start" <=> Starting
    BY <1>8, <1>10 DEF CallInv
  <2>2. Starting => Starts(to_client)' = {} /\ Starts(to_server) = {} /\ Tells(Head(to_client))
    BY <1>3, <1>4, <2>1 DEF StartInv
  <2>3. Starting' /\ call'["main"].pc = "ok" => Tells(call["main"].ans)'
    BY <1>5, <1>10, <2>2 DEF Tells
  <2>4. ~Starting => Starts(to_client) = {} /\ Starts(to_server) = {}
    BY DEF StartInv
  <2> QED BY <1>3, <1>5, <1>7, <1>10, <2>2, <2>3, <2>4 DEF StartInv
<1> QED BY <1>1, <1>8, <1>9, <1>10

---------------------------------------------------------------------------
(* The daemon's answers                                                    *)

\* The job table while it is extended and changed.
LEMMA JobsAppend ==
  ASSUME NEW S, NEW s \in Seq(S), NEW x \in S
  PROVE  /\ Len(Append(s, x)) = Len(s) + 1 /\ DOMAIN Append(s, x) = 1 .. Len(s) + 1
         /\ DOMAIN s = 1 .. Len(s) /\ Len(s) \in Nat
         /\ \A j \in DOMAIN s : j \in DOMAIN Append(s, x) /\ Append(s, x)[j] = s[j]
         /\ Append(s, x)[Len(s) + 1] = x
         /\ \A j \in DOMAIN Append(s, x) : j \in DOMAIN s \/ j = Len(s) + 1
  BY SMT

\* The state of one job changes, the number of jobs does not.
LEMMA JobsExcept ==
  ASSUME NEW S, NEW s \in Seq(S), NEW k, NEW x
  PROVE  Len([s EXCEPT ![k] = x]) = Len(s) /\ DOMAIN [s EXCEPT ![k] = x] = DOMAIN s
<1> DEFINE f == [s EXCEPT ![k] = x]
<1>1. DOMAIN f = DOMAIN s /\ Len(s) \in Nat /\ DOMAIN s = 1 .. Len(s)
  BY SMT
<1>2. DOMAIN f = 1 .. Len(s)
  BY <1>1
<1>3. f = [i \in 1 .. Len(s) |-> f[i]]
  BY <1>2
<1> HIDE DEF f
<1>4. Len([i \in 1 .. Len(s) |-> f[i]]) = Len(s)
  BY <1>1
<1> QED BY <1>1, <1>3, <1>4 DEF f

\* What the answer to a request says is true when it is given.
LEMMA ServeAnswers ==
  ASSUME AInv, TruthInv, Serve
  PROVE  \E a \in Answers :
           /\ to_client' = Append(to_client, a) /\ a.req = Head(to_server).req
           /\ Holds(a)' /\ JobsGrow
           /\ \/ /\ a.req[1] = "capture_start" /\ jobs' = Append(jobs, "running")
                 /\ a.ok /\ a.job = Len(jobs) + 1
              \/ FewerRun
<1> DEFINE m == Head(to_server)
           j == m.req[2]
<1>1. /\ jobs \in Seq(JobStates) /\ to_server \in Seq(Requests) /\ to_server # <<>>
      /\ Len(jobs) <= MaxJobs /\ MaxJobs \in Nat
  BY AppAssumption DEF AInv, JobTypes, ClientInv, ClientTypes, Serve, JobStates, TruthInv
<1>2. m \in Requests /\ Names(m.req)
  <2>1. m \in Requests /\ \E k \in DOMAIN to_server : m = to_server[k]
    BY <1>1, TailElements
  <2> HIDE DEF m
  <2> QED BY <2>1 DEF TruthInv
<1>3. j \in Nat /\ m.id \in Nat /\ m.req \in Asked
  BY <1>2 DEF Requests, Asked
<1>4. \A ok, terminal \in BOOLEAN, k \in Nat :
         /\ Answer(m, ok, k, terminal) \in Answers
         /\ Answer(m, ok, k, terminal).req = m.req /\ Answer(m, ok, k, terminal).job = k
         /\ Answer(m, ok, k, terminal).ok = ok /\ Answer(m, ok, k, terminal).terminal = terminal
  BY <1>3 DEF Answer, Answers
<1>5. Len(jobs) \in Nat /\ DOMAIN jobs = 1 .. Len(jobs)
  BY <1>1, JobsOf
<1>6. jobs' = jobs => JobsGrow /\ FewerRun
  BY <1>1, <1>5 DEF JobsGrow, FewerRun
<1> HIDE DEF m
<1>7. CASE m.req[1] = "capture_start"
  <2>1. CASE to_client' = Append(to_client, Answer(m, FALSE, 0, FALSE)) /\ jobs' = jobs
    <3>0. PICK a : a = Answer(m, FALSE, 0, FALSE)
      OBVIOUS
    <3>1. a \in Answers /\ a.req = m.req /\ a.job = 0
      BY <1>4, <3>0
    <3>2. Holds(a)'
      BY <1>5, <1>7, <2>1, <3>1 DEF Holds, Names
    <3> QED BY <1>6, <2>1, <3>0, <3>1, <3>2 DEF m
  <2>2. CASE /\ Len(jobs) < MaxJobs /\ jobs' = Append(jobs, "running")
             /\ to_client' = Append(to_client, Answer(m, TRUE, Len(jobs) + 1, FALSE))
    <3>0. PICK a : a = Answer(m, TRUE, Len(jobs) + 1, FALSE)
      OBVIOUS
    <3>1. Len(jobs) + 1 \in Nat
      BY <1>5
    <3>2. a \in Answers /\ a.req = m.req /\ a.job = Len(jobs) + 1 /\ a.ok
      BY <1>4, <3>0, <3>1
    <3>3. "running" \in JobStates
      BY DEF JobStates
    <3>4. /\ Len(jobs') = Len(jobs) + 1
          /\ \A k \in DOMAIN jobs : k \in DOMAIN jobs' /\ jobs'[k] = jobs[k]
      BY <1>1, <2>2, <3>3, JobsAppend
    <3>5. JobsGrow
      BY <1>1, <1>5, <2>2, <3>4 DEF JobsGrow
    <3>6. Holds(a)'
      BY <1>5, <1>7, <3>1, <3>2, <3>4 DEF Holds, Names
    <3> QED BY <1>7, <2>2, <3>0, <3>2, <3>5, <3>6 DEF m
  <2> QED BY <1>7, <2>1, <2>2 DEF Serve, m
<1>8. CASE m.req[1] = "capture_stop"
  <2>0. PICK a : a = Answer(m, TRUE, j, FALSE)
    OBVIOUS
  <2> DEFINE x == IF jobs[j] = "running" THEN "cancelling" ELSE jobs[j]
  <2>1. a \in Answers /\ a.req = m.req /\ a.job = j /\ a.ok
    BY <1>3, <1>4, <2>0
  <2>2. to_client' = Append(to_client, a) /\ jobs' = [jobs EXCEPT ![j] = x]
    BY <1>8, <2>0 DEF Serve, m
  <2>3. j \in DOMAIN jobs
    BY <1>2, <1>8 DEF Names
  <2>4. x # "running" /\ (jobs[j] = "done" => x = "done")
    OBVIOUS
  <2> HIDE DEF x
  <2>5. Len(jobs') = Len(jobs) /\ DOMAIN jobs' = DOMAIN jobs
    BY <1>1, <2>2, JobsExcept
  <2>6. jobs'[j] = x /\ \A k \in DOMAIN jobs : k # j => jobs'[k] = jobs[k]
    BY <2>2, <2>3
  <2>7. JobsGrow /\ FewerRun
    BY <1>1, <1>5, <2>4, <2>5, <2>6 DEF JobsGrow, FewerRun
  <2>8. Holds(a)'
    BY <1>5, <1>8, <2>1, <2>3, <2>4, <2>5, <2>6 DEF Holds, Names
  <2> QED BY <2>1, <2>2, <2>7, <2>8 DEF m
<1>9. CASE m.req[1] = "capture_get_samples"
  <2> DEFINE over == jobs[j] = "done"
  <2>0. PICK a : a = Answer(m, TRUE, j, over)
    OBVIOUS
  <2>1. over \in BOOLEAN
    OBVIOUS
  <2>2. to_client' = Append(to_client, a) /\ jobs' = jobs
    BY <1>9, <2>0 DEF Serve, m
  <2>3. over => jobs[j] = "done"
    OBVIOUS
  <2> HIDE DEF over
  <2>4. a \in Answers /\ a.req = m.req /\ a.job = j /\ a.ok /\ a.terminal = over
    BY ZenonT(60), <1>3, <1>4, <2>0, <2>1
  <2>5. j \in DOMAIN jobs
    BY <1>2, <1>9 DEF Names
  <2>6. Holds(a)'
    BY <1>5, <1>9, <2>2, <2>3, <2>4, <2>5 DEF Holds, Names
  <2> QED BY <1>6, <2>2, <2>4, <2>6 DEF m
<1>10. CASE m.req[1] \notin {"capture_start", "capture_stop", "capture_get_samples"}
  <2>1. PICK ok \in BOOLEAN : to_client' = Append(to_client, Answer(m, ok, 0, FALSE))
    BY <1>10 DEF Serve, m
  <2>2. jobs' = jobs
    BY <1>10 DEF Serve, m
  <2>0. PICK a : a = Answer(m, ok, 0, FALSE)
    OBVIOUS
  <2>3. a \in Answers /\ a.req = m.req /\ a.job = 0
    BY <1>4, <2>0
  <2>4. Holds(a)'
    BY <1>5, <1>10, <2>2, <2>3 DEF Holds, Names
  <2> QED BY <1>6, <2>0, <2>1, <2>2, <2>3, <2>4 DEF m
<1> QED BY <1>7, <1>8, <1>9, <1>10

\* A capture_start that is served tells of the job it starts; what else is
\* served starts none.
LEMMA StartServes ==
  ASSUME AInv, TruthInv, StartInv, HeldInv, Serve
  PROVE  StartInv' /\ HeldInv'
<1>1. PICK a \in Answers :
        /\ to_client' = Append(to_client, a) /\ a.req = Head(to_server).req /\ JobsGrow
        /\ \/ /\ a.req[1] = "capture_start" /\ jobs' = Append(jobs, "running")
              /\ a.ok /\ a.job = Len(jobs) + 1
           \/ FewerRun
  BY ServeAnswers
<1>2. /\ to_server' = Tail(to_server) /\ to_server # <<>>
      /\ UNCHANGED <<call, todo, capturing_, job_id>>
  BY DEF Serve, clientVars, appVars
<1>3. jobs \in Seq(JobStates) /\ to_server \in Seq(Requests) /\ to_client \in Seq(Answers)
  BY DEF AInv, JobTypes, ClientInv, ClientTypes, JobStates
<1>4. /\ Once(to_server)' /\ (Starts(to_server) = {} => Starts(to_server)' = {})
      /\ Head(to_server).req[1] = "capture_start" =>
           Starts(to_server) # {} /\ Starts(to_server)' = {}
  <2>1. Once(to_server)
    BY DEF StartInv
  <2> QED BY <1>2, <1>3, <2>1, OnceTail DEF Starts, Once
<1>5. /\ a.req[1] # "capture_start" => Starts(to_client)' = Starts(to_client)
      /\ Starts(to_client) = {} => Starts(to_client)' \subseteq {Len(to_client) + 1}
      /\ \A i \in Starts(to_client)' :
            \/ i \in Starts(to_client) /\ to_client'[i] = to_client[i]
            \/ i = Len(to_client) + 1 /\ to_client'[i] = a
  BY <1>1, <1>3, OnceAppend DEF Starts
<1>6. Starting' = Starting /\ Due("capture_start")' = Due("capture_start")
  BY <1>2 DEF Starting, Due
<1>7. CASE a.req[1] = "capture_start"
  <2>1. /\ Starting /\ call["main"].pc \in {"wait", "failed"} /\ NoneRuns
        /\ Starts(to_client) = {} /\ Starts(to_server)' = {} /\ ~Due("capture_start")
    BY <1>1, <1>4, <1>7 DEF StartInv, Starting, Due
  <2>2. Tells(a)'
    <3>1. CASE /\ jobs' = Append(jobs, "running") /\ a.ok /\ a.job = Len(jobs) + 1
      <4>1. "running" \in JobStates
        BY DEF JobStates
      <4>2. /\ \A j \in DOMAIN jobs : jobs'[j] = jobs[j]
            /\ \A j \in DOMAIN jobs' : j \in DOMAIN jobs \/ j = Len(jobs) + 1
        BY <1>3, <3>1, <4>1, JobsAppend
      <4> QED BY <2>1, <3>1, <4>2 DEF Tells, NoneRuns
    <3>2. CASE FewerRun
      <4>1. Tells(a)
        BY <2>1 DEF Tells, NoneRuns
      <4> QED BY <3>2, <4>1, StaysTold
    <3> QED BY <1>1, <3>1, <3>2
  <2>3. \A i \in Starts(to_client)' : Tells(to_client[i])'
    <3> SUFFICES ASSUME NEW i \in Starts(to_client)' PROVE Tells(to_client[i])'
      OBVIOUS
    <3>1. to_client'[i] = a
      BY <1>5, <2>1
    <3> QED BY <2>2, <3>1 DEF Tells
  <2>4. Once(to_client)'
    <3>1. \A i, k \in Starts(to_client)' : i = k
      BY <1>5, <2>1
    <3> QED BY <3>1 DEF Once, Starts
  <2>5. call'["main"].pc \in {"wait", "failed"}
    BY <1>2, <2>1
  <2>6. StartInv'
    BY <1>4, <1>6, <2>1, <2>3, <2>4, <2>5 DEF StartInv
  <2>7. HeldInv'
    BY <1>6, <2>1 DEF HeldInv
  <2> QED BY <2>6, <2>7
<1>8. CASE a.req[1] # "capture_start"
  <2>1. FewerRun
    BY <1>1, <1>8
  <2>2. HeldInv'
    BY <1>2, <2>1, HeldStays
  <2>3. (NoneRuns => NoneRuns') /\ \A b : Tells(b) => Tells(b)'
    BY <2>1, StaysTold
  <2>4. Starts(to_client)' = Starts(to_client)
    BY <1>5, <1>8
  <2>5. \A i \in Starts(to_client)' : Tells(to_client[i])'
    <3> SUFFICES ASSUME NEW i \in Starts(to_client)' PROVE Tells(to_client[i])'
      OBVIOUS
    <3>1. i \in DOMAIN to_client /\ Len(to_client) \in Nat /\ DOMAIN to_client = 1 .. Len(to_client)
      <4>1. Len(to_client) \in Nat /\ DOMAIN to_client = 1 .. Len(to_client)
        BY <1>3
      <4> QED BY <2>4, <4>1 DEF Starts
    <3>2. i # Len(to_client) + 1
      BY <3>1
    <3>3. to_client'[i] = to_client[i]
      BY <1>5, <3>2
    <3>4. PICK b : b = to_client[i]
      OBVIOUS
    <3>5. Tells(b)'
      BY <2>3, <2>4, <3>4 DEF StartInv
    <3> QED BY <3>3, <3>4, <3>5 DEF Tells
  <2>6. Once(to_client)'
    BY <2>4 DEF StartInv, Once, Starts
  <2>7. Starting' /\ call'["main"].pc = "ok" => Tells(call["main"].ans)'
    <3> SUFFICES ASSUME Starting', call'["main"].pc = "ok" PROVE Tells(call["main"].ans)'
      OBVIOUS
    <3>1. PICK b : b = call["main"].ans
      OBVIOUS
    <3>2. Tells(b)'
      BY <1>2, <1>6, <2>3, <3>1 DEF StartInv
    <3> QED BY <1>2, <3>1, <3>2 DEF Tells
  <2>8. Starts(to_server)' # {} => Starts(to_server) # {}
    BY <1>4
  <2>9. StartInv'
    BY <1>2, <1>4, <1>6, <2>3, <2>4, <2>5, <2>6, <2>7, <2>8 DEF StartInv
  <2> QED BY <2>2, <2>9
<1> QED BY <1>7, <1>8

---------------------------------------------------------------------------
(* The steps outside the main thread                                       *)

\* Calls go on, and the other threads begin and end theirs.
Rests ==
  /\ Advances("main")
  /\ \A u \in Threads :
        \/ Advances(u) \/ call'[u].pc = "idle"
        \/ /\ u # "main" /\ call'[u].pc = "check"
           /\ call'[u].req[1] \in {"detect_devices", "program_pl"}
  /\ to_server' \in {<<>>, to_server} /\ to_client' \in {<<>>, to_client}

\* The main thread and what it knows of jobs do not move.
MainRests == UNCHANGED <<todo, capturing_, job_id, cached>> /\ (faulted => faulted')

\* Which requests the calls carry.
KeepsRequests ==
  \A u \in Threads : call'[u].pc # "idle" =>
     \/ call[u].pc # "idle" /\ call'[u].req = call[u].req
     \/ u # "main" /\ call'[u].req[1] \in {"detect_devices", "program_pl"}

\* The main thread's call is the one its step says.
LEMMA CallRests ==
  ASSUME AInv', CallInv, KeepsRequests, MainRests
  PROVE  CallInv'
<1>1. /\ Starting' = Starting
      /\ \A s : Due(s)' = Due(s)
  BY DEF MainRests, Starting, Due
<1>2. \A t \in Threads : call'[t].pc # "idle" =>
        (call'[t].req[1] = "capture_start" <=> t = "main" /\ Starting')
  BY <1>1 DEF CallInv, KeepsRequests
<1>3. Due("cancelled") \/ Due("stopped") \/ Due("refreshed") => call'["main"].req = call["main"].req
  <2>1. Due("cancelled") \/ Due("stopped") \/ Due("refreshed") => call'["main"].pc # "idle"
    BY <1>1 DEF AInv, MainInv, Due, ReturnSteps, MainRests
  <2> QED BY <2>1, ThreadNames DEF KeepsRequests
<1> QED BY <1>1, <1>2, <1>3 DEF CallInv, MainRests

\* What such a step has to show of jobs, messages and the capture that starts.
LEMMA OutsideJobs ==
  ASSUME AInv, AInv', JobInv, MainRests, KeepsRequests, JobsGrow, Carries,
         \A i \in DOMAIN to_client' :
            (\E k \in DOMAIN to_client : to_client'[i] = to_client[k]) \/ Holds(to_client[i])',
         StartInv /\ HeldInv => StartInv' /\ HeldInv'
  PROVE  JobInv'
<1>1. TruthInv /\ CallInv /\ (Sound' => StartInv /\ HeldInv)
  BY DEF JobInv, Sound, MainRests
<1>2. \A t \in Threads : call'[t].pc # "idle" =>
        \/ call[t].pc # "idle" /\ call'[t].req = call[t].req
        \/ Names(call[t].req)'
  BY DEF KeepsRequests, Names
<1>3. job_id' <= Len(jobs') /\ cached' \in 0 .. Len(jobs')
  <2>1. Len(jobs) \in Nat /\ Len(jobs') \in Nat /\ job_id \in Nat
    BY Lengths
  <2> QED BY <1>1, <2>1 DEF TruthInv, MainRests, JobsGrow
<1>4. TruthInv'
  BY <1>1, <1>2, <1>3, TruthKeeps
<1>5. CallInv'
  BY <1>1, CallRests
<1> QED BY <1>1, <1>4, <1>5 DEF JobInv

\* A step that serves, sends and takes no message, and leaves what the GUI knows of jobs.
LEMMA RestJobs ==
  ASSUME AInv, AInv', JobInv, MainRests, Rests, JobsGrow, FewerRun
  PROVE  JobInv'
<1>1. KeepsRequests
  BY DEF Rests, KeepsRequests, Advances
<1>2. Carries
  <2>1. \A t \in Threads : call'[t].pc = "ok" => call[t].pc = "ok" /\ call'[t].ans = call[t].ans
    BY DEF Rests, Advances
  <2>2. \A i \in DOMAIN to_server' : \E k \in DOMAIN to_server : to_server'[i] = to_server[k]
    BY DEF Rests
  <2> QED BY <2>1, <2>2 DEF Carries
<1>3. \A i \in DOMAIN to_client' : \E k \in DOMAIN to_client : to_client'[i] = to_client[k]
  BY DEF Rests
<1>4. StartInv /\ HeldInv => StartInv' /\ HeldInv'
  BY StartAdvances, HeldStays DEF Rests, MainRests
<1> QED BY <1>1, <1>2, <1>3, <1>4, OutsideJobs

\* A request is sent.
LEMMA SendJobs ==
  ASSUME AInv, AInv', JobInv, MainRests, UNCHANGED jobs, NEW t \in Threads, CallSend(t)
  PROVE  JobInv'
<1>1. /\ \A u \in Threads : Advances(u)
      /\ call[t].pc = "send" /\ UNCHANGED to_client
      /\ \/ to_server' = to_server
         \/ \E x \in Requests : x.req = call[t].req /\ to_server' = Append(to_server, x)
  BY SendAdvances
<1>2. KeepsRequests
  BY <1>1 DEF KeepsRequests, Advances
<1>3. JobsGrow /\ FewerRun
  <2>1. Len(jobs) \in Nat /\ Len(jobs) <= MaxJobs
    BY Lengths DEF JobInv, TruthInv
  <2> QED BY <2>1 DEF JobsGrow, FewerRun
<1>4. Carries
  <2>1. \A u \in Threads : call'[u].pc = "ok" => call[u].pc = "ok" /\ call'[u].ans = call[u].ans
    BY <1>1 DEF Advances
  <2>2. ASSUME NEW x \in Requests, x.req = call[t].req, to_server' = Append(to_server, x),
               NEW i \in DOMAIN to_server'
        PROVE  \/ \E k \in DOMAIN to_server : to_server'[i] = to_server[k]
               \/ to_server'[i].req = call[t].req
    <3>1. to_server \in Seq(Requests)
      BY DEF AInv, ClientInv, ClientTypes
    <3>2. \A k \in DOMAIN Append(to_server, x) :
            Append(to_server, x)[k] = x \/ \E j \in DOMAIN to_server : Append(to_server, x)[k] = to_server[j]
      BY <3>1, AppendElements
    <3> QED BY <2>2, <3>2
  <2>3. \A i \in DOMAIN to_server' :
          \/ \E k \in DOMAIN to_server : to_server'[i] = to_server[k]
          \/ to_server'[i].req = call[t].req
    BY <1>1, <2>2
  <2>4. call[t].pc # "idle"
    BY <1>1
  <2> QED BY <2>1, <2>3, <2>4 DEF Carries
<1>5. \A i \in DOMAIN to_client' : \E k \in DOMAIN to_client : to_client'[i] = to_client[k]
  BY <1>1
<1>6. StartInv /\ HeldInv => StartInv' /\ HeldInv'
  <2>1. CallInv
    BY DEF JobInv
  <2> QED BY <1>3, <2>1, StartSends, HeldStays DEF MainRests
<1> QED BY <1>2, <1>3, <1>4, <1>5, <1>6, OutsideJobs

\* The reader thread hands an answer to the call it belongs to.
LEMMA TakeJobs ==
  ASSUME AInv, AInv', JobInv, MainRests, UNCHANGED jobs, ReaderMatch
  PROVE  JobInv'
<1>1. /\ to_client # <<>> /\ to_client' = Tail(to_client) /\ UNCHANGED to_server
      /\ \A u \in Threads :
           \/ call'[u] = call[u]
           \/ /\ call[u].pc = "wait" /\ call'[u].pc = "ok" /\ call'[u].req = call[u].req
              /\ call'[u].ans = Head(to_client) /\ Head(to_client).req = call[u].req
  BY MatchTakes
<1>2. KeepsRequests
  BY <1>1 DEF KeepsRequests
<1>3. JobsGrow /\ FewerRun
  <2>1. Len(jobs) \in Nat /\ Len(jobs) <= MaxJobs
    BY Lengths DEF JobInv, TruthInv
  <2> QED BY <2>1 DEF JobsGrow, FewerRun
<1>4. /\ \E k \in DOMAIN to_client : Head(to_client) = to_client[k]
      /\ \A i \in DOMAIN to_client' : \E k \in DOMAIN to_client : to_client'[i] = to_client[k]
  <2>1. to_client \in Seq(Answers)
    BY DEF AInv, ClientInv, ClientTypes
  <2> QED BY <1>1, <2>1, TailElements
<1>5. Carries
  <2>1. \A u \in Threads : call'[u].pc = "ok" =>
           \/ call[u].pc = "ok" /\ call'[u].ans = call[u].ans
           \/ \E k \in DOMAIN to_client : call'[u].ans = to_client[k]
    BY <1>1, <1>4
  <2> QED BY <1>1, <2>1 DEF Carries
<1>6. StartInv /\ HeldInv => StartInv' /\ HeldInv'
  <2>1. CallInv
    BY DEF JobInv
  <2> QED BY <1>3, <2>1, StartTakes, HeldStays DEF MainRests
<1> QED BY <1>2, <1>3, <1>4, <1>5, <1>6, OutsideJobs

\* The daemon serves a request: a job it starts is the one its answer names.
LEMMA ServeJobs ==
  ASSUME AInv, AInv', JobInv, Serve
  PROVE  JobInv'
<1>1. PICK a \in Answers : to_client' = Append(to_client, a) /\ Holds(a)' /\ JobsGrow
  BY ServeAnswers DEF JobInv
<1>2. /\ to_server' = Tail(to_server) /\ to_server # <<>> /\ call' = call /\ MainRests
  BY DEF Serve, clientVars, appVars, MainRests
<1>3. to_server \in Seq(Requests) /\ to_client \in Seq(Answers)
  BY DEF AInv, ClientInv, ClientTypes
<1>4. KeepsRequests
  BY <1>2 DEF KeepsRequests
<1>5. Carries
  <2>1. \A i \in DOMAIN to_server' : \E k \in DOMAIN to_server : to_server'[i] = to_server[k]
    BY <1>2, <1>3, TailElements
  <2> QED BY <1>2, <2>1 DEF Carries
<1>6. ASSUME NEW i \in DOMAIN to_client'
      PROVE  (\E k \in DOMAIN to_client : to_client'[i] = to_client[k]) \/ Holds(to_client[i])'
  <2>1. \A n \in DOMAIN Append(to_client, a) : Append(to_client, a)[n] = a
           \/ \E j \in DOMAIN to_client : Append(to_client, a)[n] = to_client[j]
    BY <1>3, AppendElements
  <2>2. to_client'[i] = a \/ \E j \in DOMAIN to_client : to_client'[i] = to_client[j]
    BY <1>1, <2>1
  <2>3. to_client'[i] = a => Holds(to_client[i])'
    BY <1>1 DEF Holds, Names
  <2> QED BY <2>2, <2>3
<1>7. StartInv /\ HeldInv => StartInv' /\ HeldInv'
  BY StartServes DEF JobInv
<1> QED BY <1>1, <1>2, <1>4, <1>5, <1>6, <1>7, OutsideJobs

---------------------------------------------------------------------------
(* The main thread's steps                                                 *)

\* What the head of a list of plain steps is not.
LEMMA PlainDue ==
  ASSUME todo' \in Seq(Plain)
  PROVE  /\ ~Starting' /\ \A s \in ReturnSteps \cup {"capture_start"} : ~Due(s)'
<1>1. todo' # <<>> => Head(todo') \in Plain
  BY PlainTodo
<1>2. "capture_started" \in ReturnSteps
  BY DEF ReturnSteps
<1> QED BY <1>1, <1>2 DEF Due, Starting, Plain

\* While no capture starts, no capture_start is under way.
LEMMA NoneStarts ==
  ASSUME StartInv, ~Starting, to_server' \in {<<>>, to_server}, to_client' \in {<<>>, to_client},
         ~Starting' \/ (call'["main"].pc = "check" /\ NoneRuns')
  PROVE  StartInv'
<1>1. Starts(to_server) = {} /\ Starts(to_client) = {}
  BY DEF StartInv
<1>2. Starts(<<>>) = {}
  <2>1. DOMAIN <<>> = {}
    BY SMT
  <2> QED BY <2>1 DEF Starts
<1>3. Starts(to_server)' = {} /\ Starts(to_client)' = {}
  BY <1>1, <1>2 DEF Starts
<1>4. Once(to_server)' /\ Once(to_client)'
  BY <1>3 DEF Once, Starts
<1> QED BY <1>3, <1>4 DEF StartInv

\* A step that makes no call and hears of none.
LEMMA PlainJobs ==
  ASSUME AInv, AInv', JobInv, todo = <<>> \/ Head(todo) \notin ReturnSteps,
         todo' \in Seq(Plain) \/ (todo' = <<"capture_start">> /\ ~capturing_),
         UNCHANGED pvars \/ Fails \/ Cuts,
         UNCHANGED <<capturing_, jobs>>, faulted => faulted',
         job_id' = job_id \/ (job_id' = 0 /\ ~capturing_), cached' \in {cached, 0}
  PROVE  JobInv'
<1>1. ~Starting
  BY DEF Starting, Due, ReturnSteps
<1>2. ~Starting' /\ (\A s \in ReturnSteps : ~Due(s)') /\ (Due("capture_start")' => ~capturing_')
  <2>1. CASE todo' \in Seq(Plain)
    BY <2>1, PlainDue
  <2>2. CASE todo' = <<"capture_start">> /\ ~capturing_
    <3>1. Head(todo') = "capture_start"
      BY <2>2
    <3> QED BY <2>2, <3>1 DEF Starting, Due, ReturnSteps
  <2> QED BY <2>1, <2>2
<1>3. (\A u \in Threads : Advances(u)) /\ to_server' \in {<<>>, to_server} /\ to_client' \in {<<>>, to_client}
  <2>1. CASE UNCHANGED pvars
    BY <2>1 DEF pvars, Advances
  <2>2. CASE Fails
    BY <2>2, FailAdvances
  <2>3. CASE Cuts
    BY <2>3 DEF Cuts, Advances
  <2> QED BY <2>1, <2>2, <2>3
<1>4. TruthInv'
  <2>1. Len(jobs) \in Nat /\ job_id \in Nat /\ TruthInv
    BY Lengths DEF JobInv
  <2>2. JobsGrow /\ job_id' <= Len(jobs') /\ cached' \in 0 .. Len(jobs')
    BY <2>1 DEF JobsGrow, TruthInv
  <2>3. Carries
    <3>1. \A t \in Threads : call'[t].pc = "ok" => call[t].pc = "ok" /\ call'[t].ans = call[t].ans
      BY <1>3 DEF Advances
    <3>2. \A i \in DOMAIN to_server' : \E k \in DOMAIN to_server : to_server'[i] = to_server[k]
      BY <1>3
    <3> QED BY <3>1, <3>2 DEF Carries
  <2>4. \A t \in Threads : call'[t].pc # "idle" => call[t].pc # "idle" /\ call'[t].req = call[t].req
    BY <1>3 DEF Advances
  <2>5. \A i \in DOMAIN to_client' : \E k \in DOMAIN to_client : to_client'[i] = to_client[k]
    BY <1>3
  <2> QED BY <2>1, <2>2, <2>3, <2>4, <2>5, TruthKeeps
<1>5. CallInv'
  <2>1. \A t \in Threads : call'[t].pc # "idle" =>
          (call'[t].req[1] = "capture_start" <=> t = "main" /\ Starting')
    BY <1>1, <1>2, <1>3 DEF JobInv, CallInv, Advances
  <2>2. ~Due("cancelled")' /\ ~Due("stopped")' /\ ~Due("refreshed")'
    BY <1>2 DEF ReturnSteps
  <2> QED BY <2>1, <2>2 DEF CallInv
<1>6. StartInv => StartInv'
  BY <1>1, <1>2, <1>3, NoneStarts
<1>7. HeldInv => HeldInv'
  <2>1. NoneRuns' = NoneRuns
    BY DEF NoneRuns
  <2> QED BY <1>1, <1>2, <2>1 DEF HeldInv, NoneRuns
<1> QED BY <1>4, <1>5, <1>6, <1>7 DEF JobInv, Sound

\* The calls the main thread makes, and the steps to which they return.
Asks(m, j, r) ==
  \/ r \in {"cancelled", "stopped"} /\ m = "capture_stop" /\ j = job_id /\ job_id # 0
  \/ r = "refreshed" /\ m = "capture_get_samples" /\ j = job_id /\ job_id # 0
  \/ r = "capture_started" /\ m = "capture_start" /\ Due("capture_start")
  \/ /\ r \in {"bsdl_pins", "bsdl_done", "view_done"}
     /\ m \in {"load_bsdl", "list_pins", "sample_bsr", "run_script"}

\* A step that makes a call: it names the job that is held.
LEMMA AskJobs ==
  ASSUME AInv, AInv', JobInv, todo # <<>>, ~Starting,
         NEW m, NEW j, NEW r \in ReturnSteps, MainCalls(m, j, r), Asks(m, j, r),
         UNCHANGED <<job_id, capturing_, jobs, cached>>
  PROVE  JobInv'
<1>1. /\ Then(<<r>>) /\ CallBegin("main", <<m, j>>)
      /\ UNCHANGED <<to_server, to_client, faulted>>
  BY DEF MainCalls, netVars
<1>2. todo' # <<>> /\ Head(todo') = r
  BY <1>1, ReturnThen DEF AInv
<1>3. \A s : Due(s)' <=> r = s
  BY <1>2 DEF Due
<1>4. Starting' <=> r = "capture_started"
  BY <1>2 DEF Due, Starting
<1> DEFINE c == [Idle EXCEPT !.pc = "check", !.req = <<m, j>>]
<1>5. c.pc = "check" /\ c.req = <<m, j>>
  BY DEF Idle
<1>6. call' = [call EXCEPT !["main"] = c] /\ call \in [Threads -> Calls] /\ "main" \in Threads
  BY <1>1, ThreadNames DEF CallBegin, AInv, ClientInv, ClientTypes
<1> HIDE DEF c
<1>7. call'["main"] = c /\ \A u \in Threads : u # "main" => call'[u] = call[u]
  BY <1>6
<1>8. Len(jobs) \in Nat /\ DOMAIN jobs = 1 .. Len(jobs) /\ job_id \in Nat /\ TruthInv
  BY Lengths DEF JobInv
<1>9. TruthInv'
  <2>1. JobsGrow /\ job_id' <= Len(jobs') /\ cached' \in 0 .. Len(jobs')
    BY <1>8 DEF JobsGrow, TruthInv
  <2>2. Carries
    BY <1>1, <1>5, <1>7 DEF Carries
  <2>3. Names(call["main"].req)'
    <3>1. m \in {"capture_stop", "capture_get_samples"} => j = job_id /\ job_id # 0
      BY DEF Asks
    <3>2. m \in {"capture_stop", "capture_get_samples"} => j \in DOMAIN jobs
      BY <1>8, <3>1 DEF TruthInv
    <3>3. call'["main"].req[1] = m /\ call'["main"].req[2] = j
      BY <1>5, <1>7
    <3> QED BY <3>2, <3>3 DEF Names
  <2>4. ASSUME NEW t \in Threads, call'[t].pc # "idle"
        PROVE  \/ call[t].pc # "idle" /\ call'[t].req = call[t].req
               \/ Names(call[t].req)'
    BY <1>7, <2>3, <2>4
  <2>5. \A i \in DOMAIN to_client' : \E k \in DOMAIN to_client : to_client'[i] = to_client[k]
    BY <1>1
  <2> QED BY <1>8, <2>1, <2>2, <2>4, <2>5, TruthKeeps
<1>10. CallInv'
  <2>1. call'["main"].req = <<m, j>> /\ call'["main"].req[1] = m
    BY <1>5, <1>7
  <2>2. m = "capture_start" <=> r = "capture_started"
    BY DEF Asks
  <2>3. \A t \in Threads : call'[t].pc # "idle" =>
          (call'[t].req[1] = "capture_start" <=> t = "main" /\ Starting')
    BY <1>4, <1>7, <2>1, <2>2 DEF JobInv, CallInv
  <2>4. /\ r \in {"cancelled", "stopped"} => m = "capture_stop" /\ j = job_id'
        /\ r = "refreshed" => m = "capture_get_samples" /\ j = job_id'
    BY DEF Asks
  <2> QED BY <1>3, <2>1, <2>3, <2>4 DEF CallInv
<1>11. NoneRuns' = NoneRuns
  BY DEF NoneRuns
<1>12. StartInv /\ HeldInv => StartInv'
  <2>1. HeldInv /\ r = "capture_started" => NoneRuns
    BY DEF Asks, HeldInv
  <2> QED BY <1>1, <1>4, <1>5, <1>7, <1>11, <2>1, NoneStarts
<1>13. HeldInv => HeldInv'
  BY <1>3, <1>4, <1>11 DEF HeldInv, NoneRuns, ReturnSteps
<1> QED BY <1>1, <1>9, <1>10, <1>12, <1>13 DEF JobInv, Sound

\* A step to which a call has returned: the job that runs is held, or was stopped.
LEMMA ReturnJobs ==
  ASSUME AInv, AInv', JobInv, todo # <<>>, Returned("main"), NEW s \in Seq(Plain), Then(s),
         UNCHANGED jobs, job_id' <= Len(jobs), cached' \in 0 .. Len(jobs),
         call["main"].pc = "ok" /\ StartInv /\ HeldInv =>
           /\ ~capturing_' => NoneRuns
           /\ \A j \in DOMAIN jobs : jobs[j] = "running" => j = job_id'
  PROVE  JobInv'
<1>1. todo' \in Seq(Plain)
  BY PlainThen DEF AInv
<1>2. ~Starting' /\ \A r \in ReturnSteps \cup {"capture_start"} : ~Due(r)'
  BY <1>1, PlainDue
<1>3. /\ call["main"].pc \in {"ok", "failed"} /\ call' = [call EXCEPT !["main"] = Idle]
      /\ faulted' = (faulted \/ call["main"].pc = "failed")
      /\ UNCHANGED <<to_server, to_client>>
      /\ call \in [Threads -> Calls] /\ "main" \in Threads
  BY ThreadNames DEF Returned, netVars, AInv, ClientInv, ClientTypes
<1>4. call'["main"].pc = "idle" /\ \A u \in Threads : u # "main" => call'[u] = call[u]
  BY <1>3, IdleCall
<1>5. TruthInv'
  <2>1. Len(jobs) \in Nat /\ TruthInv
    BY Lengths DEF JobInv
  <2>2. JobsGrow /\ job_id' <= Len(jobs') /\ cached' \in 0 .. Len(jobs')
    BY <2>1 DEF JobsGrow, TruthInv
  <2>3. Carries
    BY <1>3, <1>4 DEF Carries
  <2>4. \A t \in Threads : call'[t].pc # "idle" => call[t].pc # "idle" /\ call'[t].req = call[t].req
    BY <1>4
  <2>5. \A i \in DOMAIN to_client' : \E k \in DOMAIN to_client : to_client'[i] = to_client[k]
    BY <1>3
  <2> QED BY <2>1, <2>2, <2>3, <2>4, <2>5, TruthKeeps
<1>6. CallInv'
  <2>1. \A t \in Threads : call'[t].pc # "idle" =>
          (call'[t].req[1] = "capture_start" <=> t = "main" /\ Starting')
    BY <1>2, <1>4 DEF JobInv, CallInv
  <2>2. ~Due("cancelled")' /\ ~Due("stopped")' /\ ~Due("refreshed")'
    BY <1>2 DEF ReturnSteps
  <2> QED BY <2>1, <2>2 DEF CallInv
<1>7. ASSUME Sound'
      PROVE  Sound /\ call["main"].pc = "ok"
  BY <1>3, <1>7 DEF Sound
<1>8. StartInv /\ call["main"].pc = "ok" => StartInv'
  <2> SUFFICES ASSUME StartInv, call["main"].pc = "ok" PROVE StartInv'
    OBVIOUS
  <2>1. Starts(to_server)' = {} /\ Starts(to_client)' = {}
    BY <1>3 DEF StartInv, Starts
  <2>2. Once(to_server)' /\ Once(to_client)'
    BY <2>1 DEF Once, Starts
  <2> QED BY <1>2, <2>1, <2>2 DEF StartInv
<1>9. StartInv /\ HeldInv /\ call["main"].pc = "ok" => HeldInv'
  BY <1>2 DEF HeldInv, NoneRuns
<1> QED BY <1>5, <1>6, <1>7, <1>8, <1>9 DEF JobInv

\* The form in which most handlers make no call.
LEMMA SilentJobs ==
  ASSUME AInv, AInv', JobInv, NEW h \in Silent, At(h), NEW s \in Seq(Plain), Then(s), NoCall,
         UNCHANGED <<capturing_, job_id, jobs>>, cached' \in {cached, 0}
  PROVE  JobInv'
<1>1. UNCHANGED pvars /\ (faulted => faulted')
  BY DEF NoCall, pvars, clientVars, netVars
<1>2. Head(todo) \notin ReturnSteps /\ todo # <<>>
  BY DEF At, Plain, Silent, ReturnSteps
<1>3. todo' \in Seq(Plain)
  BY <1>2, PlainThen DEF AInv
<1> QED BY <1>1, <1>2, <1>3, PlainJobs

\* A handler that calls the daemon, from a step that waits for no call.
LEMMA SilentAsks ==
  ASSUME AInv, AInv', JobInv, NEW h \in Silent, At(h),
         NEW m, NEW j, NEW r \in ReturnSteps, MainCalls(m, j, r), Asks(m, j, r),
         UNCHANGED <<job_id, capturing_, jobs, cached>>
  PROVE  JobInv'
<1>1. ~Starting /\ todo # <<>>
  BY DEF Starting, Due, At, Plain, Silent, ReturnSteps
<1> QED BY <1>1, AskJobs

\* What is known of the job when capture_stop or capture_get_samples returns.
LEMMA HeardOf ==
  ASSUME AInv, JobInv, todo # <<>>, call["main"].pc = "ok"
  PROVE  /\ Due("cancelled") \/ Due("stopped") => ~Starting /\ jobs[job_id] # "running"
         /\ Due("refreshed") =>
              /\ ~Starting /\ call["main"].ans.ok
              /\ call["main"].ans.terminal => jobs[job_id] = "done"
<1>1. Holds(call["main"].ans) /\ call["main"].ans.req = call["main"].req
  BY ThreadNames DEF JobInv, TruthInv, AInv, ClientInv, AnswersOwn
<1>2. Due("cancelled") \/ Due("stopped") =>
        call["main"].req[1] = "capture_stop" /\ call["main"].req[2] = job_id
  BY DEF JobInv, CallInv
<1>3. Due("refreshed") =>
        call["main"].req[1] = "capture_get_samples" /\ call["main"].req[2] = job_id
  BY DEF JobInv, CallInv
<1>4. Due("cancelled") \/ Due("stopped") \/ Due("refreshed") => ~Starting
  BY DEF Due, Starting
<1> QED BY <1>1, <1>2, <1>3, <1>4 DEF Holds

\* The steps that stop a capture and end the session.
LEMMA StopJobs ==
  ASSUME AInv, AInv', JobInv,
         CancelJob \/ Cancelled \/ StopIfCapturing \/ StopCall \/ Stopped \/ Refresh \/ Refreshed
           \/ ResetSession
  PROVE  JobInv'
<1>1. /\ TruthInv /\ Len(jobs) \in Nat /\ job_id \in Nat
      /\ job_id <= Len(jobs) /\ cached \in 0 .. Len(jobs)
  BY Lengths DEF JobInv, TruthInv
<1>2. CASE CancelJob
  <2>1. At("cancel_job") /\ UNCHANGED <<job_id, capturing_, jobs, cached>>
    BY <1>2 DEF CancelJob
  <2>2. CASE job_id # 0 /\ connected
    <3>1. MainCalls("capture_stop", job_id, "cancelled")
      BY <1>2, <2>2 DEF CancelJob
    <3> QED BY <2>1, <2>2, <3>1, SilentAsks, PlainNames DEF ReturnSteps, Asks
  <2>3. CASE ~(job_id # 0 /\ connected)
    <3>1. Then(<<>>) /\ NoCall
      BY <1>2, <2>3 DEF CancelJob
    <3> QED BY <2>1, <3>1, SilentJobs, PlainNames, PlainLists
  <2> QED BY <2>2, <2>3
<1>3. CASE Cancelled
  <2>1. /\ At("cancelled") /\ Returned("main") /\ Then(<<>>) /\ job_id' = 0
        /\ UNCHANGED <<capturing_, cached, jobs>>
    BY <1>3 DEF Cancelled, MainOnly
  <2>2. todo # <<>> /\ Due("cancelled")
    BY <2>1 DEF At, Due
  <2>3. call["main"].pc = "ok" /\ HeldInv => NoneRuns
    BY <2>2, HeardOf DEF HeldInv, NoneRuns
  <2>4. call["main"].pc = "ok" /\ StartInv /\ HeldInv =>
          /\ ~capturing_' => NoneRuns
          /\ \A j \in DOMAIN jobs : jobs[j] = "running" => j = job_id'
    BY <2>3 DEF NoneRuns
  <2>5. job_id' <= Len(jobs) /\ cached' \in 0 .. Len(jobs)
    BY <1>1, <2>1
  <2> QED BY <2>1, <2>2, <2>4, <2>5, ReturnJobs, PlainLists
<1>4. CASE StopIfCapturing
  <2>1. /\ At("stop_if_capturing") /\ NoCall /\ UNCHANGED <<job_id, capturing_, jobs, cached>>
        /\ Then(<<>>) \/ Then(<<"stop_call">>)
    BY <1>4 DEF StopIfCapturing, MainOnly
  <2> QED BY <2>1, SilentJobs, PlainNames, PlainLists
<1>5. CASE StopCall
  <2>1. At("stop_call") /\ UNCHANGED <<job_id, capturing_, jobs, cached>>
    BY <1>5 DEF StopCall, MainOnly
  <2>2. CASE job_id # 0
    <3>1. MainCalls("capture_stop", job_id, "stopped")
      BY <1>5, <2>2 DEF StopCall
    <3> QED BY <2>1, <2>2, <3>1, SilentAsks, PlainNames DEF ReturnSteps, Asks
  <2>3. CASE job_id = 0
    <3>1. Then(<<>>) /\ NoCall
      BY <1>5, <2>3 DEF StopCall
    <3> QED BY <2>1, <3>1, SilentJobs, PlainNames, PlainLists
  <2> QED BY <2>2, <2>3
<1>6. CASE Stopped
  <2>1. /\ At("stopped") /\ Returned("main") /\ Then(<<"refresh">>)
        /\ UNCHANGED <<job_id, cached, jobs>>
    BY <1>6 DEF Stopped, MainOnly
  <2>2. todo # <<>> /\ Due("stopped")
    BY <2>1 DEF At, Due
  <2>3. call["main"].pc = "ok" /\ HeldInv => NoneRuns
    BY <2>2, HeardOf DEF HeldInv, NoneRuns
  <2> QED BY <1>1, <2>1, <2>2, <2>3, ReturnJobs, PlainNames, PlainLists DEF NoneRuns
<1>7. CASE Refresh
  <2>1. At("refresh") /\ UNCHANGED <<job_id, capturing_, jobs, cached>>
    BY <1>7 DEF Refresh, MainOnly
  <2>2. CASE job_id # 0
    <3>1. MainCalls("capture_get_samples", job_id, "refreshed")
      BY <1>7, <2>2 DEF Refresh
    <3> QED BY <2>1, <2>2, <3>1, SilentAsks, PlainNames DEF ReturnSteps, Asks
  <2>3. CASE job_id = 0
    <3>1. Then(<<>>) /\ NoCall
      BY <1>7, <2>3 DEF Refresh
    <3> QED BY <2>1, <3>1, SilentJobs, PlainNames, PlainLists
  <2> QED BY <2>2, <2>3
<1>8. CASE Refreshed
  <2>1. /\ At("refreshed") /\ Returned("main") /\ Then(<<>>) /\ UNCHANGED jobs
        /\ cached' \in {cached, job_id} /\ job_id' \in {0, job_id}
        /\ Result("main") => job_id' = job_id
        /\ capturing_ /\ Result("main") /\ ~call["main"].ans.terminal => capturing_'
    BY <1>8 DEF Refreshed, MainOnly
  <2>2. todo # <<>> /\ Due("refreshed")
    BY <2>1 DEF At, Due
  <2>3. ASSUME call["main"].pc = "ok", HeldInv
        PROVE  /\ ~capturing_' => NoneRuns
               /\ \A j \in DOMAIN jobs : jobs[j] = "running" => j = job_id'
    <3>1. /\ ~Starting /\ Result("main")
          /\ call["main"].ans.terminal => jobs[job_id] = "done"
      BY <2>2, <2>3, HeardOf DEF Result
    <3>2. \A j \in DOMAIN jobs : jobs[j] = "running" => j = job_id
      BY <2>3, <3>1 DEF HeldInv
    <3>3. call["main"].ans.terminal => NoneRuns
      BY <3>1, <3>2 DEF NoneRuns
    <3>4. ~capturing_ => NoneRuns
      BY <2>3, <3>1 DEF HeldInv
    <3> QED BY <2>1, <3>1, <3>2, <3>3, <3>4
  <2>4. job_id' <= Len(jobs) /\ cached' \in 0 .. Len(jobs)
    BY <1>1, <2>1
  <2> QED BY <2>1, <2>2, <2>3, <2>4, ReturnJobs, PlainLists
<1>9. CASE ResetSession
  <2>1. /\ At("reset") /\ NoCall /\ Then(<<>>) /\ UNCHANGED <<job_id, capturing_, jobs>> /\ cached' = 0
    BY <1>9 DEF ResetSession, MainOnly
  <2> QED BY <2>1, SilentJobs, PlainNames, PlainLists
<1> QED BY <1>2, <1>3, <1>4, <1>5, <1>6, <1>7, <1>8, <1>9

\* The steps that end the connection and set it up.
LEMMA ConnectJobs ==
  ASSUME AInv, AInv', JobInv,
         ClientDisconnect \/ DaemonStart \/ ConnectNow \/ DaemonConnect \/ Launch \/ AutoConnect
           \/ DrainResult \/ DtorDisconnect \/ JoinConnect \/ ControllerStop
  PROVE  JobInv'
<1>1. CASE ClientDisconnect
  <2>1. \/ At("d_check") /\ Then(<<>>) /\ UNCHANGED pvars
        \/ At("d_check") /\ Then(<<"d_join">>) /\ Cuts
        \/ At("d_join") /\ Then(<<>>) /\ Fails
    BY <1>1 DEF ClientDisconnect, DisconnectClose, DisconnectJoin, Cuts, Fails, clientVars, netVars,
       pvars
  <2>2. todo # <<>> /\ Head(todo) \notin ReturnSteps
    BY <2>1 DEF At, ReturnSteps
  <2>3. todo' \in Seq(Plain)
    <3>1. \E s \in Seq(Plain) : Then(s)
      BY <2>1, PlainLists, PlainNames
    <3> QED BY <2>2, <3>1, PlainThen DEF AInv
  <2>4. UNCHANGED <<capturing_, jobs, faulted, job_id, cached>>
    BY <1>1 DEF ClientDisconnect, MainOnly
  <2> QED BY <2>1, <2>2, <2>3, <2>4, PlainJobs
<1>2. ASSUME NEW h \in Silent, At(h), NoCall, NEW s \in Seq(Plain), Then(s),
             UNCHANGED <<capturing_, job_id, jobs, cached>>
      PROVE  JobInv'
  BY <1>2, SilentJobs
<1>3. CASE DaemonStart
  BY <1>2, <1>3, PlainNames, PlainLists DEF DaemonStart
<1>4. CASE ConnectNow
  <2>1. Then(<<>>) \/ Then(<<"daemon_connect">>)
    BY <1>4 DEF ConnectNow
  <2> QED BY <1>2, <1>4, <2>1, PlainNames, PlainLists DEF ConnectNow, MainOnly
<1>5. CASE DaemonConnect
  <2>1. Then(<<>>) \/ Then(<<"d_check", "launch">>) \/ Then(<<"launch">>)
    BY <1>5 DEF DaemonConnect
  <2> QED BY <1>2, <1>5, <2>1, PlainNames, PlainLists DEF DaemonConnect, MainOnly
<1>6. CASE Launch
  BY <1>2, <1>6, PlainNames, PlainLists DEF Launch
<1>7. CASE AutoConnect
  <2>1. Then(<<>>) \/ Then(<<"daemon_connect">>)
    BY <1>7 DEF AutoConnect
  <2> QED BY <1>2, <1>7, <2>1, PlainNames, PlainLists DEF AutoConnect, MainOnly
<1>8. CASE DrainResult
  BY <1>2, <1>8, PlainNames, PlainLists DEF DrainResult
<1>9. CASE DtorDisconnect
  <2>1. Then(<<>>) \/ Then(<<"d_check">>)
    BY <1>9 DEF DtorDisconnect
  <2> QED BY <1>2, <1>9, <2>1, PlainNames, PlainLists DEF DtorDisconnect, View, MainOnly
<1>10. CASE JoinConnect
  BY <1>2, <1>10, PlainNames, PlainLists DEF JoinConnect, View
<1>11. CASE ControllerStop
  <2>1. /\ At("ctrl_stop") \/ At("ctrl_join") \/ At("exit")
        /\ NoCall /\ (Then(<<>>) \/ Then(<<"ctrl_join">>))
        /\ UNCHANGED <<capturing_, job_id, jobs, cached>>
    BY <1>11 DEF ControllerStop, View
  <2> QED BY <1>2, <2>1, PlainNames, PlainLists
<1> QED BY <1>1, <1>3, <1>4, <1>5, <1>6, <1>7, <1>8, <1>9, <1>10, <1>11

\* The steps that make the calls the user asked for.
LEMMA AskedJobs ==
  ASSUME AInv, AInv', JobInv,
         CallLoad \/ LoadDone \/ PinsDone \/ CallStart \/ CaptureStarted \/ refreshPinReadback
           \/ CallScript \/ ViewDone
  PROVE  JobInv'
<1>1. /\ TruthInv /\ Len(jobs) \in Nat /\ job_id \in Nat
      /\ job_id <= Len(jobs) /\ cached \in 0 .. Len(jobs)
  BY Lengths DEF JobInv, TruthInv
<1>2. ASSUME NEW h \in {"bsdl_pins", "bsdl_done", "view_done"}, At(h), Returned("main"), Then(<<>>),
             UNCHANGED <<capturing_, job_id, jobs, cached>>
      PROVE  JobInv'
  <2>1. todo # <<>> /\ ~Starting
    BY <1>2 DEF At, Starting, Due
  <2>2. HeldInv => /\ ~capturing_' => NoneRuns
                   /\ \A j \in DOMAIN jobs : jobs[j] = "running" => j = job_id'
    BY <1>2, <2>1 DEF HeldInv
  <2> QED BY <1>1, <1>2, <2>1, <2>2, ReturnJobs, PlainLists
<1>3. CASE CallLoad
  BY <1>3, SilentAsks, PlainNames DEF CallLoad, View, MainOnly, ReturnSteps, Asks
<1>4. CASE LoadDone
  <2>1. At("bsdl_pins") /\ UNCHANGED <<capturing_, job_id, jobs, cached>>
    BY <1>4 DEF LoadDone, View, MainOnly
  <2>2. CASE Result("main")
    <3>1. MainCalls("list_pins", 0, "bsdl_done")
      BY <1>4, <2>2 DEF LoadDone
    <3>2. todo # <<>> /\ ~Starting
      BY <2>1 DEF At, Starting, Due
    <3> QED BY <2>1, <3>1, <3>2, AskJobs DEF ReturnSteps, Asks
  <2>3. CASE ~Result("main")
    <3>1. Returned("main") /\ Then(<<>>)
      BY <1>4, <2>3 DEF LoadDone
    <3> QED BY <1>2, <2>1, <3>1
  <2> QED BY <2>2, <2>3
<1>5. CASE PinsDone
  BY <1>2, <1>5 DEF PinsDone, MainOnly
<1>6. CASE CallStart
  <2>1. At("capture_start") /\ UNCHANGED <<capturing_, job_id, jobs, cached>>
    BY <1>6 DEF CallStart, View, MainOnly
  <2>2. CASE connected
    <3>1. MainCalls("capture_start", 0, "capture_started")
      BY <1>6, <2>2 DEF CallStart
    <3>2. Due("capture_start")
      BY <2>1 DEF At, Due
    <3> QED BY <2>1, <3>1, <3>2, SilentAsks, PlainNames DEF ReturnSteps, Asks
  <2>3. CASE ~connected
    <3>1. Then(<<>>) /\ NoCall
      BY <1>6, <2>3 DEF CallStart
    <3> QED BY <2>1, <3>1, SilentJobs, PlainNames, PlainLists
  <2> QED BY <2>2, <2>3
<1>7. CASE CaptureStarted
  <2>1. /\ At("capture_started") /\ Returned("main") /\ Then(<<>>) /\ UNCHANGED jobs
        /\ Result("main") => job_id' = call["main"].ans.job /\ capturing_' /\ cached' = 0
        /\ ~Result("main") => UNCHANGED <<job_id, capturing_, cached>>
    BY <1>7 DEF CaptureStarted, MainOnly
  <2>2. todo # <<>> /\ Starting
    BY <2>1 DEF At, Due, Starting
  <2>3. call["main"].pc = "ok" => call["main"].ans.job <= Len(jobs)
    BY <1>1, ThreadNames DEF TruthInv, Holds
  <2>4. job_id' <= Len(jobs) /\ cached' \in 0 .. Len(jobs)
    BY <1>1, <2>1, <2>3 DEF Result
  <2>5. ASSUME call["main"].pc = "ok", StartInv
        PROVE  /\ ~capturing_' => NoneRuns
               /\ \A j \in DOMAIN jobs : jobs[j] = "running" => j = job_id'
    <3>1. Tells(call["main"].ans)
      BY <2>2, <2>5 DEF StartInv
    <3>2. Result("main") <=> call["main"].ans.ok
      BY <2>5 DEF Result
    <3> QED BY <2>1, <3>1, <3>2 DEF Tells, NoneRuns
  <2> QED BY <2>1, <2>2, <2>4, <2>5, ReturnJobs, PlainLists
<1>8. CASE refreshPinReadback
  <2>1. At("sample_call") /\ UNCHANGED <<capturing_, job_id, jobs, cached>>
    BY <1>8 DEF refreshPinReadback, View, MainOnly
  <2>2. CASE connected
    <3>1. MainCalls("sample_bsr", 0, "view_done")
      BY <1>8, <2>2 DEF refreshPinReadback
    <3> QED BY <2>1, <3>1, SilentAsks, PlainNames DEF ReturnSteps, Asks
  <2>3. CASE ~connected
    <3>1. Then(<<>>) /\ NoCall
      BY <1>8, <2>3 DEF refreshPinReadback
    <3> QED BY <2>1, <3>1, SilentJobs, PlainNames, PlainLists
  <2> QED BY <2>2, <2>3
<1>9. CASE CallScript
  BY <1>9, SilentAsks, PlainNames DEF CallScript, View, MainOnly, ReturnSteps, Asks
<1>10. CASE ViewDone
  BY <1>2, <1>10 DEF ViewDone, View, MainOnly
<1> QED BY <1>3, <1>4, <1>5, <1>6, <1>7, <1>8, <1>9, <1>10

---------------------------------------------------------------------------
(* The whole program                                                       *)

\* The event loop and the user.
LEMMA UserJobs ==
  ASSUME AInv, AInv', JobInv, Frame \/ User
  PROVE  JobInv'
<1>1. ASSUME todo = <<>>, todo' \in Seq(Plain) \/ (todo' = <<"capture_start">> /\ ~capturing_),
             NoCall, UNCHANGED <<capturing_, jobs>>,
             job_id' = job_id \/ (job_id' = 0 /\ ~capturing_), cached' \in {cached, 0}
      PROVE  JobInv'
  <2>1. UNCHANGED pvars /\ (faulted => faulted')
    BY <1>1 DEF NoCall, pvars, clientVars, netVars
  <2> QED BY <1>1, <2>1, PlainJobs
<1>2. CASE Frame
  <2>1. todo' \in Seq(Plain)
    <3>1. PICK refreshes \in BOOLEAN :
            todo' = (IF pending_connect THEN <<"auto_connect">> ELSE <<>>)
                      \o (IF conn_result /\ ~conn_running THEN <<"drain">> ELSE <<>>)
                      \o (IF refreshes THEN <<"refresh">> ELSE <<>>)
      BY <1>2 DEF Frame
    <3>2. (IF pending_connect THEN <<"auto_connect">> ELSE <<>>) \in Seq(Plain)
      BY PlainLists, PlainNames
    <3>3. (IF conn_result /\ ~conn_running THEN <<"drain">> ELSE <<>>) \in Seq(Plain)
      BY PlainLists, PlainNames
    <3>4. (IF refreshes THEN <<"refresh">> ELSE <<>>) \in Seq(Plain)
      BY PlainLists, PlainNames
    <3> QED BY <3>1, <3>2, <3>3, <3>4, PlainLists
  <2> QED BY <1>1, <1>2, <2>1 DEF Frame
<1>3. ASSUME NEW s \in Seq(Plain), Input(s), View
      PROVE  JobInv'
  BY <1>1, <1>3 DEF Input, View
<1>4. CASE OpenDialog
  BY <1>1, <1>4, PlainLists DEF OpenDialog, View
<1>5. CASE AcceptDialog
  BY <1>3, <1>5, Handlers DEF AcceptDialog
<1>6. CASE MenuDisconnect
  BY <1>3, <1>6, Handlers DEF MenuDisconnect
<1>7. CASE MenuStop
  BY <1>3, <1>7, PlainLists, PlainNames DEF MenuStop
<1>8. CASE OpenBsdl
  BY <1>3, <1>8, PlainLists, PlainNames DEF OpenBsdl
<1>9. CASE MenuRun
  BY <1>1, <1>9 DEF MenuRun, Input, View, can_capture
<1>10. CASE onClearWaveforms
  BY <1>1, <1>10, PlainLists DEF onClearWaveforms, Input, can_capture
<1>11. CASE Readback
  BY <1>3, <1>11, PlainLists, PlainNames DEF Readback
<1>12. CASE RunScript
  BY <1>3, <1>12, PlainLists, PlainNames DEF RunScript
<1>13. CASE CloseProgramModal
  BY <1>3, <1>13, PlainLists DEF CloseProgramModal
<1>14. CASE CloseWindow
  BY <1>3, <1>14, Handlers DEF CloseWindow
<1>15. CASE onProgramPl
  <2>1. todo = <<>> /\ MainRests /\ UNCHANGED <<to_server, to_client, jobs>>
    BY <1>15 DEF onProgramPl, View, MainRests, netVars
  <2>2. JobsGrow /\ FewerRun
    <3>1. Len(jobs) \in Nat /\ Len(jobs) <= MaxJobs
      BY Lengths DEF JobInv, TruthInv
    <3> QED BY <2>1, <3>1 DEF JobsGrow, FewerRun
  <2>3. CASE connected
    <3> DEFINE c == [Idle EXCEPT !.pc = "check", !.req = <<"program_pl", 0>>]
    <3>1. c.pc = "check" /\ c.req[1] = "program_pl"
      BY DEF Idle
    <3>2. call' = [call EXCEPT !["prog"] = c] /\ call \in [Threads -> Calls]
      BY <1>15, <2>3 DEF onProgramPl, CallBegin, AInv, ClientInv, ClientTypes
    <3> HIDE DEF c
    <3>3. call'["prog"] = c /\ \A u \in Threads : u # "prog" => call'[u] = call[u]
      BY <3>2, ThreadNames
    <3>4. Rests
      BY <2>1, <3>1, <3>3, ThreadNames DEF Rests, Advances
    <3> QED BY <2>1, <2>2, <3>4, RestJobs
  <2>4. CASE ~connected
    <3>1. Rests
      BY <1>15, <2>1, <2>4 DEF onProgramPl, Rests, Advances
    <3> QED BY <2>1, <2>2, <3>1, RestJobs
  <2> QED BY <2>3, <2>4
<1> QED BY <1>2, <1>4, <1>5, <1>6, <1>7, <1>8, <1>9, <1>10, <1>11, <1>12, <1>13, <1>14, <1>15 DEF User

\* A thread other than the main thread begins its call, or ends it.
LEMMA OtherCalls ==
  ASSUME AInv, AInv', JobInv, MainRests, UNCHANGED <<to_server, to_client, jobs>>,
         NEW t \in {"conn", "prog"},
         \/ call' = [call EXCEPT ![t] = Idle]
         \/ \E m \in {"detect_devices", "program_pl"} : CallBegin(t, <<m, 0>>)
  PROVE  JobInv'
<1>1. JobsGrow /\ FewerRun
  <2>1. Len(jobs) \in Nat /\ Len(jobs) <= MaxJobs
    BY Lengths DEF JobInv, TruthInv
  <2> QED BY <2>1 DEF JobsGrow, FewerRun
<1>2. call \in [Threads -> Calls]
  BY DEF AInv, ClientInv, ClientTypes
<1>3. PICK c : /\ call' = [call EXCEPT ![t] = c]
               /\ \/ c.pc = "idle"
                  \/ c.pc = "check" /\ c.req[1] \in {"detect_devices", "program_pl"}
  <2>1. Idle.pc = "idle"
    BY DEF Idle
  <2>2. ASSUME NEW m \in {"detect_devices", "program_pl"}
        PROVE  /\ [Idle EXCEPT !.pc = "check", !.req = <<m, 0>>].pc = "check"
               /\ [Idle EXCEPT !.pc = "check", !.req = <<m, 0>>].req[1] = m
    BY DEF Idle
  <2>3. CASE call' = [call EXCEPT ![t] = Idle]
    BY <2>1, <2>3
  <2>4. ASSUME NEW m \in {"detect_devices", "program_pl"}, CallBegin(t, <<m, 0>>)
        PROVE  \E d : /\ call' = [call EXCEPT ![t] = d]
                      /\ d.pc = "check" /\ d.req[1] \in {"detect_devices", "program_pl"}
    BY <2>2, <2>4 DEF CallBegin
  <2> QED BY <2>3, <2>4
<1>4. call'[t] = c /\ \A u \in Threads : u # t => call'[u] = call[u]
  BY <1>2, <1>3, ThreadNames
<1>5. Rests
  BY <1>3, <1>4, ThreadNames DEF Rests, Advances
<1> QED BY <1>1, <1>5, RestJobs

\* A step that changes no call and no list of the client.
LEMMA StillJobs ==
  ASSUME AInv, AInv', JobInv, MainRests, JobsGrow, FewerRun, UNCHANGED pvars \/ Fails \/ Cuts
  PROVE  JobInv'
<1>1. Rests
  <2>1. CASE UNCHANGED pvars
    BY <2>1 DEF pvars, Rests, Advances
  <2>2. CASE Fails
    BY <2>2, FailAdvances, ThreadNames DEF Rests
  <2>3. CASE Cuts
    BY <2>3 DEF Cuts, Rests, Advances
  <2> QED BY <2>1, <2>2, <2>3
<1> QED BY <1>1, RestJobs

\* The connect thread.
LEMMA ConnJobs ==
  ASSUME AInv, AInv', JobInv, ConnThread
  PROVE  JobInv'
<1>1. UNCHANGED <<todo, capturing_, job_id, cached, jobs>>
  BY DEF ConnThread, appVars
<1>2. JobsGrow /\ FewerRun
  <2>1. Len(jobs) \in Nat /\ Len(jobs) <= MaxJobs
    BY Lengths DEF JobInv, TruthInv
  <2> QED BY <1>1, <2>1 DEF JobsGrow, FewerRun
<1>3. CASE faulted' = faulted /\ (ConnectSock \/ ConnectUp \/ NoCall)
  <2>1. MainRests
    BY <1>1, <1>3 DEF MainRests
  <2>2. UNCHANGED pvars \/ Cuts
    BY <1>3 DEF ConnectSock, ConnectUp, NoCall, clientVars, netVars, pvars, Cuts
  <2> QED BY <1>2, <2>1, <2>2, StillJobs
<1>4. CASE faulted' = faulted /\ ConnectSpawn(<<"detect_devices", 0>>)
  <2>1. MainRests
    BY <1>1, <1>4 DEF MainRests
  <2>2. UNCHANGED <<to_server, to_client>> /\ CallBegin("conn", <<"detect_devices", 0>>)
    BY <1>4 DEF ConnectSpawn, netVars
  <2> QED BY <1>1, <2>1, <2>2, OtherCalls
<1>5. CASE Returned("conn")
  <2>1. /\ MainRests /\ UNCHANGED <<to_server, to_client>>
        /\ call' = [call EXCEPT !["conn"] = Idle]
    BY <1>1, <1>5 DEF Returned, MainRests, netVars
  <2> QED BY <1>1, <2>1, OtherCalls
<1> QED BY <1>3, <1>4, <1>5 DEF ConnThread, NoCall

\* Every step keeps what is known of jobs.
LEMMA NextJobs ==
  ASSUME AInv, AInv', JobInv, [AppNext]_avars
  PROVE  JobInv'
<1>1. /\ jobs \in Seq(JobStates) /\ Len(jobs) \in Nat /\ DOMAIN jobs = 1 .. Len(jobs)
      /\ Len(jobs) <= MaxJobs
  BY Lengths DEF AInv, JobTypes, JobStates, JobInv, TruthInv
<1>2. jobs' = jobs => JobsGrow /\ FewerRun
  BY <1>1 DEF JobsGrow, FewerRun
<1>3. CASE Main
  BY <1>3, StopJobs, ConnectJobs, AskedJobs DEF Main
<1>4. CASE Frame \/ User
  BY <1>4, UserJobs
<1>5. CASE ConnThread
  BY <1>5, ConnJobs
<1>6. CASE ProgramThread
  <2>1. /\ MainRests /\ UNCHANGED <<to_server, to_client, jobs>>
        /\ call' = [call EXCEPT !["prog"] = Idle]
    BY <1>6 DEF ProgramThread, Returned, MainRests, netVars, appVars
  <2> QED BY <2>1, OtherCalls
<1>7. CASE Serve
  BY <1>7, ServeJobs
<1>8. CASE ClientThreads
  <2>1. MainRests /\ jobs' = jobs
    BY <1>8 DEF ClientThreads, appVars, MainRests
  <2>2. CASE Reader
    <3>1. CASE ReaderMatch
      BY <2>1, <3>1, TakeJobs
    <3>2. CASE ReaderLost \/ ReaderFail
      <4>1. UNCHANGED pvars \/ Fails
        BY <3>2 DEF ReaderLost, ReaderFail, pvars, netVars, Fails
      <4> QED BY <1>2, <2>1, <4>1, StillJobs
    <3> QED BY <2>2, <3>1, <3>2 DEF Reader
  <2>3. ASSUME NEW t \in Threads,
               CallCheck(t) \/ CallRegister(t) \/ CallThrows(t) \/ CallTimeout(t)
        PROVE  JobInv'
    <3>1. (\A u \in Threads : Advances(u)) /\ UNCHANGED <<to_server, to_client>>
      BY <2>3, CheckAdvances
    <3>2. Rests
      BY <3>1, ThreadNames DEF Rests
    <3> QED BY <1>2, <2>1, <3>2, RestJobs
  <2>4. ASSUME NEW t \in Threads, CallSend(t)
        PROVE  JobInv'
    BY <2>1, <2>4, SendJobs
  <2> QED BY <1>8, <2>2, <2>3, <2>4 DEF ClientThreads
<1>9. CASE ControllerThread
  <2>1. MainRests /\ jobs' = jobs /\ UNCHANGED pvars
    BY <1>9 DEF ControllerThread, clientVars, netVars, pvars, envVars, appVars, MainRests
  <2> QED BY <1>2, <2>1, StillJobs
<1>10. CASE JobEnds
  <2>1. PICK j \in DOMAIN jobs : jobs' = [jobs EXCEPT ![j] = "done"]
    BY <1>10 DEF JobEnds
  <2>2. Len(jobs') = Len(jobs) /\ DOMAIN jobs' = DOMAIN jobs
    BY <1>1, <2>1, JobsExcept
  <2>3. jobs'[j] = "done" /\ \A k \in DOMAIN jobs : k # j => jobs'[k] = jobs[k]
    BY <2>1
  <2>4. JobsGrow /\ FewerRun
    BY <1>1, <2>2, <2>3 DEF JobsGrow, FewerRun
  <2>5. MainRests /\ UNCHANGED pvars
    BY <1>10 DEF JobEnds, clientVars, netVars, pvars, appVars, MainRests
  <2> QED BY <2>4, <2>5, StillJobs
<1>11. CASE DaemonProcess
  <2>1. MainRests /\ (UNCHANGED pvars \/ Cuts)
    BY <1>11 DEF DaemonProcess, PeerCloses, clientVars, netVars, Cuts, pvars, appVars, MainRests
  <2>2. JobsGrow /\ FewerRun
    <3>1. CASE jobs' = jobs
      BY <1>2, <3>1
    <3>2. CASE jobs' = [j \in DOMAIN jobs |-> "done"]
      <4>1. DOMAIN jobs' = DOMAIN jobs /\ \A j \in DOMAIN jobs : jobs'[j] = "done"
        BY <3>2
      <4>2. Len(jobs') = Len(jobs)
        BY <1>1, <3>2
      <4> QED BY <1>1, <4>1, <4>2 DEF JobsGrow, FewerRun
    <3> QED BY <1>11, <3>1, <3>2 DEF DaemonProcess
  <2> QED BY <2>1, <2>2, StillJobs
<1>12. CASE UNCHANGED avars
  <2>1. MainRests /\ jobs' = jobs /\ UNCHANGED pvars
    BY <1>12 DEF avars, clientVars, netVars, pvars, envVars, appVars, MainRests
  <2> QED BY <1>2, <2>1, StillJobs
<1> QED BY <1>3, <1>4, <1>5, <1>6, <1>7, <1>8, <1>9, <1>10, <1>11, <1>12 DEF AppNext

\* Nothing is under way and no job runs at first.
LEMMA InitJobs ==
  ASSUME AppInit
  PROVE  JobInv
<1>1. /\ \A t \in Threads : call[t].pc = "idle"
      /\ to_server = <<>> /\ to_client = <<>> /\ jobs = <<>> /\ todo = <<>>
      /\ job_id = 0 /\ cached = 0
  BY DEF AppInit, ClientInit, Idle
<1>2. DOMAIN <<>> = {} /\ Len(<<>>) = 0
  BY SMT
<1>3. TruthInv
  BY <1>1, <1>2, AppAssumption DEF TruthInv
<1>4. ~Starting /\ \A s : ~Due(s)
  BY <1>1 DEF Starting, Due
<1>5. CallInv
  BY <1>1, <1>4 DEF CallInv
<1>6. Starts(to_server) = {} /\ Starts(to_client) = {}
  BY <1>1, <1>2 DEF Starts
<1>7. StartInv
  BY <1>1, <1>4, <1>6, ThreadNames DEF StartInv, Once
<1>8. HeldInv
  BY <1>1, <1>2, <1>4 DEF HeldInv, NoneRuns
<1> QED BY <1>3, <1>5, <1>7, <1>8 DEF JobInv

---------------------------------------------------------------------------
(* The values of the other variables                                       *)

NetTypes ==
  /\ {sock, connected, stop_flag} \subseteq BOOLEAN
  /\ reader \in {"none", "recv", "failing", "ended"} /\ link \in {"none", "up", "closed"}
  /\ next_id \in Nat \ {0} /\ pending \subseteq 1 .. next_id

FlagTypes == {connected_, capturing_, bsdl_loaded, pending_connect, conn_running, conn_result, faulted}
               \subseteq BOOLEAN

PlaceTypes ==
  /\ modal \in {"", "device", "program"}
  /\ conn \in {"none", "begin", "up", "spawn", "detect", "ended"}
  /\ prog \in {"none", "call", "ended"}
  /\ ended \in {"", "exit", "restart", "reconnect", "unjoined"}

CountTypes == inputs \in 0 .. MaxInputs /\ faults \in 0 .. MaxFaults

RestTypes == NetTypes /\ CtrlTypeOK /\ FlagTypes /\ PlaceTypes /\ CountTypes

\* What a step may do to the connection and the ids.
NetVarsStill == UNCHANGED <<sock, connected, stop_flag, reader, pending, next_id, link>>
NetMoves ==
  \/ NetVarsStill \/ Reader \/ ConnectSock \/ ConnectUp \/ DisconnectClose \/ DisconnectJoin
  \/ PeerCloses \/ (\E t \in Threads : CallStep(t))
  \/ reader' = "recv" /\ UNCHANGED <<sock, connected, stop_flag, pending, next_id, link>>
  \/ link' \in {link, "closed"} /\ UNCHANGED <<sock, connected, stop_flag, reader, pending, next_id>>

\* Every id that has a promise has been handed out.
LEMMA NetTypesKeep ==
  ASSUME NetTypes, NetMoves
  PROVE  NetTypes'
<1>1. /\ {sock', connected', stop_flag'} \subseteq BOOLEAN
      /\ reader' \in {"none", "recv", "failing", "ended"} /\ link' \in {"none", "up", "closed"}
  BY DEF NetTypes, NetMoves, NetVarsStill, Reader, ReaderMatch, ReaderLost, ReaderFail, ConnectSock,
         ConnectUp, DisconnectClose, DisconnectJoin, PeerCloses, CallStep, CallCheck, CallRegister,
         CallThrows, CallSend, CallTimeout, netVars, clientVars
<1>2. \/ UNCHANGED next_id /\ pending' \subseteq pending
      \/ next_id' = next_id + 1 /\ pending' \subseteq pending \cup {next_id}
  BY DEF NetMoves, NetVarsStill, Reader, ReaderMatch, ReaderLost, ReaderFail, failAllPending, ConnectSock,
         ConnectUp, DisconnectClose, DisconnectJoin, PeerCloses, CallStep, CallCheck, CallRegister,
         CallThrows, CallSend, CallTimeout, netVars, clientVars
<1>3. next_id' \in Nat \ {0} /\ pending' \subseteq 1 .. next_id'
  <2>1. next_id \in Nat \ {0} /\ pending \subseteq 1 .. next_id
    BY DEF NetTypes
  <2>2. next_id \in 1 .. next_id
    BY <2>1
  <2>3. pending' \subseteq 1 .. next_id
    BY <1>2, <2>1, <2>2
  <2>4. \A i \in 1 .. next_id : i \in 1 .. next_id + 1
    BY <2>1
  <2> QED BY <1>2, <2>1, <2>3, <2>4
<1> QED BY <1>1, <1>3 DEF NetTypes

\* A step that takes no call further.
LEMMA NetIdle ==
  ASSUME NoCall \/ UNCHANGED <<clientVars, netVars>>
  PROVE  NetMoves
  BY DEF NoCall, clientVars, netVars, NetMoves, NetVarsStill

\* A step of the main thread's calls.
LEMMA NetMain ==
  ASSUME \/ Returned("main") \/ NoCall
         \/ \E m, j, s : MainCalls(m, j, s)
  PROVE  NetMoves /\ faults' = faults /\ (faulted \in BOOLEAN => faulted' \in BOOLEAN)
  BY DEF Returned, MainCalls, NoCall, clientVars, netVars, NetMoves, NetVarsStill

\* The main thread.
LEMMA MainTypes ==
  ASSUME RestTypes, Main
  PROVE  RestTypes'
<1>1. /\ NetTypes /\ CtrlTypeOK /\ FlagTypes /\ PlaceTypes /\ CountTypes
  BY DEF RestTypes
<1>2. CASE ClientDisconnect
  <2>1. NetMoves /\ UNCHANGED <<faulted, faults>>
    BY <1>2, NetIdle DEF ClientDisconnect, NetMoves
  <2>2. UNCHANGED <<ctrlVars, workVars, modal, connected_, capturing_, bsdl_loaded,
                    pending_connect, ended, inputs>>
    BY <1>2 DEF ClientDisconnect, MainOnly
  <2>3. CtrlTypeOK' /\ CountTypes'
    BY <1>1, <2>1, <2>2 DEF CtrlTypeOK, ctrlVars, CountTypes
  <2>4. FlagTypes' /\ PlaceTypes'
    BY <1>1, <2>1, <2>2 DEF FlagTypes, PlaceTypes, workVars
  <2> QED BY <1>1, <2>1, <2>3, <2>4, NetTypesKeep DEF RestTypes
<1>3. CASE ~ClientDisconnect
  <2>1. \/ Returned("main") \/ NoCall
        \/ \E m, j, s : MainCalls(m, j, s)
    BY <1>3 DEF Main, CancelJob, Cancelled, StopIfCapturing, StopCall, Stopped, Refresh, Refreshed,
                ResetSession, DaemonStart, ConnectNow, DaemonConnect, Launch, AutoConnect,
                DrainResult, CallLoad, LoadDone, PinsDone, CallStart, CaptureStarted,
                refreshPinReadback, CallScript, ViewDone, DtorDisconnect, JoinConnect,
                ControllerStop
  <2>2. NetTypes' /\ faults' = faults /\ faulted' \in BOOLEAN
    BY <1>1, <2>1, NetMain, NetTypesKeep DEF FlagTypes
  <2>3. inputs' = inputs
    BY <1>3 DEF Main, CancelJob, Cancelled, StopIfCapturing, StopCall, Stopped, Refresh, Refreshed,
                ResetSession, DaemonStart, ConnectNow, DaemonConnect, Launch, AutoConnect,
                DrainResult, CallLoad, LoadDone, PinsDone, CallStart, CaptureStarted,
                refreshPinReadback, CallScript, ViewDone, DtorDisconnect, JoinConnect,
                ControllerStop, MainOnly
  <2>4. {connected_', capturing_', bsdl_loaded', pending_connect', conn_running', conn_result'}
          \subseteq BOOLEAN
    <3> DEFINE Sets == \/ Refreshed \/ CaptureStarted \/ PinsDone \/ ResetSession \/ Stopped
                       \/ ConnectNow \/ AutoConnect \/ Launch \/ DrainResult
    <3>1. CASE Sets
      BY <1>1, <3>1 DEF FlagTypes, Refreshed, CaptureStarted, PinsDone, ResetSession, Stopped,
                        ConnectNow, AutoConnect, Launch, DrainResult, MainOnly, workVars
    <3>2. CASE ~Sets
      <4>1. UNCHANGED <<connected_, capturing_, bsdl_loaded, pending_connect, conn_running, conn_result>>
        BY <1>3, <3>2 DEF Main, CancelJob, Cancelled, StopIfCapturing, StopCall, Refresh,
                          DaemonStart, DaemonConnect, CallLoad, LoadDone, CallStart,
                          refreshPinReadback, CallScript, ViewDone, DtorDisconnect, JoinConnect,
                          ControllerStop, MainOnly, View, workVars
      <4> QED BY <1>1, <4>1 DEF FlagTypes
    <3> QED BY <3>1, <3>2
  <2>5. PlaceTypes'
    BY <1>1, <1>3 DEF PlaceTypes, Main, CancelJob, Cancelled, StopIfCapturing, StopCall, Stopped,
                      Refresh, Refreshed, ResetSession, DaemonStart, ConnectNow, DaemonConnect,
                      Launch, AutoConnect, DrainResult, CallLoad, LoadDone, PinsDone, CallStart,
                      CaptureStarted, refreshPinReadback, CallScript, ViewDone, DtorDisconnect,
                      JoinConnect, ControllerStop, MainOnly, workVars
  <2>6. CtrlTypeOK'
    <3>1. CASE DaemonStart \/ ControllerStop
      BY <1>1, <3>1, Lists DEF DaemonStart, ControllerStop, StartFails, StartSpawns, StopBegin,
             StopJoin, CtrlTypeOK, DaemonStates, ctrlVars
    <3>2. CASE ~DaemonStart /\ ~ControllerStop
      <4>1. UNCHANGED ctrlVars
        BY <1>3, <3>2 DEF Main, CancelJob, Cancelled, StopIfCapturing, StopCall, Stopped, Refresh,
                          Refreshed, ResetSession, ConnectNow, DaemonConnect, Launch, AutoConnect,
                          DrainResult, CallLoad, LoadDone, PinsDone, CallStart, CaptureStarted,
                          refreshPinReadback, CallScript, ViewDone, DtorDisconnect, JoinConnect,
                          MainOnly
      <4> QED BY <1>1, <4>1 DEF ctrlVars, CtrlTypeOK
    <3> QED BY <3>1, <3>2
  <2> QED BY <1>1, <2>2, <2>3, <2>4, <2>5, <2>6 DEF RestTypes, FlagTypes, CountTypes
<1> QED BY <1>2, <1>3

\* The event loop and the user.
LEMMA UserTypes ==
  ASSUME RestTypes, Frame \/ User
  PROVE  RestTypes'
<1>1. NetTypes /\ CtrlTypeOK /\ FlagTypes /\ PlaceTypes /\ CountTypes
  BY DEF RestTypes
<1> DEFINE Handler == AcceptDialog \/ MenuDisconnect \/ MenuStop \/ OpenBsdl \/ MenuRun \/ onClearWaveforms
                      \/ Readback \/ RunScript \/ CloseProgramModal \/ CloseWindow
<1>2. Handler => \E s : Input(s)
  BY DEF AcceptDialog, MenuDisconnect, MenuStop, OpenBsdl, MenuRun, onClearWaveforms, Readback, RunScript,
         CloseProgramModal, CloseWindow
<1>3. /\ NetMoves /\ UNCHANGED <<ctrlVars, faulted, faults, conn, conn_running, conn_result, ended>>
      /\ UNCHANGED inputs \/ (inputs < MaxInputs /\ inputs' = inputs + 1)
  <2>1. CASE Frame \/ OpenDialog
    BY <2>1, NetIdle DEF Frame, OpenDialog, NoCall, workVars
  <2>2. CASE Handler
    BY <1>2, <2>2, NetIdle DEF Input, NoCall
  <2>3. CASE onProgramPl
    BY <2>3 DEF onProgramPl, NetMoves, NetVarsStill, netVars
  <2> QED BY <2>1, <2>2, <2>3 DEF User
<1>4. UNCHANGED <<connected_, capturing_, bsdl_loaded, pending_connect>>
  BY DEF Frame, User, OpenDialog, AcceptDialog, MenuDisconnect, MenuStop, OpenBsdl, MenuRun, onClearWaveforms,
         Readback, RunScript, onProgramPl, CloseProgramModal, CloseWindow, View
<1>5. modal' \in {modal, "", "device", "program"} /\ prog' \in {prog, "none", "call"}
  BY DEF Frame, User, OpenDialog, AcceptDialog, MenuDisconnect, MenuStop, OpenBsdl, MenuRun, onClearWaveforms,
         Readback, RunScript, onProgramPl, CloseProgramModal, CloseWindow, workVars
<1>6. NetTypes'
  BY <1>1, <1>3, NetTypesKeep
<1>7. CtrlTypeOK'
  BY <1>1, <1>3 DEF CtrlTypeOK, ctrlVars
<1>8. FlagTypes'
  BY <1>1, <1>3, <1>4 DEF FlagTypes
<1>9. PlaceTypes'
  BY <1>1, <1>3, <1>5 DEF PlaceTypes
<1>10. CountTypes'
  BY <1>1, <1>3, AppAssumption DEF CountTypes
<1> QED BY <1>6, <1>7, <1>8, <1>9, <1>10 DEF RestTypes

\* The events of the daemon process are taken from the front and added at the end.
LEMMA PipeTypes ==
  ASSUME CtrlTypeOK, Controller \/ ChildBoots \/ ChildEnds
  PROVE  CtrlTypeOK'
<1>1. pipe \in Seq(Events) /\ \A e \in Events : Append(pipe, e) \in Seq(Events)
  BY SMT DEF CtrlTypeOK
<1>2. pipe # <<>> => Tail(pipe) \in Seq(Events) /\ Head(pipe) \in Events
  BY <1>1, TailElements
<1>3. CASE ReadEvent
  BY <1>1, <1>2, <1>3 DEF ReadEvent, setReady, setError, setOff, CtrlTypeOK, DaemonStates, Events
<1>4. CASE ReadEof
  BY <1>4 DEF ReadEof, setError, CtrlTypeOK, DaemonStates
<1>5. CASE ChildBoots \/ ChildEnds
  <2>1. pipe' \in Seq(Events)
    BY <1>1, <1>5 DEF ChildBoots, ChildEnds, Events
  <2> QED BY <1>5, <2>1 DEF ChildBoots, ChildEnds, CtrlTypeOK
<1> QED BY <1>3, <1>4, <1>5 DEF Controller

\* Every variable keeps to its values.
LEMMA NextTypes ==
  ASSUME RestTypes, [AppNext]_avars
  PROVE  RestTypes'
<1>1. NetTypes /\ CtrlTypeOK /\ FlagTypes /\ PlaceTypes /\ CountTypes
  BY DEF RestTypes
<1>2. ASSUME NetMoves, UNCHANGED ctrlVars \/ Controller \/ ChildBoots \/ ChildEnds,
             UNCHANGED <<appVars, inputs>>, UNCHANGED faults \/ Fault,
             {conn_running', conn_result', faulted'} \subseteq BOOLEAN,
             PlaceTypes'
      PROVE  RestTypes'
  <2>1. NetTypes' /\ FlagTypes'
    BY <1>1, <1>2, NetTypesKeep DEF FlagTypes, appVars
  <2>2. CtrlTypeOK'
    <3>1. CASE UNCHANGED ctrlVars
      BY <1>1, <3>1 DEF CtrlTypeOK, ctrlVars
    <3> QED BY <1>1, <1>2, <3>1, PipeTypes
  <2>3. CountTypes'
    BY <1>1, <1>2, AppAssumption DEF CountTypes, Fault
  <2> QED BY <1>2, <2>1, <2>2, <2>3 DEF RestTypes
<1>3. ASSUME UNCHANGED <<appVars, workVars, ended>>
      PROVE  PlaceTypes' /\ (faulted' = faulted => {conn_running', conn_result', faulted'} \subseteq BOOLEAN)
  BY <1>1, <1>3 DEF PlaceTypes, FlagTypes, appVars, workVars
<1>4. CASE Main
  BY <1>4, MainTypes
<1>5. CASE Frame \/ User
  BY <1>5, UserTypes
<1>6. CASE ConnThread
  <2>1. NetMoves
    BY <1>6, NetIdle DEF ConnThread, ConnectSpawn, Returned, NetMoves, NetVarsStill, netVars
  <2>2. UNCHANGED <<ctrlVars, appVars, prog, inputs, faults>>
    BY <1>6 DEF ConnThread, Returned, NoCall
  <2>3. {conn_running', conn_result', faulted'} \subseteq BOOLEAN
    BY <1>1, <1>6 DEF FlagTypes, ConnThread, ConnEnds, Returned, NoCall
  <2>4. PlaceTypes'
    <3>1. UNCHANGED <<modal, prog>>
      BY <2>2 DEF appVars
    <3>2. conn' \in {conn, "up", "spawn", "detect", "ended"} /\ ended' \in {ended, "reconnect"}
      BY <1>6 DEF ConnThread, ConnEnds
    <3> QED BY <1>1, <3>1, <3>2 DEF PlaceTypes
  <2> QED BY <1>2, <2>1, <2>2, <2>3, <2>4
<1>7. CASE ProgramThread
  <2>1. NetMoves
    BY <1>7 DEF ProgramThread, Returned, NetMoves, NetVarsStill, netVars
  <2>2. UNCHANGED <<ctrlVars, appVars, conn, conn_running, conn_result, ended, inputs, faults>>
        /\ prog' = "ended"
    BY <1>7 DEF ProgramThread, Returned
  <2>3. {conn_running', conn_result', faulted'} \subseteq BOOLEAN
    BY <1>1, <1>7 DEF FlagTypes, ProgramThread, Returned
  <2>4. PlaceTypes'
    BY <1>1, <2>2 DEF PlaceTypes, appVars
  <2> QED BY <1>2, <2>1, <2>2, <2>3, <2>4
<1>8. CASE ClientThreads
  <2>1. NetMoves
    BY <1>8 DEF ClientThreads, NetMoves, CallStep
  <2> QED BY <1>2, <1>3, <1>8, <2>1 DEF ClientThreads
<1>9. CASE ControllerThread
  BY <1>2, <1>3, <1>9, NetIdle DEF ControllerThread, envVars
<1>10. CASE Serve
  <2>1. NetMoves
    BY <1>10 DEF Serve, NetMoves, NetVarsStill, clientVars
  <2> QED BY <1>2, <1>3, <1>10, <2>1 DEF Serve
<1>11. CASE JobEnds
  BY <1>2, <1>3, <1>11, NetIdle DEF JobEnds
<1>12. CASE DaemonProcess
  <2>1. NetMoves
    BY <1>12 DEF DaemonProcess, NetMoves, NetVarsStill, clientVars, netVars
  <2> QED BY <1>2, <1>3, <1>12, <2>1 DEF DaemonProcess
<1>13. CASE UNCHANGED avars
  <2>1. NetMoves
    BY <1>13, NetIdle DEF avars
  <2> QED BY <1>2, <1>3, <1>13, <2>1 DEF avars, envVars
<1> QED BY <1>4, <1>5, <1>6, <1>7, <1>8, <1>9, <1>10, <1>11, <1>12, <1>13 DEF AppNext

\* The initial values.
LEMMA InitTypes ==
  ASSUME AppInit
  PROVE  RestTypes
<1>1. NetTypes
  <2>1. /\ sock = FALSE /\ connected = FALSE /\ stop_flag = FALSE /\ reader = "none"
        /\ pending = {} /\ next_id = 1 /\ link = "none"
    BY DEF AppInit, ClientInit
  <2>2. next_id \in Nat \ {0}
    BY <2>1, SMT
  <2> QED BY <2>1, <2>2 DEF NetTypes
<1>2. CtrlTypeOK
  BY Lists DEF AppInit, CtrlInit, CtrlTypeOK, DaemonStates
<1>3. FlagTypes /\ PlaceTypes
  BY DEF AppInit, FlagTypes, PlaceTypes
<1>4. CountTypes
  <2>1. inputs = 0 /\ faults = 0
    BY DEF AppInit
  <2> QED BY <2>1, AppAssumption DEF CountTypes
<1> QED BY <1>1, <1>2, <1>3, <1>4 DEF RestTypes

---------------------------------------------------------------------------
(* The theorem                                                             *)

\* What the invariants say of the types of all variables.
LEMMA TypesHold ==
  ASSUME AInv, JobInv, RestTypes
  PROVE  AppTypeOK
<1>1. /\ Len(jobs) \in Nat /\ job_id \in Nat /\ job_id <= Len(jobs) /\ Len(jobs) <= MaxJobs
      /\ cached \in 0 .. Len(jobs)
  BY Lengths DEF JobInv, TruthInv
<1>2. job_id \in 0 .. MaxJobs /\ cached \in 0 .. MaxJobs
  BY <1>1, AppAssumption
<1>3. ClientTypeOK
  <2>1. \A t \in Threads : call[t].pc \in CallPcs
    BY DEF AInv, ClientInv, ClientTypes, Calls
  <2>2. abandoned \subseteq pending
    BY DEF AInv, ClientInv, PromiseInv
  <2> QED BY <2>1, <2>2 DEF RestTypes, NetTypes, ClientTypeOK
<1>4. todo \in Seq(MainSteps) /\ jobs \in Seq({"running", "cancelling", "done"})
  BY DEF AInv, MainInv, JobTypes
<1> QED BY <1>1, <1>2, <1>3, <1>4 DEF RestTypes, FlagTypes, PlaceTypes, CountTypes, AppTypeOK

\* As long as no call has failed, a capture job that runs in the daemon is the
\* one whose id the GUI holds (daemon_capture_job_id_), or the answer with its id
\* is on its way to onStartCapture(): no handler starts a second job or forgets a
\* running one, whatever the order of user inputs, frames, connections and
\* the daemon's own endings of jobs.
THEOREM JobsAreHeld == AppSpec => []NoOrphanJob
<1>1. AppInit => AInv /\ JobInv /\ RestTypes
  BY InitKeeps, InitJobs, InitTypes
<1>2. AInv /\ JobInv /\ RestTypes /\ [AppNext]_avars => (AInv /\ JobInv /\ RestTypes)'
  <2> SUFFICES ASSUME AInv, JobInv, RestTypes, [AppNext]_avars
               PROVE  AInv' /\ JobInv' /\ RestTypes'
    OBVIOUS
  <2>1. AInv' /\ RestTypes'
    BY NextKeeps, NextTypes
  <2>2. JobInv'
    BY <2>1, NextJobs
  <2> QED BY <2>1, <2>2
<1>3. AInv /\ JobInv /\ RestTypes => NoOrphanJob
  <2> SUFFICES ASSUME AInv, JobInv, RestTypes
               PROVE  NoOrphanJob
    OBVIOUS
  <2>1. ~faulted => HeldInv
    BY DEF JobInv, Sound
  <2> QED BY <2>1, TypesHold DEF NoOrphanJob, HeldInv, Starting, Due
<1> QED BY <1>1, <1>2, <1>3, PTL DEF AppSpec

=============================================================================
