--------------------------- MODULE GuiDaemonClient ---------------------------
(***************************************************************************)
(* GuiDaemonClient (src/gui/gui_daemon_client.cpp): the JSON-RPC client    *)
(* the threads of the GUI share. call() checks connected, registers a      *)
(* promise under a fresh id, frames the request, sends it and waits; the   *)
(* reader thread matches answers to promises; connect() and disconnect()   *)
(* set the socket, the flags and the reader thread one after the other     *)
(* without a lock.                                                         *)
(*                                                                         *)
(* A request is the method and the job it names; an answer carries the id  *)
(* and the request it answers, so that the properties can tell whose it    *)
(* is. External: the two directions of the TCP connection (to_server,      *)
(* to_client) keep their order; either end may close it.                   *)
(***************************************************************************)
EXTENDS Naturals, Sequences, FiniteSets

CONSTANT Threads           \* the GUI threads that use the client

VARIABLES
    sock,        \* is impl_->sock a socket?
    connected,   \* impl_->connected
    stop_flag,   \* impl_->stop_flag
    reader,      \* reader_thread: "none" (not joinable), "recv", "failing", "ended"
    pending,     \* ids with a registered promise
    abandoned,   \* history: those of them that an exception in call() left behind
    next_id,     \* impl_->next_id
    call,        \* the call each thread is in
    link,        \* the connection: "none", "up", "closed" (by the server)
    to_server,   \* requests under way
    to_client    \* answers under way

clientVars == <<sock, connected, stop_flag, reader, pending, abandoned, next_id, call>>
netVars == <<link, to_server, to_client>>

CallPcs == {"idle", "check", "register", "send", "wait", "ok", "failed"}
InProgress == {"send", "wait"}      \* from the registration on

\* Methods whose request carries a path or a text that the user gave: bytes of
\* any encoding, which msg.dump() takes as UTF-8 or throws.
TextMethods == {"load_bsdl", "run_script", "program_pl"}
Idle == [pc |-> "idle", id |-> 0, req |-> <<>>, ans |-> <<>>]

ClientTypeOK ==
    /\ sock \in BOOLEAN /\ connected \in BOOLEAN /\ stop_flag \in BOOLEAN
    /\ reader \in {"none", "recv", "failing", "ended"}
    /\ next_id \in Nat \ {0} /\ pending \subseteq 1..next_id /\ abandoned \subseteq pending
    /\ \A t \in Threads : call[t].pc \in CallPcs
    /\ link \in {"none", "up", "closed"}

ClientInit ==
    /\ sock = FALSE /\ connected = FALSE /\ stop_flag = FALSE
    /\ reader = "none" /\ pending = {} /\ abandoned = {} /\ next_id = 1
    /\ call = [t \in Threads |-> Idle]
    /\ link = "none" /\ to_server = <<>> /\ to_client = <<>>

-----------------------------------------------------------------------------
(***************************************************************************)
(* call().                                                                 *)
(***************************************************************************)
CallBegin(t, r) == call' = [call EXCEPT ![t] = [Idle EXCEPT !.pc = "check", !.req = r]]

CallCheck(t) ==
    /\ call[t].pc = "check"
    /\ call' = [call EXCEPT ![t].pc = IF connected THEN "register" ELSE "failed"]
    /\ UNCHANGED <<sock, connected, stop_flag, reader, pending, abandoned, next_id, netVars>>

\* Ids count on over connections: they are never used twice.
CallRegister(t) ==
    /\ call[t].pc = "register"
    /\ next_id' = next_id + 1
    /\ pending' = pending \cup {next_id}
    /\ call' = [call EXCEPT ![t].pc = "send", ![t].id = next_id]
    /\ UNCHANGED <<sock, connected, stop_flag, reader, abandoned, netVars>>

\* frameMessage() throws over a text that is no UTF-8: the exception leaves
\* call(), and nothing erases the promise.
CallThrows(t) ==
    /\ call[t].pc = "send" /\ call[t].req[1] \in TextMethods
    /\ call' = [call EXCEPT ![t].pc = "failed"]
    /\ abandoned' = abandoned \cup (pending \cap {call[t].id})
    /\ UNCHANGED <<sock, connected, stop_flag, reader, pending, next_id, netVars>>

\* send() fails on a socket that is closed here; towards a peer that has
\* closed, the system may still take the bytes. If the promise was failed in
\* the meantime, the wait behind send() ends at once.
CallSend(t) ==
    /\ call[t].pc = "send"
    /\ \/ /\ sock
          /\ to_server' = IF link = "up"
                          THEN Append(to_server, [id |-> call[t].id, req |-> call[t].req])
                          ELSE to_server
          /\ call' = [call EXCEPT ![t].pc = IF call[t].id \in pending THEN "wait" ELSE "failed"]
          /\ UNCHANGED pending
       \/ /\ ~sock \/ link = "closed"
          /\ pending' = pending \ {call[t].id}
          /\ call' = [call EXCEPT ![t].pc = "failed"]
          /\ UNCHANGED to_server
    /\ UNCHANGED <<sock, connected, stop_flag, reader, abandoned, next_id, link, to_client>>

\* Mutant: the promise of a call that timed out stays registered.
CallTimeoutKeeps(t) ==
    /\ call[t].pc = "wait"
    /\ call' = [call EXCEPT ![t].pc = "failed"]
    /\ UNCHANGED <<sock, connected, stop_flag, reader, pending, abandoned, next_id, netVars>>

\* wait_for() times out; the promise is dropped, an answer may still come.
CallTimeout(t) ==
    /\ call[t].pc = "wait"
    /\ pending' = pending \ {call[t].id}
    /\ call' = [call EXCEPT ![t].pc = "failed"]
    /\ UNCHANGED <<sock, connected, stop_flag, reader, abandoned, next_id, netVars>>

CallStep(t) == CallCheck(t) \/ CallRegister(t) \/ CallThrows(t) \/ CallSend(t) \/ CallTimeout(t)

-----------------------------------------------------------------------------
(***************************************************************************)
(* The reader thread.                                                      *)
(***************************************************************************)
Waiting(S) == {t \in Threads : call[t].pc = "wait" /\ call[t].id \in S}

failAllPending ==
    /\ call' = [t \in Threads |-> IF t \in Waiting(pending)
                                  THEN [call[t] EXCEPT !.pc = "failed"] ELSE call[t]]
    /\ pending' = {} /\ abandoned' = {}

\* Mutant: an answer completes whatever call is waiting.
ReaderMatchAny ==
    /\ reader = "recv" /\ sock /\ to_client # <<>>
    /\ LET m == Head(to_client) IN
         /\ pending' = pending \ {m.id}
         /\ call' = [t \in Threads |-> IF t \in Waiting(pending)
                                       THEN [call[t] EXCEPT !.pc = "ok", !.ans = m] ELSE call[t]]
    /\ to_client' = Tail(to_client)
    /\ UNCHANGED <<sock, connected, stop_flag, reader, abandoned, next_id, link, to_server>>

\* One answer is matched by its id, and ignored if nobody waits for it.
ReaderMatch ==
    /\ reader = "recv" /\ sock /\ to_client # <<>>
    /\ LET m == Head(to_client) IN
         /\ pending' = pending \ {m.id}
         /\ call' = [t \in Threads |-> IF t \in Waiting(pending \cap {m.id})
                                       THEN [call[t] EXCEPT !.pc = "ok", !.ans = m] ELSE call[t]]
    /\ to_client' = Tail(to_client)
    /\ UNCHANGED <<sock, connected, stop_flag, reader, abandoned, next_id, link, to_server>>

\* Mutant: only the server's end of the connection ends the reader.
ReaderLostPeerOnly ==
    /\ reader = "recv"
    /\ link = "closed" /\ to_client = <<>>
    /\ connected' = FALSE /\ reader' = "failing"
    /\ UNCHANGED <<sock, stop_flag, pending, abandoned, next_id, call, netVars>>

\* recv() reports the end of the connection, or stop_flag is seen.
ReaderLost ==
    /\ reader = "recv"
    /\ stop_flag \/ ~sock \/ (link = "closed" /\ to_client = <<>>)
    /\ connected' = FALSE /\ reader' = "failing"
    /\ UNCHANGED <<sock, stop_flag, pending, abandoned, next_id, call, netVars>>

ReaderFail ==
    /\ reader = "failing"
    /\ failAllPending
    /\ reader' = "ended"
    /\ UNCHANGED <<sock, connected, stop_flag, next_id, netVars>>

Reader == ReaderMatch \/ ReaderLost \/ ReaderFail

-----------------------------------------------------------------------------
(***************************************************************************)
(* The steps of connect(), once the connection is made, and of             *)
(* disconnect(); the thread that runs them keeps the place.                *)
(***************************************************************************)
ConnectSock ==
    /\ sock' = TRUE /\ stop_flag' = FALSE
    /\ link' = "up" /\ to_server' = <<>> /\ to_client' = <<>>
    /\ UNCHANGED <<connected, reader, pending, abandoned, next_id, call>>

ConnectUp ==
    /\ connected' = TRUE
    /\ UNCHANGED <<sock, stop_flag, reader, pending, abandoned, next_id, call, netVars>>

\* Assigning to a joinable std::thread calls std::terminate().
SpawnAborts == reader # "none"

ConnectSpawn(r) ==
    /\ ~SpawnAborts /\ reader' = "recv"
    /\ CallBegin("conn", r)
    /\ UNCHANGED <<sock, connected, stop_flag, pending, abandoned, next_id, netVars>>

\* disconnect() returns early when there is neither connection nor socket.
DisconnectNothing == ~connected /\ ~sock

\* The flags are set and the socket is closed, which ends the reader.
DisconnectClose ==
    /\ stop_flag' = TRUE /\ connected' = FALSE /\ sock' = FALSE
    /\ link' = "none" /\ to_server' = <<>> /\ to_client' = <<>>
    /\ UNCHANGED <<reader, pending, abandoned, next_id, call>>

DisconnectJoin ==
    /\ reader \in {"none", "ended"} /\ reader' = "none"
    /\ failAllPending
    /\ UNCHANGED <<sock, connected, stop_flag, next_id, netVars>>

\* The server closes the connection, or is gone.
PeerCloses ==
    /\ link = "up" /\ link' = "closed" /\ to_server' = <<>>
    /\ UNCHANGED <<clientVars, to_client>>

-----------------------------------------------------------------------------
(***************************************************************************)
(* Properties of the client.                                               *)
(***************************************************************************)

\* A call that returns a result returns the answer to its own request, though
\* answers to calls that timed out come late.
AnswersOwn ==
    \A t \in Threads : call[t].pc = "ok" =>
        /\ call[t].ans.id = call[t].id
        /\ call[t].ans.req = call[t].req

\* Every registered promise belongs to a call that is still in progress: neither
\* the reader nor disconnect() nor any way out of call() leaves one behind, but
\* the exception of frameMessage(), whose promise stays until the connection ends.
NoLeakedPromise ==
    \A i \in pending \ abandoned : \E t \in Threads : call[t].pc \in InProgress /\ call[t].id = i
=============================================================================
