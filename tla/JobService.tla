----------------------------- MODULE JobService -----------------------------
(***************************************************************************)
(* What the hardware executor promises its callers, without threads, locks *)
(* or condition variables: accepted jobs wait in the order in which they   *)
(* were accepted, one at a time is executed, every job ends at most once,  *)
(* an outcome is final, and only a job whose cancellation was requested    *)
(* can end as cancelled.                                                   *)
(*                                                                         *)
(* "Tasks are submitted from any thread and executed in FIFO order"        *)
(* (src/hardware/hardware_executor.h).                                     *)
(***************************************************************************)
EXTENDS Sequences

CONSTANTS Jobs,    \* the jobs callers may submit
          NoJob    \* "no job is being executed"

VARIABLES pending,   \* accepted jobs that have not been started, oldest first
          active,    \* the job being executed, or NoJob
          outcome,   \* how each job ended, "none" while it has not
          asked      \* jobs whose cancellation was requested

svars == <<pending, active, outcome, asked>>

Outcomes == {"complete", "failed", "cancelled"}

Accepted(j) == \/ \E i \in DOMAIN pending : pending[i] = j
               \/ active = j
               \/ outcome[j] # "none"

Init == /\ pending = <<>>
        /\ active = NoJob
        /\ outcome = [j \in Jobs |-> "none"]
        /\ asked = {}

Accept(j) == /\ ~Accepted(j)
             /\ pending' = Append(pending, j)
             /\ UNCHANGED <<active, outcome, asked>>

Ask(j) == /\ asked' = asked \cup {j}
          /\ UNCHANGED <<pending, active, outcome>>

Begin == /\ active = NoJob
         /\ pending # <<>>
         /\ active' = Head(pending)
         /\ pending' = Tail(pending)
         /\ UNCHANGED <<outcome, asked>>

\* The oldest waiting job is dropped without being executed.
Drop == /\ active = NoJob
        /\ pending # <<>>
        /\ Head(pending) \in asked
        /\ outcome' = [outcome EXCEPT ![Head(pending)] = "cancelled"]
        /\ pending' = Tail(pending)
        /\ UNCHANGED <<active, asked>>

End(o) == /\ active # NoJob
          /\ o = "cancelled" => active \in asked
          /\ outcome' = [outcome EXCEPT ![active] = o]
          /\ active' = NoJob
          /\ UNCHANGED <<pending, asked>>

Next == \/ \E j \in Jobs : Accept(j) \/ Ask(j)
        \/ Begin
        \/ Drop
        \/ \E o \in Outcomes : End(o)

Spec == Init /\ [][Next]_svars

=============================================================================
