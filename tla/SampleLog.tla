----------------------------- MODULE SampleLog -----------------------------
(***************************************************************************)
(* What a capture buffer promises its reader, without slots, write         *)
(* positions or counters: the frames of the current capture, oldest first, *)
(* of which the newest depth are kept.                                     *)
(***************************************************************************)
EXTENDS Naturals, Sequences

CONSTANTS Frames,   \* the sample frames a capture may store
          Depths    \* the buffer depths a session may be given

VARIABLES log,      \* the frames a reader gets, oldest first
          depth     \* how many frames are kept

Init == log = <<>> /\ depth \in Depths

\* One frame is stored; a full log loses its oldest frame.
Store(f) == /\ log' = IF Len(log) < depth THEN Append(log, f)
                                          ELSE Append(Tail(log), f)
            /\ depth' = depth

\* The frames are discarded: a new capture, or an explicit clear.
Discard == log' = <<>> /\ depth' \in Depths

Next == Discard \/ \E f \in Frames : Store(f)

Spec == Init /\ [][Next]_<<log, depth>>
=============================================================================
