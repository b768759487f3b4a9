-------------------------- MODULE MCTapController --------------------------
(***************************************************************************)
(* Instances of TapController. The TAP has all its sixteen states. Scans   *)
(* of 1 bit (only the last-bit command), of 9 (one byte and the last bit)  *)
(* and of 12 (a byte, remaining bits, the last bit), 0 bits to be refused; *)
(* idle times below, at and above the seven bits of one command; batches   *)
(* of one transfer and of two, the second one shorter.                     *)
(***************************************************************************)
EXTENDS TapController

MCBits == {0, 1, 9, 12}
MCCycles == {0, 10}
MCCounts == {0, 1, 3}
\* A pause inside a DR scan, and a state that every IR scan passes.
MCTargets == {"PAUSE_DR", "SELECT_IR_SCAN"}
=============================================================================
