---------------------------- MODULE MCIlaDriver ----------------------------
(***************************************************************************)
(* A core with two samples of three bits, reached over its own TAP or over *)
(* BSCANE2, idle or full of an earlier capture at the start. The user has  *)
(* a lane of one bit and one of two, above it, and sets levels and edges   *)
(* in both groups; each lane is a not-equal one once. No two bits of the   *)
(* inputs are the same, so that a condition that lands on a wrong bit      *)
(* shows; the two-bit lane holds its value, the complement and one more.   *)
(***************************************************************************)
EXTENDS IlaDriver

Flag(cond, v, cond_b, v_b) ==
  [hi |-> 0, lo |-> 0, cond |-> cond, value |-> v, cond_b |-> cond_b, value_b |-> v_b]
Bus(cond, v, cond_b, v_b) ==
  [hi |-> 2, lo |-> 1, cond |-> cond, value |-> v, cond_b |-> cond_b, value_b |-> v_b]
Lanes(lanes, or_mode) == [lanes |-> lanes, or_mode |-> or_mode, pre |-> 0]
TheLaneSets == {
  Lanes(<<Flag("RISE", {}, "NEQ", {0}), Bus("EQ", {}, "EQ", {1})>>, TRUE),
  Lanes(<<Flag("EITHER", {}, "NONE", {}), Bus("NEQ", {0}, "NONE", {})>>, FALSE)}
TheInputs == {{0}, {1}, {2}}
TheBuffers == {[a \in 0 .. 1 |-> IF a = 0 THEN {1} ELSE {2}]}
=============================================================================
