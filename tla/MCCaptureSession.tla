------------------------- MODULE MCCaptureSession -------------------------
(***************************************************************************)
(* Instances of CaptureSession: one observable pin "a" and a pin "b" that  *)
(* the scan does not report, conditions alone and combined on "a", one on  *)
(* "b" that can never be met, ring depths 1 and 3 (so that a capture       *)
(* overwrites the ring several times) and the ratio in quarters.           *)
(***************************************************************************)
EXTENDS CaptureSession

Rising(p) == [pin |-> p, type |-> "EDGE", edge |-> "RISING", level |-> "HIGH"]
Either(p) == [pin |-> p, type |-> "EDGE", edge |-> "EITHER", level |-> "HIGH"]
Level(p, l) == [pin |-> p, type |-> "LEVEL", edge |-> "RISING", level |-> l]

MCPins == {"a", "b"}
MCObservable == {"a"}
MCConditionSets == {{}, {Rising("a"), Level("a", "HIGH")}, {Either("a")}, {Rising("b")}}
MCDepths == {0, 3}

\* Ratios below 1.0, with a negative value to clamp. With 1.0 the count of
\* post-trigger samples wraps when the trigger fires.
MCRatios == {-1, 1, 3}
=============================================================================
