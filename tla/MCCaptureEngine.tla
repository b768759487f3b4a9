-------------------------- MODULE MCCaptureEngine --------------------------
(***************************************************************************)
(* A ring of two or four frames, so that it wraps between two polls, and  *)
(* every pre-trigger ratio from none to all.                               *)
(***************************************************************************)
EXTENDS CaptureEngine
=============================================================================
