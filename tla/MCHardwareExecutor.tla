------------------------- MODULE MCHardwareExecutor -------------------------
(***************************************************************************)
(* The executor on its own, with clients and owner free to call at any     *)
(* time, as its class comment allows ("submitted from any thread").        *)
(***************************************************************************)
EXTENDS HardwareExecutor
=============================================================================
