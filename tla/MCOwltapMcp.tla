---------------------------- MODULE MCOwltapMcp ----------------------------
(***************************************************************************)
(* owltap_mcp with its single reader thread.                               *)
(***************************************************************************)
EXTENDS OwltapMcp
=============================================================================
