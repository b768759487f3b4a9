------------------------------ MODULE MCDaemon ------------------------------
(***************************************************************************)
(* The daemon with both of its servers.                                    *)
(***************************************************************************)
EXTENDS Daemon
=============================================================================
