----------------------------- MODULE MCAppWindow -----------------------------
(***************************************************************************)
(* The GUI session with its three threads and one daemon process.          *)
(***************************************************************************)
EXTENDS AppWindow
=============================================================================
