----------------------- MODULE DaemonProcessController -----------------------
(***************************************************************************)
(* DaemonProcessController (src/gui/daemon_process_controller.cpp): the    *)
(* GUI's view of its jtag_daemon child process. start() spawns the child   *)
(* and two reader threads; the stdout reader follows the child's JSON      *)
(* events; stop() asks the child to end and joins the readers.             *)
(*                                                                         *)
(* The stderr reader only copies text into the log and ends, like the      *)
(* stdout reader, at end of file: out_reader stands for both threads.      *)
(* The log and the error message are left out. External: the child writes  *)
(* at most one of "ready" and "error", "stopped" last, and its pipes reach *)
(* end of file when it is gone.                                            *)
(***************************************************************************)
EXTENDS Naturals, Sequences

VARIABLES
    status,      \* status.state
    gui_port,    \* is status.gui_port known?
    out_reader,  \* reader_thread: "none" (not joinable), "running", "ended"
    proc,        \* the child: "none", "booting", "ready", "dead"
    pipe         \* events the child wrote that have not been read

ctrlVars == <<status, gui_port, out_reader, proc, pipe>>

DaemonStates == {"off", "starting", "running", "stopping", "error"}
Events == {"ready", "error", "stopped"}

CtrlTypeOK ==
    /\ status \in DaemonStates /\ gui_port \in BOOLEAN
    /\ out_reader \in {"none", "running", "ended"}
    /\ proc \in {"none", "booting", "ready", "dead"}
    /\ pipe \in Seq(Events)

CtrlInit == status = "off" /\ gui_port = FALSE /\ out_reader = "none"
            /\ proc = "none" /\ pipe = <<>>

\* start() goes on only from kOff and kError; gui_port keeps its last value.
MayStart == status \in {"off", "error"}

\* A pipe or the process cannot be created: nothing has changed.
StartFails == MayStart /\ UNCHANGED ctrlVars

\* Assigning to a std::thread that is joinable calls std::terminate().
StartAborts == out_reader # "none"

\* The child is spawned and the reader threads are created.
StartSpawns ==
    /\ MayStart
    /\ status' = "starting" /\ proc' = "booting" /\ pipe' = <<>>
    /\ out_reader' = "running"
    /\ UNCHANGED gui_port

setReady == status' = "running" /\ gui_port' = TRUE

setError == /\ status' = IF status \in {"starting", "running"} THEN "error" ELSE status
            /\ UNCHANGED gui_port

setOff == /\ status' = IF status \in {"starting", "running"} THEN "off" ELSE status
          /\ UNCHANGED gui_port

\* readerThreadFn() reads one line.
ReadEvent ==
    /\ out_reader = "running" /\ pipe # <<>>
    /\ pipe' = Tail(pipe)
    /\ CASE Head(pipe) = "ready"   -> setReady
         [] Head(pipe) = "error"   -> setError
         [] Head(pipe) = "stopped" -> setOff
    /\ UNCHANGED <<out_reader, proc>>

\* readerThreadFn() meets the end of the pipe: the process has exited.
ReadEof ==
    /\ out_reader = "running" /\ pipe = <<>> /\ proc = "dead"
    /\ setError
    /\ out_reader' = "ended"
    /\ UNCHANGED <<proc, pipe>>

\* stop() marks the daemon and signals it; it returns at once from kOff.
MayStop == status \notin {"off", "stopping"}
StopBegin == MayStop /\ status' = "stopping" /\ UNCHANGED <<gui_port, out_reader, proc, pipe>>

\* The readers have ended; the handles are closed and the daemon is off.
StopJoin ==
    /\ out_reader \in {"none", "ended"}
    /\ out_reader' = "none" /\ status' = "off" /\ proc' = "none" /\ pipe' = <<>>
    /\ UNCHANGED gui_port

\* The child binds its GUI port, or reports that it cannot and exits.
ChildBoots ==
    /\ proc = "booting"
    /\ \/ proc' = "ready" /\ pipe' = Append(pipe, "ready")
       \/ proc' = "dead" /\ pipe' = Append(pipe, "error")
    /\ UNCHANGED <<status, gui_port, out_reader>>

\* The child ends: cleanly ("stopped" is its last line) or by crashing.
ChildEnds ==
    /\ proc \in {"booting", "ready"}
    /\ proc' = "dead"
    /\ pipe' \in {pipe} \cup (IF proc = "ready" THEN {Append(pipe, "stopped")} ELSE {})
    /\ UNCHANGED <<status, gui_port, out_reader>>

Controller == ReadEvent \/ ReadEof
=============================================================================
