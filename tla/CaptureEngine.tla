---------------------------- MODULE CaptureEngine ----------------------------
(***************************************************************************)
(* Direct capture: the capture thread and the ring buffer of CaptureEngine *)
(* (src/capture/capture_engine.cpp), and the window that starts, polls and *)
(* stops it (AppWindow, src/gui/app_window.cpp) while the trigger dialog   *)
(* may change the mode, the ratio and the depth at any time.               *)
(*                                                                         *)
(* A frame is its number in the capture and its trigger_point. Whether the *)
(* trigger conditions of two scans are met is free (CaptureSession has the *)
(* TriggerEngine); a scan is a step of the thread. One engine: opening a   *)
(* BSDL file makes a new one. The window creates chain_ nowhere in this    *)
(* version, so its direct path is modelled as written but not reached; the *)
(* program captures through the daemon (AppWindow).                        *)
(***************************************************************************)
EXTENDS Naturals, Sequences

CONSTANTS Depths,      \* what the user sets as buffer depth
          MinDepth,    \* the least depth of the engine (100)
          Ratios,      \* pre-trigger ratios, in RatioUnit-ths
          RatioUnit,   \* the ratio 1.0
          MaxFrames,   \* bound: frames of a capture
          MaxInputs    \* bound: captures started, and settings changed

ASSUME EngineAssumption == /\ Depths \subseteq Nat \ {0} /\ MinDepth \in Nat \ {0}
                           /\ RatioUnit \in Nat \ {0} /\ Ratios \subseteq 0 .. RatioUnit
                           /\ MaxFrames \in Nat

VARIABLES
  state, stop_requested, thread, mode, ratio, post_trigger_remaining,
  ring,    \* [buf, write_pos, count, total]; buf has the engine's depth
  loc,     \* captureLoop()'s [has_prev, trigger_point, current_state]
  gui,     \* where the window's thread is
  capturing_, cached, last_total, depth_, inputs

trigVars == <<mode, ratio>>
loopVars == <<post_trigger_remaining, loc>>
viewVars == <<cached, last_total>>
vars == <<state, stop_requested, thread, trigVars, ring, loopVars, gui, capturing_, viewVars,
          depth_, inputs>>

NoFrame == [n |-> 0, trigger_point |-> FALSE]
Size == Len(ring.buf)
MinOf(a, b) == IF a < b THEN a ELSE b
\* Slot i of the buffer, as the code counts
At(i) == ring.buf[i + 1]

---------------------------------------------------------------------------
(* captureLoop()                                                           *)

threadOnly == UNCHANGED <<trigVars, gui, capturing_, viewVars, depth_, inputs>>

Sample ==
  /\ thread = "top" /\ (stop_requested \/ ring.total < MaxFrames)
  /\ thread' = IF stop_requested THEN "done" ELSE "sampled"
  /\ UNCHANGED <<state, stop_requested, ring, loopVars>> /\ threadOnly

PostTrigger == (Size * (RatioUnit - ratio)) \div RatioUnit

\* Mutant: the trigger frame is not counted.
CountedLate(fires) == IF fires THEN PostTrigger + 1 ELSE post_trigger_remaining
Counted(fires) == IF fires THEN PostTrigger ELSE post_trigger_remaining
Evaluate ==
  /\ thread = "sampled"
  /\ \E fires \in BOOLEAN :
       /\ fires => state = "WAITING_TRIGGER" /\ loc.has_prev
       /\ state = "WAITING_TRIGGER" /\ loc.has_prev /\ mode = "FREE_RUN" => fires
       /\ LET current == IF fires THEN "TRIGGERED" ELSE state
              left == Counted(fires)
              complete == current = "TRIGGERED" /\ left = 0
          IN /\ state' = IF complete THEN "COMPLETE" ELSE current
             /\ post_trigger_remaining' = IF current = "TRIGGERED" /\ ~complete THEN left - 1 ELSE left
             /\ thread' = IF ~complete THEN "store" ELSE IF mode = "SINGLE" THEN "done" ELSE "rearm"
             /\ loc' = [loc EXCEPT !.trigger_point = fires, !.current_state = current]
  /\ UNCHANGED <<stop_requested, ring>> /\ threadOnly

Rearm ==
  /\ thread = "rearm" /\ thread' = "store" /\ state' = "WAITING_TRIGGER"
  /\ UNCHANGED <<stop_requested, ring, loopVars>> /\ threadOnly

NextPos == (ring.write_pos + 1) % Size
Store ==
  /\ thread = "store" /\ thread' = "stored"
  /\ ring' = [buf       |-> [ring.buf EXCEPT ![ring.write_pos + 1] =
                               [n |-> ring.total + 1, trigger_point |-> loc.trigger_point]],
              write_pos |-> NextPos,
              count     |-> MinOf(ring.count + 1, Size),
              total     |-> ring.total + 1]
  /\ loc' = [loc EXCEPT !.has_prev = TRUE]
  /\ UNCHANGED <<state, stop_requested, post_trigger_remaining>> /\ threadOnly

SingleDone == mode = "SINGLE" /\ loc.current_state = "RUNNING"
Stored ==
  /\ thread = "stored"
  /\ thread' = IF SingleDone THEN "done" ELSE "wait"
  /\ state' = IF SingleDone THEN "COMPLETE" ELSE state
  /\ UNCHANGED <<stop_requested, ring, loopVars>> /\ threadOnly

\* The wait for the next sample ends, by time or by the notice of stop().
Wait == /\ thread = "wait" /\ thread' = "top"
        /\ UNCHANGED <<state, stop_requested, ring, loopVars>> /\ threadOnly

captureLoop == Sample \/ Evaluate \/ Rearm \/ Store \/ Stored \/ Wait

---------------------------------------------------------------------------
(* CaptureEngine, called by the window's thread                            *)

\* stop(): joins the thread, and then the window goes on.
Stop(then) ==
  IF state = "STOPPED" THEN gui' = then /\ UNCHANGED stop_requested
  ELSE gui' = <<"join", then>> /\ stop_requested' = TRUE
\* Mutant: stop() does not wait for the thread.
ThreadJoinedEarly == TRUE
ThreadJoined == thread = "done"
Join ==
  /\ gui[1] = "join" /\ ThreadJoined
  /\ thread' = IF thread = "done" THEN "none" ELSE thread
  /\ state' = "STOPPED" /\ gui' = gui[2]
  /\ UNCHANGED <<stop_requested, trigVars, ring, loopVars, capturing_, viewVars, depth_, inputs>>

\* std::vector::resize() keeps the old frames.
Resized(n) == [i \in 1 .. n |-> IF i <= Size THEN ring.buf[i] ELSE NoFrame]

\* getNewSamples(). Mutant: a wrapped ring is not copied whole.
NewSamplesStraight == [i \in 1 .. ring.total - last_total |-> At((last_total + i - 1) % Size)]
NewSamples ==
  IF ring.total <= last_total THEN <<>>
  ELSE IF ring.total - last_total > Size
       THEN [i \in 1 .. Size |-> At((ring.write_pos + i - 1) % Size)]
       ELSE [i \in 1 .. ring.total - last_total |-> At((last_total + i - 1) % Size)]

---------------------------------------------------------------------------
(* AppWindow                                                               *)

Idle == <<"idle">>
Modes == {"FREE_RUN", "NORMAL", "SINGLE"}
Input == inputs < MaxInputs /\ inputs' = inputs + 1

\* onStartCapture(), onSingleCapture()
Run(m) ==
  /\ gui = Idle /\ ~capturing_ /\ Input
  /\ Stop(<<"start", m>>)
  /\ UNCHANGED <<state, thread, trigVars, ring, loopVars, capturing_, viewVars, depth_>>
Start ==
  /\ gui[1] = "start" /\ gui' = Idle
  /\ mode' = gui[2]
  /\ ring' = [buf |-> Resized(IF depth_ < MinDepth THEN MinDepth ELSE depth_),
              write_pos |-> 0, count |-> 0, total |-> 0]
  /\ stop_requested' = FALSE /\ thread' = "top"
  /\ state' = IF gui[2] = "NORMAL" THEN "WAITING_TRIGGER" ELSE "RUNNING"
  /\ loc' = [loc EXCEPT !.has_prev = FALSE]
  /\ capturing_' = TRUE /\ cached' = <<>> /\ last_total' = 0
  /\ UNCHANGED <<ratio, post_trigger_remaining, depth_, inputs>>

\* onStopCapture()
StopCapture ==
  /\ gui = Idle /\ capturing_
  /\ Stop(<<"stopped">>)
  /\ UNCHANGED <<state, thread, trigVars, ring, loopVars, capturing_, viewVars, depth_, inputs>>
\* Mutant: no last refresh.
AfterStopNone == Idle
AfterStop == <<"refresh">>
Stopped ==
  /\ gui[1] = "stopped" /\ gui' = AfterStop /\ capturing_' = FALSE
  /\ UNCHANGED <<state, stop_requested, thread, trigVars, ring, loopVars, viewVars, depth_, inputs>>

\* refreshFromCapture(): the frames first, the state after them.
Refresh ==
  /\ gui = <<"refresh">> \/ (gui = Idle /\ capturing_)
  /\ LET all == cached \o NewSamples
     IN cached' = SubSeq(all, Len(all) - MinOf(Len(all), depth_) + 1, Len(all))
  /\ last_total' = IF ring.total <= last_total THEN last_total ELSE ring.total
  /\ gui' = IF cached' = <<>> THEN Idle ELSE <<"check">>
  /\ UNCHANGED <<state, stop_requested, thread, trigVars, ring, loopVars, capturing_, depth_, inputs>>
\* Mutant: only a stopped engine is done.
IsDoneStopped == state = "STOPPED"
IsDone == state = "STOPPED" \/ (state = "COMPLETE" /\ mode = "SINGLE")
CheckState ==
  /\ gui = <<"check">>
  /\ IF IsDone /\ capturing_ THEN Stop(<<"finish">>) ELSE gui' = Idle /\ UNCHANGED stop_requested
  /\ UNCHANGED <<state, thread, trigVars, ring, loopVars, capturing_, viewVars, depth_, inputs>>
Finish ==
  /\ gui[1] = "finish" /\ gui' = Idle /\ capturing_' = FALSE
  /\ UNCHANGED <<state, stop_requested, thread, trigVars, ring, loopVars, viewVars, depth_, inputs>>

\* onClearWaveforms() and clearSamples()
ClearWaveforms ==
  /\ gui = Idle /\ ~capturing_ /\ cached # <<>>
  /\ cached' = <<>>
  /\ ring' = IF state = "STOPPED" THEN [ring EXCEPT !.write_pos = 0, !.count = 0, !.total = 0] ELSE ring
  /\ post_trigger_remaining' = IF state = "STOPPED" THEN 0 ELSE post_trigger_remaining
  /\ UNCHANGED <<state, stop_requested, thread, trigVars, loc, gui, capturing_, last_total, depth_, inputs>>

\* The trigger dialog: the depth at once, the mode and the ratio with OK. Its
\* button is never disabled.
SetDepth(d) ==
  /\ gui = Idle /\ d # depth_ /\ Input /\ depth_' = d
  /\ UNCHANGED <<state, stop_requested, thread, trigVars, ring, loopVars, gui, capturing_, viewVars>>
DialogOk(m, r) ==
  /\ gui = Idle /\ <<m, r>> # trigVars /\ Input /\ mode' = m /\ ratio' = r
  /\ UNCHANGED <<state, stop_requested, thread, ring, loopVars, gui, capturing_, viewVars, depth_>>

---------------------------------------------------------------------------

Init ==
  /\ state = "STOPPED" /\ stop_requested = FALSE /\ thread = "none"
  /\ mode = "FREE_RUN" /\ ratio \in Ratios /\ post_trigger_remaining = 0
  /\ ring = [buf |-> <<>>, write_pos |-> 0, count |-> 0, total |-> 0]
  /\ loc = [has_prev |-> FALSE, trigger_point |-> FALSE, current_state |-> "STOPPED"]
  /\ gui = Idle /\ capturing_ = FALSE /\ cached = <<>> /\ last_total = 0
  /\ depth_ \in Depths /\ inputs = 0

windowStep == Start \/ Join \/ Stopped \/ Refresh \/ CheckState \/ Finish
Next == \/ captureLoop \/ windowStep \/ StopCapture \/ ClearWaveforms
        \/ \E m \in Modes : Run(m)
        \/ \E d \in Depths : SetDepth(d)
        \/ \E m \in Modes \ {"SINGLE"}, r \in Ratios : DialogOk(m, r)

\* Scans and waits end, and the window draws frame after frame.
EngineSpec == Init /\ [][Next]_vars /\ WF_vars(captureLoop) /\ WF_vars(windowStep)

---------------------------------------------------------------------------
(* Properties                                                              *)

\* Every variable keeps to its values.
EngineTypeOK ==
  /\ state \in {"STOPPED", "RUNNING", "WAITING_TRIGGER", "TRIGGERED", "COMPLETE"}
  /\ thread \in {"none", "top", "sampled", "rearm", "store", "stored", "wait", "done"}
  /\ mode \in Modes /\ ratio \in Ratios /\ depth_ \in Depths
  /\ ring.count \in 0 .. Size /\ ring.total \in 0 .. MaxFrames
  /\ ring.write_pos \in 0 .. (IF Size = 0 THEN 0 ELSE Size - 1)
  /\ post_trigger_remaining \in Nat /\ Len(cached) <= MaxFrames

\* The engine is stopped exactly when its thread has been joined, so start()
\* never replaces a thread that runs, and a window that does not capture has
\* stopped its engine.
StoppedMeansJoined == /\ (state = "STOPPED") <=> (thread = "none")
                      /\ gui = Idle /\ ~capturing_ => state = "STOPPED"

\* However late the window polls, what it shows is in order and without a frame
\* twice, and the newest frames, up to the engine's depth, are without a gap.
ViewTail ==
  LET shown == Len(cached)
      k == MinOf(shown, Size)
  IN /\ \A i \in 1 .. shown - 1 : cached[i].n < cached[i + 1].n
     /\ \A i \in 1 .. k : cached[shown - k + i].n = last_total - k + i

\* Once a capture is over the window shows its last frames, up to the depth.
ViewComplete ==
  EngineTypeOK /\ (gui = Idle /\ ~capturing_ /\ cached # <<>> => cached[Len(cached)].n = ring.total)

\* While the frames after a trigger are captured the ring still has, among the
\* frames of this capture, the one that triggered, whatever the pre-trigger ratio.
TriggerKept ==
  state = "TRIGGERED" /\ thread \in {"stored", "wait", "top", "sampled"} =>
    \E i \in 1 .. ring.count : ring.buf[i].trigger_point /\ ring.buf[i].n + Size > ring.total

\* A single capture ends by itself, unless the dialog changes its mode.
SingleEnds == capturing_ /\ mode = "SINGLE" ~> ~capturing_ \/ mode # "SINGLE"
=============================================================================
