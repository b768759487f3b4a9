--------------------------- MODULE CaptureSession ---------------------------
(***************************************************************************)
(* The capture state machine that a capture_start job drives on the        *)
(* hardware worker (src/hardware/capture_session.cpp), with the trigger    *)
(* engine it owns (src/capture/trigger.cpp) and the scanner it borrows     *)
(* (Scanner::sample() of src/boundary_scan/scanner.cpp).                   *)
(*                                                                         *)
(* One session lives at a time; the scanner outlives it, because the       *)
(* hardware context keeps the scanner of a device between jobs.            *)
(*                                                                         *)
(* Abstractions: a scan result maps pins to PinStates (a pin without a     *)
(* boundary cell, or outside the decode filter, is UNKNOWN); the           *)
(* pre-trigger ratio is a whole number of RatioUnits-ths, so that ratio *  *)
(* depth is computed without rounding; a tick() that comes before          *)
(* next_sample_time_ changes nothing and is a stuttering step.             *)
(***************************************************************************)
EXTENDS Integers, Sequences, FiniteSets

CONSTANTS Pins,           \* pins a trigger condition may name
          Observable,     \* pins a scan of this device reports
          ConditionSets,  \* sets of trigger conditions a caller may set
          Depths,         \* values passed to setBufferDepth()
          Ratios,         \* values passed to setPreTriggerRatio()
          RatioUnit,      \* the ratio 1.0
          SizeMax         \* the number of values of size_t

PinStates == {"LOW", "HIGH", "UNKNOWN"}
Modes == {"FREE_RUN", "SINGLE", "NORMAL"}
States == {"STOPPED", "RUNNING", "WAITING_TRIGGER", "TRIGGERED", "COMPLETE"}
Conditions == [pin : Pins, type : {"EDGE", "LEVEL"},
               edge : {"RISING", "FALLING", "EITHER"}, level : PinStates]

\* setBufferDepth() stores at least 1.
BufferDepths == {IF d < 1 THEN 1 ELSE d : d \in Depths}

ASSUME PinsAssumption == Observable \subseteq Pins
ASSUME ConditionsAssumption == /\ {} \in ConditionSets
                               /\ \A c \in ConditionSets : c \subseteq Conditions
ASSUME DepthsAssumption == Depths \subseteq Nat /\ Depths # {}
ASSUME RatiosAssumption == /\ RatioUnit \in Nat \ {0}
                           /\ RatioUnit % 2 = 0    \* the default is 0.5
                           /\ Ratios \subseteq Int
ASSUME SizeAssumption == /\ SizeMax \in Nat
                         /\ \A d \in BufferDepths : d < SizeMax

\* What decodeBoundaryScan() and the decode filter leave of a scan.
ScanResults == {s \in [Pins -> PinStates] :
                  \A p \in Pins : (s[p] = "UNKNOWN") <=> p \notin Observable}

Frames == [data : ScanResults, trigger_point : BOOLEAN]

VARIABLES
  (* TriggerEngine *)
  mode, conditions, ratio, armed, triggered,
  (* CaptureSession; buffer is a function on 0 .. size - 1 *)
  buffer_depth, buffer, write_pos, count, post_trigger_remaining,
  state, prev_sample, has_prev, last_error,
  (* Scanner::last_error_ is not empty *)
  scanner_error

engineVars == <<mode, conditions, ratio, armed, triggered>>
ringVars == <<buffer, write_pos, count>>
prevVars == <<prev_sample, has_prev>>
vars == <<engineVars, buffer_depth, ringVars, post_trigger_remaining, state,
          prevVars, last_error, scanner_error>>

NoFrame == [data |-> [p \in Pins |-> "UNKNOWN"], trigger_point |-> FALSE]
NoBuffer == [i \in {} |-> NoFrame]

\* std::vector::resize(): old elements stay, new ones are default frames.
Resized(b, n) == [i \in 0 .. n - 1 |-> IF i \in DOMAIN b THEN b[i] ELSE NoFrame]

---------------------------------------------------------------------------
(* TriggerEngine *)

\* evaluateEdge()
EdgeMet(c, prev, curr) ==
  LET p == prev[c.pin]
      q == curr[c.pin]
      rising == p = "LOW" /\ q = "HIGH"
      falling == p = "HIGH" /\ q = "LOW"
  IN  \/ c.edge \in {"RISING", "EITHER"} /\ rising
      \/ c.edge \in {"FALLING", "EITHER"} /\ falling

\* evaluateLevel()
LevelMet(c, curr) == curr[c.pin] = c.level

Met(c, prev, curr) == IF c.type = "EDGE" THEN EdgeMet(c, prev, curr)
                                         ELSE LevelMet(c, curr)

\* The loop of evaluate(): all conditions at once.
AllMet(prev, curr) == \A c \in conditions : Met(c, prev, curr)

\* evaluate() returns true.
Fires(prev, curr) == \/ mode = "FREE_RUN"
                     \/ /\ armed
                        /\ ~(triggered /\ mode = "SINGLE")
                        /\ AllMet(prev, curr)

\* evaluate() returns before it sets triggered_ when there is no condition.
Marks(prev, curr) == /\ mode # "FREE_RUN"
                     /\ Fires(prev, curr)
                     /\ conditions # {}

---------------------------------------------------------------------------
(* Configuration: "must be set before start()" (capture_session.h)         *)

Fresh == state = "STOPPED" /\ count = 0

SetBufferDepth(d) ==
  /\ Fresh
  /\ buffer_depth' = IF d < 1 THEN 1 ELSE d
  /\ UNCHANGED <<engineVars, ringVars, post_trigger_remaining, state, prevVars,
                 last_error, scanner_error>>

sessionVars == <<buffer_depth, ringVars, post_trigger_remaining, state, prevVars,
                 last_error, scanner_error>>

SetMode(m) == /\ Fresh
              /\ mode' = m
              /\ UNCHANGED <<conditions, ratio, armed, triggered, sessionVars>>

SetConditions(cs) == /\ Fresh
                     /\ conditions' = cs
                     /\ UNCHANGED <<mode, ratio, armed, triggered, sessionVars>>

ClearConditions == /\ Fresh
                   /\ conditions' = {}
                   /\ triggered' = FALSE
                   /\ armed' = FALSE
                   /\ UNCHANGED <<mode, ratio, sessionVars>>

Clamped(r) == IF r < 0 THEN 0 ELSE IF r > RatioUnit THEN RatioUnit ELSE r

SetPreTriggerRatio(r) == /\ Fresh
                         /\ ratio' = Clamped(r)
                         /\ UNCHANGED <<mode, conditions, armed, triggered, sessionVars>>

---------------------------------------------------------------------------
(* Control *)

\* start(): "transitions from STOPPED"; a complete session may be started again.
Start ==
  /\ state \in {"STOPPED", "COMPLETE"}
  /\ buffer' = Resized(buffer, buffer_depth)
  /\ write_pos' = 0
  /\ count' = 0
  /\ has_prev' = FALSE
  /\ last_error' = FALSE
  /\ armed' = TRUE
  /\ triggered' = FALSE
  /\ state' = IF mode = "NORMAL" THEN "WAITING_TRIGGER" ELSE "RUNNING"
  /\ UNCHANGED <<mode, conditions, ratio, buffer_depth, post_trigger_remaining,
                 prev_sample, scanner_error>>

Stop == /\ state' = "STOPPED"
        /\ UNCHANGED <<engineVars, buffer_depth, ringVars, post_trigger_remaining,
                       prevVars, last_error, scanner_error>>

\* clearSamples(): "only valid when STOPPED".
ClearSamples ==
  /\ state = "STOPPED"
  /\ buffer' = NoBuffer
  /\ write_pos' = 0
  /\ count' = 0
  /\ has_prev' = FALSE
  /\ UNCHANGED <<engineVars, buffer_depth, post_trigger_remaining, state,
                 prev_sample, last_error, scanner_error>>

---------------------------------------------------------------------------
(* tick() *)

\* Mutant of AppendSample: the write position stays on the last slot instead of wrapping.
AppendSampleNoWrap(data, trig) ==
  LET b == IF DOMAIN buffer = {} THEN Resized(buffer, buffer_depth) ELSE buffer
  IN  /\ buffer' = [b EXCEPT ![write_pos] = [data |-> data, trigger_point |-> trig]]
      /\ write_pos' = IF write_pos + 1 < buffer_depth THEN write_pos + 1 ELSE write_pos
      /\ count' = IF count < buffer_depth THEN count + 1 ELSE count
\* appendSample()
AppendSample(data, trig) ==
  LET b == IF DOMAIN buffer = {} THEN Resized(buffer, buffer_depth) ELSE buffer
  IN  /\ buffer' = [b EXCEPT ![write_pos] = [data |-> data, trigger_point |-> trig]]
      /\ write_pos' = (write_pos + 1) % buffer_depth
      /\ count' = IF count < buffer_depth THEN count + 1 ELSE count

Active == state \in {"RUNNING", "WAITING_TRIGGER", "TRIGGERED"}

\* getSamples(): the ring from its oldest frame on.
GetSamples ==
  IF count < buffer_depth
  THEN [i \in 1 .. count |-> buffer[i - 1]]
  ELSE [i \in 1 .. buffer_depth |-> buffer[(write_pos + i - 1) % buffer_depth]]

\* The samples to keep from before the trigger.
PreSamples == (ratio * buffer_depth) \div RatioUnit

\* Mutant of PostSamples: the trigger frame is not counted among the samples after it.
PostSamplesAfter == buffer_depth - PreSamples + 1
\* The samples to take from the trigger on, the trigger frame included.
PostSamples == buffer_depth - PreSamples

\* size_t arithmetic.
Decremented(n) == (n - 1) % SizeMax

\* Mutant of RingFull: off by one, and never true of a count that appendSample() caps.
RingFullPast(n) == n > buffer_depth
RingFull(n) == n >= buffer_depth

\* tick() in RUNNING: one frame for SINGLE, a full buffer for FREE_RUN.
RunningStep(data) ==
  /\ state = "RUNNING"
  /\ AppendSample(data, FALSE)
  /\ state' = IF mode = "SINGLE" \/ RingFull(count')
              THEN "COMPLETE" ELSE "RUNNING"
  /\ UNCHANGED <<triggered, post_trigger_remaining>>

\* Mutant of TriggerFires: the trigger is evaluated on the first sample of a capture too.
HasPrevIgnored(data) == Fires(prev_sample, data)
\* tick() evaluates the trigger from the second sample of a capture on.
TriggerFires(data) == has_prev /\ Fires(prev_sample, data)

\* tick() in WAITING_TRIGGER, the trigger does not fire on this sample.
WaitStep(data) ==
  /\ state = "WAITING_TRIGGER"
  /\ ~TriggerFires(data)
  /\ AppendSample(data, FALSE)
  /\ UNCHANGED <<triggered, post_trigger_remaining, state>>

\* tick() in WAITING_TRIGGER, the trigger fires.
TriggerStep(data) ==
  /\ state = "WAITING_TRIGGER"
  /\ TriggerFires(data)
  /\ triggered' = (triggered \/ Marks(prev_sample, data))
  /\ AppendSample(data, TRUE)
  /\ post_trigger_remaining' = Decremented(PostSamples)
  /\ state' = IF post_trigger_remaining' > 0 THEN "TRIGGERED" ELSE "COMPLETE"

\* tick() in TRIGGERED: the rest of the samples.
TriggeredStep(data) ==
  /\ state = "TRIGGERED"
  /\ AppendSample(data, FALSE)
  /\ post_trigger_remaining' = IF post_trigger_remaining > 0
                               THEN post_trigger_remaining - 1
                               ELSE post_trigger_remaining
  /\ state' = IF post_trigger_remaining' = 0 THEN "COMPLETE" ELSE "TRIGGERED"
  /\ UNCHANGED triggered

\* A scan that delivers a result, with no earlier error of the scanner.
TickSamples(data) ==
  /\ ~scanner_error
  /\ \/ RunningStep(data)
     \/ WaitStep(data)
     \/ TriggerStep(data)
     \/ TriggeredStep(data)
  /\ prev_sample' = data
  /\ has_prev' = TRUE
  /\ UNCHANGED <<mode, conditions, ratio, armed, buffer_depth, last_error, scanner_error>>

\* The scan fails, or the scanner still shows the error of an earlier scan:
\* sample() does not clear last_error_ when it succeeds.
TickFails ==
  /\ Active
  /\ scanner_error' = TRUE
  /\ last_error' = TRUE
  /\ state' = "STOPPED"
  /\ UNCHANGED <<engineVars, buffer_depth, ringVars, post_trigger_remaining, prevVars>>

Tick == \/ \E data \in ScanResults : TickSamples(data)
        \/ TickFails

---------------------------------------------------------------------------
\* A new capture_start job: a new session and trigger engine, the device's
\* scanner as it is, or a new one after the chain was detected again.
NewSession ==
  /\ ~Active
  /\ mode' = "FREE_RUN" /\ conditions' = {} /\ ratio' = RatioUnit \div 2
  /\ armed' = FALSE /\ triggered' = FALSE
  /\ buffer_depth' \in BufferDepths
  /\ buffer' = NoBuffer /\ write_pos' = 0 /\ count' = 0
  /\ post_trigger_remaining' = 0
  /\ state' = "STOPPED"
  /\ prev_sample' = NoFrame.data /\ has_prev' = FALSE
  /\ last_error' = FALSE
  /\ scanner_error' \in {scanner_error, FALSE}

Init ==
  /\ mode = "FREE_RUN" /\ conditions = {} /\ ratio = RatioUnit \div 2
  /\ armed = FALSE /\ triggered = FALSE
  /\ buffer_depth \in BufferDepths
  /\ buffer = NoBuffer /\ write_pos = 0 /\ count = 0
  /\ post_trigger_remaining = 0
  /\ state = "STOPPED"
  /\ prev_sample = NoFrame.data /\ has_prev = FALSE
  /\ last_error = FALSE
  /\ scanner_error = FALSE

Configure == \/ \E d \in Depths : SetBufferDepth(d)
             \/ \E m \in Modes : SetMode(m)
             \/ \E cs \in ConditionSets : SetConditions(cs)
             \/ ClearConditions
             \/ \E r \in Ratios : SetPreTriggerRatio(r)

Next == Configure \/ Start \/ Stop \/ ClearSamples \/ Tick \/ NewSession

Spec == Init /\ [][Next]_vars

\* The loop of capture_start calls tick() until the session leaves Active,
\* and each call takes a sample once the interval has passed.
FairSpec == Spec /\ WF_vars(Tick)
---------------------------------------------------------------------------
(* Properties *)

\* Every variable holds a value of the kind its C++ declaration allows, and
\* the write position of appendSample() is a slot of the ring.
TypeOK ==
  /\ mode \in Modes /\ conditions \in ConditionSets
  /\ ratio \in 0 .. RatioUnit /\ armed \in BOOLEAN /\ triggered \in BOOLEAN
  /\ buffer_depth \in BufferDepths
  /\ \E n \in BufferDepths \cup {0} : buffer \in [0 .. n - 1 -> Frames \cup {NoFrame}]
  /\ write_pos \in 0 .. buffer_depth - 1
  /\ count \in 0 .. buffer_depth
  /\ post_trigger_remaining \in 0 .. SizeMax - 1
  /\ state \in States
  /\ prev_sample \in ScanResults \cup {NoFrame.data} /\ has_prev \in BOOLEAN
  /\ last_error \in BOOLEAN /\ scanner_error \in BOOLEAN

\* Where getSamples() shows the trigger.
TriggerAt == {i \in DOMAIN GetSamples : GetSamples[i].trigger_point}

\* From the moment the trigger fires until the capture is complete, the ring
\* holds exactly one trigger frame, of this capture, and it is followed by
\* the samples the pre-trigger ratio leaves for after it: post-trigger samples
\* never push it out (tick(), appendSample() and getSamples() together).
TriggerFrameKept ==
  mode = "NORMAL" /\ state \in {"TRIGGERED", "COMPLETE"} =>
    \E i \in DOMAIN GetSamples :
      /\ TriggerAt = {i}
      /\ Len(GetSamples) - i + 1 = PostSamples - post_trigger_remaining

\* The frame that tick() marks met every condition against the frame sampled
\* just before it in the same capture: the first sample of a capture never
\* triggers, whatever the last capture left in prev_sample_.
TriggerJustified ==
  LET S == GetSamples
  IN  \A i \in TriggerAt :
        IF i > 1 THEN \A c \in conditions : Met(c, S[i - 1].data, S[i].data)
                 ELSE Len(S) = buffer_depth

\* getSamples() is the log of the current capture, oldest frame first, that
\* keeps the newest buffer_depth_ frames (SampleLog).
Log == INSTANCE SampleLog WITH Depths <- BufferDepths,
                               log <- GetSamples, depth <- buffer_depth
ImplementsSampleLog == Log!Spec

\* A capture that needs no trigger, or whose trigger has fired, ends: tick()
\* takes it to COMPLETE, or an error or stop() to STOPPED.
CaptureEnds == state \in {"RUNNING", "TRIGGERED"} ~> ~Active
=============================================================================
