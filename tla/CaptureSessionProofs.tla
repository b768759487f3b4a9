------------------------ MODULE CaptureSessionProofs ------------------------
(***************************************************************************)
(* The ring buffer of a capture session implements the sample log, and the *)
(* trigger frame stays in it, for every set of pins, conditions, depths    *)
(* and ratios (the ratio 1.0 excluded for the trigger frame).              *)
(***************************************************************************)
EXTENDS CaptureSession, TLAPS

FrameSet == Frames \cup {NoFrame}

\* An active session, and one that holds samples, has a ring of buffer_depth_
\* slots, and until the ring is full the next slot is the one after the last.
RingInv ==
  /\ count < buffer_depth => write_pos = count
  /\ count > 0 \/ Active => buffer \in [0 .. buffer_depth - 1 -> FrameSet]

\* Only NORMAL captures wait for a trigger.
ModeInv ==
  /\ state = "RUNNING" => mode # "NORMAL"
  /\ state \in {"WAITING_TRIGGER", "TRIGGERED"} => mode = "NORMAL"

\* What tick() compares the next sample with is the newest frame of the ring.
PrevInv == has_prev => count > 0 /\ GetSamples[count].data = prev_sample

\* TriggerJustified, over the indices of the ring.
JustInv ==
  \A i \in 1 .. count : GetSamples[i].trigger_point =>
    /\ i > 1 => \A c \in conditions : Met(c, GetSamples[i - 1].data, GetSamples[i].data)
    /\ i = 1 => count = buffer_depth

IInv == TypeOK /\ RingInv /\ ModeInv /\ PrevInv /\ JustInv

---------------------------------------------------------------------------
(* Arithmetic *)

LEMMA DepthFacts ==
  ASSUME NEW d \in BufferDepths
  PROVE  d \in Nat /\ d >= 1 /\ d < SizeMax
  BY DepthsAssumption, SizeAssumption DEF BufferDepths

LEMMA ModWrap ==
  ASSUME NEW d \in Nat \ {0}, NEW w \in 0 .. 2 * d - 1
  PROVE  w % d = IF w < d THEN w ELSE w - d
  BY Z3

LEMMA PreBelowDepth ==
  ASSUME NEW u \in Nat \ {0}, NEW r \in 0 .. u - 1, NEW d \in Nat \ {0}
  PROVE  (r * d) \div u \in 0 .. d - 1
  BY Z3

LEMMA DecrementInRange ==
  ASSUME NEW m \in Nat, NEW n \in 1 .. m - 1
  PROVE  (n - 1) % m = n - 1
  BY Z3

LEMMA SameShift ==
  ASSUME NEW c \in Int, NEW i \in Int
  PROVE  i = c <=> i + 1 = c + 1
  OBVIOUS

LEMMA HalfUnit == RatioUnit \div 2 \in 0 .. RatioUnit - 1
  BY RatiosAssumption, Z3

LEMMA ClampedType == \A r \in Ratios : Clamped(r) \in 0 .. RatioUnit
  BY RatiosAssumption DEF Clamped

---------------------------------------------------------------------------
(* The ring *)

RingType ==
  /\ buffer_depth \in Nat \ {0}
  /\ write_pos \in 0 .. buffer_depth - 1
  /\ count \in 0 .. buffer_depth

LEMMA RingTypeHolds == TypeOK => RingType
  <1> SUFFICES ASSUME TypeOK PROVE RingType
    OBVIOUS
  <1>1. buffer_depth \in BufferDepths /\ write_pos \in 0 .. buffer_depth - 1
        /\ count \in 0 .. buffer_depth
    BY DEF TypeOK
  <1> QED BY <1>1, DepthFacts DEF RingType

\* The slot of the i-th oldest frame of a full ring.
Slot(i) == IF write_pos + i - 1 < buffer_depth THEN write_pos + i - 1
                                               ELSE write_pos + i - 1 - buffer_depth

\* getSamples() without the remainder.
SlotForm ==
  RingType => GetSamples = IF count < buffer_depth
                           THEN [i \in 1 .. count |-> buffer[i - 1]]
                           ELSE [i \in 1 .. count |-> buffer[Slot(i)]]

LEMMA SamplesBySlot == SlotForm
  <1> SUFFICES ASSUME RingType
               PROVE  GetSamples = IF count < buffer_depth
                                   THEN [i \in 1 .. count |-> buffer[i - 1]]
                                   ELSE [i \in 1 .. count |-> buffer[Slot(i)]]
    BY DEF SlotForm
  <1>1. CASE count < buffer_depth
    BY <1>1 DEF GetSamples
  <1>2. CASE ~(count < buffer_depth)
    <2>1. count = buffer_depth
      BY <1>2 DEF RingType
    <2>2. \A i \in 1 .. buffer_depth : (write_pos + i - 1) % buffer_depth = Slot(i)
      <3> TAKE i \in 1 .. buffer_depth
      <3>1. write_pos + i - 1 \in 0 .. 2 * buffer_depth - 1
        BY DEF RingType
      <3>2. buffer_depth \in Nat \ {0}
        BY DEF RingType
      <3>3. (write_pos + i - 1) % buffer_depth
              = IF write_pos + i - 1 < buffer_depth THEN write_pos + i - 1
                                                    ELSE (write_pos + i - 1) - buffer_depth
        BY <3>1, <3>2, ModWrap, Zenon
      <3> QED BY <3>1, <3>3 DEF Slot, RingType
    <2> QED BY <1>2, <2>1, <2>2 DEF GetSamples
  <1> QED BY <1>1, <1>2

LEMMA SamplesFunction ==
  ASSUME RingType
  PROVE  /\ GetSamples = [i \in 1 .. count |-> GetSamples[i]]
         /\ DOMAIN GetSamples = 1 .. count
  BY SamplesBySlot DEF SlotForm

LEMMA SamplesSeq ==
  ASSUME TypeOK, RingInv
  PROVE  GetSamples \in Seq(FrameSet) /\ Len(GetSamples) = count
  <1>1. RingType
    BY RingTypeHolds
  <1>2. CASE count = 0
    BY <1>1, <1>2, SamplesBySlot DEF RingType, SlotForm
  <1>3. CASE count > 0
    <2>1. buffer \in [0 .. buffer_depth - 1 -> FrameSet]
      BY <1>3 DEF RingInv
    <2>2. \A i \in 1 .. count : i - 1 \in 0 .. buffer_depth - 1 /\ Slot(i) \in 0 .. buffer_depth - 1
      BY <1>1 DEF RingType, Slot
    <2>3. GetSamples \in [1 .. count -> FrameSet]
      BY <1>1, <2>1, <2>2, SamplesBySlot DEF SlotForm
    <2> QED BY <2>3, <1>1 DEF RingType
  <1> QED BY <1>1, <1>2, <1>3 DEF RingType

\* What appendSample() does to the samples a reader gets.
LEMMA AppendEffect ==
  ASSUME TypeOK, RingInv, Active, buffer_depth' = buffer_depth,
         NEW data \in ScanResults, NEW trig \in BOOLEAN, AppendSample(data, trig)
  PROVE  LET f == [data |-> data, trigger_point |-> trig]
         IN  /\ RingType'
             /\ count' < buffer_depth => write_pos' = count'
             /\ buffer' \in [0 .. buffer_depth - 1 -> FrameSet]
             /\ count' = IF count < buffer_depth THEN count + 1 ELSE count
             /\ GetSamples'[count'] = f
             /\ \A i \in 1 .. count' - 1 :
                  GetSamples'[i] = IF count < buffer_depth THEN GetSamples[i]
                                                           ELSE GetSamples[i + 1]
  <1> DEFINE f == [data |-> data, trigger_point |-> trig]
             d == buffer_depth
  <1>1. RingType
    BY RingTypeHolds
  <1>2. buffer \in [0 .. d - 1 -> FrameSet] /\ f \in FrameSet
    BY DEF RingInv, FrameSet, Frames
  <1>3. buffer' = [buffer EXCEPT ![write_pos] = f]
    <2>1. 0 \in DOMAIN buffer
      BY <1>1, <1>2 DEF RingType
    <2> QED BY <2>1 DEF AppendSample
  <1>4. write_pos' = IF write_pos + 1 = d THEN 0 ELSE write_pos + 1
    <2>1. write_pos + 1 \in 0 .. 2 * d - 1
      BY <1>1 DEF RingType
    <2>2. d \in Nat \ {0}
      BY <1>1 DEF RingType
    <2>3. (write_pos + 1) % d = IF write_pos + 1 < d THEN write_pos + 1
                                                     ELSE (write_pos + 1) - d
      BY <2>1, <2>2, ModWrap, Zenon
    <2>4. write_pos' = (write_pos + 1) % d
      BY DEF AppendSample
    <2> QED BY <1>1, <2>3, <2>4 DEF RingType
  <1>5. count' = IF count < d THEN count + 1 ELSE count
    BY DEF AppendSample
  <1>6. count < d => write_pos = count
    BY DEF RingInv
  <1> HIDE DEF f
  <1>7. RingType' /\ (count' < d => write_pos' = count')
    BY <1>1, <1>4, <1>5, <1>6 DEF RingType
  <1>8. buffer' \in [0 .. d - 1 -> FrameSet]
    BY <1>2, <1>3
  <1>9. /\ GetSamples'[count'] = f
        /\ \A i \in 1 .. count' - 1 :
             GetSamples'[i] = IF count < d THEN GetSamples[i] ELSE GetSamples[i + 1]
    <2>1. GetSamples' = IF count' < d THEN [i \in 1 .. count' |-> buffer'[i - 1]]
                                      ELSE [i \in 1 .. count' |-> buffer'[Slot(i)']]
      <3>1. SlotForm'
        BY SamplesBySlot, PTL
      <3> QED BY <3>1, <1>7 DEF SlotForm
    <2>2. CASE count + 1 < d
      BY <1>1, <1>2, <1>3, <1>5, <1>6, <2>1, <2>2, SamplesBySlot DEF RingType, SlotForm
    <2>3. CASE count + 1 = d
      <3>1. \A i \in 1 .. d : Slot(i)' = i - 1
        BY <1>1, <1>4, <1>6, <2>3 DEF Slot, RingType
      <3> QED BY <1>1, <1>2, <1>3, <1>5, <1>6, <2>1, <2>3, <3>1, SamplesBySlot DEF RingType, SlotForm
    <2>4. CASE count = d
      <3>1. \A i \in 1 .. d - 1 : Slot(i)' = Slot(i + 1) /\ Slot(i + 1) # write_pos
                                   /\ Slot(i + 1) \in 0 .. d - 1
        BY <1>1, <1>4 DEF Slot, RingType
      <3>2. Slot(d)' = write_pos
        BY <1>1, <1>4 DEF Slot, RingType
      <3> QED BY <1>1, <1>2, <1>3, <1>5, <2>1, <2>4, <3>1, <3>2, SamplesBySlot DEF RingType, SlotForm
    <2> QED BY <1>1, <2>2, <2>3, <2>4 DEF RingType
  <1> QED BY <1>5, <1>7, <1>8, <1>9 DEF f

LEMMA SamplesUnchanged ==
  UNCHANGED <<buffer_depth, ringVars>> => GetSamples' = GetSamples
  BY DEF GetSamples, ringVars

---------------------------------------------------------------------------
(* The type invariant *)

EngineType ==
  /\ mode \in Modes /\ conditions \in ConditionSets
  /\ ratio \in 0 .. RatioUnit /\ armed \in BOOLEAN /\ triggered \in BOOLEAN

BufferType ==
  /\ buffer_depth \in BufferDepths
  /\ \E n \in BufferDepths \cup {0} : buffer \in [0 .. n - 1 -> FrameSet]
  /\ write_pos \in 0 .. buffer_depth - 1
  /\ count \in 0 .. buffer_depth

RestType ==
  /\ post_trigger_remaining \in 0 .. SizeMax - 1
  /\ state \in States
  /\ prev_sample \in ScanResults \cup {NoFrame.data} /\ has_prev \in BOOLEAN
  /\ last_error \in BOOLEAN /\ scanner_error \in BOOLEAN

TypeParts == TypeOK <=> EngineType /\ BufferType /\ RestType

LEMMA TypeInParts == TypeParts
  BY DEF TypeParts, TypeOK, EngineType, BufferType, RestType, FrameSet

LEMMA TypeInPartsNext == TypeParts'
  BY TypeInParts, PTL

\* resize() gives a ring of the wanted size.
LEMMA ResizedType ==
  ASSUME BufferType, NEW d \in BufferDepths
  PROVE  Resized(buffer, d) \in [0 .. d - 1 -> FrameSet]
  <1>1. PICK n \in BufferDepths \cup {0} : buffer \in [0 .. n - 1 -> FrameSet]
    BY DEF BufferType
  <1>2. NoFrame \in FrameSet
    BY DEF FrameSet
  <1> QED BY <1>1, <1>2 DEF Resized

LEMMA EmptyBufferType == NoBuffer \in [0 .. 0 - 1 -> FrameSet]
  BY DEF NoBuffer

LEMMA TypeInit == Init => TypeOK
  <1> SUFFICES ASSUME Init PROVE EngineType /\ BufferType /\ RestType
    BY TypeInParts DEF TypeParts
  <1>1. EngineType
    <2>1. mode \in Modes /\ conditions \in ConditionSets /\ armed \in BOOLEAN /\ triggered \in BOOLEAN
      BY ConditionsAssumption DEF Init, Modes
    <2>2. ratio \in 0 .. RatioUnit
      BY HalfUnit, RatiosAssumption DEF Init
    <2> QED BY <2>1, <2>2 DEF EngineType
  <1>2. BufferType
    <2>1. buffer_depth \in BufferDepths /\ buffer = NoBuffer /\ write_pos = 0 /\ count = 0
      BY DEF Init
    <2> QED BY <2>1, DepthFacts, EmptyBufferType DEF BufferType
  <1>3. RestType
    <2>1. post_trigger_remaining = 0 /\ 0 \in 0 .. SizeMax - 1
      BY DepthsAssumption, DepthFacts, SizeAssumption DEF Init, BufferDepths
    <2> QED BY <2>1 DEF Init, RestType, States
  <1> QED BY <1>1, <1>2, <1>3

\* The scanning steps of tick() in one formula.
SampleStep(data) == \/ RunningStep(data)
                    \/ WaitStep(data)
                    \/ TriggerStep(data)
                    \/ TriggeredStep(data)

\* Every scanning step stores one frame.
LEMMA SampleStepAppends ==
  ASSUME NEW data \in ScanResults, SampleStep(data)
  PROVE  Active /\ \E trig \in BOOLEAN : AppendSample(data, trig)
  BY DEF SampleStep, RunningStep, WaitStep, TriggerStep, TriggeredStep, Active

\* The samples still to take are a size_t whatever the ratio.
LEMMA RemainingType ==
  ASSUME TypeOK, NEW data \in ScanResults, SampleStep(data)
  PROVE  post_trigger_remaining' \in 0 .. SizeMax - 1
  <1>1. post_trigger_remaining \in 0 .. SizeMax - 1 /\ SizeMax \in Nat \ {0}
    BY SizeAssumption, DepthsAssumption, DepthFacts DEF TypeOK
  <1>2. CASE RunningStep(data) \/ WaitStep(data)
    BY <1>1, <1>2 DEF RunningStep, WaitStep
  <1>3. CASE TriggerStep(data)
    <2>1. ratio \in Int /\ buffer_depth \in Int
      BY DepthFacts, RatiosAssumption DEF TypeOK
    <2>2. (ratio * buffer_depth) \div RatioUnit \in Int
      BY <2>1, RatiosAssumption
    <2>3. PostSamples \in Int
      BY <2>1, <2>2 DEF PostSamples, PreSamples
    <2>4. \A n \in Int : n % SizeMax \in 0 .. SizeMax - 1
      BY <1>1
    <2>5. post_trigger_remaining' = (PostSamples - 1) % SizeMax
      BY <1>3 DEF TriggerStep, Decremented
    <2> QED BY <2>3, <2>4, <2>5
  <1>4. CASE TriggeredStep(data)
    BY <1>1, <1>4 DEF TriggeredStep
  <1> QED BY <1>2, <1>3, <1>4 DEF SampleStep

LEMMA TypeStep == TypeOK /\ RingInv /\ [Next]_vars => TypeOK'
  <1> SUFFICES ASSUME TypeOK, RingInv, [Next]_vars
               PROVE  EngineType' /\ BufferType' /\ RestType'
    BY TypeInPartsNext DEF TypeParts
  <1>t. EngineType /\ BufferType /\ RestType
    BY TypeInParts DEF TypeParts
  <1> DEFINE Ring == <<buffer_depth, ringVars>>
             Rest == <<post_trigger_remaining, state, prevVars, last_error, scanner_error>>
  <1>e. UNCHANGED engineVars => EngineType'
    BY <1>t DEF engineVars, EngineType
  <1>b. UNCHANGED Ring => BufferType'
    BY <1>t DEF ringVars, BufferType
  <1>r. UNCHANGED Rest => RestType'
    BY <1>t DEF prevVars, RestType
  <1>1. ASSUME NEW d \in Depths, SetBufferDepth(d)
        PROVE  EngineType' /\ BufferType' /\ RestType'
    <2>1. EngineType' /\ RestType'
      BY <1>1, <1>e, <1>r DEF SetBufferDepth
    <2>2. buffer_depth' \in BufferDepths
      BY <1>1 DEF SetBufferDepth, BufferDepths
    <2>3. count = 0 /\ write_pos = 0
      BY <1>1, RingTypeHolds DEF SetBufferDepth, Fresh, RingInv, RingType
    <2>4. UNCHANGED <<buffer, write_pos, count>>
      BY <1>1 DEF SetBufferDepth, ringVars
    <2> QED BY <1>t, <2>1, <2>2, <2>3, <2>4, DepthFacts DEF BufferType
  <1>2. ASSUME NEW m \in Modes, SetMode(m)
        PROVE  EngineType' /\ BufferType' /\ RestType'
    BY <1>2, <1>t, <1>b, <1>r DEF SetMode, sessionVars, EngineType
  <1>3. ASSUME NEW cs \in ConditionSets, SetConditions(cs)
        PROVE  EngineType' /\ BufferType' /\ RestType'
    BY <1>3, <1>t, <1>b, <1>r DEF SetConditions, sessionVars, EngineType
  <1>4. CASE ClearConditions
    BY <1>4, <1>t, <1>b, <1>r, ConditionsAssumption DEF ClearConditions, sessionVars, EngineType
  <1>5. ASSUME NEW r \in Ratios, SetPreTriggerRatio(r)
        PROVE  EngineType' /\ BufferType' /\ RestType'
    BY <1>5, <1>t, <1>b, <1>r, ClampedType DEF SetPreTriggerRatio, sessionVars, EngineType
  <1>6. CASE Start
    <2>1. EngineType'
      BY <1>6, <1>t DEF Start, EngineType
    <2>2. RestType'
      BY <1>6, <1>t DEF Start, RestType, States
    <2>3. buffer_depth \in BufferDepths
      BY <1>t DEF BufferType
    <2>4. buffer' \in [0 .. buffer_depth - 1 -> FrameSet]
      BY <1>6, <1>t, <2>3, ResizedType DEF Start
    <2>5. buffer_depth' = buffer_depth /\ write_pos' = 0 /\ count' = 0
      BY <1>6 DEF Start
    <2>6. BufferType'
      BY <2>3, <2>4, <2>5, DepthFacts DEF BufferType
    <2> QED BY <2>1, <2>2, <2>6
  <1>7. CASE Stop
    <2>1. RestType'
      BY <1>7, <1>t DEF Stop, RestType, States, prevVars
    <2> QED BY <1>7, <1>e, <1>b, <2>1 DEF Stop
  <1>8. CASE ClearSamples
    <2>1. EngineType'
      BY <1>8, <1>e DEF ClearSamples
    <2>2. RestType'
      BY <1>8, <1>t DEF ClearSamples, RestType
    <2>3. buffer_depth' = buffer_depth /\ buffer' = NoBuffer /\ write_pos' = 0 /\ count' = 0
      BY <1>8 DEF ClearSamples
    <2>4. BufferType'
      <3>1. buffer_depth' \in BufferDepths
        BY <1>t, <2>3 DEF BufferType
      <3>2. buffer' = NoBuffer /\ write_pos' = 0 /\ count' = 0
        BY <2>3
      <3> QED BY <3>1, <3>2, DepthFacts, EmptyBufferType DEF BufferType
    <2> QED BY <2>1, <2>2, <2>4
  <1>9. ASSUME NEW data \in ScanResults, TickSamples(data)
        PROVE  EngineType' /\ BufferType' /\ RestType'
    <2>1. SampleStep(data) /\ UNCHANGED <<mode, conditions, ratio, armed, buffer_depth, last_error, scanner_error>>
      BY <1>9 DEF TickSamples, SampleStep
    <2>2. triggered' \in BOOLEAN
      BY <1>t, <2>1, Zenon DEF SampleStep, RunningStep, WaitStep, TriggerStep, TriggeredStep, EngineType
    <2>3. EngineType'
      BY <1>t, <2>1, <2>2 DEF EngineType
    <2>4. PICK trig \in BOOLEAN : AppendSample(data, trig)
      BY <2>1, SampleStepAppends
    <2>5. Active
      BY <2>1, SampleStepAppends
    <2>6. buffer' \in [0 .. buffer_depth - 1 -> FrameSet] /\ RingType'
      BY <2>1, <2>4, <2>5, AppendEffect
    <2>7. BufferType'
      BY <1>t, <2>1, <2>6 DEF BufferType, RingType
    <2>8. state' \in States
      BY <1>t, <2>1 DEF SampleStep, RunningStep, WaitStep, TriggerStep, TriggeredStep, RestType, States
    <2>9. post_trigger_remaining' \in 0 .. SizeMax - 1
      BY <2>1, RemainingType
    <2>10. prev_sample' \in ScanResults /\ has_prev' \in BOOLEAN
      BY <1>9 DEF TickSamples
    <2>11. RestType'
      BY <1>t, <2>1, <2>8, <2>9, <2>10 DEF RestType
    <2> QED BY <2>3, <2>7, <2>11
  <1>10. ASSUME TickFails
         PROVE  EngineType' /\ BufferType' /\ RestType'
    <2>1. RestType'
      BY <1>10, <1>t DEF TickFails, RestType, States, prevVars
    <2> QED BY <1>10, <1>e, <1>b, <2>1 DEF TickFails
  <1>11. CASE NewSession
    <2>1. EngineType'
      <3>1. mode' \in Modes /\ conditions' \in ConditionSets /\ armed' \in BOOLEAN /\ triggered' \in BOOLEAN
        BY <1>11, ConditionsAssumption DEF NewSession, Modes
      <3>2. ratio' \in 0 .. RatioUnit
        BY <1>11, HalfUnit, RatiosAssumption DEF NewSession
      <3> QED BY <3>1, <3>2 DEF EngineType
    <2>2. BufferType'
      <3>1. buffer_depth' \in BufferDepths /\ buffer' = NoBuffer /\ write_pos' = 0 /\ count' = 0
        BY <1>11 DEF NewSession
      <3> QED BY <3>1, DepthFacts, EmptyBufferType DEF BufferType
    <2>3. RestType'
      <3>1. post_trigger_remaining' = 0 /\ 0 \in 0 .. SizeMax - 1
        <4>1. post_trigger_remaining \in 0 .. SizeMax - 1
          BY <1>t DEF RestType
        <4>2. post_trigger_remaining' = 0
          BY <1>11 DEF NewSession
        <4> QED BY <4>1, <4>2, SizeAssumption
      <3>2. scanner_error' \in BOOLEAN
        BY <1>11, <1>t DEF NewSession, RestType
      <3> QED BY <1>11, <3>1, <3>2 DEF NewSession, RestType, States
    <2> QED BY <2>1, <2>2, <2>3
  <1>12. CASE UNCHANGED vars
    BY <1>12, <1>e, <1>b, <1>r DEF vars
  <1> QED BY <1>1, <1>2, <1>3, <1>4, <1>5, <1>6, <1>7, <1>8, <1>9, <1>10, <1>11, <1>12
          DEF Next, Configure, Tick

---------------------------------------------------------------------------
(* The invariant *)

LEMMA IInvInit == Init => IInv
  <1> SUFFICES ASSUME Init PROVE IInv
    OBVIOUS
  <1>1. TypeOK
    BY TypeInit
  <1>2. state = "STOPPED" /\ count = 0 /\ write_pos = 0 /\ ~has_prev
    BY DEF Init
  <1>3. RingInv /\ ModeInv /\ PrevInv /\ JustInv
    BY <1>2 DEF RingInv, ModeInv, PrevInv, JustInv, Active
  <1> QED BY <1>1, <1>3 DEF IInv

\* Steps that leave the ring, the previous sample, the mode and the
\* conditions alone and do not make the session active.
LEMMA IInvFrame ==
  ASSUME IInv, TypeOK', UNCHANGED <<buffer_depth, ringVars, prevVars>>,
         \/ UNCHANGED <<mode, conditions, state>>
         \/ UNCHANGED <<mode, conditions>> /\ state' = "STOPPED"
         \/ state = "STOPPED" /\ state' = "STOPPED" /\ count = 0
  PROVE  IInv'
  <1>1. GetSamples' = GetSamples
    BY SamplesUnchanged
  <1>2. UNCHANGED <<buffer_depth, buffer, write_pos, count, prev_sample, has_prev>>
    BY DEF ringVars, prevVars
  <1>3. RingInv'
    BY <1>2 DEF IInv, RingInv, Active
  <1>4. ModeInv'
    BY DEF IInv, ModeInv
  <1>5. PrevInv'
    BY <1>1, <1>2 DEF IInv, PrevInv
  <1>6. JustInv'
    <2>1. CASE UNCHANGED conditions
      BY <1>1, <1>2, <2>1 DEF IInv, JustInv, Met, EdgeMet, LevelMet
    <2>2. CASE count = 0
      BY <1>2, <2>2 DEF JustInv
    <2> QED BY <2>1, <2>2
  <1> QED BY <1>3, <1>4, <1>5, <1>6 DEF IInv

\* Steps that leave the ring empty.
LEMMA IInvEmpty ==
  ASSUME TypeOK', count' = 0, write_pos' = 0, ~has_prev',
         \/ state' = "STOPPED"
         \/ /\ state' = IF mode' = "NORMAL" THEN "WAITING_TRIGGER" ELSE "RUNNING"
            /\ buffer' \in [0 .. buffer_depth' - 1 -> FrameSet]
  PROVE  IInv'
  <1>1. RingInv'
    BY DEF RingInv, Active
  <1>2. ModeInv'
    BY DEF ModeInv
  <1>3. PrevInv' /\ JustInv'
    BY DEF PrevInv, JustInv
  <1> QED BY <1>1, <1>2, <1>3 DEF IInv

\* The marked frame is the newest, and it met the conditions.
LEMMA MarkedFrame ==
  ASSUME NEW data \in ScanResults, SampleStep(data), ModeInv
  PROVE  \E trig \in BOOLEAN :
           /\ AppendSample(data, trig)
           /\ trig => has_prev /\ \A c \in conditions : Met(c, prev_sample, data)
  <1>1. CASE TriggerStep(data)
    <2>1. AppendSample(data, TRUE) /\ mode = "NORMAL" /\ TriggerFires(data)
      BY <1>1 DEF TriggerStep, ModeInv
    <2>2. has_prev /\ AllMet(prev_sample, data)
      BY <2>1 DEF TriggerFires, Fires
    <2> QED BY <2>1, <2>2 DEF AllMet
  <1>2. CASE RunningStep(data) \/ WaitStep(data) \/ TriggeredStep(data)
    BY <1>2 DEF RunningStep, WaitStep, TriggeredStep
  <1> QED BY <1>1, <1>2 DEF SampleStep

LEMMA IInvSample ==
  ASSUME IInv, TypeOK', NEW data \in ScanResults, TickSamples(data)
  PROVE  IInv'
  <1>1. SampleStep(data) /\ UNCHANGED <<mode, conditions, buffer_depth>>
    BY DEF TickSamples, SampleStep
  <1>2. PICK trig \in BOOLEAN :
           /\ AppendSample(data, trig)
           /\ trig => has_prev /\ \A c \in conditions : Met(c, prev_sample, data)
    BY <1>1, MarkedFrame DEF IInv
  <1>3. Active
    BY <1>1, SampleStepAppends
  <1> DEFINE f == [data |-> data, trigger_point |-> trig]
             S == GetSamples
  <1>4. /\ RingType'
        /\ count' < buffer_depth => write_pos' = count'
        /\ buffer' \in [0 .. buffer_depth - 1 -> FrameSet]
        /\ count' = IF count < buffer_depth THEN count + 1 ELSE count
        /\ GetSamples'[count'] = f
        /\ \A i \in 1 .. count' - 1 :
             GetSamples'[i] = IF count < buffer_depth THEN GetSamples[i] ELSE GetSamples[i + 1]
    BY <1>1, <1>2, <1>3, AppendEffect DEF IInv
  <1>5. RingType
    BY RingTypeHolds DEF IInv
  <1>6. RingInv'
    BY <1>1, <1>4 DEF RingInv
  <1>7. ModeInv'
    BY <1>1 DEF IInv, ModeInv, SampleStep, RunningStep, WaitStep, TriggerStep, TriggeredStep
  <1>8. PrevInv'
    <2>1. prev_sample' = data
      BY DEF TickSamples
    <2>2. f.data = data
      OBVIOUS
    <2>3. count' > 0
      BY <1>4, <1>5 DEF RingType
    <2> QED BY <1>4, <2>1, <2>2, <2>3 DEF PrevInv
  <1>9. JustInv'
    <2> SUFFICES ASSUME NEW i \in 1 .. count', GetSamples'[i].trigger_point
                 PROVE  /\ i > 1 => \A c \in conditions :
                                      Met(c, GetSamples'[i - 1].data, GetSamples'[i].data)
                        /\ i = 1 => count' = buffer_depth
      BY <1>1 DEF JustInv, Met, EdgeMet, LevelMet
    <2>1. CASE i = count'
      <3>1. trig
        BY <1>4, <2>1
      <3>2. count > 0 /\ GetSamples[count].data = prev_sample
        BY <1>2, <3>1 DEF IInv, PrevInv
      <3>3. GetSamples'[i].data = data
        BY <1>4, <2>1
      <3>4. i > 1 => GetSamples'[i - 1] = GetSamples[count]
        BY <1>4, <1>5, <2>1, <3>2 DEF RingType
      <3>5. i = 1 => count' = buffer_depth
        BY <1>4, <1>5, <2>1, <3>2 DEF RingType
      <3> QED BY <1>2, <3>1, <3>2, <3>3, <3>4, <3>5
    <2>2. CASE i # count'
      <3> DEFINE j == IF count < buffer_depth THEN i ELSE i + 1
      <3>1. j \in 1 .. count /\ GetSamples'[i] = GetSamples[j]
        BY <1>4, <1>5, <2>2 DEF RingType
      <3>2. /\ j > 1 => \A c \in conditions : Met(c, GetSamples[j - 1].data, GetSamples[j].data)
            /\ j = 1 => count = buffer_depth
        BY <3>1 DEF IInv, JustInv
      <3>3. i > 1 => j > 1 /\ GetSamples'[i - 1] = GetSamples[j - 1]
        BY <1>4, <1>5, <2>2 DEF RingType
      <3>4. i = 1 => count' = buffer_depth
        BY <1>4, <1>5, <3>2, <2>2 DEF RingType
      <3> QED BY <3>1, <3>2, <3>3, <3>4
    <2> QED BY <2>1, <2>2
  <1> QED BY <1>6, <1>7, <1>8, <1>9 DEF IInv

LEMMA IInvStep == IInv /\ [Next]_vars => IInv'
  <1> SUFFICES ASSUME IInv, [Next]_vars PROVE IInv'
    OBVIOUS
  <1>t. TypeOK'
    BY TypeStep DEF IInv
  <1>f. ASSUME Fresh, Configure PROVE UNCHANGED <<ringVars, prevVars, state>>
    BY <1>f DEF Configure, SetBufferDepth, SetMode, SetConditions, ClearConditions,
                SetPreTriggerRatio, sessionVars
  <1>1. CASE Configure
    <2>1. Fresh
      BY <1>1 DEF Configure, SetBufferDepth, SetMode, SetConditions, ClearConditions,
                  SetPreTriggerRatio
    <2>2. count = 0 /\ state = "STOPPED" /\ ~has_prev
      BY <2>1 DEF Fresh, IInv, PrevInv
    <2>3. count' = 0 /\ state' = "STOPPED" /\ has_prev' = has_prev /\ write_pos' = write_pos
      BY <1>1, <1>f, <2>1, <2>2 DEF ringVars, prevVars
    <2>4. write_pos = 0
      BY <2>2, RingTypeHolds DEF IInv, RingInv, RingType
    <2> QED BY <1>t, <2>2, <2>3, <2>4, IInvEmpty
  <1>2. CASE Start
    <2>1. buffer' = Resized(buffer, buffer_depth) /\ UNCHANGED <<buffer_depth, mode>>
      BY <1>2 DEF Start
    <2>2. BufferType /\ buffer_depth \in BufferDepths
      BY TypeInParts DEF TypeParts, IInv, BufferType
    <2>3. buffer' \in [0 .. buffer_depth' - 1 -> FrameSet]
      BY <2>1, <2>2, ResizedType
    <2>4. count' = 0 /\ write_pos' = 0 /\ ~has_prev'
          /\ state' = IF mode' = "NORMAL" THEN "WAITING_TRIGGER" ELSE "RUNNING"
      BY <1>2, <2>1 DEF Start
    <2> QED BY <1>t, <2>3, <2>4, IInvEmpty
  <1>3. CASE Stop
    BY <1>3, <1>t, IInvFrame DEF Stop, engineVars
  <1>4. CASE ClearSamples \/ NewSession
    BY <1>4, <1>t, IInvEmpty DEF ClearSamples, NewSession
  <1>5. ASSUME NEW data \in ScanResults, TickSamples(data) PROVE IInv'
    BY <1>5, <1>t, IInvSample
  <1>6. ASSUME TickFails PROVE IInv'
    BY <1>6, <1>t, IInvFrame DEF TickFails, engineVars
  <1>7. CASE UNCHANGED vars
    BY <1>7, <1>t, IInvFrame DEF vars, engineVars
  <1> QED BY <1>1, <1>2, <1>3, <1>4, <1>5, <1>6, <1>7 DEF Next, Tick

\* The inductive invariant holds of every capture session.
THEOREM SessionInvariance == Spec => []IInv
  BY IInvInit, IInvStep, PTL DEF Spec

\* The type invariant: write_pos_ is always a slot of the ring and count_ never
\* exceeds the depth, for every sequence of configuration, captures and errors.
THEOREM SessionTypeCorrect == Spec => []TypeOK
  <1>1. IInv => TypeOK
    BY DEF IInv
  <1> QED BY <1>1, SessionInvariance, PTL

\* Every trigger frame met every condition against the frame before it.
THEOREM TriggersJustified == Spec => []TriggerJustified
  <1>1. IInv => TriggerJustified
    <2> SUFFICES ASSUME IInv, NEW i \in TriggerAt
                 PROVE  IF i > 1
                        THEN \A c \in conditions :
                               Met(c, GetSamples[i - 1].data, GetSamples[i].data)
                        ELSE Len(GetSamples) = buffer_depth
      BY DEF TriggerJustified
    <2>1. RingType
      BY RingTypeHolds DEF IInv
    <2>2. i \in 1 .. count /\ GetSamples[i].trigger_point
      BY <2>1, SamplesFunction DEF TriggerAt
    <2>3. Len(GetSamples) = count
      BY SamplesSeq DEF IInv
    <2>4. /\ i > 1 => \A c \in conditions : Met(c, GetSamples[i - 1].data, GetSamples[i].data)
          /\ i = 1 => count = buffer_depth
      BY <2>2 DEF IInv, JustInv
    <2>5. i > 1 \/ i = 1
      BY <2>1, <2>2 DEF RingType
    <2> QED BY <2>3, <2>4, <2>5
  <1> QED BY <1>1, SessionInvariance, PTL

---------------------------------------------------------------------------
(* The refinement *)

LEMMA EmptySamples ==
  ASSUME count = 0, RingType
  PROVE  GetSamples = <<>>
  BY SamplesBySlot DEF SlotForm, RingType

NoSamples == count = 0 /\ RingType => GetSamples = <<>>

LEMMA NoSamplesNext == NoSamples'
  <1>1. NoSamples
    BY EmptySamples DEF NoSamples
  <1> QED BY <1>1, PTL

NextType == TypeOK => RingType
LEMMA RingTypeNext == NextType'
  <1>1. NextType
    BY RingTypeHolds DEF NextType
  <1> QED BY <1>1, PTL

NextSeq == IInv => GetSamples \in Seq(FrameSet) /\ Len(GetSamples) = count
LEMMA SamplesSeqNext == NextSeq'
  <1>1. NextSeq
    BY SamplesSeq DEF NextSeq, IInv
  <1> QED BY <1>1, PTL

\* Storing a frame in the ring is storing it in the log.
LEMMA StoreRefined ==
  ASSUME IInv, IInv', NEW data \in ScanResults, TickSamples(data)
  PROVE  \E f \in Frames : Log!Store(f)
  <1>1. SampleStep(data) /\ UNCHANGED <<buffer_depth>>
    BY DEF TickSamples, SampleStep
  <1>2. Active /\ \E trig \in BOOLEAN : AppendSample(data, trig)
    BY <1>1, SampleStepAppends
  <1>3. PICK trig \in BOOLEAN : AppendSample(data, trig)
    BY <1>2
  <1> DEFINE f == [data |-> data, trigger_point |-> trig]
             S == GetSamples
             T == GetSamples'
             d == buffer_depth
  <1>4. f \in Frames /\ f \in FrameSet
    BY DEF Frames, FrameSet
  <1>5. /\ count' = IF count < d THEN count + 1 ELSE count
        /\ T[count'] = f
        /\ \A i \in 1 .. count' - 1 : T[i] = IF count < d THEN S[i] ELSE S[i + 1]
    BY <1>1, <1>2, <1>3, AppendEffect DEF IInv
  <1>6. S \in Seq(FrameSet) /\ Len(S) = count
    BY SamplesSeq DEF IInv
  <1>7. T \in Seq(FrameSet) /\ Len(T) = count'
    BY SamplesSeqNext DEF NextSeq
  <1>8. RingType
    BY RingTypeHolds DEF IInv
  <1> HIDE DEF f, S, T
  <1>9. T = IF Len(S) < d THEN Append(S, f) ELSE Append(Tail(S), f)
    <2>1. CASE count < d
      <3>1. Append(S, f) \in Seq(FrameSet) /\ Len(Append(S, f)) = Len(T)
        BY <1>4, <1>5, <1>6, <1>7, <2>1
      <3>2. \A i \in 1 .. Len(T) : T[i] = Append(S, f)[i]
        BY <1>4, <1>5, <1>6, <1>7, <1>8, <2>1 DEF RingType
      <3>3. T = Append(S, f)
        BY <1>7, <3>1, <3>2
      <3> QED BY <1>6, <2>1, <3>3
    <2>2. CASE ~(count < d)
      <3>1. count = d /\ count > 0
        BY <1>8, <2>2 DEF RingType
      <3>2. Tail(S) \in Seq(FrameSet) /\ Len(Tail(S)) = count - 1
        BY <1>6, <3>1
      <3>3. Append(Tail(S), f) \in Seq(FrameSet) /\ Len(Append(Tail(S), f)) = Len(T)
        BY <1>4, <1>5, <1>7, <2>2, <3>1, <3>2
      <3>4. \A i \in 1 .. Len(T) : T[i] = Append(Tail(S), f)[i]
        BY <1>4, <1>5, <1>6, <1>7, <1>8, <2>2, <3>1, <3>2 DEF RingType
      <3>5. T = Append(Tail(S), f)
        BY <1>7, <3>3, <3>4
      <3> QED BY <1>6, <2>2, <3>5
    <2> QED BY <2>1, <2>2
  <1>10. GetSamples' = IF Len(GetSamples) < buffer_depth THEN Append(GetSamples, f)
                                                         ELSE Append(Tail(GetSamples), f)
    BY <1>9 DEF S, T
  <1> QED BY <1>1, <1>4, <1>10 DEF Log!Store

\* getSamples() always returns the newest buffer_depth_ frames of the current
\* capture, oldest first: the ring of start(), appendSample() and getSamples()
\* implements the sample log.
THEOREM SessionRefinement == Spec => ImplementsSampleLog
  <1>1. Init => Log!Init
    <2> SUFFICES ASSUME Init PROVE Log!Init
      OBVIOUS
    <2>1. IInv
      BY IInvInit
    <2>2. count = 0 /\ buffer_depth \in BufferDepths
      BY DEF Init
    <2>3. GetSamples = <<>>
      BY <2>1, <2>2, RingTypeHolds, EmptySamples DEF IInv
    <2> QED BY <2>2, <2>3 DEF Log!Init
  <1>2. IInv /\ IInv' /\ [Next]_vars => [Log!Next]_<<GetSamples, buffer_depth>>
    <2> SUFFICES ASSUME IInv, IInv', [Next]_vars
                 PROVE  [Log!Next]_<<GetSamples, buffer_depth>>
      OBVIOUS
    <2>1. ASSUME count' = 0 PROVE Log!Discard
      <3>1. RingType'
        BY RingTypeNext DEF NextType, IInv
      <3>2. GetSamples' = <<>>
        BY <2>1, <3>1, NoSamplesNext DEF NoSamples
      <3>3. buffer_depth' \in BufferDepths
        BY DEF IInv, TypeOK
      <3> QED BY <3>2, <3>3 DEF Log!Discard
    <2>2. ASSUME NEW data \in ScanResults, TickSamples(data) PROVE Log!Next
      BY <2>2, StoreRefined DEF Log!Next
    <2>3. CASE Configure
      <3>1. count' = 0
        BY <2>3 DEF Configure, SetBufferDepth, SetMode, SetConditions, ClearConditions,
                    SetPreTriggerRatio, sessionVars, ringVars, Fresh
      <3> QED BY <2>1, <3>1 DEF Log!Next
    <2>4. CASE Start \/ ClearSamples \/ NewSession
      <3>1. count' = 0
        BY <2>4 DEF Start, ClearSamples, NewSession
      <3> QED BY <2>1, <3>1 DEF Log!Next
    <2>5. CASE Stop \/ TickFails \/ UNCHANGED vars
      <3>1. UNCHANGED <<buffer_depth, ringVars>>
        BY <2>5 DEF Stop, TickFails, vars
      <3> QED BY <3>1, SamplesUnchanged
    <2> QED BY <2>2, <2>3, <2>4, <2>5 DEF Next, Tick
  <1> QED BY <1>1, <1>2, SessionInvariance, PTL DEF Spec, ImplementsSampleLog, Log!Spec

---------------------------------------------------------------------------
(* The trigger frame *)

\* The callers never ask for the ratio 1.0.
RatioBelowOne == \A r \in Ratios : r < RatioUnit

\* Until the trigger fires no frame is marked; from then on the marked frame
\* is as far from the newest as samples have been taken since.
TriggerInv ==
  /\ ratio < RatioUnit
  /\ state = "WAITING_TRIGGER" => \A i \in 1 .. count : ~GetSamples[i].trigger_point
  /\ state = "TRIGGERED" => post_trigger_remaining > 0
  /\ mode = "NORMAL" /\ state \in {"TRIGGERED", "COMPLETE"} =>
       /\ post_trigger_remaining \in 0 .. PostSamples - 1
       /\ PostSamples - post_trigger_remaining \in 1 .. count
       /\ \A i \in 1 .. count :
            GetSamples[i].trigger_point
              <=> i + (PostSamples - post_trigger_remaining) = count + 1

\* With a ratio below 1.0 at least one sample is taken from the trigger on.
LEMMA PostSamplesRange ==
  ASSUME TypeOK, ratio < RatioUnit
  PROVE  PostSamples \in 1 .. buffer_depth
  <1>1. ratio \in 0 .. RatioUnit - 1 /\ buffer_depth \in Nat \ {0}
    BY RingTypeHolds, RatiosAssumption DEF TypeOK, RingType
  <1>2. (ratio * buffer_depth) \div RatioUnit \in 0 .. buffer_depth - 1
    BY <1>1, PreBelowDepth, RatiosAssumption
  <1> QED BY <1>1, <1>2 DEF PostSamples, PreSamples

\* Steps that leave the ring, the engine and the samples to take alone.
LEMMA TriggerFrame ==
  ASSUME TriggerInv, UNCHANGED <<buffer_depth, ringVars, mode, ratio, post_trigger_remaining>>,
         state' = state \/ state' = "STOPPED"
  PROVE  TriggerInv'
  <1>1. GetSamples' = GetSamples /\ UNCHANGED <<count, PostSamples>>
    BY SamplesUnchanged DEF ringVars, PostSamples, PreSamples
  <1> HIDE DEF PostSamples
  <1> QED BY <1>1 DEF TriggerInv

LEMMA TriggerSample ==
  ASSUME IInv, TriggerInv, NEW data \in ScanResults, TickSamples(data)
  PROVE  TriggerInv'
  <1> DEFINE d == buffer_depth
             n == post_trigger_remaining
  <1>1. SampleStep(data) /\ UNCHANGED <<mode, ratio, buffer_depth>>
    BY DEF TickSamples, SampleStep
  <1>2. PostSamples' = PostSamples
    BY <1>1 DEF PostSamples, PreSamples
  <1>3. PostSamples \in 1 .. d
    BY PostSamplesRange DEF IInv, TriggerInv
  <1>4. RingType /\ d < SizeMax
    BY RingTypeHolds, DepthFacts DEF IInv, TypeOK
  <1>5. Active
    BY <1>1, SampleStepAppends
  <1>6. ASSUME NEW trig \in BOOLEAN, AppendSample(data, trig)
        PROVE  /\ count' = IF count < d THEN count + 1 ELSE count
               /\ GetSamples'[count'] = [data |-> data, trigger_point |-> trig]
               /\ \A i \in 1 .. count' - 1 :
                    GetSamples'[i] = IF count < d THEN GetSamples[i] ELSE GetSamples[i + 1]
    BY <1>1, <1>5, <1>6, AppendEffect DEF IInv
  <1>7. ratio' < RatioUnit
    BY <1>1 DEF TriggerInv
  <1> HIDE DEF PostSamples
  <1>8. CASE RunningStep(data)
    <2>1. mode' # "NORMAL" /\ state' \notin {"WAITING_TRIGGER", "TRIGGERED"}
      BY <1>1, <1>8 DEF RunningStep, IInv, ModeInv
    <2> QED BY <1>7, <2>1 DEF TriggerInv
  <1>9. CASE WaitStep(data)
    <2>1. AppendSample(data, FALSE) /\ state' = "WAITING_TRIGGER"
          /\ \A i \in 1 .. count : ~GetSamples[i].trigger_point
      BY <1>9 DEF WaitStep, TriggerInv
    <2>a. /\ count' = (IF count < d THEN count + 1 ELSE count)
          /\ GetSamples'[count'] = [data |-> data, trigger_point |-> FALSE]
          /\ \A i \in 1 .. count' - 1 :
               GetSamples'[i] = IF count < d THEN GetSamples[i] ELSE GetSamples[i + 1]
      BY <1>6, <2>1
    <2>2. \A i \in 1 .. count' : ~GetSamples'[i].trigger_point
      BY <1>4, <2>1, <2>a DEF RingType
    <2> QED BY <1>7, <2>1, <2>2 DEF TriggerInv
  <1>10. CASE TriggerStep(data)
    <2>1. AppendSample(data, TRUE) /\ state' # "WAITING_TRIGGER"
          /\ \A i \in 1 .. count : ~GetSamples[i].trigger_point
      BY <1>10 DEF TriggerStep, TriggerInv
    <2>a. /\ count' = (IF count < d THEN count + 1 ELSE count)
          /\ GetSamples'[count'] = [data |-> data, trigger_point |-> TRUE]
          /\ \A i \in 1 .. count' - 1 :
               GetSamples'[i] = IF count < d THEN GetSamples[i] ELSE GetSamples[i + 1]
      BY <1>6, <2>1
    <2>2. n' = (PostSamples - 1) % SizeMax
      BY <1>10 DEF TriggerStep, Decremented
    <2>3. n' = PostSamples - 1
      BY <1>3, <1>4, <2>2, DecrementInRange, SizeAssumption DEF RingType
    <2>4. count' \in 1 .. d
          /\ \A i \in 1 .. count' : GetSamples'[i].trigger_point <=> i = count'
      BY <1>4, <2>1, <2>a DEF RingType
    <2>5. /\ n' \in 0 .. PostSamples - 1
          /\ PostSamples - n' \in 1 .. count'
          /\ \A i \in 1 .. count' : GetSamples'[i].trigger_point
                                    <=> i + (PostSamples - n') = count' + 1
      <3>1. count' \in Int /\ count' >= 1 /\ PostSamples \in Int /\ PostSamples >= 1
        BY <1>3, <1>4, <2>4 DEF RingType
      <3>2. PostSamples - n' = 1 /\ n' \in 0 .. PostSamples - 1
        BY <2>3, <3>1
      <3>3. \A i \in 1 .. count' : i = count' <=> i + 1 = count' + 1
        <4> TAKE i \in 1 .. count'
        <4>1. i \in Int
          BY <3>1
        <4> QED BY <3>1, <4>1, SameShift, Zenon
      <3>4. PostSamples - n' \in 1 .. count'
        <4>1. 1 \in 1 .. count'
          BY <2>4
        <4> QED BY <3>2, <4>1, Zenon
      <3>5. \A i \in 1 .. count' : GetSamples'[i].trigger_point
                                    <=> i + (PostSamples - n') = count' + 1
        BY <2>4, <3>2, <3>3, Zenon
      <3> QED BY <3>2, <3>4, <3>5
    <2>6. state' = "TRIGGERED" => n' > 0
      BY <1>10 DEF TriggerStep
    <2> QED BY <1>2, <1>7, <2>1, <2>4, <2>5, <2>6 DEF TriggerInv
  <1>11. CASE TriggeredStep(data)
    <2>1. AppendSample(data, FALSE) /\ state' # "WAITING_TRIGGER" /\ state = "TRIGGERED"
          /\ n' = (IF n > 0 THEN n - 1 ELSE n)
      BY <1>11 DEF TriggeredStep
    <2>a. /\ count' = (IF count < d THEN count + 1 ELSE count)
          /\ GetSamples'[count'] = [data |-> data, trigger_point |-> FALSE]
          /\ \A i \in 1 .. count' - 1 :
               GetSamples'[i] = IF count < d THEN GetSamples[i] ELSE GetSamples[i + 1]
      BY <1>6, <2>1
    <2>2. mode = "NORMAL"
      BY <2>1 DEF IInv, ModeInv
    <2>3. /\ n \in 0 .. PostSamples - 1
          /\ PostSamples - n \in 1 .. count
          /\ \A i \in 1 .. count :
               GetSamples[i].trigger_point <=> i + (PostSamples - n) = count + 1
      BY <2>1, <2>2 DEF TriggerInv
    <2>4. n > 0
      BY <2>1 DEF TriggerInv
    <2>5. n' = n - 1 /\ n' \in 0 .. PostSamples - 1
      BY <1>3, <2>1, <2>3, <2>4
    <2>6. PostSamples - n' \in 1 .. count'
      BY <1>3, <1>4, <2>a, <2>1, <2>3, <2>4, <2>5 DEF RingType
    <2>7. ASSUME NEW i \in 1 .. count'
          PROVE  GetSamples'[i].trigger_point <=> i + (PostSamples - n') = count' + 1
      <3>1. CASE i = count'
        BY <1>3, <1>4, <2>a, <2>1, <2>3, <2>4, <2>5, <3>1 DEF RingType
      <3>2. CASE i # count'
        <4> DEFINE j == IF count < d THEN i ELSE i + 1
        <4>1. j \in 1 .. count /\ GetSamples'[i] = GetSamples[j]
          BY <1>4, <2>a, <2>1, <3>2 DEF RingType
        <4>2. GetSamples[j].trigger_point <=> j + (PostSamples - n) = count + 1
          BY <2>3, <4>1
        <4>3. j + (PostSamples - n) = count + 1 <=> i + (PostSamples - n') = count' + 1
          BY <1>3, <1>4, <2>a, <2>1, <2>3, <2>5 DEF RingType
        <4> QED BY <4>1, <4>2, <4>3
      <3> QED BY <3>1, <3>2
    <2>8. state' = "TRIGGERED" => n' > 0
      <3>1. state' = IF n' = 0 THEN "COMPLETE" ELSE "TRIGGERED"
        BY <1>11 DEF TriggeredStep
      <3>2. n' >= 0 /\ n' \in Int
        BY <1>3, <2>5
      <3> QED BY <3>1, <3>2
    <2> QED BY <1>2, <1>7, <2>1, <2>5, <2>6, <2>7, <2>8 DEF TriggerInv
  <1> QED BY <1>1, <1>8, <1>9, <1>10, <1>11 DEF SampleStep

LEMMA TriggerStepInv ==
  ASSUME RatioBelowOne, IInv, TriggerInv, [Next]_vars
  PROVE  TriggerInv'
  <1>1. ASSUME state' \notin {"WAITING_TRIGGER", "TRIGGERED", "COMPLETE"}, ratio' < RatioUnit
        PROVE  TriggerInv'
    BY <1>1 DEF TriggerInv
  <1>2. CASE Configure
    <2>1. state' = "STOPPED"
      BY <1>2 DEF Configure, SetBufferDepth, SetMode, SetConditions, ClearConditions,
                  SetPreTriggerRatio, sessionVars, Fresh
    <2>2. ratio' = ratio \/ \E r \in Ratios : ratio' = Clamped(r)
      BY <1>2 DEF Configure, SetBufferDepth, SetMode, SetConditions, ClearConditions,
                  SetPreTriggerRatio, engineVars
    <2>3. ratio' < RatioUnit
      BY <2>2, RatiosAssumption DEF TriggerInv, RatioBelowOne, Clamped
    <2> QED BY <1>1, <2>1, <2>3
  <1>3. CASE Start
    <2>1. count' = 0 /\ state' \in {"WAITING_TRIGGER", "RUNNING"} /\ ratio' = ratio
      BY <1>3 DEF Start
    <2> QED BY <2>1 DEF TriggerInv
  <1>4. CASE Stop
    BY <1>4, TriggerFrame DEF Stop, engineVars
  <1>5. CASE ClearSamples \/ NewSession
    <2>1. state' = "STOPPED" /\ (ratio' = ratio \/ ratio' = RatioUnit \div 2)
      BY <1>5 DEF ClearSamples, NewSession, engineVars
    <2>2. ratio' < RatioUnit
      BY <2>1, HalfUnit, RatiosAssumption DEF TriggerInv
    <2> QED BY <1>1, <2>1, <2>2
  <1>6. ASSUME NEW data \in ScanResults, TickSamples(data) PROVE TriggerInv'
    BY <1>6, TriggerSample
  <1>7. ASSUME TickFails PROVE TriggerInv'
    BY <1>7, TriggerFrame DEF TickFails, engineVars
  <1>8. CASE UNCHANGED vars
    BY <1>8, TriggerFrame DEF vars, engineVars
  <1> QED BY <1>2, <1>3, <1>4, <1>5, <1>6, <1>7, <1>8 DEF Next, Tick

\* For every ratio below 1.0 the trigger frame is in the ring from the moment
\* the trigger fires to the end of the capture, at the place the ratio asks for.
THEOREM TriggerFrameSafe == RatioBelowOne => (Spec => []TriggerFrameKept)
  <1> SUFFICES ASSUME RatioBelowOne PROVE Spec => []TriggerFrameKept
    OBVIOUS
  <1>1. Init => TriggerInv
    BY HalfUnit, RatiosAssumption DEF Init, TriggerInv
  <1>2. IInv /\ TriggerInv /\ [Next]_vars => TriggerInv'
    BY TriggerStepInv
  <1>3. IInv /\ TriggerInv => TriggerFrameKept
    <2> SUFFICES ASSUME IInv, TriggerInv, mode = "NORMAL", state \in {"TRIGGERED", "COMPLETE"}
                 PROVE  \E i \in DOMAIN GetSamples :
                          /\ TriggerAt = {i}
                          /\ Len(GetSamples) - i + 1 = PostSamples - post_trigger_remaining
      BY DEF TriggerFrameKept
    <2> DEFINE m == PostSamples - post_trigger_remaining
               k == count - m + 1
    <2>1. RingType
      BY RingTypeHolds DEF IInv
    <2>2. DOMAIN GetSamples = 1 .. count
      BY <2>1, SamplesFunction
    <2>3. Len(GetSamples) = count
      BY SamplesSeq DEF IInv
    <2>4. m \in 1 .. count /\ \A i \in 1 .. count : GetSamples[i].trigger_point <=> i + m = count + 1
      BY DEF TriggerInv
    <2> HIDE DEF m
    <2>5. k \in 1 .. count /\ count - k + 1 = m
      BY <2>1, <2>4 DEF RingType
    <2>6. TriggerAt = {k}
      <3>1. \A i \in 1 .. count : i + m = count + 1 <=> i = k
        BY <2>1, <2>4 DEF RingType
      <3> QED BY <2>2, <2>4, <2>5, <3>1 DEF TriggerAt
    <2>7. Len(GetSamples) - k + 1 = PostSamples - post_trigger_remaining
      BY <2>3, <2>5 DEF m
    <2> QED BY <2>2, <2>5, <2>6, <2>7
  <1> QED BY <1>1, <1>2, <1>3, SessionInvariance, PTL DEF Spec
=============================================================================
