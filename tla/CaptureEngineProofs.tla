------------------------- MODULE CaptureEngineProofs -------------------------
(***************************************************************************)
(* The ring of CaptureEngine, shared by its thread and the window: the     *)
(* engine is stopped exactly when its thread is joined; what the window    *)
(* shows has no gap in its newest part, and has the last frames of a       *)
(* capture that is over; the frame that triggered stays in the ring while  *)
(* the frames after it are captured. For every depth, least depth, ratio   *)
(* and number of frames.                                                   *)
(***************************************************************************)
EXTENDS CaptureEngine, Integers, TLAPS

States == {"STOPPED", "RUNNING", "WAITING_TRIGGER", "TRIGGERED", "COMPLETE"}
Places == {"none", "top", "sampled", "rearm", "store", "stored", "wait", "done"}
Frame == [n : Nat, trigger_point : BOOLEAN]
Rings == [buf : Seq(Frame), write_pos : Nat, count : Nat, total : Nat]
Thens == {<<"stopped">>, <<"finish">>} \cup {<<"start", m>> : m \in Modes}

Types ==
  /\ state \in States /\ thread \in Places
  /\ ring \in Rings /\ cached \in Seq(Frame) /\ last_total \in Nat
  /\ depth_ \in Nat \ {0}
  /\ loc \in [has_prev : BOOLEAN, trigger_point : BOOLEAN, current_state : States]

\* Where the window's thread is tells whether the engine has been stopped.
StopInv ==
  /\ state = "STOPPED" <=> thread = "none"
  /\ gui[1] \in {"idle", "check", "refresh", "start", "stopped", "finish", "join"}
  /\ gui[1] \in {"idle", "check"} /\ ~capturing_ => state = "STOPPED"
  /\ gui[1] \in {"start", "stopped", "finish", "refresh"} => state = "STOPPED"
  /\ gui[1] = "refresh" => ~capturing_
  /\ gui[1] = "join" => gui[2] \in Thens

\* Frame j of the t frames so far is in slot (j - 1) % n until it is overwritten.
InPlace(buf, n, t) == \A j \in 1 .. t : j + n > t => buf[((j - 1) % n) + 1].n = j
RingInv ==
  /\ thread # "none" \/ ring.total # 0 => Size # 0
  /\ ring.write_pos = IF Size = 0 THEN 0 ELSE ring.total % Size
  /\ InPlace(ring.buf, Size, ring.total)

\* ViewTail, of a sequence s whose newest frame is number last.
NewestWhole(s, last, size) ==
  /\ \A i \in 1 .. Len(s) - 1 : s[i].n < s[i + 1].n
  /\ \A i \in 1 .. Len(s) : i + size > Len(s) => s[i].n + Len(s) = last + i
ViewInv == NewestWhole(cached, last_total, Size)

EInv == Types /\ StopInv /\ RingInv /\ ViewInv

---------------------------------------------------------------------------
(* Positions in a ring                                                     *)

\* Division with remainder, as the provers need it.
LEMMA DivMod ==
  ASSUME NEW a \in Nat, NEW n \in Nat \ {0}
  PROVE  a = n * (a \div n) + (a % n) /\ a \div n \in Nat /\ a % n \in 0 .. n - 1
  BY SMT

\* Quotient and remainder are determined.
LEMMA ModUnique ==
  ASSUME NEW n \in Nat \ {0}, NEW q \in Nat, NEW r \in 0 .. n - 1
  PROVE  (n * q + r) % n = r
  BY SMT

\* The slot that is some places after a slot.
LEMMA ModWrap ==
  ASSUME NEW d \in Nat \ {0}, NEW w \in 0 .. 2 * d - 1
  PROVE  w % d = IF w < d THEN w ELSE w - d
  BY Z3

\* The slot of a frame that is d frames older than frame a.
LEMMA ModBack ==
  ASSUME NEW n \in Nat \ {0}, NEW a \in Nat, NEW d \in 0 .. n, d <= a
  PROVE  (a - d) % n = IF d <= (a % n) THEN (a % n) - d ELSE (a % n) - d + n
<1> DEFINE q == a \div n
           r == a % n
<1>1. a = n * q + r /\ q \in Nat /\ r \in 0 .. n - 1
  BY DivMod
<1>2. CASE d <= r
  <2>1. a - d = n * q + (r - d) /\ r - d \in 0 .. n - 1
    BY <1>1, <1>2, SMT
  <2>2. (n * q + (r - d)) % n = r - d
    BY <1>1, <2>1, ModUnique
  <2> QED BY <2>1, <2>2, <1>2
<1>3. CASE ~(d <= r)
  <2>1. q # 0
    <3> SUFFICES ASSUME q = 0 PROVE FALSE
      OBVIOUS
    <3>1. n * q = 0
      BY SMT
    <3> QED BY <1>1, <1>3, <3>1, SMT
  <2>2. q - 1 \in Nat /\ n * q = n * (q - 1) + n
    BY <1>1, <2>1, SMT
  <2>3. a - d = n * (q - 1) + (r - d + n) /\ r - d + n \in 0 .. n - 1
    <3> HIDE DEF q, r
    <3> QED BY <1>1, <1>3, <2>2, SMT
  <2>4. (n * (q - 1) + (r - d + n)) % n = r - d + n
    BY <2>2, <2>3, ModUnique
  <2> QED BY <2>3, <2>4, <1>3
<1> QED BY <1>2, <1>3

\* The slot of the next frame.
LEMMA ModStep ==
  ASSUME NEW a \in Nat, NEW n \in Nat \ {0}
  PROVE  (a + 1) % n = IF (a % n) + 1 < n THEN (a % n) + 1 ELSE 0
<1> DEFINE q == a \div n
           r == a % n
<1>1. a = n * q + r /\ q \in Nat /\ r \in 0 .. n - 1
  BY DivMod
<1>2. CASE r + 1 < n
  <2>1. a + 1 = n * q + (r + 1) /\ r + 1 \in 0 .. n - 1
    BY <1>1, <1>2, SMT
  <2> QED BY <1>1, <1>2, <2>1, ModUnique
<1>3. CASE ~(r + 1 < n)
  <2>1. q + 1 \in Nat /\ n * (q + 1) = n * q + n
    BY <1>1, SMT
  <2>2. a + 1 = n * (q + 1) + 0
    <3> HIDE DEF q, r
    <3> QED BY <1>1, <1>3, <2>1, SMT
  <2>3. (n * (q + 1) + 0) % n = 0
    BY <2>1, ModUnique
  <2> QED BY <2>2, <2>3, <1>3
<1> QED BY <1>2, <1>3

---------------------------------------------------------------------------
(* Types                                                                   *)

\* A function on 1 .. n is a sequence of length n.
LEMMA SequenceOf ==
  ASSUME NEW S, NEW n \in Nat, NEW f \in [1 .. n -> S]
  PROVE  f \in Seq(S) /\ Len(f) = n
  BY SMT

\* Overwriting an element keeps a sequence and its length.
LEMMA SequenceExcept ==
  ASSUME NEW S, NEW s \in Seq(S), NEW k, NEW x \in S
  PROVE  [s EXCEPT ![k] = x] \in Seq(S) /\ Len([s EXCEPT ![k] = x]) = Len(s)
<1>1. Len(s) \in Nat /\ s \in [1 .. Len(s) -> S]
  BY SMT
<1>2. [s EXCEPT ![k] = x] \in [1 .. Len(s) -> S]
  BY <1>1
<1> QED BY <1>1, <1>2, SequenceOf, Zenon

\* The frames a window of depth d keeps of n.
LEMMA KeptFrom ==
  ASSUME NEW n \in Nat, NEW d \in Nat
  PROVE  n - MinOf(n, d) + 1 \in 1 .. n + 1 /\ MinOf(n, d) \in 0 .. n
  BY DEF MinOf

\* A new engine has its types.
LEMMA TypesInit == Init => Types
  BY EngineAssumption DEF Init, Types, States, Places, Rings, Frame

\* The depth of the ring is a number.
LEMMA SizeType == Types => Size \in Nat
  BY DEF Types, Rings, Size

\* What getNewSamples() returns is a sequence of frames of the ring.
LEMMA NewSamplesType ==
  ASSUME Types, RingInv
  PROVE  /\ NewSamples \in Seq(Frame)
         /\ Len(NewSamples) = IF ring.total <= last_total THEN 0
                              ELSE IF ring.total - last_total > Size THEN Size
                              ELSE ring.total - last_total
<1>1. Size \in Nat /\ ring.total \in Nat /\ last_total \in Nat /\ ring.write_pos \in Nat
  BY SizeType DEF Types, Rings
<1>2. ring.total > last_total => Size \in Nat \ {0}
  BY <1>1 DEF RingInv
<1>3. \A k \in Nat : Size # 0 => At(k % Size) \in Frame
  <2> SUFFICES ASSUME NEW k \in Nat, Size # 0 PROVE At(k % Size) \in Frame
    OBVIOUS
  <2>1. k % Size \in 0 .. Size - 1
    BY <1>1, DivMod
  <2>2. (k % Size) + 1 \in 1 .. Size
    BY <1>1, <2>1
  <2>3. ring.buf \in Seq(Frame)
    BY DEF Types, Rings
  <2> QED BY <2>2, <2>3 DEF At, Size
<1>4. CASE ring.total <= last_total
  BY <1>4 DEF NewSamples
<1>5. CASE ring.total > last_total /\ ring.total - last_total > Size
  <2>1. \A i \in 1 .. Size : ring.write_pos + i - 1 \in Nat
    BY <1>1
  <2>2. [i \in 1 .. Size |-> At((ring.write_pos + i - 1) % Size)] \in [1 .. Size -> Frame]
    BY <1>2, <1>3, <1>5, <2>1
  <2>3. NewSamples = [i \in 1 .. Size |-> At((ring.write_pos + i - 1) % Size)]
    BY <1>1, <1>5 DEF NewSamples
  <2>4. NewSamples \in Seq(Frame) /\ Len(NewSamples) = Size
    BY <1>1, <2>2, <2>3, SequenceOf, Zenon
  <2> QED BY <1>1, <1>5, <2>4
<1>6. CASE ring.total > last_total /\ ~(ring.total - last_total > Size)
  <2>1. \A i \in 1 .. ring.total - last_total : last_total + i - 1 \in Nat
    BY <1>1
  <2>2. [i \in 1 .. ring.total - last_total |-> At((last_total + i - 1) % Size)]
          \in [1 .. ring.total - last_total -> Frame]
    BY <1>2, <1>3, <1>6, <2>1
  <2>3. NewSamples = [i \in 1 .. ring.total - last_total |-> At((last_total + i - 1) % Size)]
    BY <1>1, <1>6 DEF NewSamples
  <2>4. ring.total - last_total \in Nat
    BY <1>1, <1>6
  <2>5. NewSamples \in Seq(Frame) /\ Len(NewSamples) = ring.total - last_total
    BY <2>2, <2>3, <2>4, SequenceOf, Zenon
  <2> QED BY <1>1, <1>6, <2>5
<1> QED BY <1>1, <1>4, <1>5, <1>6

\* No step of the thread or the window leaves the types.
LEMMA TypesStep == EInv /\ [Next]_vars => Types'
<1> SUFFICES ASSUME Types, RingInv, [Next]_vars PROVE Types'
  BY DEF EInv
<1>1. CASE captureLoop
  <2> USE DEF Types, threadOnly, loopVars, viewVars
  <2>1. CASE Sample
    BY <2>1 DEF Sample, Places
  <2>2. CASE Evaluate
    <3>1. state' \in States /\ thread' \in Places
      BY <2>2 DEF Evaluate, States, Places
    <3>2. loc' \in [has_prev : BOOLEAN, trigger_point : BOOLEAN, current_state : States]
      BY <2>2 DEF Evaluate, States
    <3> QED BY <2>2, <3>1, <3>2 DEF Evaluate
  <2>3. CASE Rearm
    BY <2>3 DEF Rearm, Places, States
  <2>4. CASE Store
    <3>1. Size \in Nat /\ (Size # 0)
      BY <2>4, SizeType DEF Store, RingInv
    <3>2. NextPos \in Nat /\ ring.total + 1 \in Nat /\ MinOf(ring.count + 1, Size) \in Nat
      <4>1. ring.write_pos + 1 \in Nat /\ ring.total + 1 \in Nat /\ ring.count + 1 \in Nat
        BY DEF Rings
      <4>2. (ring.write_pos + 1) % Size \in 0 .. Size - 1
        BY <3>1, <4>1, DivMod
      <4> QED BY <3>1, <4>1, <4>2 DEF NextPos, MinOf
    <3>3. [n |-> ring.total + 1, trigger_point |-> loc.trigger_point] \in Frame
      BY <3>2 DEF Frame
    <3>4. ring'.buf \in Seq(Frame)
      <4>1. ring.buf \in Seq(Frame)
        BY DEF Rings
      <4>2. ring'.buf = [ring.buf EXCEPT ![ring.write_pos + 1] =
                           [n |-> ring.total + 1, trigger_point |-> loc.trigger_point]]
        BY <2>4 DEF Store
      <4>3. [ring.buf EXCEPT ![ring.write_pos + 1] =
                 [n |-> ring.total + 1, trigger_point |-> loc.trigger_point]] \in Seq(Frame)
        BY <3>3, <4>1, SequenceExcept, Zenon
      <4> QED BY <4>2, <4>3, Zenon
    <3>5. ring' \in Rings
      BY <2>4, <3>2, <3>4 DEF Store, Rings
    <3> QED BY <2>4, <3>5 DEF Store, Places
  <2>5. CASE Stored
    BY <2>5 DEF Stored, States, Places
  <2>6. CASE Wait
    BY <2>6 DEF Wait, Places
  <2> QED BY <1>1, <2>1, <2>2, <2>3, <2>4, <2>5, <2>6 DEF captureLoop
<1>2. CASE Start
  <2>1. depth_ \in Nat /\ MinDepth \in Nat
    BY EngineAssumption DEF Types
  <2> DEFINE n == IF depth_ < MinDepth THEN MinDepth ELSE depth_
  <2>2. Resized(n) \in Seq(Frame)
    <3>1. n \in Nat
      BY <2>1
    <3>2. \A i \in 1 .. n : (IF i <= Size THEN ring.buf[i] ELSE NoFrame) \in Frame
      <4>1. ring.buf \in Seq(Frame) /\ NoFrame \in Frame
        BY DEF Types, Rings, Frame, NoFrame
      <4> QED BY <4>1 DEF Size
    <3> HIDE DEF n
    <3>3. Resized(n) \in [1 .. n -> Frame]
      BY <3>2 DEF Resized
    <3> QED BY <3>1, <3>3, SequenceOf, Zenon
  <2>3. ring' = [buf |-> Resized(n), write_pos |-> 0, count |-> 0, total |-> 0]
    BY <1>2 DEF Start
  <2> HIDE DEF n
  <2>4. ring' \in Rings
    BY <2>2, <2>3 DEF Rings
  <2>5. loc' \in [has_prev : BOOLEAN, trigger_point : BOOLEAN, current_state : States]
    BY <1>2 DEF Start, Types
  <2>6. state' \in States /\ thread' \in Places /\ cached' \in Seq(Frame) /\ last_total' \in Nat
    BY <1>2 DEF Start, States, Places
  <2>7. depth_' \in Nat \ {0}
    BY <1>2 DEF Start, Types
  <2> QED BY <2>4, <2>5, <2>6, <2>7 DEF Types
<1>3. CASE Refresh
  <2>1. cached \o NewSamples \in Seq(Frame)
    BY NewSamplesType DEF Types
  <2>2. cached' \in Seq(Frame)
    <3> DEFINE all == cached \o NewSamples
    <3>1. depth_ \in Nat
      BY DEF Types
    <3>2. cached' = SubSeq(all, Len(all) - MinOf(Len(all), depth_) + 1, Len(all))
      BY <1>3 DEF Refresh
    <3>3. all \in Seq(Frame)
      BY <2>1
    <3> HIDE DEF all
    <3>4. Len(all) \in Nat
      BY <3>3
    <3>5. Len(all) - MinOf(Len(all), depth_) + 1 \in 1 .. Len(all) + 1
      BY <3>1, <3>4, KeptFrom
    <3> QED BY <3>2, <3>3, <3>4, <3>5
  <2>3. last_total' \in Nat
    BY <1>3 DEF Refresh, Types, Rings
  <2> QED BY <1>3, <2>2, <2>3 DEF Refresh, Types, loopVars
<1>4. CASE ClearWaveforms
  <2>1. ring' \in Rings
    BY <1>4 DEF ClearWaveforms, Types, Rings
  <2>2. cached' \in Seq(Frame)
    BY <1>4 DEF ClearWaveforms
  <2> QED BY <1>4, <2>1, <2>2 DEF ClearWaveforms, Types
<1>5. CASE Join
  BY <1>5 DEF Join, Types, loopVars, viewVars, States, Places
<1>6. CASE \E d \in Depths : SetDepth(d)
  BY <1>6, EngineAssumption DEF SetDepth, Types, loopVars, viewVars
<1>7. CASE \/ Stopped \/ CheckState \/ Finish \/ StopCapture
           \/ \E m \in Modes : Run(m)
           \/ \E m \in Modes \ {"SINGLE"}, r \in Ratios : DialogOk(m, r)
  BY <1>7 DEF Stopped, CheckState, Finish, StopCapture, Run, DialogOk, Types, loopVars, viewVars
<1>8. CASE UNCHANGED vars
  BY <1>8 DEF vars, Types, loopVars, viewVars
<1> QED BY <1>1, <1>2, <1>3, <1>4, <1>5, <1>6, <1>7, <1>8 DEF Next, windowStep

---------------------------------------------------------------------------
(* The engine is stopped exactly when its thread is joined                 *)

\* A new engine is stopped and has no thread.
LEMMA StopInit == Init => StopInv
  BY DEF Init, StopInv, Idle

\* While the capture thread exists, the window is either capturing or about
\* to join it; the thread's own steps change neither.
LEMMA StopStep == EInv /\ [Next]_vars => StopInv'
<1> SUFFICES ASSUME Types, StopInv, [Next]_vars PROVE StopInv'
  BY DEF EInv
<1>1. CASE captureLoop
  <2>1. state # "STOPPED" /\ thread # "none"
    BY <1>1 DEF StopInv, captureLoop, Sample, Evaluate, Rearm, Store, Stored, Wait
  <2>2. state' # "STOPPED" /\ thread' # "none"
    BY <1>1, <2>1 DEF captureLoop, Sample, Evaluate, Rearm, Store, Stored, Wait
  <2>3. gui' = gui /\ capturing_' = capturing_
    BY <1>1 DEF captureLoop, Sample, Evaluate, Rearm, Store, Stored, Wait, threadOnly
  <2> QED BY <2>1, <2>2, <2>3 DEF StopInv
<1>2. ASSUME NEW then \in Thens, Stop(then), gui[1] \in {"idle", "check"},
             UNCHANGED <<state, thread, capturing_>>
      PROVE  StopInv'
  <2>1. CASE state = "STOPPED"
    BY <1>2, <2>1 DEF Stop, StopInv, Thens
  <2>2. CASE state # "STOPPED"
    <3>1. gui'[1] = "join" /\ gui'[2] = then
      BY <1>2, <2>2 DEF Stop
    <3> QED BY <1>2, <3>1 DEF StopInv
  <2> QED BY <2>1, <2>2
<1>3. CASE \E m \in Modes : Run(m)
  <2>1. PICK m \in Modes : Run(m)
    BY <1>3
  <2>2. <<"start", m>> \in Thens /\ gui[1] = "idle"
    BY <2>1 DEF Thens, Run, Idle
  <2> QED BY <1>2, <2>1, <2>2 DEF Run
<1>4. CASE StopCapture
  <2>1. <<"stopped">> \in Thens /\ gui[1] = "idle"
    BY <1>4 DEF Thens, StopCapture, Idle
  <2> QED BY <1>2, <1>4, <2>1 DEF StopCapture
<1>5. CASE CheckState
  <2>1. <<"finish">> \in Thens /\ gui[1] = "check"
    BY <1>5 DEF Thens, CheckState
  <2>2. UNCHANGED <<state, thread, capturing_>>
    BY <1>5 DEF CheckState
  <2>3. CASE IsDone /\ capturing_
    BY <1>2, <1>5, <2>1, <2>2, <2>3 DEF CheckState
  <2>4. CASE ~(IsDone /\ capturing_)
    BY <1>5, <2>1, <2>2, <2>4 DEF CheckState, Idle, StopInv
  <2> QED BY <2>3, <2>4
<1>6. CASE Join
  <2>1. state' = "STOPPED" /\ thread' = "none" /\ gui' \in Thens
    BY <1>6 DEF Join, ThreadJoined, StopInv
  <2>2. gui'[1] \in {"start", "stopped", "finish"}
    BY <2>1 DEF Thens
  <2> QED BY <2>1, <2>2 DEF StopInv
<1>7. CASE Start
  BY <1>7 DEF Start, Idle, StopInv
<1>8. CASE Stopped
  BY <1>8 DEF Stopped, AfterStop, StopInv
<1>9. CASE Refresh
  <2>1. gui' \in {<<"idle">>, <<"check">>} /\ UNCHANGED <<state, thread, capturing_>>
    BY <1>9 DEF Refresh, Idle
  <2>2. gui[1] = "refresh" \/ (gui[1] = "idle" /\ capturing_)
    BY <1>9 DEF Refresh, Idle
  <2> QED BY <2>1, <2>2 DEF StopInv
<1>10. CASE Finish
  BY <1>10 DEF Finish, Idle, StopInv
<1>11. CASE \/ ClearWaveforms \/ UNCHANGED vars
            \/ \E d \in Depths : SetDepth(d)
            \/ \E m \in Modes \ {"SINGLE"}, r \in Ratios : DialogOk(m, r)
  BY <1>11 DEF ClearWaveforms, vars, SetDepth, DialogOk, StopInv
<1> QED BY <1>1, <1>3, <1>4, <1>5, <1>6, <1>7, <1>8, <1>9, <1>10, <1>11 DEF Next, windowStep

---------------------------------------------------------------------------
(* What is in the ring                                                     *)

\* A new engine's ring is empty.
LEMMA RingInit == Init => RingInv
  BY DEF Init, RingInv, InPlace, Size

\* The write position after a store, as the code computes it.
LEMMA NextSlot ==
  ASSUME NEW n \in Nat \ {0}, NEW t \in Nat
  PROVE  ((t % n) + 1) % n = (t + 1) % n
<1>1. t % n \in 0 .. n - 1
  BY DivMod
<1>2. (t + 1) % n = IF (t % n) + 1 < n THEN (t % n) + 1 ELSE 0
  BY ModStep
<1> DEFINE w == (t % n) + 1
<1>3. w \in 0 .. 2 * n - 1
  BY <1>1
<1>4. w % n = IF w < n THEN w ELSE w - n
  <2> HIDE DEF w
  <2> QED BY <1>3, ModWrap
<1> QED BY <1>1, <1>2, <1>4

\* A frame goes to the slot of the oldest one, and no other frame moves.
LEMMA RingStore ==
  ASSUME NEW n \in Nat \ {0}, NEW t \in Nat, NEW buf \in Seq(Frame), Len(buf) = n,
         NEW f \in Frame, f.n = t + 1,
         InPlace(buf, n, t),
         NEW b, b = [buf EXCEPT ![(t % n) + 1] = f]
  PROVE  Len(b) = n /\ InPlace(b, n, t + 1)
<1> DEFINE slot == (t % n) + 1
<1>1. t % n \in 0 .. n - 1
  BY DivMod
<1>2. slot \in 1 .. n /\ Len(b) = n
  <2>1. slot \in 1 .. n
    BY <1>1
  <2>2. b = [buf EXCEPT ![slot] = f]
    OBVIOUS
  <2> HIDE DEF slot
  <2>3. Len([buf EXCEPT ![slot] = f]) = Len(buf)
    BY SequenceExcept
  <2> QED BY <2>1, <2>2, <2>3
<1>3. DOMAIN buf = 1 .. n
  OBVIOUS
<1>4. b[slot] = f /\ \A k \in 1 .. n : k # slot => b[k] = buf[k]
  BY <1>2, <1>3
<1>5. ASSUME NEW j \in 1 .. t, j + n > t + 1
      PROVE  b[((j - 1) % n) + 1].n = j
  <2> DEFINE d == t - j + 1
             s == (j - 1) % n
             w == t % n
  <2>1. d \in 0 .. n /\ d \in 1 .. n - 1 /\ d <= t /\ j - 1 = t - d
    BY <1>5
  <2>2. (t - d) % n = IF d <= (t % n) THEN (t % n) - d ELSE (t % n) - d + n
    <3> HIDE DEF d
    <3> QED BY <2>1, ModBack, Zenon
  <2>3. s = IF d <= w THEN w - d ELSE w - d + n
    BY <2>1, <2>2
  <2> HIDE DEF d, s, w
  <2>4. w \in 0 .. n - 1
    BY <1>1 DEF w
  <2>5. s # w /\ s + 1 \in 1 .. n
    BY <2>1, <2>3, <2>4
  <2>6. b[s + 1] = buf[s + 1]
    <3>1. s + 1 # slot
      BY <2>3, <2>4, <2>5 DEF w, d
    <3> HIDE DEF slot
    <3> QED BY <1>4, <2>5, <3>1
  <2>7. buf[s + 1].n = j
    BY <1>5 DEF s, InPlace
  <2> QED BY <2>6, <2>7 DEF s
<1>6. ASSUME NEW j \in 1 .. t + 1, j + n > t + 1
      PROVE  b[((j - 1) % n) + 1].n = j
  <2>1. CASE j = t + 1
    BY <1>4, <2>1
  <2>2. CASE j # t + 1
    BY <1>5, <1>6, <2>2
  <2> QED BY <2>1, <2>2
<1> QED BY <1>2, <1>6 DEF InPlace

\* Only captureLoop(), start() and clearSamples() touch the ring.
LEMMA RingStep == EInv /\ [Next]_vars => RingInv'
<1> SUFFICES ASSUME Types, StopInv, RingInv, [Next]_vars PROVE RingInv'
  BY DEF EInv
<1>1. Size \in Nat /\ ring \in Rings
  BY SizeType DEF Types
<1>2. ASSUME UNCHANGED ring, thread' # "none" => thread # "none" PROVE RingInv'
  BY <1>2 DEF RingInv, Size
<1>3. CASE Store
  <2> DEFINE f == [n |-> ring.total + 1, trigger_point |-> loc.trigger_point]
             b == [ring.buf EXCEPT ![(ring.total % Size) + 1] = f]
  <2>1. Size \in Nat \ {0} /\ ring.total \in Nat /\ ring.buf \in Seq(Frame) /\ Len(ring.buf) = Size
        /\ ring.write_pos = ring.total % Size
    BY <1>1, <1>3 DEF Store, RingInv, Rings, Size
  <2>2. f \in Frame /\ f.n = ring.total + 1
    BY <2>1 DEF Frame, Types
  <2>3. ring'.buf = b /\ ring'.total = ring.total + 1
        /\ ring'.write_pos = ((ring.total % Size) + 1) % Size
    BY <1>3, <2>1 DEF Store, NextPos
  <2> HIDE DEF f
  <2>4. Len(b) = Size /\ InPlace(b, Size, ring.total + 1)
    <3>1. InPlace(ring.buf, Size, ring.total)
      BY DEF RingInv
    <3> QED BY <2>1, <2>2, <3>1, RingStore
  <2>5. ((ring.total % Size) + 1) % Size = (ring.total + 1) % Size
    BY <2>1, NextSlot, Zenon
  <2> HIDE DEF b
  <2>6. Size' = Size
    BY <2>3, <2>4 DEF Size
  <2>7. ring'.write_pos = ring'.total % Size'
    BY <2>3, <2>5, <2>6, Zenon
  <2>8. InPlace(ring'.buf, Size', ring'.total)
    BY <2>3, <2>4, <2>6, Zenon
  <2> QED BY <2>1, <2>6, <2>7, <2>8 DEF RingInv
<1>4. CASE Start
  <2> DEFINE m == IF depth_ < MinDepth THEN MinDepth ELSE depth_
  <2>1. m \in Nat \ {0}
    BY EngineAssumption DEF Types
  <2>2. ring' = [buf |-> Resized(m), write_pos |-> 0, count |-> 0, total |-> 0]
    BY <1>4 DEF Start
  <2> HIDE DEF m
  <2>3. Size' = m
    BY <2>1, <2>2 DEF Size, Resized
  <2>4. 0 % m = 0
    BY <2>1, ModWrap
  <2> QED BY <2>1, <2>2, <2>3, <2>4 DEF RingInv, InPlace
<1>5. CASE ClearWaveforms
  <2>1. CASE state = "STOPPED"
    <3>1. ring' = [ring EXCEPT !.write_pos = 0, !.count = 0, !.total = 0] /\ thread' = "none"
      BY <1>5, <2>1 DEF ClearWaveforms, StopInv
    <3>2. Size' = Size /\ ring'.write_pos = 0 /\ ring'.total = 0
      BY <1>1, <3>1 DEF Rings, Size
    <3>3. Size # 0 => 0 % Size = 0
      BY <1>1, ModWrap
    <3> QED BY <3>1, <3>2, <3>3 DEF RingInv, InPlace
  <2>2. CASE state # "STOPPED"
    BY <1>2, <1>5, <2>2 DEF ClearWaveforms
  <2> QED BY <2>1, <2>2
<1>6. CASE Sample \/ Evaluate \/ Rearm \/ Stored \/ Wait
  BY <1>2, <1>6 DEF Sample, Evaluate, Rearm, Stored, Wait
<1>7. CASE \/ Join \/ Stopped \/ Refresh \/ CheckState \/ Finish \/ StopCapture
           \/ \E m \in Modes : Run(m)
           \/ \E d \in Depths : SetDepth(d)
           \/ \E m \in Modes \ {"SINGLE"}, r \in Ratios : DialogOk(m, r)
           \/ UNCHANGED vars
  BY <1>2, <1>7 DEF Join, Stopped, Refresh, CheckState, Finish, StopCapture, Run, SetDepth,
     DialogOk, ThreadJoined, vars
<1> QED BY <1>3, <1>4, <1>5, <1>6, <1>7 DEF Next, windowStep, captureLoop

---------------------------------------------------------------------------
(* What the window shows                                                   *)

\* getNewSamples() returns the newest frames, whether or not the ring has
\* wrapped since the last call.
LEMMA NewFrames ==
  ASSUME Types, RingInv, ring.total > last_total
  PROVE  \A i \in 1 .. Len(NewSamples) :
            NewSamples[i].n = ring.total - Len(NewSamples) + i
<1>1. Size \in Nat \ {0} /\ ring.total \in Nat /\ last_total \in Nat
      /\ ring.write_pos = ring.total % Size
  BY SizeType DEF Types, Rings, RingInv
<1>2. \A j \in 1 .. ring.total :
        j + Size > ring.total => ring.buf[((j - 1) % Size) + 1].n = j
  BY DEF RingInv, InPlace
<1>3. CASE ring.total - last_total > Size
  <2>1. NewSamples = [i \in 1 .. Size |-> At((ring.write_pos + i - 1) % Size)]
    BY <1>1, <1>3 DEF NewSamples
  <2>2. Len(NewSamples) = Size
    BY <1>1, <1>3, NewSamplesType
  <2>3. ASSUME NEW i \in 1 .. Size
        PROVE  At((ring.write_pos + i - 1) % Size).n = ring.total - Size + i
    <3> DEFINE n == Size
               t == ring.total
               d == n - i + 1
               w == (t % n) + i - 1
    <3>1. d \in 0 .. n /\ d <= t /\ t - d = (t - n + i) - 1 /\ n \in Nat \ {0} /\ t \in Nat
      BY <1>1, <1>3
    <3>2. t % n \in 0 .. n - 1
      BY <3>1, DivMod
    <3>3. w \in 0 .. 2 * n - 1
      BY <3>1, <3>2
    <3> HIDE DEF n, t
    <3>4. (t - d) % n = IF d <= (t % n) THEN (t % n) - d ELSE (t % n) - d + n
      <4> HIDE DEF d
      <4> QED BY <3>1, ModBack
    <3>5. w % n = IF w < n THEN w ELSE w - n
      <4> HIDE DEF w
      <4> QED BY <3>1, <3>3, ModWrap
    <3>6. w % n = ((t - n + i) - 1) % n
      BY <3>1, <3>2, <3>4, <3>5
    <3>7. ring.buf[(((t - n + i) - 1) % n) + 1].n = t - n + i
      <4>1. t - n + i \in 1 .. t /\ (t - n + i) + n > t
        BY <1>1, <1>3, <3>1 DEF n, t
      <4> QED BY <1>2, <4>1 DEF n, t
    <3>8. At(w % n).n = t - n + i
      BY <3>6, <3>7 DEF At
    <3> QED BY <1>1, <3>8 DEF n, t
  <2> HIDE DEF NewSamples
  <2> QED BY <2>1, <2>2, <2>3
<1>4. CASE ~(ring.total - last_total > Size)
  <2> DEFINE m == ring.total - last_total
  <2>1. NewSamples = [i \in 1 .. m |-> At((last_total + i - 1) % Size)]
    BY <1>1, <1>4 DEF NewSamples
  <2>2. Len(NewSamples) = m
    BY <1>1, <1>4, NewSamplesType
  <2>3. ASSUME NEW i \in 1 .. m
        PROVE  At((last_total + i - 1) % Size).n = last_total + i
    <3>1. last_total + i \in 1 .. ring.total /\ (last_total + i) + Size > ring.total
      BY <1>1, <1>4
    <3>2. (last_total + i) - 1 = last_total + i - 1
      BY <1>1
    <3> QED BY <1>2, <3>1, <3>2, Zenon DEF At
  <2> HIDE DEF NewSamples
  <2> QED BY <1>1, <2>1, <2>2, <2>3
<1> QED BY <1>3, <1>4

\* A frame has a number.
LEMMA FrameNumber ==
  ASSUME NEW s \in Seq(Frame), NEW i \in 1 .. Len(s)
  PROVE  s[i].n \in Nat
<1>1. s[i] \in Frame
  OBVIOUS
<1> QED BY <1>1 DEF Frame

\* The length of two sequences in a row.
LEMMA LengthOfBoth ==
  ASSUME NEW S, NEW s \in Seq(S), NEW u \in Seq(S)
  PROVE  Len(s) \in Nat /\ Len(u) \in Nat /\ Len(s \o u) = Len(s) + Len(u)
  BY SMT

\* Appending the newest frames keeps the newest part without a gap.
LEMMA AppendWhole ==
  ASSUME NEW n \in Nat \ {0}, NEW last \in Nat, NEW t \in Nat, last < t,
         NEW s \in Seq(Frame), NewestWhole(s, last, n), NEW new \in Seq(Frame),
         Len(new) = IF t - last > n THEN n ELSE t - last,
         \A i \in 1 .. Len(new) : new[i].n = t - Len(new) + i
  PROVE  NewestWhole(s \o new, t, n)
<1> DEFINE m == Len(new)
           k == Len(s)
           all == s \o new
<1>1. m \in Nat \ {0} /\ k \in Nat /\ Len(all) = k + m /\ m <= n /\ m <= t - last
      /\ (m = n \/ m = t - last)
  <2>1. m \in Nat /\ k \in Nat /\ Len(all) = k + m
    BY LengthOfBoth, Zenon
  <2>2. m = IF t - last > n THEN n ELSE t - last
    OBVIOUS
  <2> HIDE DEF m, k, all
  <2> QED BY <2>1, <2>2
<1>2. \A i \in 1 .. k : all[i] = s[i]
  OBVIOUS
<1>3. \A i \in 1 .. m : all[k + i].n = t - m + i
  OBVIOUS
<1>4. /\ \A i \in 1 .. k - 1 : s[i].n < s[i + 1].n
      /\ \A i \in 1 .. k : i + n > k => s[i].n + k = last + i
  BY DEF NewestWhole
<1>5. \A i \in 1 .. k : s[i].n \in Nat
  BY FrameNumber
<1> HIDE DEF m, k, all
<1>6. \A i \in 1 .. k + m - 1 : all[i].n < all[i + 1].n
  <2> SUFFICES ASSUME NEW i \in 1 .. k + m - 1 PROVE all[i].n < all[i + 1].n
    OBVIOUS
  <2>1. CASE i < k
    <3>1. i \in 1 .. k - 1 /\ i \in 1 .. k /\ i + 1 \in 1 .. k
      BY <1>1, <2>1
    <3>2. all[i] = s[i] /\ all[i + 1] = s[i + 1] /\ s[i].n < s[i + 1].n
      BY <1>2, <1>4, <3>1
    <3> QED BY <3>2
  <2>2. CASE i = k
    <3>1. all[i].n + k = last + k
      <4>1. i \in 1 .. k /\ i + n > k
        BY <1>1, <2>2
      <4>2. all[i] = s[i] /\ s[i].n + k = last + i
        BY <1>2, <1>4, <4>1
      <4> QED BY <2>2, <4>2
    <3>2. all[k + 1].n = t - m + 1
      BY <1>1, <1>3
    <3>3. all[i].n \in Nat
      <4>1. i \in 1 .. k
        BY <1>1, <2>2
      <4> QED BY <1>2, <1>5, <4>1
    <3>4. all[i].n < t - m + 1
      BY <1>1, <3>1, <3>3
    <3> QED BY <2>2, <3>2, <3>4
  <2>3. CASE i > k
    <3>1. i - k \in 1 .. m /\ (i - k) + 1 \in 1 .. m /\ k + (i - k) = i /\ k + ((i - k) + 1) = i + 1
      BY <1>1, <2>3
    <3>2. all[k + (i - k)].n = t - m + (i - k)
      BY <1>3, <3>1
    <3>3. all[k + ((i - k) + 1)].n = t - m + ((i - k) + 1)
      BY <1>3, <3>1
    <3> QED BY <1>1, <3>1, <3>2, <3>3
  <2> QED BY <1>1, <2>1, <2>2, <2>3
<1>7. \A i \in 1 .. k + m : i + n > k + m => all[i].n + (k + m) = t + i
  <2> SUFFICES ASSUME NEW i \in 1 .. k + m, i + n > k + m PROVE all[i].n + (k + m) = t + i
    OBVIOUS
  <2>1. CASE i <= k
    <3>1. m = t - last /\ i \in 1 .. k /\ i + n > k
      BY <1>1, <2>1
    <3>2. all[i].n + k = last + i /\ all[i].n \in Nat
      BY <1>2, <1>4, <1>5, <3>1
    <3> DEFINE v == all[i].n
    <3>3. v + k = last + i /\ v \in Nat /\ i \in Nat
      BY <3>1, <3>2
    <3>4. v + (k + m) = t + i
      <4> HIDE DEF v
      <4> QED BY <1>1, <3>1, <3>3
    <3> QED BY <3>4
  <2>2. CASE i > k
    <3>1. i - k \in 1 .. m /\ k + (i - k) = i
      BY <1>1, <2>2
    <3>2. all[k + (i - k)].n = t - m + (i - k)
      BY <1>3, <3>1
    <3> QED BY <1>1, <3>1, <3>2
  <2> QED BY <1>1, <2>1, <2>2
<1>8. Len(all) = k + m
  BY <1>1
<1>9. NewestWhole(all, t, n)
  <2>1. \A i \in 1 .. Len(all) - 1 : all[i].n < all[i + 1].n
    <3>1. Len(all) - 1 = k + m - 1
      BY <1>1, <1>8
    <3> QED BY <1>6, <3>1, Zenon
  <2>2. \A i \in 1 .. Len(all) : i + n > Len(all) => all[i].n + Len(all) = t + i
    BY <1>7, <1>8
  <2> QED BY <2>1, <2>2 DEF NewestWhole
<1> QED BY <1>9 DEF all

\* So does cutting off the oldest ones.
LEMMA TrimWhole ==
  ASSUME NEW n \in Nat, NEW last \in Nat, NEW s \in Seq(Frame), NewestWhole(s, last, n),
         NEW d \in Nat
  PROVE  NewestWhole(SubSeq(s, Len(s) - MinOf(Len(s), d) + 1, Len(s)), last, n)
<1> DEFINE k == Len(s)
           c == k - MinOf(k, d)
           u == SubSeq(s, c + 1, k)
<1>1. k \in Nat /\ c \in 0 .. k
  BY DEF MinOf
<1> HIDE DEF c
<1>2. Len(u) = k - c /\ \A i \in 1 .. k - c : u[i] = s[c + i]
  BY <1>1
<1>3. /\ \A i \in 1 .. k - 1 : s[i].n < s[i + 1].n
      /\ \A i \in 1 .. k : i + n > k => s[i].n + k = last + i
  BY DEF NewestWhole
<1>4. \A i \in 1 .. k : s[i].n \in Nat
  BY FrameNumber
<1> HIDE DEF k, u
<1>5. \A i \in 1 .. (k - c) - 1 : u[i].n < u[i + 1].n
  <2> SUFFICES ASSUME NEW i \in 1 .. (k - c) - 1 PROVE u[i].n < u[i + 1].n
    OBVIOUS
  <2>1. c + i \in 1 .. k - 1 /\ c + (i + 1) = (c + i) + 1
    BY <1>1
  <2>2. u[i] = s[c + i] /\ u[i + 1] = s[c + (i + 1)]
    BY <1>1, <1>2
  <2>3. s[c + i].n < s[(c + i) + 1].n
    BY <1>3, <2>1
  <2> QED BY <2>1, <2>2, <2>3
<1>6. \A i \in 1 .. k - c : i + n > k - c => u[i].n + (k - c) = last + i
  <2> SUFFICES ASSUME NEW i \in 1 .. k - c, i + n > k - c PROVE u[i].n + (k - c) = last + i
    OBVIOUS
  <2>1. c + i \in 1 .. k /\ (c + i) + n > k
    BY <1>1
  <2>2. u[i] = s[c + i] /\ s[c + i].n + k = last + (c + i) /\ s[c + i].n \in Nat
    BY <1>2, <1>3, <1>4, <2>1
  <2> QED BY SMTT(60), <1>1, <2>1, <2>2
<1> QED BY <1>1, <1>2, <1>5, <1>6 DEF NewestWhole, u, c, k

\* A new window shows nothing.
LEMMA ViewInit == Init => ViewInv
  BY DEF Init, ViewInv, NewestWhole

\* refreshFromCapture() appends the new frames; start() and clear begin anew.
LEMMA ViewStep == EInv /\ [Next]_vars => ViewInv'
<1> SUFFICES ASSUME Types, StopInv, RingInv, ViewInv, [Next]_vars PROVE ViewInv'
  BY DEF EInv
<1>1. Size \in Nat /\ ring \in Rings
  BY SizeType DEF Types
<1>2. ASSUME UNCHANGED viewVars, Size' = Size PROVE ViewInv'
  BY <1>2 DEF ViewInv, viewVars, NewestWhole
<1>3. ASSUME cached' = <<>> PROVE ViewInv'
  BY <1>3 DEF ViewInv, NewestWhole
<1>4. CASE Refresh
  <2> DEFINE all == cached \o NewSamples
             last == IF ring.total <= last_total THEN last_total ELSE ring.total
  <2>1. depth_ \in Nat /\ cached \in Seq(Frame) /\ last_total \in Nat /\ ring.total \in Nat
        /\ last \in Nat
    BY <1>1 DEF Types, Rings
  <2>2. NewSamples \in Seq(Frame)
    BY NewSamplesType
  <2>3. NewestWhole(all, last, Size)
    <3>1. CASE ring.total <= last_total
      <4>1. NewSamples = <<>>
        BY <3>1 DEF NewSamples
      <4>2. all = cached
        BY <2>1, <4>1
      <4> QED BY <3>1, <4>2 DEF ViewInv
    <3>2. CASE ring.total > last_total
      <4>1. Size # 0
        BY <2>1, <3>2 DEF RingInv
      <4>2. Len(NewSamples) = IF ring.total - last_total > Size THEN Size
                              ELSE ring.total - last_total
        BY <2>1, <3>2, NewSamplesType
      <4>3. \A i \in 1 .. Len(NewSamples) :
               NewSamples[i].n = ring.total - Len(NewSamples) + i
        BY <3>2, NewFrames
      <4> HIDE DEF NewSamples
      <4>4. NewestWhole(all, ring.total, Size)
        BY <1>1, <2>1, <2>2, <3>2, <4>1, <4>2, <4>3, AppendWhole DEF ViewInv
      <4> QED BY <2>1, <3>2, <4>4
    <3> QED BY <2>1, <3>1, <3>2
  <2>4. all \in Seq(Frame)
    BY <2>1, <2>2
  <2>5. cached' = SubSeq(all, Len(all) - MinOf(Len(all), depth_) + 1, Len(all))
        /\ last_total' = last /\ Size' = Size
    BY <1>4 DEF Refresh, Size
  <2> HIDE DEF all, last
  <2>6. NewestWhole(SubSeq(all, Len(all) - MinOf(Len(all), depth_) + 1, Len(all)), last, Size)
    BY <1>1, <2>1, <2>3, <2>4, TrimWhole
  <2> QED BY <2>5, <2>6, Zenon DEF ViewInv
<1>5. CASE Store
  <2> DEFINE f == [n |-> ring.total + 1, trigger_point |-> loc.trigger_point]
  <2>1. ring.buf \in Seq(Frame)
    BY <1>1 DEF Rings
  <2>2. f \in Frame
    BY <1>1 DEF Frame, Types, Rings
  <2>3. ring'.buf = [ring.buf EXCEPT ![ring.write_pos + 1] = f]
    BY <1>5 DEF Store
  <2> HIDE DEF f
  <2>4. Len([ring.buf EXCEPT ![ring.write_pos + 1] = f]) = Len(ring.buf)
    BY <2>1, <2>2, SequenceExcept
  <2> QED BY <1>2, <1>5, <2>3, <2>4 DEF Store, threadOnly, Size
<1>6. CASE Start \/ ClearWaveforms
  BY <1>3, <1>6 DEF Start, ClearWaveforms
<1>7. CASE Sample \/ Evaluate \/ Rearm \/ Stored \/ Wait
  BY <1>2, <1>7 DEF Sample, Evaluate, Rearm, Stored, Wait, threadOnly, Size
<1>8. CASE \/ Join \/ Stopped \/ CheckState \/ Finish \/ StopCapture
           \/ \E m \in Modes : Run(m)
           \/ \E d \in Depths : SetDepth(d)
           \/ \E m \in Modes \ {"SINGLE"}, r \in Ratios : DialogOk(m, r)
           \/ UNCHANGED vars
  BY <1>2, <1>8 DEF Join, Stopped, CheckState, Finish, StopCapture, Run, SetDepth, DialogOk,
     vars, Size
<1> QED BY <1>4, <1>5, <1>6, <1>7, <1>8 DEF Next, windowStep, captureLoop

---------------------------------------------------------------------------

\* The invariant holds throughout.
LEMMA Inductive == EngineSpec => []EInv
<1>1. Init => EInv
  BY TypesInit, StopInit, RingInit, ViewInit DEF EInv
<1>2. EInv /\ [Next]_vars => EInv'
  BY TypesStep, StopStep, RingStep, ViewStep DEF EInv
<1> QED BY <1>1, <1>2, PTL DEF EngineSpec

\* stop() and start(): the engine is stopped exactly when its thread has been
\* joined, and a window that does not capture has stopped its engine.
THEOREM StopJoins == EngineSpec => []StoppedMeansJoined
<1>1. EInv => StoppedMeansJoined
  BY DEF EInv, StopInv, StoppedMeansJoined, Idle
<1> QED BY <1>1, Inductive, PTL

\* getNewSamples() and refreshFromCapture(): however the polls fall between the
\* stores of the thread, what the window shows is in order and its newest part,
\* up to the depth of the ring, has no gap.
THEOREM ViewWhole == EngineSpec => []ViewTail
<1>1. Types /\ ViewInv => ViewTail
  <2> SUFFICES ASSUME Types, ViewInv PROVE ViewTail
    OBVIOUS
  <2> DEFINE shown == Len(cached)
             k == MinOf(shown, Size)
  <2>1. shown \in Nat /\ last_total \in Nat /\ \A i \in 1 .. shown : cached[i].n \in Nat
    BY FrameNumber DEF Types
  <2>2. k \in 0 .. shown /\ k <= Size /\ Size \in Nat
    BY <2>1, SizeType DEF MinOf
  <2>3. \A i \in 1 .. shown - 1 : cached[i].n < cached[i + 1].n
    BY DEF ViewInv, NewestWhole
  <2>4. \A i \in 1 .. shown : i + Size > shown => cached[i].n + shown = last_total + i
    BY DEF ViewInv, NewestWhole
  <2>5. ASSUME NEW i \in 1 .. k PROVE cached[shown - k + i].n = last_total - k + i
    <3> HIDE DEF k, shown
    <3>1. shown - k + i \in 1 .. shown /\ (shown - k + i) + Size > shown
      BY <2>1, <2>2
    <3>2. cached[shown - k + i].n + shown = last_total + (shown - k + i)
      BY <2>4, <3>1
    <3> QED BY <2>1, <2>2, <3>1, <3>2
  <2> QED BY <2>3, <2>5 DEF ViewTail
<1> QED BY <1>1, Inductive, PTL DEF EInv

---------------------------------------------------------------------------
(* What a capture leaves, and its trigger frame                            *)

\* The numbers of the ring and of the view, and the settings.
BoundInv ==
  /\ mode \in Modes /\ ratio \in Ratios /\ depth_ \in Depths
  /\ gui[1] = "start" => gui[2] \in Modes
  /\ ring.count = MinOf(ring.total, Size)
  /\ ring.total <= MaxFrames
  /\ thread \in {"sampled", "rearm", "store"} => ring.total < MaxFrames
  /\ last_total <= MaxFrames /\ Len(cached) <= last_total
  /\ post_trigger_remaining \in Nat

\* A single capture stores one frame. The dialog can leave this mode, not enter it.
SingleInv ==
  mode = "SINGLE" /\ thread # "none" =>
    /\ thread \in {"top", "sampled", "store", "stored", "done"}
    /\ ring.total <= 1 /\ (thread \in {"top", "sampled", "store"} => ring.total = 0)
    /\ state \in {"RUNNING", "COMPLETE"} /\ (state = "COMPLETE" => thread = "done")
    /\ thread \in {"store", "stored"} => loc.current_state = "RUNNING"

\* The window has seen all frames once it stops, or is about to stop, polling.
Finishing == gui[1] = "join" /\ gui[2] = <<"finish">>
Over == (gui[1] \in {"idle", "check"} /\ ~capturing_) \/ gui[1] = "finish" \/ Finishing
PollInv ==
  /\ gui[1] = "check" /\ capturing_ => cached # <<>>
  /\ gui[1] \in {"idle", "check"} /\ capturing_ => thread # "none"
  /\ cached # <<>> => last_total <= ring.total
  /\ Over /\ cached # <<>> => last_total = ring.total
  /\ Finishing => thread = "done"

\* The trigger frame is j; k frames are being stored; the rest are still to come.
Kept(k) ==
  \E j \in 1 .. ring.total : /\ j + Size > ring.total + k + post_trigger_remaining
                             /\ ring.buf[((j - 1) % Size) + 1].trigger_point
TrigInv ==
  state = "TRIGGERED" =>
    /\ post_trigger_remaining < Size
    /\ thread = "store" /\ ~loc.trigger_point => Kept(1)
    /\ thread \in {"stored", "wait", "top", "sampled"} => Kept(0)

FInv == EInv /\ BoundInv /\ SingleInv /\ PollInv /\ TrigInv

\* A share of a number is at most the number.
LEMMA ShareOf ==
  ASSUME NEW s \in Nat, NEW u \in Nat \ {0}, NEW x \in 0 .. u
  PROVE  (s * x) \div u \in 0 .. s
<1> DEFINE a == s * x
           q == a \div u
<1>1. a \in Nat /\ a <= s * u
  BY SMT
<1> HIDE DEF a
<1>2. a = u * q + (a % u) /\ q \in Nat /\ a % u \in 0 .. u - 1
  BY <1>1, DivMod
<1>3. q <= s
  <2> HIDE DEF q
  <2>1. SUFFICES ASSUME q >= s + 1 PROVE FALSE
    BY <1>2
  <2>2. u * q >= u * (s + 1) /\ u * (s + 1) = s * u + u
    BY <1>2, <2>1, SMT
  <2> QED BY <1>1, <1>2, <2>2, SMT
<1> QED BY <1>2, <1>3 DEF a

\* The frames after a trigger are not more than the ring has slots.
LEMMA PostTriggerRange == Types /\ BoundInv => PostTrigger \in 0 .. Size
<1> SUFFICES ASSUME Types, BoundInv PROVE PostTrigger \in 0 .. Size
  OBVIOUS
<1>1. Size \in Nat /\ RatioUnit \in Nat \ {0} /\ RatioUnit - ratio \in 0 .. RatioUnit
  BY SizeType, EngineAssumption DEF BoundInv
<1> QED BY <1>1, ShareOf DEF PostTrigger

\* A store, as a change of the ring.
LEMMA StoreRing ==
  ASSUME Types, RingInv, Store
  PROVE  LET f == [n |-> ring.total + 1, trigger_point |-> loc.trigger_point]
         IN  /\ Size \in Nat \ {0} /\ Size' = Size
             /\ ring'.total = ring.total + 1 /\ ring.total \in Nat
             /\ ring'.count = MinOf(ring.count + 1, Size)
             /\ ring'.buf = [ring.buf EXCEPT ![(ring.total % Size) + 1] = f]
             /\ ring'.buf[(ring.total % Size) + 1] = f
             /\ \A k \in 1 .. Size : k # (ring.total % Size) + 1 => ring'.buf[k] = ring.buf[k]
<1> DEFINE f == [n |-> ring.total + 1, trigger_point |-> loc.trigger_point]
           slot == (ring.total % Size) + 1
<1>1. Size \in Nat \ {0} /\ ring.total \in Nat /\ ring.buf \in Seq(Frame) /\ Len(ring.buf) = Size
      /\ ring.write_pos = ring.total % Size
  BY SizeType DEF Store, RingInv, Rings, Size, Types
<1>2. f \in Frame
  BY <1>1 DEF Frame, Types
<1>3. ring'.buf = [ring.buf EXCEPT ![slot] = f] /\ ring'.total = ring.total + 1
      /\ ring'.count = MinOf(ring.count + 1, Size)
  BY <1>1 DEF Store
<1>4. slot \in 1 .. Size
  <2>1. ring.total % Size \in 0 .. Size - 1
    BY <1>1, DivMod
  <2> QED BY <1>1, <2>1
<1> HIDE DEF f, slot
<1>5. Len([ring.buf EXCEPT ![slot] = f]) = Len(ring.buf)
  BY <1>1, <1>2, SequenceExcept
<1>6. DOMAIN ring.buf = 1 .. Size
  BY <1>1
<1>7. ring'.buf[slot] = f /\ \A k \in 1 .. Size : k # slot => ring'.buf[k] = ring.buf[k]
  BY <1>3, <1>4, <1>6
<1>8. Size' = Size
  BY <1>1, <1>3, <1>5 DEF Size
<1> QED BY <1>1, <1>3, <1>7, <1>8 DEF f, slot

\* The numbers keep to their bounds.
LEMMA BoundStep == FInv /\ [Next]_vars => BoundInv'
<1> SUFFICES ASSUME EInv, Types, StopInv, RingInv, BoundInv, [Next]_vars PROVE BoundInv'
  BY DEF FInv, EInv
<1>1. Size \in Nat /\ ring \in Rings /\ ring.total \in Nat /\ ring.count \in Nat /\ last_total \in Nat
      /\ cached \in Seq(Frame) /\ Len(cached) \in Nat /\ MaxFrames \in Nat
  BY SizeType, EngineAssumption DEF Types, Rings
<1>2. CASE Store
  <2>1. /\ Size \in Nat \ {0} /\ Size' = Size
        /\ ring'.total = ring.total + 1 /\ ring'.count = MinOf(ring.count + 1, Size)
    BY <1>2, StoreRing
  <2>2. ring'.count = MinOf(ring'.total, Size')
    BY <1>1, <2>1 DEF BoundInv, MinOf
  <2>3. ring'.total <= MaxFrames
    BY <1>1, <1>2, <2>1 DEF Store, BoundInv
  <2>4. UNCHANGED <<mode, ratio, depth_, gui, last_total, cached, post_trigger_remaining>> /\ thread' = "stored"
    BY <1>2 DEF Store, threadOnly, trigVars, viewVars
  <2> QED BY <2>2, <2>3, <2>4 DEF BoundInv
<1>3. CASE Evaluate
  <2>1. post_trigger_remaining' \in Nat
    <3>1. PICK fires \in BOOLEAN :
            LET current == IF fires THEN "TRIGGERED" ELSE state
                left == Counted(fires)
                complete == current = "TRIGGERED" /\ left = 0
            IN  post_trigger_remaining' = IF current = "TRIGGERED" /\ ~complete THEN left - 1 ELSE left
      BY <1>3 DEF Evaluate
    <3>2. Counted(fires) \in Nat
      BY <1>1, PostTriggerRange DEF Counted, BoundInv
    <3> QED BY <3>1, <3>2
  <2>2. UNCHANGED <<mode, ratio, depth_, gui, last_total, cached, ring>>
        /\ thread = "sampled"
    BY <1>3 DEF Evaluate, threadOnly, trigVars, viewVars
  <2>3. Size' = Size
    BY <2>2 DEF Size
  <2> QED BY <2>1, <2>2, <2>3 DEF BoundInv
<1>4. CASE Sample
  <2>1. thread' = "sampled" => ring.total < MaxFrames
    BY <1>4 DEF Sample
  <2>2. UNCHANGED <<mode, ratio, depth_, gui, last_total, cached, ring, post_trigger_remaining>>
        /\ thread' \in {"done", "sampled"}
    BY <1>4 DEF Sample, threadOnly, trigVars, viewVars, loopVars
  <2>3. Size' = Size
    BY <2>2 DEF Size
  <2> QED BY <2>1, <2>2, <2>3 DEF BoundInv
<1>5. CASE Rearm \/ Stored \/ Wait
  <2>2. UNCHANGED <<mode, ratio, depth_, gui, last_total, cached, ring, post_trigger_remaining>>
        /\ (thread' \in {"sampled", "rearm", "store"} => thread = "rearm")
    BY <1>5 DEF Rearm, Stored, Wait, threadOnly, trigVars, viewVars, loopVars
  <2>3. Size' = Size
    BY <2>2 DEF Size
  <2> QED BY <2>2, <2>3 DEF BoundInv
<1>6. CASE Start
  <2>1. ring'.count = 0 /\ ring'.total = 0 /\ last_total' = 0 /\ Len(cached') = 0
    BY <1>6 DEF Start
  <2>2. Size' \in Nat
    <3>1. Types'
      BY TypesStep
    <3>2. ring'.buf \in Seq(Frame)
      BY <3>1 DEF Types, Rings
    <3> QED BY <3>2 DEF Size
  <2>3. 0 = MinOf(0, Size')
    BY <2>2 DEF MinOf
  <2>4. mode' \in Modes /\ gui' = Idle /\ thread' = "top" /\ UNCHANGED <<ratio, depth_, post_trigger_remaining>>
    BY <1>6 DEF Start, BoundInv
  <2> QED BY <1>1, <2>1, <2>3, <2>4 DEF BoundInv, Idle
<1>7. CASE Refresh
  <2>1. UNCHANGED <<mode, ratio, depth_, ring, post_trigger_remaining, thread>> /\ gui'[1] # "start"
    BY <1>7 DEF Refresh, trigVars, loopVars, Idle
  <2>2. Size' = Size
    BY <2>1 DEF Size
  <2>3. last_total' = IF ring.total <= last_total THEN last_total ELSE ring.total
    BY <1>7 DEF Refresh
  <2>4. last_total' <= MaxFrames
    BY <1>1, <2>3 DEF BoundInv
  <2>5. Len(cached') <= last_total'
    <3> DEFINE all == cached \o NewSamples
    <3>1. NewSamples \in Seq(Frame)
          /\ Len(NewSamples) = IF ring.total <= last_total THEN 0
                              ELSE IF ring.total - last_total > Size THEN Size
                              ELSE ring.total - last_total
      BY NewSamplesType
    <3> HIDE DEF NewSamples
    <3>2. all \in Seq(Frame) /\ Len(all) = Len(cached) + Len(NewSamples) /\ Len(NewSamples) \in Nat
      BY SMTT(60), <1>1, <3>1, LengthOfBoth
    <3>3. cached' = SubSeq(all, Len(all) - MinOf(Len(all), depth_) + 1, Len(all))
      BY <1>7 DEF Refresh, NewSamples
    <3>4. depth_ \in Nat
      BY DEF Types
    <3> HIDE DEF all
    <3>5. Len(all) \in Nat
      BY <3>2
    <3>6. Len(cached') = MinOf(Len(all), depth_) /\ MinOf(Len(all), depth_) <= Len(all)
      BY <3>2, <3>3, <3>4, <3>5 DEF MinOf
    <3>7. Len(all) <= last_total'
      BY <1>1, <2>3, <3>1, <3>2 DEF BoundInv
    <3>8. MinOf(Len(all), depth_) \in Nat /\ last_total' \in Nat
      BY <1>1, <2>3, <3>4, <3>5 DEF MinOf
    <3> QED BY <3>5, <3>6, <3>7, <3>8
  <2> QED BY <2>1, <2>2, <2>4, <2>5 DEF BoundInv
<1>8. CASE ClearWaveforms
  <2>1. UNCHANGED <<mode, ratio, depth_, gui, last_total, thread>> /\ Len(cached') = 0
    BY <1>8 DEF ClearWaveforms, trigVars
  <2>2. post_trigger_remaining' \in Nat
    BY <1>8 DEF ClearWaveforms, BoundInv
  <2>3. ring'.count = MinOf(ring'.total, Size') /\ ring'.total <= MaxFrames
        /\ (thread \in {"sampled", "rearm", "store"} => ring'.total < MaxFrames)
    <3>1. CASE state = "STOPPED"
      <4>1. ring' = [ring EXCEPT !.write_pos = 0, !.count = 0, !.total = 0] /\ thread = "none"
        BY <1>8, <3>1 DEF ClearWaveforms, StopInv
      <4>2. ring'.total = 0 /\ ring'.count = 0 /\ Size' = Size
        BY <1>1, <4>1 DEF Rings, Size
      <4>3. 0 = MinOf(0, Size)
        BY <1>1 DEF MinOf
      <4> QED BY <1>1, <4>1, <4>2, <4>3
    <3>2. CASE state # "STOPPED"
      BY <1>8, <3>2 DEF ClearWaveforms, BoundInv, Size
    <3> QED BY <3>1, <3>2
  <2> QED BY <1>1, <2>1, <2>2, <2>3 DEF BoundInv
<1>9. CASE Join
  <2>1. UNCHANGED <<mode, ratio, depth_, last_total, cached, ring, post_trigger_remaining>>
        /\ thread' \in {thread, "none"} /\ gui' = gui[2] /\ gui' \in Thens
    BY <1>9 DEF Join, trigVars, loopVars, viewVars, StopInv
  <2>2. gui'[1] = "start" => gui'[2] \in Modes
    BY <2>1 DEF Thens
  <2>3. Size' = Size
    BY <2>1 DEF Size
  <2> QED BY <2>1, <2>2, <2>3 DEF BoundInv
<1>10. ASSUME UNCHANGED <<mode, ratio, depth_, last_total, cached, ring, post_trigger_remaining, thread>>,
              gui'[1] = "start" => gui'[2] \in Modes
       PROVE  BoundInv'
  BY <1>10 DEF BoundInv, Size
<1>11. CASE \/ Stopped \/ CheckState \/ Finish \/ StopCapture
            \/ \E m \in Modes : Run(m)
            \/ UNCHANGED vars
  <2>1. UNCHANGED <<mode, ratio, depth_, last_total, cached, ring, post_trigger_remaining, thread>>
    BY <1>11 DEF Stopped, CheckState, Finish, StopCapture, Run, vars, trigVars, loopVars, viewVars
  <2>2. gui'[1] = "start" => gui'[2] \in Modes
    BY <1>11 DEF Stopped, AfterStop, CheckState, Finish, StopCapture, Run, vars, Stop, Idle, BoundInv
  <2> QED BY <1>10, <2>1, <2>2
<1>12. CASE \/ \E d \in Depths : SetDepth(d)
            \/ \E m \in Modes \ {"SINGLE"}, r \in Ratios : DialogOk(m, r)
  <2>1. UNCHANGED <<gui, last_total, cached, ring, post_trigger_remaining, thread>>
        /\ mode' \in Modes /\ ratio' \in Ratios /\ depth_' \in Depths
    BY <1>12 DEF SetDepth, DialogOk, trigVars, loopVars, viewVars, BoundInv
  <2> QED BY <2>1 DEF BoundInv, Size
<1> QED BY <1>2, <1>3, <1>4, <1>5, <1>6, <1>7, <1>8, <1>9, <1>11, <1>12
     DEF Next, windowStep, captureLoop

\* A single capture: the states its thread passes.
LEMMA SingleStep == FInv /\ [Next]_vars => SingleInv'
<1> SUFFICES ASSUME Types, StopInv, RingInv, BoundInv, SingleInv, [Next]_vars PROVE SingleInv'
  BY DEF FInv, EInv
<1>1. ring.total \in Nat
  BY DEF Types, Rings
<1>2. CASE captureLoop
  <2>1. mode' = mode
    BY <1>2 DEF captureLoop, Sample, Evaluate, Rearm, Store, Stored, Wait, threadOnly, trigVars
  <2> SUFFICES ASSUME mode = "SINGLE", thread # "none" PROVE SingleInv'
    BY <1>2, <2>1 DEF SingleInv, captureLoop, Sample, Evaluate, Rearm, Store, Stored, Wait
  <2>2. CASE Sample
    BY <2>2 DEF Sample, SingleInv, loopVars
  <2>3. CASE Evaluate
    <3>1. state = "RUNNING" /\ ring.total = 0
      BY <2>3 DEF Evaluate, SingleInv
    <3>2. state' = "RUNNING" /\ thread' = "store" /\ loc'.current_state = "RUNNING" /\ ring' = ring
      BY <2>3, <3>1 DEF Evaluate, Types
    <3> QED BY <3>1, <3>2, <1>1 DEF SingleInv
  <2>4. CASE Rearm
    BY <2>4 DEF Rearm, SingleInv
  <2>5. CASE Store
    <3>1. ring'.total = 0 + 1 /\ loc'.current_state = loc.current_state /\ thread' = "stored" /\ state' = state
      BY <2>5 DEF Store, SingleInv, Types
    <3> QED BY <2>5, <3>1 DEF Store, SingleInv
  <2>6. CASE Stored
    BY <2>1, <2>6 DEF Stored, SingleDone, SingleInv, loopVars
  <2>7. CASE Wait
    BY <2>7 DEF Wait, SingleInv
  <2> QED BY <1>2, <2>2, <2>3, <2>4, <2>5, <2>6, <2>7 DEF captureLoop
<1>3. CASE Start
  BY <1>3 DEF Start, SingleInv
<1>4. CASE ClearWaveforms
  BY <1>4 DEF ClearWaveforms, SingleInv, StopInv, trigVars
<1>5. CASE Join
  BY <1>5 DEF Join, ThreadJoined, SingleInv
<1>6. CASE \E m \in Modes \ {"SINGLE"}, r \in Ratios : DialogOk(m, r)
  BY <1>6 DEF DialogOk, SingleInv
<1>7. CASE \/ Stopped \/ Refresh \/ CheckState \/ Finish \/ StopCapture
           \/ \E m \in Modes : Run(m)
           \/ \E d \in Depths : SetDepth(d)
           \/ UNCHANGED vars
  BY <1>7 DEF Stopped, Refresh, CheckState, Finish, StopCapture, Run, SetDepth, vars, SingleInv,
     trigVars, loopVars
<1> QED BY <1>2, <1>3, <1>4, <1>5, <1>6, <1>7 DEF Next, windowStep

\* The window polls until it has all frames.
LEMMA PollStep == FInv /\ [Next]_vars => PollInv'
<1> SUFFICES ASSUME Types, StopInv, RingInv, BoundInv, SingleInv, PollInv, [Next]_vars PROVE PollInv'
  BY DEF FInv, EInv
<1>1. ring.total \in Nat /\ last_total \in Nat /\ cached \in Seq(Frame) /\ Len(cached) <= last_total
  BY DEF Types, Rings, BoundInv
<1>2. CASE captureLoop
  <2>1. UNCHANGED <<gui, capturing_, cached, last_total>> /\ thread # "none" /\ state # "STOPPED"
    BY <1>2 DEF captureLoop, Sample, Evaluate, Rearm, Store, Stored, Wait, threadOnly, viewVars, StopInv
  <2>2. thread # "done" /\ thread' # "none"
    BY <1>2 DEF captureLoop, Sample, Evaluate, Rearm, Store, Stored, Wait
  <2>3. ~Over
    BY <2>1, <2>2 DEF Over, StopInv, PollInv
  <2>4. ring'.total \in {ring.total, ring.total + 1}
    <3>1. CASE Store
      BY <3>1 DEF Store
    <3>2. CASE Sample \/ Evaluate \/ Rearm \/ Stored \/ Wait
      BY <3>2 DEF Sample, Evaluate, Rearm, Stored, Wait
    <3> QED BY <1>2, <3>1, <3>2 DEF captureLoop
  <2>5. ~Over'
    BY <2>1, <2>3 DEF Over, Finishing
  <2> QED BY <1>1, <2>1, <2>2, <2>4, <2>5 DEF PollInv, Over
<1>3. ASSUME NEW m \in Modes, Run(m) PROVE PollInv'
  <2>1. state = "STOPPED" /\ gui' = <<"start", m>>
    BY <1>3 DEF Run, Stop, Idle, StopInv
  <2> QED BY <1>3, <2>1 DEF Run, PollInv, Over, Finishing, viewVars
<1>4. CASE Start
  BY <1>4 DEF Start, PollInv, Over, Finishing, Idle
<1>5. CASE StopCapture
  <2>1. gui' \in {<<"stopped">>, <<"join", <<"stopped">>>>}
    BY <1>5 DEF StopCapture, Stop
  <2>2. UNCHANGED <<thread, ring, cached, last_total, capturing_>>
    BY <1>5 DEF StopCapture, viewVars
  <2>3. ~Over' /\ gui'[1] # "check" /\ gui'[1] # "idle" /\ ~Finishing'
    <3>1. <<"stopped">> # <<"finish">>
      BY SMT
    <3> QED BY <2>1, <3>1 DEF Over, Finishing
  <2> QED BY <2>2, <2>3 DEF PollInv
<1>6. CASE Join
  <2>1. UNCHANGED <<ring, cached, last_total, capturing_>> /\ gui' = gui[2] /\ gui' \in Thens
    BY <1>6 DEF Join, viewVars, StopInv
  <2>2. gui'[1] \in {"start", "stopped", "finish"} /\ (gui'[1] = "finish" => gui' = <<"finish">>)
    BY <2>1 DEF Thens
  <2>3. gui'[1] = "finish" => Finishing
    BY <1>6, <2>1, <2>2 DEF Finishing, Join
  <2>4. ~Finishing'
    BY <2>2 DEF Finishing
  <2>5. Over' => Over
    BY <2>2, <2>3, <2>4 DEF Over
  <2> QED BY <2>1, <2>2, <2>4, <2>5 DEF PollInv
<1>7. CASE Stopped
  BY <1>7 DEF Stopped, AfterStop, PollInv, Over, Finishing, viewVars
<1>8. CASE Refresh
  <2>1. UNCHANGED <<ring, thread, capturing_>>
    BY <1>8 DEF Refresh
  <2>2. gui' = IF cached' = <<>> THEN <<"idle">> ELSE <<"check">>
    BY <1>8 DEF Refresh, Idle
  <2>3. (gui[1] = "refresh" /\ ~capturing_) \/ (gui[1] = "idle" /\ capturing_)
    BY <1>8 DEF Refresh, Idle, StopInv
  <2>4. last_total' = IF ring.total <= last_total THEN last_total ELSE ring.total
    BY <1>8 DEF Refresh
  <2>5. cached' # <<>> => last_total' = ring.total
    <3>1. CASE ring.total > last_total
      BY <1>1, <2>4, <3>1
    <3>2. CASE ring.total <= last_total /\ cached # <<>>
      BY <1>1, <2>4, <3>2 DEF PollInv
    <3>3. CASE ring.total <= last_total /\ cached = <<>>
      <4>1. NewSamples = <<>>
        BY <3>3 DEF NewSamples
      <4>2. cached \o NewSamples = <<>> /\ Len(<<>>) = 0
        BY <3>3, <4>1
      <4>3. cached' = SubSeq(<<>>, 0 - MinOf(0, depth_) + 1, 0)
        BY <1>8, <4>2 DEF Refresh
      <4>4. depth_ \in Nat
        BY DEF Types
      <4>5. MinOf(0, depth_) = 0
        BY <4>4 DEF MinOf
      <4> QED BY <4>3, <4>5
    <3> QED BY <1>1, <3>1, <3>2, <3>3
  <2>6. gui'[1] \in {"idle", "check"} /\ (gui'[1] = "check" => cached' # <<>>) /\ ~Finishing'
    BY <2>2 DEF Finishing
  <2>7. capturing_ => thread # "none"
    BY <2>3 DEF PollInv
  <2>8. ring'.total = ring.total
    BY <2>1
  <2> QED BY <1>1, <2>1, <2>5, <2>6, <2>7, <2>8 DEF PollInv, Over
<1>9. CASE CheckState
  <2>1. UNCHANGED <<thread, ring, cached, last_total, capturing_>> /\ gui[1] = "check"
    BY <1>9 DEF CheckState, viewVars
  <2>2. CASE IsDone /\ capturing_
    <3>1. thread # "none" /\ cached # <<>> /\ state # "STOPPED"
      BY <2>1, <2>2 DEF PollInv, StopInv
    <3>2. state = "COMPLETE" /\ mode = "SINGLE"
      BY <2>2, <3>1 DEF IsDone
    <3>3. thread = "done" /\ ring.total <= 1
      BY <3>1, <3>2 DEF SingleInv
    <3>4. last_total = ring.total
      <4>1. Len(cached) \in Nat /\ Len(cached) # 0
        BY <1>1, <3>1
      <4>2. last_total <= ring.total
        BY <3>1 DEF PollInv
      <4> QED BY <1>1, <3>3, <4>1, <4>2
    <3>5. gui' = <<"join", <<"finish">>>>
      BY <1>9, <2>2, <3>1 DEF CheckState, Stop
    <3> QED BY <1>1, <2>1, <3>3, <3>4, <3>5 DEF PollInv
  <2>3. CASE ~(IsDone /\ capturing_)
    <3>1. gui' = <<"idle">>
      BY <1>9, <2>3 DEF CheckState, Idle
    <3> QED BY <2>1, <3>1 DEF PollInv, Over, Finishing
  <2> QED BY <2>2, <2>3
<1>10. CASE Finish
  <2>1. UNCHANGED <<ring, thread, cached, last_total>> /\ gui' = <<"idle">> /\ capturing_' = FALSE /\ Over
    BY <1>10 DEF Finish, Idle, viewVars, Over
  <2> QED BY <2>1 DEF PollInv, Over, Finishing
<1>11. CASE ClearWaveforms
  BY <1>11 DEF ClearWaveforms, PollInv, Over, Finishing, Idle
<1>12. CASE \/ \E d \in Depths : SetDepth(d)
            \/ \E m \in Modes \ {"SINGLE"}, r \in Ratios : DialogOk(m, r)
            \/ UNCHANGED vars
  BY <1>12 DEF SetDepth, DialogOk, vars, PollInv, Over, Finishing, viewVars
<1> QED BY <1>2, <1>3, <1>4, <1>5, <1>6, <1>7, <1>8, <1>9, <1>10, <1>11, <1>12
     DEF Next, windowStep

\* The slots of two frames that the ring holds at the same time differ.
LEMMA SlotsDiffer ==
  ASSUME NEW n \in Nat \ {0}, NEW t \in Nat, NEW j \in 1 .. t, j + n > t + 1
  PROVE  ((j - 1) % n) + 1 \in 1 .. n /\ ((j - 1) % n) + 1 # (t % n) + 1
<1> DEFINE d == t - j + 1
           s == (j - 1) % n
           w == t % n
<1>1. d \in 0 .. n /\ d \in 1 .. n - 1 /\ d <= t /\ j - 1 = t - d
  OBVIOUS
<1>2. (t - d) % n = IF d <= (t % n) THEN (t % n) - d ELSE (t % n) - d + n
  <2> HIDE DEF d
  <2> QED BY <1>1, ModBack, Zenon
<1>3. s = IF d <= w THEN w - d ELSE w - d + n
  BY <1>1, <1>2
<1>4. w \in 0 .. n - 1
  BY DivMod
<1> HIDE DEF d, s, w
<1>5. s # w /\ s + 1 \in 1 .. n /\ s + 1 # w + 1
  BY <1>1, <1>3, <1>4
<1> QED BY <1>5 DEF s, w

\* The trigger frame is not overwritten while the frames after it are stored.
LEMMA TrigStep == FInv /\ [Next]_vars => TrigInv'
<1> SUFFICES ASSUME Types, StopInv, RingInv, BoundInv, TrigInv, [Next]_vars PROVE TrigInv'
  BY DEF FInv, EInv
<1>1. ring.total \in Nat /\ Size \in Nat /\ post_trigger_remaining \in Nat
  BY SizeType DEF Types, Rings, BoundInv
<1>2. CASE Evaluate
  <2>1. PICK fires \in BOOLEAN :
          /\ fires => state = "WAITING_TRIGGER"
          /\ LET current == IF fires THEN "TRIGGERED" ELSE state
                 left == Counted(fires)
                 complete == current = "TRIGGERED" /\ left = 0
             IN  /\ state' = IF complete THEN "COMPLETE" ELSE current
                 /\ post_trigger_remaining' = IF current = "TRIGGERED" /\ ~complete THEN left - 1 ELSE left
                 /\ thread' = IF ~complete THEN "store" ELSE IF mode = "SINGLE" THEN "done" ELSE "rearm"
                 /\ loc' = [loc EXCEPT !.trigger_point = fires, !.current_state = current]
    BY <1>2 DEF Evaluate
  <2>2. ring' = ring /\ Size' = Size /\ thread = "sampled"
    BY <1>2 DEF Evaluate, Size
  <2>3. loc'.trigger_point = fires
    BY <2>1 DEF Types
  <2> SUFFICES ASSUME state' = "TRIGGERED" PROVE TrigInv'
    BY DEF TrigInv
  <2>4. thread' = "store"
    BY <2>1
  <2>5. CASE fires
    <3>1. post_trigger_remaining' = PostTrigger - 1 /\ PostTrigger # 0
      BY <2>1, <2>5 DEF Counted
    <3>2. PostTrigger \in 0 .. Size
      BY PostTriggerRange
    <3>3. post_trigger_remaining' < Size
      BY <1>1, <3>1, <3>2
    <3> QED BY <2>2, <2>3, <2>4, <2>5, <3>3 DEF TrigInv
  <2>6. CASE ~fires
    <3>1. state = "TRIGGERED" /\ post_trigger_remaining' = post_trigger_remaining - 1
          /\ post_trigger_remaining # 0
      BY <2>1, <2>6 DEF Counted
    <3>2. post_trigger_remaining < Size
      BY <3>1 DEF TrigInv
    <3>3. PICK j \in 1 .. ring.total : /\ j + Size > ring.total + 0 + post_trigger_remaining
                                       /\ ring.buf[((j - 1) % Size) + 1].trigger_point
      BY <2>2, <3>1 DEF TrigInv, Kept
    <3>4. j + Size > ring.total + 1 + post_trigger_remaining'
      BY <1>1, <3>1, <3>3
    <3>5. Kept(1)'
      BY <2>2, <3>3, <3>4 DEF Kept
    <3>6. post_trigger_remaining' < Size
      BY <1>1, <3>1, <3>2
    <3> QED BY <2>2, <2>4, <3>5, <3>6 DEF TrigInv
  <2> QED BY <2>5, <2>6
<1>3. CASE Store
  <2> SUFFICES ASSUME state' = "TRIGGERED" PROVE TrigInv'
    BY DEF TrigInv
  <2> DEFINE f == [n |-> ring.total + 1, trigger_point |-> loc.trigger_point]
             slot == (ring.total % Size) + 1
  <2>1. /\ Size \in Nat \ {0} /\ Size' = Size
        /\ ring'.total = ring.total + 1
        /\ ring'.buf[slot] = f
        /\ \A k \in 1 .. Size : k # slot => ring'.buf[k] = ring.buf[k]
    BY <1>3, StoreRing
  <2>2. state = "TRIGGERED" /\ thread = "store" /\ thread' = "stored"
        /\ post_trigger_remaining' = post_trigger_remaining
    BY <1>3 DEF Store
  <2>3. post_trigger_remaining < Size
    BY <2>2 DEF TrigInv
  <2>4. Kept(0)'
    <3>1. CASE loc.trigger_point
      <4> DEFINE j == ring.total + 1
      <4>1. j \in 1 .. ring'.total /\ j + Size' > ring'.total + 0 + post_trigger_remaining' /\ j - 1 = ring.total
        BY <1>1, <2>1, <2>2, <2>3
      <4>2. ring'.buf[((j - 1) % Size') + 1].trigger_point
        BY <2>1, <3>1, <4>1
      <4> HIDE DEF j
      <4> QED BY <4>1, <4>2 DEF Kept
    <3>2. CASE ~loc.trigger_point
      <4>1. PICK j \in 1 .. ring.total : /\ j + Size > ring.total + 1 + post_trigger_remaining
                                         /\ ring.buf[((j - 1) % Size) + 1].trigger_point
        BY <2>2, <3>2 DEF TrigInv, Kept
      <4>2. j + Size > ring.total + 1
        BY <1>1, <4>1
      <4>3. ((j - 1) % Size) + 1 \in 1 .. Size /\ ((j - 1) % Size) + 1 # slot
        BY <1>1, <2>1, <4>2, SlotsDiffer
      <4> HIDE DEF slot
      <4>4. ring'.buf[((j - 1) % Size') + 1].trigger_point
        BY <2>1, <4>1, <4>3
      <4>5. j \in 1 .. ring'.total /\ j + Size' > ring'.total + 0 + post_trigger_remaining'
        BY <1>1, <2>1, <2>2, <4>1
      <4> QED BY <4>4, <4>5 DEF Kept
    <3> QED BY <3>1, <3>2
  <2> QED BY <2>1, <2>2, <2>3, <2>4 DEF TrigInv
\* Steps that keep the ring and the state, and do not store.
<1>4. ASSUME UNCHANGED <<ring, post_trigger_remaining>>,
             state' = "TRIGGERED" => state = "TRIGGERED" /\ thread' # "store",
             thread' \in {"stored", "wait", "top", "sampled"} => thread \in {"stored", "wait", "top", "sampled"}
      PROVE  TrigInv'
  <2>1. Size' = Size /\ (Kept(0)' <=> Kept(0))
    BY <1>4 DEF Size, Kept
  <2> QED BY <1>4, <2>1 DEF TrigInv
<1>5. CASE Sample \/ Rearm \/ Stored \/ Wait
  BY <1>4, <1>5 DEF Sample, Rearm, Stored, Wait, loopVars
<1>6. CASE Join \/ Start
  BY <1>6 DEF Join, Start, TrigInv
<1>7. CASE \/ Stopped \/ Refresh \/ CheckState \/ Finish \/ StopCapture \/ ClearWaveforms
           \/ \E m \in Modes : Run(m)
           \/ \E d \in Depths : SetDepth(d)
           \/ \E m \in Modes \ {"SINGLE"}, r \in Ratios : DialogOk(m, r)
           \/ UNCHANGED vars
  <2> SUFFICES ASSUME state' = "TRIGGERED" PROVE TrigInv'
    BY DEF TrigInv
  <2>1. UNCHANGED <<ring, post_trigger_remaining, loc, thread, state>>
    BY <1>7 DEF Stopped, Refresh, CheckState, Finish, StopCapture, ClearWaveforms, Run, SetDepth,
       DialogOk, vars, trigVars, loopVars, viewVars
  <2>2. Size' = Size /\ (Kept(0)' <=> Kept(0)) /\ (Kept(1)' <=> Kept(1))
    BY <2>1 DEF Size, Kept
  <2> QED BY <2>1, <2>2 DEF TrigInv
<1> QED BY <1>2, <1>3, <1>5, <1>6, <1>7 DEF Next, windowStep, captureLoop

\* The invariant holds throughout.
LEMMA FullInductive == EngineSpec => []FInv
<1>1. Init => FInv
  <2>1. Init => EInv
    BY TypesInit, StopInit, RingInit, ViewInit DEF EInv
  <2>2. Init => BoundInv
    BY EngineAssumption DEF Init, BoundInv, Modes, Idle, MinOf, Size
  <2>3. Init => SingleInv /\ PollInv /\ TrigInv
    BY DEF Init, SingleInv, PollInv, TrigInv, Idle, Over, Finishing
  <2> QED BY <2>1, <2>2, <2>3 DEF FInv
<1>2. FInv /\ [Next]_vars => FInv'
  <2>1. EInv /\ [Next]_vars => EInv'
    BY TypesStep, StopStep, RingStep, ViewStep DEF EInv
  <2> QED BY <2>1, BoundStep, SingleStep, PollStep, TrigStep DEF FInv
<1> QED BY <1>1, <1>2, PTL DEF EngineSpec

\* The slot of a frame the ring holds is among the slots in use.
LEMMA SlotInUse ==
  ASSUME NEW n \in Nat \ {0}, NEW t \in Nat, NEW j \in 1 .. t
  PROVE  ((j - 1) % n) + 1 \in 1 .. MinOf(t, n)
<1>1. j - 1 \in Nat
  OBVIOUS
<1>2. (j - 1) % n \in 0 .. n - 1
  BY <1>1, DivMod
<1>3. CASE t < n
  <2>1. j - 1 \in 0 .. n - 1 /\ n \in Nat \ {0}
    BY <1>3
  <2>2. (j - 1) % n = j - 1
    <3> DEFINE r == j - 1
    <3>1. r \in 0 .. n - 1 /\ n * 0 + r = r
      BY <2>1
    <3> HIDE DEF r
    <3>2. (n * 0 + r) % n = r
      BY <3>1, ModUnique
    <3> QED BY <3>1, <3>2 DEF r
  <2> QED BY <2>2, <1>3 DEF MinOf
<1>4. CASE ~(t < n)
  BY <1>2, <1>4 DEF MinOf
<1> QED BY <1>3, <1>4

\* captureLoop(): while the frames after a trigger are captured the ring keeps
\* the frame that triggered, for every depth and every pre-trigger ratio.
THEOREM TriggerStays == EngineSpec => []TriggerKept
<1>1. FInv => TriggerKept
  <2> SUFFICES ASSUME FInv, state = "TRIGGERED", thread \in {"stored", "wait", "top", "sampled"}
               PROVE  \E i \in 1 .. ring.count : ring.buf[i].trigger_point /\ ring.buf[i].n + Size > ring.total
    BY DEF TriggerKept
  <2>1. Types /\ RingInv /\ BoundInv /\ TrigInv
    BY DEF FInv, EInv
  <2>2. ring.total \in Nat /\ Size \in Nat /\ post_trigger_remaining \in Nat
        /\ post_trigger_remaining < Size
    BY <2>1, SizeType DEF Types, Rings, BoundInv, TrigInv
  <2>3. PICK j \in 1 .. ring.total : /\ j + Size > ring.total + 0 + post_trigger_remaining
                                     /\ ring.buf[((j - 1) % Size) + 1].trigger_point
    BY <2>1 DEF TrigInv, Kept
  <2>4. Size \in Nat \ {0} /\ j + Size > ring.total
    BY <2>2, <2>3
  <2>5. ring.buf[((j - 1) % Size) + 1].n = j
    BY <2>1, <2>3, <2>4 DEF RingInv, InPlace
  <2>6. ((j - 1) % Size) + 1 \in 1 .. ring.count
    BY <2>1, <2>2, <2>4, SlotInUse DEF BoundInv
  <2> QED BY <2>3, <2>4, <2>5, <2>6
<1> QED BY <1>1, FullInductive, PTL

\* refreshFromCapture(): however the thread's stores and its end fall between
\* the window's two reads, the window shows the last frames of a capture that is
\* over, and every variable keeps its type, for every depth and number of frames.
THEOREM ViewIsComplete == EngineSpec => []ViewComplete
<1>1. FInv => ViewComplete
  <2> SUFFICES ASSUME FInv PROVE ViewComplete
    OBVIOUS
  <2>1. Types /\ StopInv /\ RingInv /\ ViewInv /\ BoundInv /\ PollInv /\ TrigInv
    BY DEF FInv, EInv
  <2>2. ring.total \in Nat /\ Size \in Nat /\ MaxFrames \in Nat /\ ring.write_pos \in Nat
        /\ last_total \in Nat /\ cached \in Seq(Frame) /\ Len(cached) \in Nat
    BY <2>1, SizeType, EngineAssumption DEF Types, Rings
  <2>3. EngineTypeOK
    <3>1. ring.count \in 0 .. Size
      BY <2>1, <2>2 DEF BoundInv, MinOf
    <3>2. ring.total \in 0 .. MaxFrames /\ Len(cached) <= MaxFrames
      BY <2>1, <2>2 DEF BoundInv
    <3>3. ring.write_pos \in 0 .. (IF Size = 0 THEN 0 ELSE Size - 1)
      <4>1. Size # 0 => ring.total % Size \in 0 .. Size - 1
        BY <2>2, DivMod
      <4> QED BY <2>1, <2>2, <4>1 DEF RingInv
    <3>4. post_trigger_remaining \in Nat
      BY <2>1 DEF BoundInv
    <3> QED BY <2>1, <3>1, <3>2, <3>3, <3>4 DEF EngineTypeOK, Types, States, Places, BoundInv
  <2>4. ASSUME gui = Idle, ~capturing_, cached # <<>> PROVE cached[Len(cached)].n = ring.total
    <3>1. last_total = ring.total
      BY <2>1, <2>4 DEF PollInv, Over, Idle
    <3>2. Len(cached) # 0 /\ Len(cached) <= last_total
      BY <2>1, <2>2, <2>4 DEF BoundInv
    <3>3. ring.total # 0
      BY <2>2, <3>1, <3>2
    <3>4. Size # 0
      BY <2>1, <3>3 DEF RingInv
    <3> DEFINE k == Len(cached)
    <3>5. k \in 1 .. k /\ k + Size > k
      BY <2>2, <3>2, <3>4
    <3>6. cached[k].n + k = last_total + k /\ cached[k].n \in Nat
      BY <2>1, <2>2, <3>5, FrameNumber DEF ViewInv, NewestWhole
    <3> HIDE DEF k
    <3>7. cached[k].n = last_total
      <4> DEFINE v == cached[k].n
      <4>1. v + k = last_total + k /\ v \in Nat /\ k \in Nat
        BY <3>5, <3>6
      <4> HIDE DEF v
      <4>2. v = last_total
        BY <2>2, <4>1
      <4> QED BY <4>2 DEF v
    <3> QED BY <3>1, <3>7 DEF k
  <2> QED BY <2>3, <2>4 DEF ViewComplete
<1> QED BY <1>1, FullInductive, PTL
=============================================================================
