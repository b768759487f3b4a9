----------------------------- MODULE IlaDriver -----------------------------
(***************************************************************************)
(* The host side of the logic analyser: IlaDriver and its two backends     *)
(* (src/ila), the daemon's ila/ methods (src/tools/daemon_runner.cpp), the *)
(* MCP tools read_ila_status and ila_run_capture, and the buttons of       *)
(* IlaPanel (src/gui/ila_panel.cpp) in direct mode, as written: the window *)
(* gives the panel no chain in this version, so its buttons call the ila/  *)
(* methods.                                                                *)
(*                                                                         *)
(* A call is a list of steps; every scan is a step of its own, which may   *)
(* fail with or without effect, and the sample clock runs between them; the*)
(* widths of the core are the driver's defaults.                           *)
(***************************************************************************)
EXTENDS IlaCore, SequencesExt

CONSTANTS LaneSets,   \* lane triggers a user sets: [lanes, or_mode]
          PreValues,  \* pre-trigger samples a user asks for
          MaxCalls,   \* bound: calls
          MaxFaults   \* bound: scans that fail

VARIABLES host,   \* the call that runs, and its answer once it is over
          panel,  \* what IlaPanel keeps in direct mode: [open, stored, version]
          asked,  \* the trigger the last call that armed asked for
          used    \* calls and faults so far, for the bounds

ila_vars == <<core_vars, host, panel, asked, used>>

Unknown == "0xFF"        \* stored_ir_in_hw_ of a new backend
NoTrigger == [lanes |-> <<>>, or_mode |-> FALSE, pre |-> 0]

---------------------------------------------------------------------------
(* IlaPanel::computeTriggerRegisters()                                     *)

\* A lane is [hi, lo, cond, value, cond_b, value_b]: the signal's bits, and for
\* each group a condition and the value it compares with, whose bit 0 is bit lo
\* of a sample.
LaneBits(l) == l.lo .. l.hi
\* Mutant: the value is not shifted to the lane.
PlacedLow(l, v) == v \cap LaneBits(l)
Placed(l, v) == {b + l.lo : b \in v} \cap LaneBits(l)
Union(words) == UNION {words[i] : i \in DOMAIN words}
Masked(l, cond) == IF cond \in {"EQ", "NEQ"} THEN LaneBits(l) ELSE {}
Valued(l, cond, v) == CASE cond = "EQ" -> Placed(l, v)
                        [] cond = "NEQ" -> LaneBits(l) \ Placed(l, v)
                        [] OTHER -> {}
Rising(cond) == cond \in {"RISE", "EITHER"}
Falling(cond) == cond \in {"FALL", "EITHER"}
ComputeTriggerRegisters(t) ==
  LET L == t.lanes
      D == DOMAIN L
      edges(E(_)) == Union([i \in D |-> IF E(L[i].cond) THEN LaneBits(L[i]) ELSE {}])
  IN [mask  |-> Union([i \in D |-> Masked(L[i], L[i].cond)]),
      value |-> Union([i \in D |-> Valued(L[i], L[i].cond, L[i].value)]),
      rise  |-> edges(Rising),
      fall  |-> edges(Falling),
      mask2 |-> Union([i \in D |-> Masked(L[i], L[i].cond_b)]),
      val2  |-> Union([i \in D |-> Valued(L[i], L[i].cond_b, L[i].value_b)]),
      or_mode |-> t.or_mode]

---------------------------------------------------------------------------
(* Steps of the driver                                                     *)

\* <<"scan", opcode, data>>: selectIr() and shiftDr(); "try" ignores a failure,
\* "more" is a shiftDr() without a selectIr().
Scan(op, val) == <<"scan", op, val>>
Try(op, val) == <<"try", op, val>>
More(op) == <<"more", op, 0>>

Control(bit) == <<Scan("CTRL", {bit})>>
\* probe(): the first scan warms up the chain and is not looked at.
Probe(must) == <<Try("IDCODE", 0), <<"config", "CONFIG", 0, must>>, Try("IDCODE", 0)>>
\* configureTrigger()
Trigger(t, pre) == << <<"trigger", t, pre>> >>
Setting(r, name, op) == Scan(op, r[name])
TriggerScans(r, pre, version) ==
  <<Scan("mask", r.mask), Scan("value", r.value), Scan("PRE_SAMPLES", pre)>>
  \o (IF version >= 2 THEN <<Scan("rise", r.rise), Scan("fall", r.fall)>> ELSE <<>>)
  \o (IF version >= 3 THEN <<Scan("mask2", r.mask2), Scan("val2", r.val2), Scan("or_mode", r.or_mode)>>
      ELSE <<>>)
ReadSamplesFrom(addr) ==
  <<Scan("READ_ADDR", addr), Scan("READ_DATA", 0)>> \o [i \in 1 .. Depth - 1 |-> More("READ_DATA")]
ReadStatus == <<Scan("STATUS", 0)>>
\* readSignalDefs(), when CONFIG says there are any
SignalDefs == << <<"sigdefs">> >>

---------------------------------------------------------------------------
(* Calls                                                                   *)

Idle == [call |-> "idle", todo |-> <<>>, stored |-> Unknown, version |-> 0, probed |-> FALSE,
         got |-> <<>>, sigs |-> <<>>, idcode |-> Nothing, st |-> "none", trigger |-> NoTrigger,
         expired |-> FALSE, ok |-> TRUE, clean |-> TRUE, rest |-> FALSE]
Ended == host.todo = <<>>
Begin(call, t, todo) ==
  /\ Ended /\ used.calls < MaxCalls
  /\ used' = [used EXCEPT !.calls = @ + 1]
  /\ host' = [Idle EXCEPT !.call = call, !.todo = todo, !.trigger = t,
                          !.rest = core.st \in {"IDLE", "FULL"},
                          !.stored = IF panel.open THEN panel.stored ELSE Unknown,
                          !.version = IF panel.open THEN panel.version ELSE 0]
  /\ UNCHANGED <<core_vars, panel, asked>>
\* A daemon call makes its backend and driver anew; the panel keeps its own.
Rpc(call, t, todo) == ~panel.open /\ Begin(call, t, todo)
Button(call, t, todo) == panel.open /\ Begin(call, t, todo)

Armed(t, pre) == [t EXCEPT !.pre = pre]
IlaStatus == Rpc("status", NoTrigger, ReadStatus)
IlaProbe == Rpc("probe", NoTrigger, Probe(TRUE) \o SignalDefs)
ReadIlaStatus == Rpc("probe_status", NoTrigger, Probe(TRUE) \o ReadStatus)
\* Mutant: the capture is not reset before it is armed.
IlaArmOnly(t, pre) == Rpc("arm", Armed(t, pre), Probe(FALSE) \o Trigger(t, pre) \o Control("ARM"))
IlaArm(t, pre) == Rpc("arm", Armed(t, pre), Probe(FALSE) \o <<Try("CTRL", {"RESET"})>>
                                            \o Trigger(t, pre) \o Control("ARM"))
IlaStop == Rpc("stop", NoTrigger, Control("STOP"))
IlaForceTrigger == Rpc("force", NoTrigger, Control("FORCE"))
IlaReset == Rpc("reset", NoTrigger, Control("RESET"))
\* Mutant: the reading starts at address 0.
IlaReadSamplesZero == Rpc("read", NoTrigger, Probe(TRUE) \o ReadSamplesFrom(0))
IlaReadSamples == Rpc("read", NoTrigger, Probe(TRUE) \o ReadSamplesFrom(Depth - 1))

IlaRunCapture(force, pre) ==
  Rpc("run_capture", Armed(NoTrigger, pre),
      Probe(TRUE) \o Control("RESET") \o Trigger(NoTrigger, pre) \o Control("ARM")
      \o (IF force THEN Control("FORCE") ELSE <<>>)
      \o << <<"poll", "STATUS", 0>> >> \o ReadSamplesFrom(0))

\* setChain() and setBscaneChain(): a new driver, which probes the core.
SetChain ==
  /\ ~panel.open /\ Ended /\ used.calls < MaxCalls /\ used' = [used EXCEPT !.calls = @ + 1]
  /\ panel' = [open |-> TRUE, stored |-> Unknown, version |-> 0]
  /\ host' = [Idle EXCEPT !.call = "set_chain", !.todo = Probe(FALSE) \o SignalDefs]
  /\ UNCHANGED <<core_vars, asked>>
DoArm(t, pre) == Button("arm", Armed(t, pre), Trigger(t, pre) \o <<Try("CTRL", {"RESET"})>>
                                              \o Control("ARM") \o <<Try("STATUS", 0)>>)
DoStop == Button("stop", NoTrigger, <<Try("CTRL", {"STOP"}), Try("STATUS", 0)>>)
DoForce == Button("force", NoTrigger, <<Try("CTRL", {"FORCE"}), Try("STATUS", 0)>>)
DoReset == Button("reset", NoTrigger, Control("RESET"))
DoRead == Button("read", NoTrigger, ReadSamplesFrom(Depth - 1))
PollStatus == Button("status", NoTrigger, ReadStatus)

---------------------------------------------------------------------------
(* Steps                                                                   *)

Head1 == IF Ended THEN <<"none">> ELSE Head(host.todo)
IsScan == Head1[1] \in {"scan", "try", "more", "config", "poll"}
Op == Head1[2]

\* The panel's backend remembers what it selected last.
Keep(h) == /\ host' = h
           /\ panel' = IF panel.open THEN [panel EXCEPT !.stored = h.stored, !.version = h.version]
                       ELSE panel
\* An arming call is over: this is what its caller believes.
Arming == {"arm", "run_capture"}
Believe(h) == asked' = CASE h.todo # <<>> -> asked
                         [] h.call \in Arming -> IF h.ok /\ h.clean THEN h.trigger ELSE NoTrigger
                         [] h.call \in {"stop", "reset"} /\ h.ok -> NoTrigger
                         [] OTHER -> asked

Zero(op) == IF op \in {"PRE_SAMPLES", "READ_ADDR"} THEN 0 ELSE IF op = "or_mode" THEN FALSE ELSE {}

\* A scan whose opcode the core has not stored yet captures the wrong register:
\* an extra scan with no data goes first.
NeedsPrime == bscane /\ host.stored # Op
PrimeScan ==
  /\ IsScan /\ NeedsPrime
  /\ ScanDr(Op, Zero(Op), FALSE)
  /\ Keep([host EXCEPT !.stored = Op])
  /\ UNCHANGED <<asked, used>>

\* What the driver makes of an answer.
Next1(h) == [h EXCEPT !.todo = Tail(@)]
Throws(h) == [h EXCEPT !.todo = <<>>, !.ok = FALSE]
PolledPatient(h, v) == IF v = Word("STATUS", "FULL") THEN Next1([h EXCEPT !.st = "FULL"]) ELSE h
Polled(h, v) == IF v = Word("STATUS", "FULL") THEN Next1([h EXCEPT !.st = "FULL"])
                ELSE IF h.expired THEN Throws(h) ELSE h
Answered(h, v) ==
  CASE Op = "READ_DATA" -> Next1([h EXCEPT !.got = Append(@, v)])
    [] Op = "SIG_DEF" -> Next1([h EXCEPT !.sigs = Append(@, v)])
    [] Op = "IDCODE" -> Next1([h EXCEPT !.idcode = v])
    [] Head1[1] = "poll" -> Polled(h, v)
    [] Op = "STATUS" -> Next1([h EXCEPT !.st = v[2]])
    [] Head1[1] = "config" ->
         IF v = Config THEN Next1([h EXCEPT !.version = CoreVersion, !.probed = TRUE])
         ELSE IF Head1[4] THEN Throws(h)
         ELSE [h EXCEPT !.todo = Tail(Tail(@)), !.clean = FALSE]
    [] OTHER -> Next1(h)

RealScan ==
  /\ IsScan /\ ~NeedsPrime
  /\ ScanDr(Op, Head1[3], Head1[1] # "more")
  /\ LET h == Answered([host EXCEPT !.stored = Op], Scanned(Op, Head1[1] # "more"))
     IN Keep(h) /\ Believe(h)
  /\ UNCHANGED used

\* A scan fails, with or without effect; what the backend thinks the core has
\* stored stays. A probe goes on without the identity.
Failed(h) == CASE Head1[1] = "try" -> [Next1(h) EXCEPT !.clean = h.clean /\ Op \in {"IDCODE", "STATUS"}]
               [] Head1[1] = "config" /\ ~Head1[4] -> [h EXCEPT !.todo = Tail(Tail(@)), !.clean = FALSE]
               [] OTHER -> Throws(h)
ScanFails ==
  /\ IsScan /\ used.faults < MaxFaults /\ used' = [used EXCEPT !.faults = @ + 1]
  /\ \/ ScanDr(Op, IF NeedsPrime THEN Zero(Op) ELSE Head1[3], Head1[1] # "more")
     \/ UNCHANGED core_vars
  /\ Keep(Failed(host)) /\ Believe(Failed(host))

\* configureTrigger(): the registers a version lacks are not written, and not
\* to be asked for.
ConfigureTrigger ==
  /\ Head1[1] = "trigger"
  /\ LET r == ComputeTriggerRegisters(Head1[2])
         refused == \/ Head1[3] >= Depth
                    \/ host.version < 2 /\ (r.rise # {} \/ r.fall # {})
                    \/ host.version < 3 /\ (r.mask2 # {} \/ r.val2 # {} \/ r.or_mode)
     IN Keep(IF refused THEN Throws(host)
             ELSE [host EXCEPT !.todo = TriggerScans(r, Head1[3], host.version) \o Tail(@)])
  /\ UNCHANGED <<core_vars, asked, used>>

ReadSignalDefs ==
  /\ Head1[1] = "sigdefs"
  /\ Keep([host EXCEPT !.todo = (IF host.probed /\ SigCount > 0
                                 THEN <<Try("SIG_DEF", 0)>> \o [i \in 1 .. SigCount - 1 |-> More("SIG_DEF")]
                                 ELSE <<>>) \o Tail(@)])
  /\ UNCHANGED <<core_vars, asked, used>>

\* The deadline of ila_run_capture passes.
Deadline ==
  /\ Head1[1] = "poll" /\ ~host.expired
  /\ host' = [host EXCEPT !.expired = TRUE]
  /\ UNCHANGED <<core_vars, panel, asked, used>>

HostStep == PrimeScan \/ RealScan \/ ConfigureTrigger \/ ReadSignalDefs
Calls == \/ IlaStatus \/ IlaProbe \/ ReadIlaStatus \/ IlaStop \/ IlaForceTrigger \/ IlaReset
         \/ IlaReadSamples \/ \E t \in LaneSets, pre \in PreValues : IlaArm(t, pre) \/ DoArm(t, pre)
         \/ \E force \in BOOLEAN, pre \in PreValues : IlaRunCapture(force, pre)
         \/ SetChain \/ DoStop \/ DoForce \/ DoReset \/ DoRead \/ PollStatus

Init == /\ CoreInit /\ host = Idle /\ asked = NoTrigger
        /\ panel = [open |-> FALSE, stored |-> Unknown, version |-> 0]
        /\ used = [calls |-> 0, faults |-> 0]
Next == Calls \/ HostStep \/ ScanFails \/ Deadline
        \/ (Sample /\ UNCHANGED <<host, panel, asked, used>>)

\* The worker goes on with a call, and its deadline passes.
IlaSpec == Init /\ [][Next]_ila_vars /\ WF_ila_vars(HostStep) /\ WF_ila_vars(Deadline)

---------------------------------------------------------------------------
(* Properties                                                              *)

Over(call) == Ended /\ host.ok /\ host.call = call

\* Every variable keeps to its values.
IlaTypeOK ==
  /\ core.st \in {"IDLE", "ARMED", "TRIGGERED", "FULL"}
  /\ {core.waddr, core.post, regs.rd} \subseteq 0 .. Depth - 1
  /\ regs.pre \in 0 .. 2 ^ (AddrW + PreExtra) - 1
  /\ [n \in DOMAIN regs \ {"pre", "rd"} |-> regs[n]] \in Levels
  /\ tap.sig \in 0 .. SigCount /\ Len(host.got) <= Depth

\* ila/read_samples and the panel, over BSCANE2, and ila_run_capture, over the
\* core's own TAP, give the whole buffer from address 0 on,
\* when no capture runs.
FromAddressZero == host.got = [i \in 1 .. Depth |-> Word("READ_DATA", core.mem[i - 1])]
SamplesInOrder == /\ Over("read") /\ host.rest /\ bscane => FromAddressZero
                  /\ Over("run_capture") /\ ~bscane => FromAddressZero

\* A call that armed without a hidden failure leaves the core armed, or past
\* it, never idle as an ARM pulse to a full buffer does; and with the asked
\* number of samples before the trigger, over BSCANE2.
ArmTakes == IlaTypeOK /\ (Over("arm") /\ host.clean => core.st # "IDLE" /\ (bscane => regs.pre = asked.pre))

\* A lane's value in a sample, as the waveform shows it (IlaSignalDef::extract()),
\* and what a user who sets its conditions asks of it.
Extract(l, data) == {b - l.lo : b \in data \cap LaneBits(l)}
Places(l) == 0 .. l.hi - l.lo
LaneMeets(l, cond, v, data) ==
  CASE cond = "EQ" -> Extract(l, data) = v \cap Places(l)
    [] cond = "NEQ" -> Extract(l, data) # v \cap Places(l)
    [] OTHER -> TRUE
EdgeMeets(l, prev, data) == \E b \in LaneBits(l) :
  \/ l.cond \in {"RISE", "EITHER"} /\ b \in data \ prev
  \/ l.cond \in {"FALL", "EITHER"} /\ b \in prev \ data
LanesMeet(t, prev, data) ==
  LET L == {t.lanes[i] : i \in DOMAIN t.lanes}
      edges == {l \in L : l.cond \in {"RISE", "FALL", "EITHER"}}
      a == /\ \A l \in L : LaneMeets(l, l.cond, l.value, data)
           /\ edges = {} \/ \E l \in edges : EdgeMeets(l, prev, data)
      b == \A l \in L : LaneMeets(l, l.cond_b, l.value_b, data)
      has_a == \E l \in L : l.cond # "NONE"
      has_b == \E l \in L : l.cond_b # "NONE"
  IN IF t.or_mode THEN (has_a /\ a) \/ (has_b /\ b)
     ELSE (has_a \/ has_b) /\ a /\ b

\* The comparator has one mask and one value for all lanes of a group, so that
\* lanes with a common bit overwrite each other's value.
Disjoint(t) == \A i, j \in DOMAIN t.lanes :
                 i # j => LaneBits(t.lanes[i]) \cap LaneBits(t.lanes[j]) = {}
\* A not-equal lane is folded into the complement of its value (ila_panel.cpp:437).
\* In a lane of one bit that is every other value; in a wider one the other values
\* do not match, though TriggerCond::Neq (ila_panel.h:32) says that they do.
EqualOrComplement(l, cond, v, data) ==
  cond = "NEQ" => Extract(l, data) \in {v \cap Places(l), Places(l) \ v}
FoldTells(t, data) ==
  \A i \in DOMAIN t.lanes :
    LET l == t.lanes[i] IN /\ EqualOrComplement(l, l.cond, l.value, data)
                           /\ EqualOrComplement(l, l.cond_b, l.value_b, data)

\* The core triggers on the lanes the user set, of any width and without a common
\* bit: only on a sample that meets every level condition, and an edge condition
\* if there is one, of group A, and of group B, or of either in OR mode. It
\* triggers on every such sample but those where a not-equal lane wider than one
\* bit holds neither its value nor the complement: these the code misses.
TriggersAsAsked ==
  [][Ended /\ asked # NoTrigger /\ Disjoint(asked) /\ UNCHANGED <<host, asked>> =>
       LET prev == core.prev
           data == core'.prev
       IN /\ core'.match => LanesMeet(asked, prev, data)
          /\ FoldTells(asked, data) /\ data # prev /\ LanesMeet(asked, prev, data)
               => core'.match]_ila_vars

\* Every call ends: one that waits for a trigger that never comes, too.
CallsEnd == host.todo # <<>> ~> host.todo = <<>>
=============================================================================
