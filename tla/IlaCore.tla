------------------------------ MODULE IlaCore ------------------------------
(***************************************************************************)
(* The logic analyser in the PL (hdl/ila/rtl): the capture state machine,  *)
(* the trigger comparator, the sample memory and the registers, behind its *)
(* own TAP (ila_tap.sv) or a BSCANE2 user chain (ila_bscane2_top.sv). A    *)
(* word of data is the set of its one bits.                                *)
(*                                                                         *)
(* A control pulse crosses into the sample clock domain before the next    *)
(* scan: the scan that sends it is also the sample clock edge that sees    *)
(* it. Configuration registers cross at once.                              *)
(***************************************************************************)
EXTENDS Naturals, Sequences, FiniteSets

CONSTANTS AddrW,      \* ADDR_W
          DataBits,   \* the bits of a sample
          Inputs,     \* what data_in may carry
          Buffers,    \* what an earlier capture left in the memory
          PreExtra,   \* bits the PRE_SAMPLES register of ila_tap.sv has over ADDR_W
          SigCount    \* SIG_COUNT

ASSUME IlaAssumption == {AddrW, PreExtra, SigCount} \subseteq Nat /\ Inputs \subseteq SUBSET DataBits
                        /\ Buffers \subseteq [0 .. 2 ^ AddrW - 1 -> SUBSET DataBits]

VARIABLES bscane,  \* the core sits behind a BSCANE2 user chain
          core,    \* sample clock side: [st, waddr, post, mem, prev, match]
          regs,    \* the configuration registers and the read address
          tap      \* [ir, sig, cold]: stored_ir or ir_latched, sig_def_idx, and
                   \* whether the next BSCANE2 scan is the first after a reset

core_vars == <<bscane, core, regs, tap>>

Depth == 2 ^ AddrW
\* Addresses and counts are ADDR_W bits long.
NextAddr(a) == (a + 1) % Depth
NoPulse == {}

Levels == [mask : SUBSET DataBits, value : SUBSET DataBits, rise : SUBSET DataBits,
           fall : SUBSET DataBits, mask2 : SUBSET DataBits, val2 : SUBSET DataBits,
           or_mode : BOOLEAN]

\* ila_trigger.sv, combinational part. Mutant: a group without a mask matches.
FireUnmasked(r, prev, data) ==
  LET a == (data \cap r.mask) = (r.value \cap r.mask)
      b == (data \cap r.mask2) = (r.val2 \cap r.mask2)
  IN IF r.or_mode THEN a \/ b ELSE a /\ b
Fire(r, prev, data) ==
  LET level_a  == (data \cap r.mask) = (r.value \cap r.mask)
      edge_a   == \/ r.rise = {} /\ r.fall = {}
                  \/ (data \ prev) \cap r.rise # {}
                  \/ (prev \ data) \cap r.fall # {}
      active_a == r.mask # {} \/ r.rise # {} \/ r.fall # {}
      active_b == r.mask2 # {}
      match_a  == active_a /\ level_a /\ edge_a
      match_b  == active_b /\ (data \cap r.mask2) = (r.val2 \cap r.mask2)
  IN IF r.or_mode THEN match_a \/ match_b
     ELSE /\ active_a => match_a
          /\ active_b => match_b
          /\ active_a \/ active_b

\* post_cnt + 1 >= post_target, both cut to ADDR_W bits
PostDone == NextAddr(core.post) >= (Depth - (regs.pre % Depth)) % Depth

\* ila_capture_fsm.sv: the next state for these pulses
NextState(pulses, valid) ==
  CASE core.st = "IDLE" -> IF "ARM" \in pulses THEN "ARMED" ELSE "IDLE"
    [] core.st = "ARMED" ->
         IF pulses \cap {"RESET", "STOP"} # {} THEN "IDLE"
         ELSE IF valid /\ (core.match \/ "FORCE" \in pulses) THEN "TRIGGERED" ELSE "ARMED"
    [] core.st = "TRIGGERED" ->
         IF "RESET" \in pulses THEN "IDLE"
         ELSE IF "STOP" \in pulses \/ (valid /\ PostDone) THEN "FULL" ELSE "TRIGGERED"
    [] core.st = "FULL" -> IF pulses \cap {"RESET", "ARM"} # {} THEN "IDLE" ELSE "FULL"

\* One edge of the sample clock.
Clock(pulses, valid, data) ==
  LET next == NextState(pulses, valid)
      wr   == valid /\ core.st \in {"ARMED", "TRIGGERED"}
      arms == core.st = "IDLE" /\ next = "ARMED"
  IN core' = [st    |-> next,
              waddr |-> IF arms THEN 0 ELSE IF wr THEN NextAddr(core.waddr) ELSE core.waddr,
              post  |-> IF next = "IDLE" \/ arms THEN 0
                        ELSE IF core.st = "TRIGGERED" /\ wr THEN NextAddr(core.post) ELSE core.post,
              mem   |-> IF wr THEN [core.mem EXCEPT ![core.waddr] = data] ELSE core.mem,
              prev  |-> IF valid THEN data ELSE core.prev,
              match |-> valid /\ Fire(regs, core.prev, data)]

\* A sample clock edge without a pulse
Sample == /\ \E valid \in BOOLEAN, data \in Inputs : Clock(NoPulse, valid, data)
          /\ UNCHANGED <<bscane, regs, tap>>

---------------------------------------------------------------------------
(* The registers as a scan sees them                                       *)

\* What a scan captures: the register and what it holds.
Word(op, v) == <<op, v>>
CoreVersion == 3
Idcode == Word("IDCODE", "ILA")
Config == Word("CONFIG", CoreVersion)
Nothing == Word("zeros", "")

\* Capture-DR
Captured(op, sig) ==
  CASE op = "IDCODE" -> Idcode
    [] op = "CONFIG" -> Config
    [] op = "SIG_DEF" -> Word(op, sig)
    [] op = "STATUS" -> Word(op, core.st)
    [] op = "READ_DATA" -> Word(op, core.mem[regs.rd])
    [] OTHER -> Word(op, "")

\* PRE_SAMPLES takes ADDR_W bits over BSCANE2; the register of ila_tap.sv is
\* longer, and ADDR_W bits shifted in leave the rest of it behind them.
PreAfter(val) == IF bscane THEN val % Depth
                 ELSE ((val % Depth) * (2 ^ PreExtra) + (regs.pre \div Depth)) % (2 ^ (AddrW + PreExtra))

\* Update-DR
RegsAfter(op, val) ==
  CASE op = "PRE_SAMPLES" -> [regs EXCEPT !.pre = PreAfter(val)]
    [] op = "READ_ADDR" -> [regs EXCEPT !.rd = val % Depth]
    [] op = "READ_DATA" -> [regs EXCEPT !.rd = NextAddr(@)]
    [] op \in DOMAIN regs \ {"pre", "rd"} -> [regs EXCEPT ![op] = val]
    [] OTHER -> regs

\* Loading the instruction of ila_tap.sv starts SIG_DEF over; over BSCANE2 a
\* change of the opcode does.
Sig(select) == IF select /\ ~bscane THEN 0 ELSE tap.sig
SigAfter(op, select) ==
  IF bscane /\ op # tap.ir THEN 0
  ELSE IF op = "SIG_DEF" THEN (IF Sig(select) < SigCount - 1 THEN Sig(select) + 1 ELSE 0)
       ELSE Sig(select)

\* What a scan with this opcode reads: the BSCANE2 frame carries the opcode, and
\* what it captures was chosen by the frame before it.
Scanned(op, select) == IF ~bscane THEN Captured(op, Sig(select))
                       ELSE IF tap.cold THEN Nothing ELSE Captured(tap.ir, tap.sig)
ScanDr(op, val, select) ==
  /\ regs' = RegsAfter(op, val)
  /\ tap' = [ir |-> op, sig |-> SigAfter(op, select), cold |-> FALSE]
  /\ IF op = "CTRL" /\ val # NoPulse
     THEN \E valid \in BOOLEAN, data \in Inputs : Clock(val, valid, data)
     ELSE UNCHANGED core
  /\ UNCHANGED bscane

CoreInit ==
  /\ bscane \in BOOLEAN
  /\ core \in [st : {"IDLE", "FULL"}, waddr : {0}, post : {0}, mem : Buffers,
               prev : {{}}, match : {FALSE}]
  /\ regs = [mask |-> {}, value |-> {}, rise |-> {}, fall |-> {}, mask2 |-> {}, val2 |-> {},
             or_mode |-> FALSE, pre |-> Depth \div 4, rd |-> 0]
  /\ tap \in [ir : {"IDCODE", "READ_DATA"}, sig : {0}, cold : {bscane}]
=============================================================================
