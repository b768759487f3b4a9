----------------------------- MODULE JtagChain -----------------------------
(***************************************************************************)
(* JtagChain (src/jtag/jtag_chain.cpp): the devices found on the scan      *)
(* chain, and how an instruction or a boundary register of one of them is  *)
(* packed between the BYPASS bits of the others.                           *)
(*                                                                         *)
(* The chain itself is modelled beside it, as the shift register it is:    *)
(* what a scan leaves in the devices and sends back depends on its length, *)
(* so a scan that is too short or packed wrongly goes wrong here too.      *)
(* Device 1 is the one next to TDO (position 0 in the code). Bit lists are *)
(* in the order they are shifted.                                          *)
(***************************************************************************)
EXTENDS Integers, Sequences, SequencesExt

CONSTANTS Board,       \* the devices on the chain, with what their BSDL files say
          IdBits,      \* length of an IDCODE register (32)
          MaxDevices,  \* MAX_DEVICES
          ArmIds       \* the IDCODEs whose manufacturer is ARM

VARIABLES devices,      \* devices_: idcode, ir_length and whether a BSDL file is loaded
          chain_error,  \* last_error_ is not empty
          ir,           \* the instruction each device of the board executes
          latch         \* the update latches of its boundary cells

chain_vars == <<devices, chain_error, ir, latch>>

Dev == 1 .. Len(Board)
Ones(n) == [i \in 1 .. n |-> 1]
Zeros(n) == [i \in 1 .. n |-> 0]

\* What IEEE 1149.1 asks of the devices and BSDL of their descriptions: every
\* instruction has an opcode of its own, as long as the instruction register, and
\* all ones is BYPASS.
Instructions == {"SAMPLE", "EXTEST", "IDCODE"}
ASSUME BoardAssumption ==
  /\ Len(Board) \in Nat
  /\ \A d \in Dev :
       /\ Board[d].ir_length \in Nat \ {0}
       /\ Board[d].live \in BOOLEAN
       /\ DOMAIN Board[d].ops = Instructions
       /\ \A i \in Instructions :
            Board[d].ops[i] \in [1 .. Board[d].ir_length -> {0, 1}] \ {Ones(Board[d].ir_length)}
       /\ \A i, j \in Instructions : Board[d].ops[i] = Board[d].ops[j] => i = j
       /\ Len(Board[d].cells) \in Nat \ {0}

---------------------------------------------------------------------------
(* The board                                                               *)

\* A register of the chain after the bits `in` went through it, and what came out.
Shift(reg, in) == [out |-> SubSeq(reg \o in, 1, Len(in)),
                   reg |-> SubSeq(reg \o in, Len(in) + 1, Len(in) + Len(reg))]

\* The part of the chain's register that belongs to device d.
Slice(reg, parts, d) ==
  LET before == Len(FlattenSeq(SubSeq(parts, 1, d - 1)))
  IN  SubSeq(reg, before + 1, before + Len(parts[d]))

\* A device takes an opcode it does not know for BYPASS.
Decode(d, op) == LET known == {i \in DOMAIN Board[d].ops : Board[d].ops[i] = op}
                 IN  IF known = {} THEN "BYPASS" ELSE CHOOSE i \in known : TRUE

\* The instructions after an IR scan. The IR captures 1 in its first bit.
IrAfter(in) ==
  LET captured == [d \in Dev |-> <<1>> \o Zeros(Board[d].ir_length - 1)]
      reg == Shift(FlattenSeq(captured), in).reg
  IN  [d \in Dev |-> Decode(d, Slice(reg, captured, d))]

OnBoundary(d) == ir[d] \in {"SAMPLE", "EXTEST"}

\* What the data registers of the chain capture, when the boundary cells see `image`.
DrCapture(image) ==
  [d \in Dev |-> IF OnBoundary(d) THEN image[d]
                 ELSE IF ir[d] = "IDCODE" THEN Board[d].idcode ELSE <<0>>]

\* The answer to a DR scan, and the latches it leaves behind: SAMPLE is
\* SAMPLE/PRELOAD, so it loads them as EXTEST does.
DrScan(image, in) ==
  LET captured == DrCapture(image)
      after == Shift(FlattenSeq(captured), in)
  IN  [out |-> after.out,
       latch |-> [d \in Dev |-> IF OnBoundary(d) THEN Slice(after.reg, captured, d)
                                ELSE latch[d]]]

\* Test-Logic-Reset selects IDCODE, or BYPASS in a device that has none.
IrReset == [d \in Dev |-> IF Board[d].idcode = <<>> THEN "BYPASS" ELSE "IDCODE"]

---------------------------------------------------------------------------
(* detectDevices()                                                         *)

\* The devices a stream of IDCODEs and BYPASS bits stands for.
ParseIdcodes(tdo) ==
  LET last(p) == IF p + IdBits - 1 < Len(tdo) THEN p + IdBits - 1 ELSE Len(tdo)
      parse[p \in 1 .. Len(tdo) + IdBits] ==
        LET word == SubSeq(tdo, p, last(p)) \o Zeros(p + IdBits - 1 - last(p))
        IN  IF p > Len(tdo) \/ word \in {Zeros(IdBits), Ones(IdBits)} THEN <<>>
            ELSE IF tdo[p] = 0
              THEN <<[idcode |-> <<>>, ir_length |-> 1, bsdl |-> FALSE]>> \o parse[p + 1]
              ELSE <<[idcode |-> word, ir_length |-> IF word \in ArmIds THEN 4 ELSE 6,
                      bsdl |-> FALSE]>> \o parse[p + IdBits]
  IN  parse[1]

\* The step of detectDevices() that fails, if one does: 1 the reset, 2 the
\* idle clocks, 3 the scan. devices_ is empty then.
DetectFails(step) ==
  /\ devices' = <<>>
  /\ chain_error' = TRUE
  /\ IF step = 1 THEN ir' \in {ir, IrReset} ELSE ir' = IrReset
  /\ UNCHANGED latch

\* What readDR() reads after the reset.
IdcodeStream ==
  Shift(FlattenSeq([d \in Dev |-> IF Board[d].idcode = <<>> THEN <<0>> ELSE Board[d].idcode]),
        Zeros(MaxDevices * IdBits)).out

\* detectDevices() guesses how long the instruction registers are: 4 bits in a
\* device of ARM, 6 in any other that has an IDCODE, 1 in the rest. The boards
\* modelled are those it is right about.
ASSUME Readable ==
  ParseIdcodes(IdcodeStream) =
    [d \in Dev |-> [idcode |-> Board[d].idcode, ir_length |-> Board[d].ir_length, bsdl |-> FALSE]]

Detect ==
  /\ ir' = IrReset
  /\ devices' = ParseIdcodes(IdcodeStream)
  /\ chain_error' = (devices' = <<>>)
  /\ UNCHANGED latch

---------------------------------------------------------------------------
(* loadBsdl(), selectInstruction(), readBSR(), writeBSR()                  *)

InRange(d) == d \in 1 .. Len(devices)

LoadBsdl(d, parses) ==
  /\ IF InRange(d) /\ parses
       THEN /\ devices' = [devices EXCEPT ![d].bsdl = TRUE, ![d].ir_length = Board[d].ir_length]
            /\ UNCHANGED chain_error
       ELSE /\ chain_error' = TRUE
            /\ UNCHANGED devices
  /\ UNCHANGED <<ir, latch>>

\* The bits selectInstruction() shifts: device 1 first, all ones for the others.
IrData(d, op) ==
  FlattenSeq([i \in 1 .. Len(devices) |->
               IF i = d THEN [b \in 1 .. devices[i].ir_length |-> IF b <= Len(op) THEN op[b] ELSE 0]
               ELSE Ones(devices[i].ir_length)])

\* Mutant: the other devices get an instruction of zeros.
SelectZeros(d, op) ==
  /\ ir' = IrAfter(FlattenSeq([i \in 1 .. Len(devices) |->
             IF i = d THEN op ELSE Zeros(devices[i].ir_length)]))
  /\ UNCHANGED <<devices, chain_error, latch>>
Select(d, op) == /\ ir' = IrAfter(IrData(d, op))
                 /\ UNCHANGED <<devices, chain_error, latch>>

\* A shiftIR() that fails may have reached Update-IR. selectInstruction() does
\* not set last_error_.
SelectFails(d, op) == /\ ir' \in {ir, IrAfter(IrData(d, op))}
                      /\ UNCHANGED <<devices, chain_error, latch>>

\* How many bits of the boundary register readBSR() reads.
ReadLen(d, partial) == LET all == Len(Board[d].cells)
                       IN  IF partial > 0 /\ partial < all THEN partial ELSE all

Others == Len(devices) - 1

\* The scan of readBSR(), and the part of its answer that is the boundary register.
ReadIn(d, partial) == Zeros(ReadLen(d, partial) + Others)
\* Mutant: the bits of the devices behind the target are skipped, not those before it.
ReadOutAfter(d, partial, out) ==
  SubSeq(out, Len(devices) - d + 1, Len(devices) - d + ReadLen(d, partial))
ReadOut(d, partial, out) == SubSeq(out, d, d - 1 + ReadLen(d, partial))

\* The scan of writeBSR().
WriteIn(d, bsr) == Zeros(d - 1) \o bsr \o Zeros(Len(devices) - d)

Read(d, partial, image) == /\ latch' = DrScan(image, ReadIn(d, partial)).latch
                           /\ UNCHANGED <<devices, chain_error, ir>>
\* Only readBSR() passes the error of the TAP on.
ReadFails(d, partial, image) ==
  /\ latch' \in {latch, DrScan(image, ReadIn(d, partial)).latch}
  /\ chain_error' = TRUE
  /\ UNCHANGED <<devices, ir>>

Write(d, bsr, image) == /\ latch' = DrScan(image, WriteIn(d, bsr)).latch
                        /\ UNCHANGED <<devices, chain_error, ir>>
WriteFails(d, bsr, image) == /\ latch' \in {latch, DrScan(image, WriteIn(d, bsr)).latch}
                             /\ UNCHANGED <<devices, chain_error, ir>>

ChainInit == /\ devices = <<>>
             /\ chain_error = FALSE
             /\ ir = IrReset
             /\ latch = [d \in Dev |-> Zeros(Len(Board[d].cells))]

\* What the host knows of the instruction registers is right.
LengthsRight == \A i \in 1 .. Len(devices) : devices[i].ir_length = Board[i].ir_length
=============================================================================
