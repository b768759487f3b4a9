---------------------------- MODULE BoundaryScan ----------------------------
(***************************************************************************)
(* What Scanner (src/boundary_scan/scanner.cpp) reads out of a boundary    *)
(* register and PinDriver (src/boundary_scan/pin_driver.cpp) puts into     *)
(* one. A register is a list of bits, bit 1 next to TDO; a cell is a       *)
(* record pin, fn, safe, disabled_by and disable_value, as in BSDL.        *)
(***************************************************************************)
EXTENDS Integers, Sequences, FiniteSetsExt

CONSTANT NoPin     \* "*", the name of a cell that has no pin

isInput(cell) == cell.fn \in {"INPUT", "BIDIR", "CLOCK"}
isOutput(cell) == cell.fn \in {"OUTPUT2", "OUTPUT3", "BIDIR"}
hasPin(cell) == cell.pin # NoPin

---------------------------------------------------------------------------
(* Scanner                                                                 *)

\* ScanResult::getBit(): a bit past the end of a partial read is 0.
GetBit(raw, pos) == pos <= Len(raw) /\ raw[pos] = 1

InputCells(cells, pin) == {i \in 1 .. Len(cells) : cells[i].pin = pin /\ isInput(cells[i])}
OutputCells(cells, pin) == {i \in 1 .. Len(cells) : cells[i].pin = pin /\ isOutput(cells[i])}

\* getObservablePins() and getDrivablePins()
ObservablePins(cells) ==
  {cells[i].pin : i \in {i \in 1 .. Len(cells) : hasPin(cells[i])
                                               /\ (isInput(cells[i]) \/ isOutput(cells[i]))}}
DrivablePins(cells) ==
  {cells[i].pin : i \in {i \in 1 .. Len(cells) : hasPin(cells[i]) /\ isOutput(cells[i])}}

\* The cell decodeBoundaryScan() takes a pin's state from: its last input
\* cell, or the first output cell of a pin that has no input cell.
\* Mutant: the output cell wins.
DecodedOutputCell(cells, pin) ==
  IF OutputCells(cells, pin) # {} THEN Min(OutputCells(cells, pin))
  ELSE Max(InputCells(cells, pin))
DecodedCell(cells, pin) ==
  IF InputCells(cells, pin) # {} THEN Max(InputCells(cells, pin))
  ELSE Min(OutputCells(cells, pin))

\* The pins in the filter are kept, all of them when it is empty.
DecodeBoundaryScan(cells, filter, raw) ==
  [p \in {q \in ObservablePins(cells) : raw # <<>> /\ (filter = {} \/ q \in filter)} |->
     IF GetBit(raw, DecodedCell(cells, p)) THEN "high" ELSE "low"]

\* ScanResult::getPin()
GetPin(states, pin) == IF pin \in DOMAIN states THEN states[pin] ELSE "unknown"

\* How many bits have to be read for the pins in the filter; 0 is all of them.
\* Mutant: positions start at 0, and the count is one short.
NeededBitsShort(cells, filter) ==
  LET wanted == {i \in 1 .. Len(cells) : hasPin(cells[i]) /\ cells[i].pin \in filter}
  IN  IF wanted = {} THEN 0 ELSE Max(wanted) - 1
MaxNeededBsrBits(cells, filter) ==
  LET wanted == {i \in 1 .. Len(cells) : hasPin(cells[i]) /\ cells[i].pin \in filter}
  IN  IF wanted = {} THEN 0 ELSE Max(wanted)

---------------------------------------------------------------------------
(* PinDriver                                                               *)

\* setBit() makes the buffer longer when it has to; getBit() reads 0 past it.
SetBit(buf, pos, bit) ==
  [i \in 1 .. (IF pos > Len(buf) THEN pos ELSE Len(buf)) |->
     IF i = pos THEN bit ELSE IF i <= Len(buf) THEN buf[i] ELSE 0]

Output(cells, pin) == Min(OutputCells(cells, pin))

\* stagePinOutput(): the value, and the control cell to the other than its disable value.
\* Mutant: the control cell is left alone.
StageValueOnly(buf, cells, pin, value) == SetBit(buf, Output(cells, pin), value)
StagePinOutput(buf, cells, pin, value) ==
  LET out == Output(cells, pin)
      set == SetBit(buf, out, value)
  IN  IF cells[out].disabled_by = 0 THEN set
      ELSE SetBit(set, cells[out].disabled_by, IF cells[out].disable_value = 0 THEN 1 ELSE 0)

\* stagePinHighZ() wants a tristate output with a control cell.
CanHighZ(cells, pin) == /\ OutputCells(cells, pin) # {}
                        /\ cells[Output(cells, pin)].fn \in {"OUTPUT3", "BIDIR"}
                        /\ cells[Output(cells, pin)].disabled_by # 0
StagePinHighZ(buf, cells, pin) ==
  LET out == Output(cells, pin)
  IN  SetBit(buf, cells[out].disabled_by, IF cells[out].disable_value = 0 THEN 0 ELSE 1)

\* setPin(), or setPinHighZ() for a value below 0: the buffer afterwards, or
\* <<>> when the pin cannot be driven that way.
Stage(buf, cells, pin, value) ==
  IF value < 0 THEN IF CanHighZ(cells, pin) THEN StagePinHighZ(buf, cells, pin) ELSE <<>>
  ELSE IF OutputCells(cells, pin) # {} THEN StagePinOutput(buf, cells, pin, value) ELSE <<>>

\* getStagedPinValue(): -1 is high-Z, or not a pin that can be driven.
GetStagedPinValue(buf, cells, pin) ==
  IF OutputCells(cells, pin) = {} THEN -1
  ELSE LET cell == cells[Output(cells, pin)]
           bit(i) == IF GetBit(buf, i) THEN 1 ELSE 0
       IN  IF cell.disabled_by # 0 /\ bit(cell.disabled_by) = cell.disable_value
           THEN -1 ELSE bit(Output(cells, pin))

\* applyBsrSnapshot(): as long as the register, zeros where the snapshot is short.
ApplyBsrSnapshot(cells, raw) ==
  [i \in 1 .. Len(cells) |-> IF GetBit(raw, i) THEN 1 ELSE 0]
InitBsrFromSafeValues(cells) ==
  [i \in 1 .. Len(cells) |-> IF cells[i].safe = 1 THEN 1 ELSE 0]
=============================================================================
