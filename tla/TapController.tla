--------------------------- MODULE TapController ---------------------------
(***************************************************************************)
(* TapController (src/jtag/tap_controller.cpp) over FtdiDevice and its     *)
(* MPSSE command buffers (src/ftdi), opened and closed by HardwareContext  *)
(* (src/hardware/hardware_context.cpp), against the TAP of the device.     *)
(*                                                                         *)
(* Every operation is a sequence of USB transfers. A transfer clocks a     *)
(* word of TMS bits and may ask for bytes of TDO; when it succeeds the     *)
(* code sets state_. It can fail: the write stops after any part of the    *)
(* word, or the answer does not come in time. In both cases bytes of TDO   *)
(* may still arrive later, and the next reader gets them first.            *)
(*                                                                         *)
(* TDI data is left out, and of TDO we keep which bit of the scan each     *)
(* bit of the result is. Only the hardware worker calls these operations.  *)
(***************************************************************************)
EXTENDS TapState, Integers

CONSTANTS Bits,      \* lengths of a scan
          Cycles,    \* arguments of clkIdle()
          Counts,    \* numbers of scans for shiftDRRepeat()
          Targets,   \* arguments of gotoState()
          kChunk,    \* scans in one transfer of shiftDRRepeat()
          MaxLate    \* bound: bytes of TDO that are still on their way

ASSUME ScansAssumption == Bits \subseteq Int /\ Cycles \subseteq Int /\ Counts \subseteq Int
\* The states to which the search finds a word of one command, from every state.
Found == {to \in TapStates : \A from \in TapStates :
            LET path == TmsPaths[from, to]
            IN  path \in Seq({0, 1}) /\ Len(path) <= MaxTms /\ After(from, path) = to}
ASSUME TargetsAssumption == Targets \subseteq Found
\* The targets of the operations themselves. There is nothing to choose here: TLC
\* evaluates the search for all sixteen states.
ASSUME PathsAssumption == {"RUN_TEST_IDLE", "SHIFT_DR", "SHIFT_IR"} \subseteq Found
\* The words it finds for a scan between one RUN_TEST_IDLE and the next.
ASSUME ScanPathsAssumption ==
  /\ TmsPaths["RUN_TEST_IDLE", "SHIFT_DR"] = <<1, 0, 0>>
  /\ TmsPaths["RUN_TEST_IDLE", "SHIFT_IR"] = <<1, 1, 0, 0>>
  /\ TmsPaths["EXIT1_DR", "RUN_TEST_IDLE"] = <<1, 0>>
  /\ TmsPaths["EXIT1_IR", "RUN_TEST_IDLE"] = <<1, 0>>
ASSUME BoundsAssumption == kChunk \in Nat \ {0} /\ MaxLate \in Nat

VARIABLES is_open,  \* FtdiDevice::is_open_
          state,    \* TapController::state_
          hw,       \* the state the device's TAP is in
          late,     \* bytes of TDO of failed transfers the receive buffer holds or will hold
          sync,     \* "unknown" until a reset works and after one that failed, "ok" after a
                    \* reset that worked, "lost" when another operation fails after it
                    \* or another process has the adapter
          clean,    \* no transfer has failed since the adapter was opened
          last      \* the last operation and what it did

vars == <<is_open, state, hw, late, sync, clean, last>>

Repeat(n, x) == [i \in 1 .. n |-> x]

---------------------------------------------------------------------------
(* MpsseCommandBuffer                                                      *)

\* clockTms() ignores a word that does not fit into one command.
clockTms(word) == IF Len(word) \in 1 .. 7 THEN word ELSE <<>>

\* shiftOut() and shiftInOut() clock with TMS=0.
shiftInOut(bits) == Repeat(bits, 0)

---------------------------------------------------------------------------
(* How a scan is cut into commands, and its TDO put together again         *)

Bulk(bits) == (bits - 1) \div 8        \* bulk_bytes
Remaining(bits) == (bits - 1) % 8      \* bulk_remaining

\* The shift of doShift(): whole bytes, the remaining bits, the last bit with
\* TMS=1.
\* Mutant: the last bit is also counted among the bulk bits.
ShiftWordLong(bits) == shiftInOut(8 * (bits \div 8)) \o shiftInOut(bits % 8)
                         \o clockTms(<<1>>)
ShiftWord(bits) == shiftInOut(8 * Bulk(bits)) \o shiftInOut(Remaining(bits))
                     \o clockTms(<<1>>)

\* Bytes of TDO per scan (expected_read_bytes_, tdo_raw_per).
ReadBytes(bits) == Bulk(bits) + (IF Remaining(bits) > 0 THEN 1 ELSE 0) + 1

\* What the adapter answers to one scan: for each byte, which bit of the scan
\* each of its bits 0 .. 7 is, -1 for none. Single bits come in at bit 7.
Answer(bits) ==
  LET r == Remaining(bits)
      bulk == [i \in 1 .. Bulk(bits) |-> [j \in 0 .. 7 |-> 8 * (i - 1) + j]]
      partial == [j \in 0 .. 7 |-> IF j >= 8 - r THEN 8 * Bulk(bits) + j - (8 - r) ELSE -1]
      last_bit == [j \in 0 .. 7 |-> IF j = 7 THEN bits - 1 ELSE -1]
  IN  bulk \o (IF r > 0 THEN <<partial>> ELSE <<>>) \o <<last_bit>>

\* doShift() and shiftDRRepeat() put the bits of tdo_data together.
Reassemble(bits, raw) ==
  [k \in 0 .. bits - 1 |->
     CASE k < 8 * Bulk(bits) -> raw[k \div 8 + 1][k % 8]
       [] k >= 8 * Bulk(bits) /\ k < bits - 1 ->
            raw[Bulk(bits) + 1][(k % 8) + (8 - Remaining(bits))]
       [] k = bits - 1 -> raw[ReadBytes(bits)][7]]

\* The scan reads its bytes behind those that are late: is the result its own?
OwnTdo(bits) ==
  LET stale == Repeat(late, [j \in 0 .. 7 |-> -1])
      raw == SubSeq(stale \o Answer(bits), 1, ReadBytes(bits))
  IN  Reassemble(bits, raw) = [k \in 0 .. bits - 1 |-> k]

---------------------------------------------------------------------------
(* The transfers of each operation: the word, the bytes to read, and the   *)
(* value of state_ after success                                           *)

Transfer(word, bytes, to) == [word |-> word, bytes |-> bytes, to |-> to]

\* Mutant of ResetTransfers: one TMS=1 too few.
ResetFour == <<Transfer(clockTms(<<1, 1, 1, 1>>) \o clockTms(<<0>>), 0, "RUN_TEST_IDLE")>>
ResetTransfers == <<Transfer(clockTms(<<1, 1, 1, 1, 1>>) \o clockTms(<<0>>), 0, "RUN_TEST_IDLE")>>

GotoTransfers(from, to) ==
  IF from = to THEN <<>> ELSE <<Transfer(clockTms(TmsPaths[from, to]), 0, to)>>

\* clkIdle(): cycles in portions of up to seven.
IdleTransfers(cycles) ==
  [i \in 1 .. (IF cycles <= 0 THEN 0 ELSE (cycles + 6) \div 7) |->
     LET left == cycles - 7 * (i - 1)
     IN  Transfer(clockTms(Repeat(IF left > 7 THEN 7 ELSE left, 0)), 0, "RUN_TEST_IDLE")]

\* shiftIR() and shiftDR(), from the current state back to RUN_TEST_IDLE.
ShiftTransfers(shift, exit1, bits, read_back) ==
  GotoTransfers(state, shift)
    \o <<Transfer(ShiftWord(bits), IF read_back THEN ReadBytes(bits) ELSE 0, exit1)>>
    \o GotoTransfers(exit1, "RUN_TEST_IDLE")

\* shiftDRRepeat(): every scan is clocked as from RUN_TEST_IDLE, wherever
\* state_ is, and state_ is set after the last transfer only.
RepeatTransfers(count, bits) ==
  LET scan == clockTms(TmsPaths["RUN_TEST_IDLE", "SHIFT_DR"]) \o ShiftWord(bits)
                \o clockTms(TmsPaths["EXIT1_DR", "RUN_TEST_IDLE"])
      chunks == (count + kChunk - 1) \div kChunk
      size(i) == IF i < chunks THEN kChunk ELSE count - kChunk * (chunks - 1)
      word(n) == [k \in 1 .. n * Len(scan) |-> scan[((k - 1) % Len(scan)) + 1]]
  IN  [i \in 1 .. chunks |->
         Transfer(word(size(i)), size(i) * ReadBytes(bits),
                  IF i = chunks THEN "RUN_TEST_IDLE" ELSE state)]

---------------------------------------------------------------------------
(* Carrying out an operation                                               *)

\* What the first n transfers clock, for every n.
Clocked(transfers) ==
  LET word[n \in 0 .. Len(transfers)] == IF n = 0 THEN <<>> ELSE word[n - 1] \o transfers[n].word
  IN  word

\* Clocks taken in the states in which a scan or an idle time does its work.
Watched == {"RUN_TEST_IDLE", "SHIFT_DR", "UPDATE_DR", "SHIFT_IR", "UPDATE_IR"}
ClocksIn(course) ==
  [s \in Watched |-> Cardinality({i \in 1 .. Len(course) - 1 : course[i] = s})]

NoClocks == [s \in Watched |-> 0]

\* Every transfer succeeds; none is needed, or the adapter is open. The clocks
\* are counted for operations that begin in sync and in RUN_TEST_IDLE.
Succeed(op, n, transfers, own) ==
  LET course == Course(hw, Clocked(transfers)[Len(transfers)])
      counted == sync = "ok" /\ state = "RUN_TEST_IDLE"
  IN  /\ transfers = <<>> \/ is_open
      /\ hw' = course[Len(course)]
      /\ state' = IF transfers = <<>> THEN state ELSE transfers[Len(transfers)].to
      /\ last' = [op |-> op, ok |-> TRUE, own |-> own, counted |-> counted,
                  n |-> IF counted THEN n ELSE 0,
                  clocks |-> IF counted THEN ClocksIn(course) ELSE NoClocks]
      /\ UNCHANGED <<is_open, late, clean>>

Failed(op) == [op |-> op, ok |-> FALSE, own |-> FALSE, counted |-> FALSE, n |-> 0,
               clocks |-> NoClocks]

\* The operation returns false before it reaches the device.
Refuse(op) ==
  /\ last' = Failed(op)
  /\ UNCHANGED <<is_open, state, hw, late, sync, clean>>

\* Transfer i fails: its write stops after part of the word, or all of it was
\* clocked and reading timed out. Bytes that were not read may arrive later.
FailAt(op, transfers, i) ==
  LET t == transfers[i]
      course == Course(hw, Clocked(transfers)[i])
      end == Len(course)
  IN  /\ is_open
      /\ state' = IF i = 1 THEN state ELSE transfers[i - 1].to
      /\ \/ \E k \in 0 .. Len(t.word) :
              /\ hw' = course[end - Len(t.word) + k]
              /\ late' \in late .. late + (IF k < t.bytes THEN k ELSE t.bytes)
         \/ /\ t.bytes > 0
            /\ hw' = course[end]
            /\ late' \in 0 .. late + t.bytes
      /\ late' <= MaxLate
      /\ sync' = CASE op = "reset" -> "unknown"
                  [] op # "reset" /\ sync = "ok" -> "lost"
                  [] OTHER -> sync
      /\ clean' = FALSE
      /\ last' = Failed(op)
      /\ UNCHANGED is_open

\* transfer() returns before it writes when the adapter is closed.
Fail(op, transfers) ==
  \/ transfers # <<>> /\ ~is_open /\ Refuse(op)
  \/ \E i \in DOMAIN transfers : FailAt(op, transfers, i)

---------------------------------------------------------------------------
(* The operations                                                          *)

\* reset()
Reset ==
  \/ Succeed("reset", 0, ResetTransfers, TRUE) /\ sync' = "ok"
  \/ Fail("reset", ResetTransfers)

\* gotoState()
GotoState(target) ==
  LET transfers == GotoTransfers(state, target)
  IN  \/ Succeed("gotoState", 0, transfers, TRUE) /\ UNCHANGED sync
      \/ Fail("gotoState", transfers)

\* clkIdle()
ClkIdle(cycles) ==
  LET transfers == GotoTransfers(state, "RUN_TEST_IDLE") \o IdleTransfers(cycles)
  IN  \/ Succeed("clkIdle", cycles, transfers, TRUE) /\ UNCHANGED sync
      \/ Fail("clkIdle", transfers)

\* shiftIR()
ShiftIR(bits) ==
  LET transfers == ShiftTransfers("SHIFT_IR", "EXIT1_IR", bits, FALSE)
  IN  \/ bits <= 0 /\ Refuse("shiftIR")
      \/ bits > 0 /\ Succeed("shiftIR", bits, transfers, TRUE) /\ UNCHANGED sync
      \/ bits > 0 /\ Fail("shiftIR", transfers)

\* Both shiftDR(), and readDR(), which is the first with zeros for TDI.
ShiftDR(bits, read_back) ==
  LET transfers == ShiftTransfers("SHIFT_DR", "EXIT1_DR", bits, read_back)
  IN  \/ bits <= 0 /\ Refuse("shiftDR")
      \/ /\ bits > 0
         /\ Succeed("shiftDR", bits, transfers, read_back => OwnTdo(bits))
         /\ UNCHANGED sync
      \/ bits > 0 /\ Fail("shiftDR", transfers)

\* shiftDRRepeat(): nothing to do is success; the underrun returns cannot be
\* reached, since transfer() reads all bytes or fails.
ShiftDRRepeat(count, bits) ==
  LET transfers == RepeatTransfers(count, bits)
  IN  \/ /\ count <= 0 \/ bits <= 0
         /\ last' = [Failed("nothing") EXCEPT !.ok = TRUE, !.own = TRUE]
         /\ UNCHANGED <<is_open, state, hw, late, sync, clean>>
      \/ /\ count > 0 /\ bits > 0
         /\ Succeed("shiftDRRepeat", count * bits, transfers, OwnTdo(bits))
         /\ sync' = IF sync = "ok" /\ state # "RUN_TEST_IDLE" THEN "lost" ELSE sync
      \/ count > 0 /\ bits > 0 /\ Fail("shiftDRRepeat", transfers)

\* FtdiDevice::open() and close() end with is_open_ set.
FtdiOpen == is_open' = TRUE
FtdiClose == is_open' = FALSE

\* initMpsse() purges both buffers before it configures the adapter.
\* Mutant: they are not purged.
InitMpsseUnpurged == UNCHANGED late
InitMpsse == late' = 0

\* HardwareContext::open(). When it fails the adapter is closed again and nothing
\* has changed.
Open ==
  /\ ~is_open
  /\ FtdiOpen
  /\ InitMpsse
  /\ clean' = TRUE
  /\ last' = Failed("none")
  /\ UNCHANGED <<state, hw, sync>>

\* HardwareContext::close(): state_ is kept for the next open().
Close ==
  /\ is_open
  /\ FtdiClose
  /\ last' = Failed("none")
  /\ UNCHANGED <<state, hw, late, sync, clean>>

\* The adapter is closed "so other processes ... can acquire the D2XX handle"
\* (hardware_executor.h), and they move the TAP.
OtherProcess ==
  /\ ~is_open
  /\ hw' \in TapStates
  /\ sync' = IF sync = "ok" THEN "lost" ELSE sync
  /\ UNCHANGED <<is_open, state, late, clean, last>>

\* The constructor assumes TEST_LOGIC_RESET; the device may be in any state.
Init ==
  /\ is_open = FALSE
  /\ state = "TEST_LOGIC_RESET"
  /\ hw \in TapStates
  /\ late = 0
  /\ sync = "unknown"
  /\ clean = TRUE
  /\ last = Failed("none")

Next ==
  \/ Reset
  \/ \E target \in Targets : GotoState(target)
  \/ \E cycles \in Cycles : ClkIdle(cycles)
  \/ \E bits \in Bits : ShiftIR(bits)
  \/ \E bits \in Bits, read_back \in BOOLEAN : ShiftDR(bits, read_back)
  \/ \E count \in Counts, bits \in Bits : ShiftDRRepeat(count, bits)
  \/ Open
  \/ Close
  \/ OtherProcess

Spec == Init /\ [][Next]_vars

---------------------------------------------------------------------------
(* Properties                                                              *)

\* The variables have their types.
TypeOK ==
  /\ is_open \in BOOLEAN
  /\ state \in TapStates
  /\ hw \in TapStates
  /\ late \in 0 .. MaxLate
  /\ sync \in {"unknown", "ok", "lost"}
  /\ clean \in BOOLEAN
  /\ last.ok \in BOOLEAN /\ last.own \in BOOLEAN

\* The software's idea of the TAP (state_) is the TAP's own state, from a reset
\* that worked until a transfer fails or the adapter is given away; in
\* particular a reset that works brings the two together from wherever they are.
InSync == TypeOK /\ (sync = "ok" => hw = state)

\* From the state the TAP is in, any of the sixteen, the search for a target other
\* than EXIT2_IR (which has none of seven bits from a DR scan) finds a word that
\* leads there, fits into one MPSSE command and is as short as possible.
PathsShortest ==
  \A to \in TapStates \ {"EXIT2_IR"} :
    LET path == TmsPaths[hw, to]
    IN  /\ After(hw, path) = to
        /\ Len(path) <= MaxTms
        /\ \A n \in 0 .. Len(path) - 1 : to \notin ReachableIn(hw, n)

\* In sync and from RUN_TEST_IDLE, a scan of n bits takes n clocks in its shift
\* state and passes its update state once per scan, and clkIdle(n) spends n
\* clocks in RUN_TEST_IDLE: the cut of a scan into bytes, bits and the last bit,
\* and of an idle time into portions, neither drops nor adds a clock.
ScanExact ==
  sync = "ok" /\ last.ok /\ last.counted =>
    LET c == last.clocks
    IN  /\ last.op = "shiftIR" => /\ c["SHIFT_IR"] = last.n /\ c["UPDATE_IR"] = 1
                                  /\ c["SHIFT_DR"] = 0 /\ c["UPDATE_DR"] = 0
        /\ last.op = "shiftDR" => /\ c["SHIFT_DR"] = last.n /\ c["UPDATE_DR"] = 1
                                  /\ c["SHIFT_IR"] = 0 /\ c["UPDATE_IR"] = 0
        /\ last.op = "shiftDRRepeat" => /\ c["SHIFT_DR"] = last.n
                                        /\ c["UPDATE_DR"] = c["RUN_TEST_IDLE"]
                                        /\ c["SHIFT_IR"] = 0
        /\ last.op = "clkIdle" => c["RUN_TEST_IDLE"] = (IF last.n > 0 THEN last.n ELSE 0)

\* A scan that succeeds with read-back returns the bits of this scan, in order,
\* as long as no transfer has failed since the adapter was opened.
TdoOwn == clean /\ last.ok => last.own
=============================================================================
