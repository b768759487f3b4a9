-------------------------- MODULE FlashProgrammer --------------------------
(***************************************************************************)
(* FlashProgrammer of src/flash with its bridge (flash_jtag_bridge.cpp)    *)
(* and flash driver (spi_flash.cpp), and the callers of PlConfig and of    *)
(* FlashProgrammer: the command line tools pl_program and flash_program,   *)
(* the MCP tool program_bitstream and the GUI method hardware/program_pl.  *)
(* The flash chip, external, is an MT25Q as the driver addresses it.       *)
(***************************************************************************)
EXTENDS PlConfig, McsParser

CONSTANTS Page,        \* kPageSize
          Chunk,       \* kVerifyChunk
          Jedec,       \* kJedecMt25ql128
          Chips,       \* JEDEC ids of the chips a board may have
          Bridge,      \* words of the bridge bitstream
          BitFiles,    \* bitstream files a user gives
          ImageFiles,  \* image files a user gives
          Stale,       \* a byte of the flash before it is programmed
          Indices,     \* device indices a user gives: the PL's, or none's
          MaxRuns      \* bound: programs a user starts

\* A bitstream the PL takes: its first sync word, and the frames.
Good(words) == \E i \in DOMAIN words :
                 /\ words[i] = "sync" /\ \A j \in 1 .. i - 1 : words[j] # "sync"
                 /\ SubSeq(words, i + 1, Len(words)) = Frames

ASSUME FlashAssumption == /\ {Page, Chunk} \subseteq Nat \ {0}
                          /\ Capacity % Page = 0 /\ Stale \in Bytes /\ Jedec # "zeros"
                          /\ Bridge \in Seq(Words) /\ Good(Bridge)
                          /\ \A f \in BitFiles : f \in [there : BOOLEAN, words : Seq(Words)]
                          /\ \A f \in ImageFiles : f \in Files

VARIABLES tool,   \* what runs: "none", "pl" or "flash"
          file,   \* the image file of the flash run
          loaded, \* what loadImageFile() makes of it: [ok, out, wild]
          fp,     \* where FlashProgrammer::program() is
          user1,  \* FlashJtagBridge::user1_selected_
          image,  \* the loaded image
          off,    \* the offset of its page and verify loops
          expired,  \* the timeout of waitWipClear() has passed
          answer, \* what FlashProgrammer::program() returned, or "crashed"
          chip,   \* the flash: [jedec, mem, wel, op]; op # <<"none">> is WIP
          busy0,  \* the chip was busy when this run began
          runs

flash_vars == <<tool, file, loaded, fp, user1, image, off, expired, answer, chip, busy0, runs>>
prog_vars == <<pl_vars, flash_vars>>

---------------------------------------------------------------------------
(* The flash chip                                                          *)

NoOp == <<"none">>
Wip == chip.op # NoOp

\* A byte at a time, wrapping within the page; a program clears bits only.
Programmed(mem, addr, data) ==
  LET page == addr - (addr % Page)
      at(i) == page + ((addr + i - 1) % Page)
  IN [a \in DOMAIN mem |->
        LET w == {i \in DOMAIN data : at(i) = a}
        IN IF w = {} THEN mem[a] ELSE mem[a] \cap data[CHOOSE i \in w : \A j \in w : j <= i]]

\* Commands a busy chip ignores, and erase and program without WEL
Obeys(cmd) ==
  CASE cmd[1] = "WREN" /\ ~Wip -> [chip EXCEPT !.wel = TRUE]
    [] cmd[1] \in {"BULK_ERASE", "PAGE_PROGRAM"} /\ ~Wip /\ chip.wel -> [chip EXCEPT !.op = cmd]
    [] OTHER -> chip

ChipFinishes ==
  /\ Wip
  /\ chip' = [chip EXCEPT !.op = NoOp, !.wel = FALSE,
                !.mem = IF chip.op[1] = "BULK_ERASE" THEN [a \in DOMAIN @ |-> Erased]
                        ELSE Programmed(@, chip.op[2], chip.op[3])]
  /\ UNCHANGED <<pl_vars, tool, file, loaded, fp, user1, image, off, expired, answer, busy0, runs>>

\* The bridge passes the bytes on when the PL runs it and USER1 is loaded, which
\* the transfer does first if it thinks it has to. MISO carries zeros otherwise,
\* and a busy chip answers its status only.
Spi == pl.state = "started" /\ bits.words = Bridge /\ (user1 => ir = "USER1")
ReadBack(addr, n) == [i \in 1 .. n |-> IF Spi /\ ~Wip THEN chip.mem[addr + i - 1] ELSE {}]
IdSeen == IF Spi /\ ~Wip THEN chip.jedec ELSE "zeros"
WipSeen == Spi /\ Wip

---------------------------------------------------------------------------
(* Starting a program                                                      *)

Running == (tool = "pl" /\ result = "none") \/ (tool = "flash" /\ answer = "none")
CanStart == ~Running /\ runs < MaxRuns /\ runs' = runs + 1

\* The device index is checked against the chain: by ctx.plConfig(), which
\* throws, and by the command line tools.
PlConfigOf(d) == d \in 0 .. Before + After

\* A cable that does not open, an empty chain or an index outside of it: the
\* tool ends before anything is sent.
Refused == CanStart /\ tool' = "none" /\ UNCHANGED <<pl_vars, file, loaded, fp, user1, image, off, expired,
                                                    answer, chip, busy0>>

ProgramPl(f) ==
  /\ CanStart /\ tool' = "pl" /\ PlStart(f) /\ busy0' = Wip
  /\ UNCHANGED <<pl, ir, file, loaded, fp, user1, image, off, expired, answer, chip>>

\* The MCP tool and the GUI method: an exception answers for a false.
ProgramBitstream(f, d) == IF PlConfigOf(d) THEN ProgramPl(f) ELSE Refused
HardwareProgramPl(f, d) == IF PlConfigOf(d) THEN ProgramPl(f) ELSE Refused
PlProgramMain(f, d) == Refused \/ (PlConfigOf(d) /\ ProgramPl(f))
\* --verbose reads the status once more.
VerboseStatus ==
  /\ tool = "pl" /\ result # "none" /\ ir' \in {ir, "CFG_IN", "CFG_OUT"}
  /\ UNCHANGED <<pc, pl, bits, poll, result, fault, late, flash_vars>>

\* flash_program: FlashProgrammer::program() loads the bridge first; its own
\* bridge object has loaded no instruction.
\* Mutant: the bridge object of the last run is used again.
ProgramFlashShared(f) ==
  /\ CanStart /\ tool' = "flash" /\ PlStart([there |-> TRUE, words |-> Bridge])
  /\ file' = f /\ loaded' = LoadImageFile(f) /\ fp' = "bridge" /\ answer' = "none" /\ busy0' = Wip
  /\ image' = <<>> /\ off' = 0 /\ expired' = FALSE
  /\ UNCHANGED <<pl, ir, chip, user1>>
ProgramFlash(f) ==
  /\ CanStart /\ tool' = "flash" /\ PlStart([there |-> TRUE, words |-> Bridge])
  /\ file' = f /\ loaded' = LoadImageFile(f) /\ fp' = "bridge" /\ answer' = "none" /\ busy0' = Wip
  /\ user1' = FALSE /\ image' = <<>> /\ off' = 0 /\ expired' = FALSE
  /\ UNCHANGED <<pl, ir, chip>>

FlashProgramMain(f, d) == Refused \/ (PlConfigOf(d) /\ ProgramFlash(f))

---------------------------------------------------------------------------
(* FlashProgrammer::program()                                              *)

At(p) == tool = "flash" /\ fp = p
Answer(r) == answer' = r /\ fp' = "ended"
Goes(p) == fp' = p /\ UNCHANGED answer

BridgeLoaded ==
  /\ At("bridge") /\ result # "none"
  /\ IF result = "true" THEN Goes("reset") ELSE Answer("false")
  /\ UNCHANGED <<pl_vars, tool, file, loaded, user1, image, off, expired, chip, busy0, runs>>

\* A failed reset may have happened; the idle clocks after it are checked.
ResetTap ==
  /\ At("reset")
  /\ \/ ir' = "IDCODE" /\ Goes("id") /\ UNCHANGED fault
     \/ ir' \in {ir, "IDCODE"} /\ Answer("false") /\ fault' = fault + 1
  /\ UNCHANGED <<pc, pl, bits, poll, result, late, tool, file, loaded, user1, image, off, expired, chip,
                 busy0, runs>>

\* FlashJtagBridge::transfer(): USER1 once, then the scan. Either may fail, the
\* command having reached the chip or not.
Transfer(cmd, next) ==
  /\ \/ /\ ir' = (IF user1 THEN ir ELSE "USER1") /\ user1' = TRUE
        /\ chip' = (IF Spi THEN Obeys(cmd) ELSE chip)
        /\ \/ next /\ UNCHANGED fault
           \/ Answer("false") /\ fault' = fault + 1
     \/ /\ ir' \in (IF user1 THEN {ir} ELSE {ir, "USER1"}) /\ UNCHANGED <<user1, chip>>
        /\ Answer("false") /\ fault' = fault + 1
  /\ UNCHANGED <<pc, pl, bits, poll, result, late, tool, file, loaded, busy0, runs>>
LoopVars == <<image, off, expired>>

ReadId ==
  /\ At("id")
  /\ Transfer(<<"READ_ID">>,
       IF IdSeen = Jedec THEN Goes("image") ELSE Answer("false"))
  /\ UNCHANGED LoopVars

\* A write behind the image may end the process, or go unnoticed.
Fits == loaded.ok /\ Len(loaded.out) <= Capacity
LoadImage ==
  /\ At("image")
  /\ \/ loaded.wild /\ Answer("crashed") /\ UNCHANGED image
     \/ Fits /\ image' = loaded.out /\ Goes("erase_wren")
     \/ ~Fits /\ Answer("false") /\ UNCHANGED image
  /\ UNCHANGED <<pl_vars, tool, file, loaded, user1, off, expired, chip, busy0, runs>>

\* bulkErase()
EraseEnable == At("erase_wren") /\ Transfer(<<"WREN">>, Goes("erase")) /\ UNCHANGED LoopVars
Erase ==
  /\ At("erase") /\ Transfer(<<"BULK_ERASE">>, Goes("erase_wait")) /\ expired' = FALSE
  /\ UNCHANGED <<image, off>>

\* waitWipClear(): the status is read until WIP is clear or time is up.
\* Mutants: no timeout; no wait.
WaitWipClearBlind(p, next) ==
  At(p) /\ Transfer(<<"READ_STATUS">>, next) /\ UNCHANGED expired
WaitWipClearForever(p, next) ==
  /\ At(p)
  /\ Transfer(<<"READ_STATUS">>, IF WipSeen THEN Goes(p) ELSE next)
  /\ UNCHANGED expired
WaitWipClear(p, next) ==
  /\ At(p)
  /\ Transfer(<<"READ_STATUS">>, IF ~WipSeen THEN next ELSE IF expired THEN Answer("false") ELSE Goes(p))
  /\ UNCHANGED expired
TimeoutPasses ==
  /\ At("erase_wait") \/ At("page_wait")
  /\ ~expired /\ Wip /\ expired' = TRUE /\ late' = TRUE
  /\ UNCHANGED <<pc, pl, ir, bits, poll, result, fault, tool, file, loaded, fp, user1, image, off, answer, chip,
                 busy0, runs>>

EraseWait == WaitWipClear("erase_wait", Goes("page_wren")) /\ UNCHANGED <<image, off>>

\* pageProgram(), one page after the other
PageLen == IF Len(image) - off < Page THEN Len(image) - off ELSE Page
PageEnable ==
  At("page_wren") /\ Transfer(<<"WREN">>, Goes("page")) /\ UNCHANGED LoopVars
PageProgram ==
  /\ At("page")
  /\ Transfer(<<"PAGE_PROGRAM", off, SubSeq(image, off + 1, off + PageLen)>>, Goes("page_wait"))
  /\ expired' = FALSE /\ UNCHANGED <<image, off>>
PageWait ==
  LET more == off + Page < Len(image)
  IN /\ WaitWipClear("page_wait", Goes(IF more THEN "page_wren" ELSE "verify"))
     /\ off' = IF fp' = "page_wren" THEN off + Page ELSE IF fp' = "verify" THEN 0 ELSE off
     /\ UNCHANGED image

ChunkLen == IF Len(image) - off < Chunk THEN Len(image) - off ELSE Chunk
Verify ==
  /\ At("verify")
  /\ Transfer(<<"READ", off>>,
       CASE ReadBack(off, ChunkLen) # SubSeq(image, off + 1, off + ChunkLen) -> Answer("false")
         [] ReadBack(off, ChunkLen) = SubSeq(image, off + 1, off + ChunkLen) ->
              IF off + Chunk < Len(image) THEN Goes("verify") ELSE Answer("true"))
  /\ off' = off + Chunk
  /\ UNCHANGED <<image, expired>>

FlashStep == BridgeLoaded \/ ResetTap \/ ReadId \/ LoadImage \/ EraseEnable \/ Erase \/ EraseWait
             \/ PageEnable \/ PageProgram \/ PageWait \/ Verify

Init == /\ PlInit
        /\ chip \in {[jedec |-> j, mem |-> [a \in 0 .. Capacity - 1 |-> Stale], wel |-> FALSE,
                      op |-> NoOp] : j \in Chips}
        /\ tool = "none" /\ file = [kind |-> "bin", there |-> FALSE, content |-> <<>>]
        /\ loaded = [ok |-> FALSE, out |-> <<>>, wild |-> FALSE] /\ fp = "off" /\ user1 = FALSE
        /\ image = <<>> /\ off = 0 /\ expired = FALSE /\ answer = "none" /\ busy0 = FALSE
        /\ runs = 0

ProgramSteps == FlashStep \/ (PlStep /\ UNCHANGED flash_vars)
Next == \/ \E f \in BitFiles, d \in Indices :
             ProgramBitstream(f, d) \/ HardwareProgramPl(f, d) \/ PlProgramMain(f, d)
        \/ \E f \in ImageFiles, d \in Indices : FlashProgramMain(f, d)
        \/ VerboseStatus
        \/ ProgramSteps
        \/ PlDevice /\ UNCHANGED flash_vars
        \/ ChipFinishes \/ TimeoutPasses

\* A program that runs goes on, and the clock of waitWipClear() with it; that a
\* cable call fails is never owed, and the chip and the PL owe nothing.
Working == ProgramSteps /\ UNCHANGED fault
ProgSpec == Init /\ [][Next]_prog_vars /\ WF_prog_vars(Working) /\ WF_prog_vars(TimeoutPasses)

---------------------------------------------------------------------------
(* Properties                                                              *)

\* Every variable keeps to its values.
ProgTypeOK ==
  /\ result \in {"none", "true", "false"} /\ answer \in {"none", "true", "false", "crashed"}
  /\ pl \in [state : {"old", "clearing", "clear", "spoiled", "short", "crc", "loaded", "starting",
                      "started"}, locked : BOOLEAN]
  /\ chip.mem \in [0 .. Capacity - 1 -> Bytes] /\ chip.wel \in BOOLEAN
  /\ Len(image) <= Capacity /\ off \in 0 .. Capacity + Chunk
  /\ poll.attempt \in 0 .. MaxPolls

\* FlashProgrammer::program() returns true only when the whole chip holds the
\* image, and the erased byte behind it, whatever it held before and whatever
\* failed in an earlier run; PlConfig::program(), after a status it could read,
\* only when DONE is high.
SuccessIsTrue ==
  /\ ProgTypeOK
  /\ tool = "flash" /\ answer = "true" =>
       \A a \in 0 .. Capacity - 1 :
         chip.mem[a] = IF a < Len(loaded.out) THEN loaded.out[a + 1] ELSE Erased
  /\ result = "true" /\ poll.read => PlDone

\* When no cable call failed, the hardware was not late and the chip was idle
\* at the start, program() fails only for a wrong file or a wrong chip: write
\* enables, waits, page limits, erase and instruction loads are all in order.
NoSpuriousFailure ==
  fault = 0 /\ ~late /\ ~busy0 =>
    /\ result = "false" => ~(bits.there /\ Good(bits.words))
    /\ tool = "flash" /\ answer = "false" =>
         chip.jedec # Jedec \/ ~Fits

\* Of an Intel HEX file whose records end below 2^32, no byte is written behind
\* the image; and the image is the one the records describe, unless the parser's
\* bitwise or of segment and address loses a carry. (A record that crosses 2^32
\* passes the test of the capacity, and its bytes go behind the image.)
McsImageRight ==
  file.there /\ file.kind = "mcs" /\ NoWrap(file.content) =>
    /\ ~loaded.wild
    /\ NoCarry(file.content) => McsMeaning(file.content, loaded)

\* A program that was started ends, even on a chip that stays busy for ever.
ProgramEnds == Running ~> ~Running
=============================================================================
