--------------------------- MODULE HardwareTools ---------------------------
(***************************************************************************)
(* The boundary-scan tools of the daemon (src/mcp/tools/register_tools.cpp *)
(* and the GUI methods of src/tools/daemon_runner.cpp), the script engine  *)
(* (src/script) and the interconnect test (src/boundary_scan), over the    *)
(* scanners and pin drivers HardwareContext keeps and one scan chain.      *)
(*                                                                         *)
(* The hardware worker runs one job at a time. A job is a list of steps;   *)
(* every scan is a step of its own, which may fail, so that what the pins  *)
(* do between two scans of a job is a state of the model.                  *)
(***************************************************************************)
EXTENDS JtagChain, BoundaryScan

CONSTANTS Pins,        \* pin names a client asks for
          Filters,     \* pin_filter arguments of capture_start
          Nets,        \* nets of an .ict file: driver <<device, pin>>, receivers
          Images,      \* what the boundary cells may capture
          MaxSamples,  \* bound: samples of one capture
          MaxCommands, \* bound: script commands
          MaxCalls,    \* bound: jobs, not counting the detection and the BSDL files
          MaxFaults    \* bound: scans that fail

VARIABLES scanners,  \* HardwareContext::scanners_: decode_filter_, last_error_ set
          drivers,   \* HardwareContext::pin_drivers_: bsr_data_
          job,       \* the job that runs, and its answer once it is over
          seen,      \* what the boundary cells captured in the last scan
          used       \* calls, commands and faults so far, for the bounds

tool_vars == <<devices, chain_error, ir, latch, scanners, drivers, job, seen, used>>

NoScanner == [made |-> FALSE, filter |-> {}, error |-> FALSE]
NewScanner == [NoScanner EXCEPT !.made = TRUE]
NoDriver == [made |-> FALSE, bsr |-> <<>>]

Cells(d) == Board[d].cells
Bits == {0, 1}

\* The BSDL files name a control cell by its position.
ASSUME CellsAssumption ==
  \A d \in Dev : \A i \in 1 .. Len(Cells(d)) :
    Cells(d)[i].disabled_by # 0 => /\ Cells(d)[i].disabled_by \in 1 .. Len(Cells(d)) \ {i}
                                   /\ Cells(d)[i].disable_value \in Bits
ASSUME ImagesAssumption ==
  \A image \in Images, d \in Dev : image[d] \in [1 .. Len(Cells(d)) -> Bits]
ASSUME NetsAssumption ==
  \A net \in Nets : /\ Len(net.receivers) \in Nat
                    /\ \A i \in 1 .. Len(net.receivers) : net.receivers[i][1] \in Dev

Ready(d) == InRange(d) /\ devices[d].bsdl     \* isReady() of both classes

\* deviceAllowsLiveExtest(): no PS_DDR_, PS_MIO, PS_SRST_B or PS_POR_B pin.
\* Mutant: the pins of the processing system are not looked for.
ExtestAllowedAlways(d) == Ready(d)
ExtestAllowed(d) == Ready(d) /\ ~Board[d].live

---------------------------------------------------------------------------
(* Jobs                                                                    *)

Idle == [tool |-> "idle", dev |-> 0, pin |-> NoPin, value |-> 0, todo |-> <<>>,
         states |-> <<>>, raw |-> <<>>, samples |-> [d \in Dev |-> <<>>], n |-> 0,
         steps |-> <<>>, ok |-> TRUE]

Ended == job.todo = <<>>
Head1 == IF Ended THEN <<"none">> ELSE Head(job.todo)

Then(steps) == steps \o Tail(job.todo)
\* The job goes on with these steps in place of the one it has done.
Go(steps) == job' = [job EXCEPT !.todo = Then(steps)]
Done == Go(<<>>)
\* An exception ends the job, and a failing command ends its script.
Throw == job' = [job EXCEPT !.todo = <<>>, !.ok = FALSE]

\* A scan works, or fails.
Works == UNCHANGED used
Fault == used.faults < MaxFaults /\ used' = [used EXCEPT !.faults = @ + 1]

\* The first steps of Scanner::sample(), captureCurrentState() and applyOutputs();
\* a step that works puts the next one before the rest of the job. What becomes
\* of a sample is the step `use`.
Sampling(d, use) == << <<"sample_ir", d, use>> >>
Capturing(d) == << <<"capture_ir", d>> >>
Applying(d) == << <<"apply", d>> >>

\* A job begins; the scanner or the pin driver it asks for is made when there
\* is none, and a new pin driver captures the state of its device.
BeginPin(tool, d, p, v, todo) ==
  /\ Ended
  /\ IF tool \in {"detect_devices", "load_bsdl"} THEN UNCHANGED used
     ELSE used.calls < MaxCalls /\ used' = [used EXCEPT !.calls = @ + 1]
  /\ job' = [Idle EXCEPT !.tool = tool, !.dev = d, !.pin = p, !.value = v, !.todo = todo]
  /\ UNCHANGED <<devices, chain_error, ir, latch, scanners, drivers, seen>>
Begin(tool, d, todo) == BeginPin(tool, d, NoPin, 0, todo)

UseScanner(d) == scanners' = [scanners EXCEPT ![d] = IF @.made THEN @ ELSE NewScanner]

\* read_idcode and detect_devices do the same.
DetectDevices == Begin("detect_devices", 0, << <<"detect">> >>)
LoadBsdlFile(d) == Begin("load_bsdl", d, << <<"load", d>> >>)
\* Most tools begin with ctx.scanner(), which throws for an index out of range;
\* list_pins only reads the BSDL data then.
ListPins(d) == Begin("list_pins", d, << <<"scanner", d>> >>)
SampleBsr(d) == Begin("sample_bsr", d, << <<"scanner", d>>, <<"sample_all", d>> >>)
ReadPin(d, p) == BeginPin("read_pin", d, p, 0, << <<"scanner", d>> >> \o Sampling(d, "answer"))
\* Scanner::readIdCode(), which the GUI calls
ReadIdCode(d) == Begin("read_id", d, << <<"scanner", d>>, <<"idcode_ir", d>> >>)
SetPin(d, p, v) == BeginPin("set_pin", d, p, v,
                     << <<"driver", d>>, <<"stage", d, p, v>> >> \o Applying(d))
CaptureStart(d, f) == Begin("capture_start", d, << <<"scanner", d>>, <<"capture", d, f>> >>)
\* The GUI runs a suite of scripts.
RunSuite(d) == Begin("suite", d, << <<"scanner", d>>, <<"driver", d>>, <<"script", d>>,
                                    <<"script", d>> >>)
RunScript(d) == Begin("run_script", d, << <<"scanner", d>>, <<"driver", d>>, <<"script", d>> >>)
\* The interconnect panel has a scanner and a pin driver for each device with a
\* BSDL file.
RunInterconnectTest(net) ==
  Begin("interconnect", 0,
        FlattenSeq([d \in Dev |-> IF Ready(d) THEN << <<"scanner", d>>, <<"driver", d>> >>
                                  ELSE <<>>])
        \o << <<"drive", net, 0>>, <<"drive", net, 1>> >>)

---------------------------------------------------------------------------
(* Steps: HardwareContext and Scanner                                      *)

DoDetect ==
  /\ Head1 = <<"detect">>
  /\ \/ Detect /\ Works
     \/ \E step \in 1 .. 3 : DetectFails(step) /\ Fault
  \* resetDeviceObjects(), whatever detectDevices() did
  /\ scanners' = [d \in Dev |-> NoScanner]
  /\ drivers' = [d \in Dev |-> NoDriver]
  /\ Done
  /\ UNCHANGED seen

DoLoad == \E d \in Dev, parses \in BOOLEAN :
  /\ Head1 = <<"load", d>>
  /\ LoadBsdl(d, parses)
  /\ IF InRange(d) /\ parses THEN Done ELSE Throw
  /\ UNCHANGED <<scanners, drivers, seen, used>>

GetScanner == \E d \in Dev :
  /\ Head1 = <<"scanner", d>>
  /\ IF scanners[d].made \/ InRange(d) THEN UseScanner(d) /\ Done
     ELSE UNCHANGED scanners /\ Throw
  /\ UNCHANGED <<devices, chain_error, ir, latch, drivers, seen, used>>

\* The constructor captures when it can, else takes the safe values.
GetDriver == \E d \in Dev :
  /\ Head1 = <<"driver", d>>
  /\ IF ~drivers[d].made /\ ~InRange(d) THEN UNCHANGED drivers /\ Throw
     ELSE /\ drivers' = [drivers EXCEPT ![d].made = TRUE]
          /\ Go(IF ~drivers[d].made /\ Ready(d) THEN Capturing(d) ELSE <<>>)
  /\ UNCHANGED <<devices, chain_error, ir, latch, scanners, seen, used>>

\* hardware/sample_bsr takes the filter off, capture_start puts its own on.
SampleAll == \E d \in Dev :
  /\ Head1 = <<"sample_all", d>>
  /\ scanners' = [scanners EXCEPT ![d].filter = {}]
  /\ Go(Sampling(d, "answer_all"))
  /\ UNCHANGED <<devices, chain_error, ir, latch, drivers, seen, used>>

StartCapture == \E d \in Dev, f \in Filters :
  /\ Head1 = <<"capture", d, f>>
  /\ scanners' = [scanners EXCEPT ![d].filter = f]
  /\ job' = [job EXCEPT !.todo = Then(<< <<"frames", d>> >>), !.states = <<>>, !.raw = <<>>]
  /\ UNCHANGED <<devices, chain_error, ir, latch, drivers, seen, used>>

Uses == {"answer", "answer_all", "frames", "sampled", "keep"}

\* sample() that ends early: its result is empty, and last_error_ is what
\* chain_.lastError() says, which need not be about this scan.
NoSample(d, use, error) ==
  /\ scanners' = [scanners EXCEPT ![d].error = error]
  /\ job' = [job EXCEPT !.todo = Then(<< <<use, d>> >>), !.states = <<>>, !.raw = <<>>]

SampleIr == \E d \in Dev, use \in Uses :
  /\ Head1 = <<"sample_ir", d, use>>
  /\ \/ /\ Ready(d)
        /\ Select(d, Board[d].ops["SAMPLE"])
        /\ Works
        /\ Go(<< <<"sample_dr", d, use>> >>)
        /\ UNCHANGED scanners
     \/ /\ Ready(d)
        /\ SelectFails(d, Board[d].ops["SAMPLE"])
        /\ Fault
        /\ NoSample(d, use, chain_error)
     \/ /\ ~Ready(d)
        /\ NoSample(d, use, TRUE)
        /\ UNCHANGED <<devices, chain_error, ir, latch, used>>
  /\ UNCHANGED <<drivers, seen>>

\* A sample that works leaves last_error_ as it was.
SampleDr == \E d \in Dev, use \in Uses, image \in Images :
  /\ Head1 = <<"sample_dr", d, use>>
  /\ LET partial == MaxNeededBsrBits(Cells(d), scanners[d].filter)
         raw == ReadOut(d, partial, DrScan(image, ReadIn(d, partial)).out)
     IN  \/ /\ Read(d, partial, image)
            /\ Works
            /\ job' = [job EXCEPT !.todo = Then(<< <<use, d>> >>), !.raw = raw,
                 !.states = DecodeBoundaryScan(Cells(d), scanners[d].filter, raw)]
            /\ seen' = [seen EXCEPT ![d] = image[d]]
            /\ UNCHANGED scanners
         \/ /\ ReadFails(d, partial, image)
            /\ Fault
            /\ NoSample(d, use, TRUE)
            /\ UNCHANGED seen
  /\ UNCHANGED drivers

\* readIdCode() that ends early leaves its error in last_error_, as sample() does.
NoIdCode(d, error) == Throw /\ scanners' = [scanners EXCEPT ![d].error = error]

IdCodeIr == \E d \in Dev :
  /\ Head1 = <<"idcode_ir", d>>
  /\ \/ /\ Ready(d)
        /\ Select(d, Board[d].ops["IDCODE"])
        /\ Works
        /\ Go(<< <<"idcode_dr", d>> >>)
        /\ UNCHANGED scanners
     \/ Ready(d) /\ SelectFails(d, Board[d].ops["IDCODE"]) /\ Fault /\ NoIdCode(d, chain_error)
     \/ ~Ready(d) /\ NoIdCode(d, TRUE) /\ UNCHANGED <<devices, chain_error, ir, latch, used>>
  /\ UNCHANGED <<drivers, seen>>

\* The IDCODE register is the target's part of the scan.
IdOut(d, out) == SubSeq(out, d, d - 1 + IdBits)

IdCodeDr == \E d \in Dev, image \in Images :
  /\ Head1 = <<"idcode_dr", d>>
  /\ LET scan == DrScan(image, Zeros(IdBits + Others))
     IN  \/ /\ latch' = scan.latch
            /\ job' = [job EXCEPT !.todo = Tail(@), !.raw = IdOut(d, scan.out)]
            /\ Works
            /\ UNCHANGED scanners
         \/ /\ latch' \in {latch, scan.latch}
            /\ Fault
            /\ NoIdCode(d, TRUE)
  /\ UNCHANGED <<devices, chain_error, ir, drivers, seen>>

\* read_pin and sample_bsr throw when the scanner has an error, old or new.
AnswerSample == \E d \in Dev :
  /\ Head1 \in {<<"answer", d>>, <<"answer_all", d>>}
  /\ IF scanners[d].error THEN Throw ELSE Done
  /\ UNCHANGED <<devices, chain_error, ir, latch, scanners, drivers, seen, used>>

\* The capture samples until it is complete or cancelled.
Frames == \E d \in Dev :
  /\ Head1 = <<"frames", d>>
  /\ \/ /\ job.n < MaxSamples
        /\ job' = [job EXCEPT !.todo = Then(Sampling(d, "frames")), !.n = @ + 1]
     \/ Done
  /\ UNCHANGED <<devices, chain_error, ir, latch, scanners, drivers, seen, used>>

---------------------------------------------------------------------------
(* Steps: PinDriver                                                        *)

\* captureCurrentState() failed, and initBsrFromSafe() follows.
NoCapture(d) ==
  /\ drivers' = [drivers EXCEPT ![d].bsr = InitBsrFromSafeValues(Cells(d))]
  /\ Done

CaptureIr == \E d \in Dev :
  /\ Head1 = <<"capture_ir", d>>
  /\ \/ /\ Select(d, Board[d].ops["SAMPLE"])
        /\ Works
        /\ Go(<< <<"capture_dr", d>> >>)
        /\ UNCHANGED drivers
     \/ /\ SelectFails(d, Board[d].ops["SAMPLE"])
        /\ Fault
        /\ NoCapture(d)
  /\ UNCHANGED <<scanners, seen>>

CaptureDr == \E d \in Dev, image \in Images :
  /\ Head1 = <<"capture_dr", d>>
  /\ LET raw == ReadOut(d, 0, DrScan(image, ReadIn(d, 0)).out)
     IN  \/ /\ Read(d, 0, image)
            /\ Works
            /\ drivers' = [drivers EXCEPT ![d].bsr = ApplyBsrSnapshot(Cells(d), raw)]
            /\ seen' = [seen EXCEPT ![d] = image[d]]
            /\ Done
         \/ /\ ReadFails(d, 0, image)
            /\ Fault
            /\ NoCapture(d)
            /\ UNCHANGED seen
  /\ UNCHANGED scanners

\* Where the job goes on after an error: with the next value of the net, or
\* behind the script that failed. Anything else is over.
Resume(todo) ==
  LET next == {i \in 1 .. Len(todo) : todo[i][1] \in {"drive", "script"}}
  IN  IF next = {} THEN <<>>
      ELSE SubSeq(todo, Min(next) + (IF job.tool = "suite" THEN 1 ELSE 0), Len(todo))
Abort == IF job.tool \in {"interconnect", "suite"}
         THEN job' = [job EXCEPT !.todo = Resume(Tail(@)), !.steps = Append(@, FALSE),
                                 !.ok = FALSE]
         ELSE Throw

\* setPin() and setPinHighZ(). A driver made before the BSDL file was loaded
\* has nothing staged, and captures now.
StagePin == \E d \in Dev, p \in Pins, v \in -1 .. 1 :
  /\ Head1 = <<"stage", d, p, v>>
  /\ LET staged == Stage(drivers[d].bsr, Cells(d), p, v)
     IN  IF ~ExtestAllowed(d) THEN Abort /\ UNCHANGED drivers
         ELSE IF drivers[d].bsr = <<>>
           THEN job' = [job EXCEPT !.todo = Capturing(d) \o @] /\ UNCHANGED drivers
         ELSE IF staged = <<>> THEN Abort /\ UNCHANGED drivers
           ELSE Done /\ drivers' = [drivers EXCEPT ![d].bsr = staged]
  /\ UNCHANGED <<devices, chain_error, ir, latch, scanners, seen, used>>

\* applyOutputs() up to the instruction
Apply == \E d \in Dev :
  /\ Head1 = <<"apply", d>>
  /\ IF ~ExtestAllowed(d) THEN Abort
     ELSE IF drivers[d].bsr = <<>> THEN job' = [job EXCEPT !.todo = Capturing(d) \o @]
     ELSE Go(<< <<"extest_ir", d>> >>)
  /\ UNCHANGED <<devices, chain_error, ir, latch, scanners, drivers, seen, used>>

ExtestIr == \E d \in Dev :
  /\ Head1 = <<"extest_ir", d>>
  /\ \/ Select(d, Board[d].ops["EXTEST"]) /\ Works /\ Go(<< <<"extest_dr", d>> >>)
     \/ SelectFails(d, Board[d].ops["EXTEST"]) /\ Fault /\ Abort
  /\ UNCHANGED <<scanners, drivers, seen>>

\* writeBSR() takes boundary_length bits of the buffer.
ExtestDr == \E d \in Dev, image \in Images :
  /\ Head1 = <<"extest_dr", d>>
  /\ \/ Write(d, drivers[d].bsr, image) /\ Works /\ Done
     \/ WriteFails(d, drivers[d].bsr, image) /\ Fault /\ Abort
  /\ UNCHANGED <<scanners, drivers, seen>>

---------------------------------------------------------------------------
(* Steps: ScriptEngine, TestSuiteRunner and the two script hosts           *)

DriveValues == -1 .. 1                        \* parseDriveValue(); -1 is high-Z
ExpectedValues == {"low", "high", "unknown"}  \* parseExpectedValue()

\* One command of the script; the script ends after its last one. sleep, which
\* touches nothing, is left out. An unknown command or value fails.
Command(d) ==
  {Sampling(d, "sampled"), Applying(d), << <<"safe", d>> >> \o Applying(d), << <<"wrong">> >>}
  \cup {<< <<"stage", d, p, v>> >> : p \in Pins, v \in DriveValues}
  \cup {Sampling(d, "sampled") \o << <<"expect", d, p, v>> >> : p \in Pins, v \in ExpectedValues}

Script == \E d \in Dev :
  /\ Head1 = <<"script", d>>
  /\ \/ /\ used.commands < MaxCommands
        /\ \E c \in Command(d) : job' = [job EXCEPT !.todo = c \o @]
        /\ used' = [used EXCEPT !.commands = @ + 1]
     \/ /\ job' = [job EXCEPT !.todo = Tail(@), !.steps = Append(@, TRUE)]
        /\ UNCHANGED used
  /\ UNCHANGED <<devices, chain_error, ir, latch, scanners, drivers, seen>>

Wrong == /\ Head1 = <<"wrong">>
         /\ Abort
         /\ UNCHANGED <<devices, chain_error, ir, latch, scanners, drivers, seen, used>>

\* McpScriptHost::sample() goes by last_error_; GuiScriptHost::sample() looks at
\* the result, and takes it for the pin driver's snapshot.
Sampled == \E d \in Dev :
  /\ Head1 = <<"sampled", d>>
  /\ IF job.tool = "suite"
     THEN IF job.raw # <<>> THEN /\ drivers' = [drivers EXCEPT ![d].bsr =
                                                  ApplyBsrSnapshot(Cells(d), job.raw)]
                                 /\ Done
          ELSE Abort /\ UNCHANGED drivers
     ELSE /\ IF scanners[d].error THEN Abort ELSE Done
          /\ UNCHANGED drivers
  /\ UNCHANGED <<devices, chain_error, ir, latch, scanners, seen, used>>

Expect == \E d \in Dev, p \in Pins, v \in ExpectedValues :
  /\ Head1 = <<"expect", d, p, v>>
  /\ IF GetPin(job.states, p) = v THEN Done ELSE Abort
  /\ UNCHANGED <<devices, chain_error, ir, latch, scanners, drivers, seen, used>>

ResetToSafe == \E d \in Dev :
  /\ Head1 = <<"safe", d>>
  /\ drivers' = [drivers EXCEPT ![d].bsr =
                   IF Ready(d) THEN InitBsrFromSafeValues(Cells(d)) ELSE @]
  /\ Done
  /\ UNCHANGED <<devices, chain_error, ir, latch, scanners, seen, used>>

---------------------------------------------------------------------------
(* Steps: the interconnect test                                            *)

ReceiverDevices(net) == {net.receivers[i][1] : i \in 1 .. Len(net.receivers)}
InOrder(net) == SetToSortSeq(ReceiverDevices(net), <)

\* Drive one value, sample each receiver's device once, and check. What setPin()
\* returns is not looked at.
Drive == \E net \in Nets, v \in 0 .. 1 :
  /\ Head1 = <<"drive", net, v>>
  /\ IF ExtestAllowed(net.driver[1])
     THEN Go(<< <<"try_stage", net.driver[1], net.driver[2], v>> >> \o Applying(net.driver[1])
             \o << <<"observe", net, v>> >>)
     ELSE Abort
  /\ UNCHANGED <<devices, chain_error, ir, latch, scanners, drivers, seen, used>>

TryStage == \E d \in Dev, p \in Pins, v \in 0 .. 1 :
  /\ Head1 = <<"try_stage", d, p, v>>
  /\ LET staged == Stage(drivers[d].bsr, Cells(d), p, v)
     IN  IF ~ExtestAllowed(d) THEN Done /\ UNCHANGED drivers
         ELSE IF drivers[d].bsr = <<>>
           THEN job' = [job EXCEPT !.todo = Capturing(d) \o @] /\ UNCHANGED drivers
         ELSE Done /\ drivers' = [drivers EXCEPT ![d].bsr = IF staged = <<>> THEN @ ELSE staged]
  /\ UNCHANGED <<devices, chain_error, ir, latch, scanners, seen, used>>

Observe == \E net \in Nets, v \in 0 .. 1 :
  /\ Head1 = <<"observe", net, v>>
  /\ job' = [job EXCEPT !.samples = Idle.samples, !.todo = Then(
       FlattenSeq([i \in 1 .. Cardinality(ReceiverDevices(net)) |->
         LET d == InOrder(net)[i]
         IN  IF scanners[d].made THEN Sampling(d, "keep") ELSE <<>>])
       \o << <<"check", net, v>> >>)]
  /\ UNCHANGED <<devices, chain_error, ir, latch, scanners, drivers, seen, used>>

\* The samples of this value, by device
Keep == \E d \in Dev :
  /\ Head1 = <<"keep", d>>
  /\ job' = [job EXCEPT !.todo = Tail(@), !.samples[d] = job.states]
  /\ UNCHANGED <<devices, chain_error, ir, latch, scanners, drivers, seen, used>>

\* Mutant: a receiver that was not sampled passes.
AsExpectedLax(state, v) == state # (IF v = 0 THEN "high" ELSE "low")
AsExpected(state, v) == state = (IF v = 0 THEN "low" ELSE "high")

Check == \E net \in Nets, v \in 0 .. 1 :
  /\ Head1 = <<"check", net, v>>
  /\ LET pass == \A i \in 1 .. Len(net.receivers) :
                   AsExpected(GetPin(job.samples[net.receivers[i][1]], net.receivers[i][2]), v)
     IN  job' = [job EXCEPT !.todo = Tail(@), !.steps = Append(@, pass), !.ok = @ /\ pass]
  /\ UNCHANGED <<devices, chain_error, ir, latch, scanners, drivers, seen, used>>

---------------------------------------------------------------------------
Call == \/ DetectDevices
        \/ \E d \in Dev : \/ LoadBsdlFile(d) \/ ListPins(d) \/ SampleBsr(d) \/ ReadIdCode(d)
                          \/ RunScript(d) \/ RunSuite(d)
                          \/ \E p \in Pins : \/ ReadPin(d, p)
                                             \/ \E v \in -1 .. 1 : SetPin(d, p, v)
                          \/ \E f \in Filters : CaptureStart(d, f)
        \/ \E net \in Nets : RunInterconnectTest(net)

Step == \/ DoDetect \/ DoLoad \/ GetScanner \/ GetDriver \/ SampleAll \/ StartCapture
        \/ SampleIr \/ SampleDr \/ IdCodeIr \/ IdCodeDr \/ AnswerSample \/ Frames
        \/ CaptureIr \/ CaptureDr \/ StagePin \/ Apply \/ ExtestIr \/ ExtestDr
        \/ Script \/ Wrong \/ Sampled \/ Expect \/ ResetToSafe
        \/ Drive \/ TryStage \/ Observe \/ Keep \/ Check

ToolsInit == /\ ChainInit
             /\ scanners = [d \in Dev |-> NoScanner]
             /\ drivers = [d \in Dev |-> NoDriver]
             /\ job = Idle
             /\ seen = [d \in Dev |-> Zeros(Len(Cells(d)))]
             /\ used = [calls |-> 0, commands |-> 0, faults |-> 0]

ToolsNext == Call \/ Step
ToolsSpec == ToolsInit /\ [][ToolsNext]_tool_vars

---------------------------------------------------------------------------
(* Properties                                                              *)

\* Types. A driver's buffer is empty or as long as the boundary register, and
\* no sample is kept of a device that has no BSDL file.
ToolsTypeOK ==
  /\ Len(devices) <= Len(Board)
  /\ ir \in [Dev -> {"BYPASS", "IDCODE", "SAMPLE", "EXTEST"}]
  /\ \A d \in Dev :
       /\ latch[d] \in [1 .. Len(Cells(d)) -> Bits]
       /\ seen[d] \in [1 .. Len(Cells(d)) -> Bits]
       /\ drivers[d].bsr \in {<<>>} \cup [1 .. Len(Cells(d)) -> Bits]
       /\ (scanners[d].made \/ drivers[d].made) => InRange(d)
       /\ (~scanners[d].made => scanners[d] = NoScanner)
       /\ (~drivers[d].made => drivers[d] = NoDriver)
       /\ (drivers[d].bsr # <<>> => Ready(d))

ChainKnown == Len(devices) = Len(Board) /\ LengthsRight

\* The cell that tells the level of a pin
PinCell(d, p) == IF InputCells(Cells(d), p) # {} THEN Max(InputCells(Cells(d), p))
                 ELSE Min(OutputCells(Cells(d), p))
Level(d, p) == IF seen[d][PinCell(d, p)] = 1 THEN "high" ELSE "low"

\* Scanner::sample(): the state it decodes for a pin is the level the device's
\* own cell captured in this scan, through the BYPASS bits of the other
\* devices, the partial read and the decode filter; and no pin that was asked
\* for is missing. hardware/sample_bsr asks for all pins, whatever filter a
\* capture has left in the scanner.
SamplesTrue ==
  ToolsTypeOK /\ \A d \in Dev :
    (ChainKnown /\ job.raw # <<>>
            /\ Head1 \in {<<"answer", d>>, <<"answer_all", d>>, <<"frames", d>>,
                          <<"sampled", d>>, <<"keep", d>>}) =>
      \A p \in ObservablePins(Cells(d)) :
        IF Head1[1] = "answer_all" \/ scanners[d].filter = {} \/ p \in scanners[d].filter
        THEN GetPin(job.states, p) = Level(d, p)
        ELSE GetPin(job.states, p) = "unknown"

\* What a pin of a device is driven with: -1 is not at all.
Pad(d, p) ==
  IF ir[d] # "EXTEST" \/ OutputCells(Cells(d), p) = {} THEN -1
  ELSE LET cell == Cells(d)[Min(OutputCells(Cells(d), p))]
       IN  IF cell.disabled_by # 0 /\ latch[d][cell.disabled_by] = cell.disable_value THEN -1
           ELSE latch[d][Min(OutputCells(Cells(d), p))]

\* set_pin: when it answers ok the device drives the pin with that value, or
\* not at all for a value of -1, and drives what was staged before on all its
\* other pins.
SetPinDrives ==
  (Ended /\ job.tool = "set_pin" /\ job.ok /\ ChainKnown) =>
     /\ Pad(job.dev, job.pin) = job.value
     /\ \A p \in DrivablePins(Cells(job.dev)) :
          Pad(job.dev, p) = GetStagedPinValue(drivers[job.dev].bsr, Cells(job.dev), p)

\* The safety guard: a device with live PS/DDR/MIO pins never executes EXTEST,
\* whatever tools, scripts and interconnect tests run and whichever scans fail.
NoLiveExtest == \A d \in Dev : Board[d].live => ir[d] # "EXTEST"

\* The interconnect test: a value of a net passes only when every receiver's
\* own cell captured it in a sample taken after the value was applied.
NetPassesTrue ==
  [][ \A net \in Nets, v \in 0 .. 1 :
        (Head1 = <<"check", net, v>> /\ ChainKnown /\ job'.steps = Append(job.steps, TRUE))
          => \A i \in 1 .. Len(net.receivers) :
               seen[net.receivers[i][1]][PinCell(net.receivers[i][1], net.receivers[i][2])] = v
    ]_tool_vars

\* PinDriver's constructor prefers "the current live boundary state over BSDL
\* safe defaults so EXTEST starts from what the device is already doing": when
\* EXTEST takes effect, the pins other than the one being set are driven with
\* the state that was captured, which is what is staged for them.
ExtestStartsFromStaged ==
  \A d \in Dev : (ir[d] = "EXTEST" /\ Head1 = <<"extest_dr", d>>) =>
    \A p \in DrivablePins(Cells(d)) \ {job.pin} :
      Pad(d, p) = GetStagedPinValue(drivers[d].bsr, Cells(d), p)
=============================================================================
