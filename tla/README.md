# OWLTAP: TLA+ models, checks and proofs

OWLTAP drives an FPGA's JTAG port through an FTDI adapter: boundary-scan
sampling and pin driving, configuration and flash programming, an embedded
logic analyser (ILA) with its host driver, a GUI, and an MCP server that offers
all of it as tools. This directory holds TLA+ models of its state machines, the
TLC configurations that check them, and TLAPS proofs. `PROJECT.json` lists the
components, the runs, the source lines behind every definition, the findings,
the hazards and the theorems.

## Inventory

| Component | State | Operations | What is hard |
|---|---|---|---|
| `HardwareExecutor`, `HardwareJob` (`src/hardware`) | `running_`, `stop_flag_`, `queue_`, worker thread, open device; per job state, result, error, cancel flag | `start`, `startWorker`, `submit`, `tryCancel`, `poll`, `shutdown`, `workerLoop` | three kinds of threads; two-step updates of a job; cancel racing completion; idle close; shutdown racing submit |
| `ExecutorBridge`, `JobTable` (`src/mcp`) | table of jobs | `submitSync`, `submitAsync`, `pollJob`, `cancelJob` | a deadline racing the job's end |
| `TcpTransport`, `StdioTransport`, `McpServer`, `GuiRpcServer` (`src/mcp`) | stop flags, sockets, accept/reader threads, `running`, `initialized` | `start`, `stop`, message handlers | blocking reads, joins, clients that come and go |
| `jtag_daemon`, `owltap_mcp` (`src/tools`) | main loop, `g_stop_requested` | boot, stop order | stopping parts that call each other; partial boot |
| `HardwareContext` (`src/hardware`) | device, chain, scanner, pin driver, PL config, created on demand | `open`, `close`, accessors | objects that outlive a reopened device |
| `CaptureSession`, `TriggerEngine` (`src/hardware`, `src/capture`) | ring buffer, capture state, previous sample, samples still to take | `start`, `stop`, `tick`, `getSamples`; `evaluate` | wrap-around, ratio at its limits, error in the middle |
| `CaptureEngine` (`src/capture`) | ring buffer shared with a capture thread | `start`, `stop`, `getNewSamples`, `captureLoop` | reader and writer of one ring; restart |
| `TapController`, `JtagChain` (`src/jtag`) over `FtdiDevice` (`src/ftdi`) | software TAP state, selected device | `reset`, `shiftIR`, `shiftDR`, `detect` | software state against the device's after a failed write |
| `Scanner`, `PinDriver`, `InterconnectTest` (`src/boundary_scan`) | last error, filter, cached boundary register | `sample`, `enter`/`setPin`/`exit`, test run | stale caches, instruction loaded before data |
| `PlConfig`, flash (`src/config`, `src/flash`) | programming sequence, bridge selection | `program`, `readStatus`, `erase`/`program`/`verify` | long sequences in which any transfer may fail |
| ILA core (`hdl/ila/rtl`) and driver (`src/ila`) | capture FSM, trigger, BRAM, TAP registers; selected instruction | arm, stop, force trigger, read-out | two clock domains, pulses, widths, read pipeline |
| Tools and script engine (`src/mcp/tools`, `src/script`) | the job that runs; interpreter position | scan, pin, script, suite, programming and ILA tools | objects shared by all clients; a failure in the middle |
| Decoders, parsers, generator (`src/protocol`, `src/bsdl`, `src/xdc`, `ila_generator`) | none | decode, parse, generate | malformed input |
| `GuiDaemonClient`, `DaemonProcessController` (`src/gui`) | socket, flags, pending promises, reader thread; child process, its events | `connect`, `disconnect`, `call`; `start`, `stop` | a connection lost in the middle of a call; late answers; restart |
| `AppWindow` and panels (`src/gui`) | connection, capture job, shown samples, background threads | menu handlers, frame work, destructor | handlers that block on calls while other threads use the client |

Interaction: the two servers' threads call the bridge, the bridge submits tasks
to the executor, and the executor's worker thread is the only one that touches
the hardware classes. Main threads start the parts and stop them in a fixed
order. The GUI starts the daemon as a child process, follows the events it
writes, and talks to it over TCP; its threads share one client. On the worker
thread the tools use the objects the hardware context keeps: a scanner and a pin
driver per device, the PL configuration and the ILA driver, all over one scan
chain, which is the TAP controller's.

What makes each component correct: the executor runs every accepted job once,
in order, on an open device, and reports its end truthfully; the servers and
main loops stop without losing jobs or waiting for each other for ever; a
capture that completes holds its trigger sample and the right number of samples
around it; the software's idea of a TAP, a register or a device agrees with the
device's; a programming sequence that reports success has succeeded; an answer
reaches the call that asked for it, and a job that runs can be stopped; what a
window shows is what was captured, in order.

## Modules

| Module | Models | Kind |
|---|---|---|
| `JobService` | what the executor promises its callers | abstract specification |
| `HardwareExecutor` | executor, jobs, bridge | component |
| `Daemon` | `jtag_daemon`: executor, two servers, main loop | composition, extends `HardwareExecutor` |
| `OwltapMcp` | `owltap_mcp` on stdio | composition, extends `HardwareExecutor` |
| `GuiDaemonClient` | the RPC client and its connection | component |
| `DaemonProcessController` | the daemon as the GUI's child process | component |
| `AppWindow` | the window's handlers and threads, and the daemon they talk to | composition of the two above |
| `SampleLog` | what a capture buffer promises its reader | abstract specification |
| `CaptureSession` | capture session, trigger engine, the scanner's outcome | component |
| `CaptureEngine` | capture thread and ring against the window that polls it | component |
| `TapState` | the TAP's graph and `computeTmsPath()` | pure algorithm |
| `TapController` | TAP controller over the FTDI adapter, against the device's TAP | component, extends `TapState` |
| `JtagChain` | devices on the chain, packing of instructions and registers, against the chain as a shift register | component |
| `BoundaryScan` | what scanner and pin driver make of a boundary register | pure algorithms |
| `HardwareTools` | boundary-scan tools, script engine, suites, interconnect test | composition of the two above |
| `PlConfig` | configuration of the PL | component |
| `McsParser` | Intel HEX and raw flash images, with a reference definition | pure algorithm |
| `FlashProgrammer` | flash programming over the bridge, and the callers of `PlConfig` | composition of the two above |
| `IlaCore` | the logic analyser in the PL (RTL), behind either TAP | component |
| `IlaDriver` | driver, backends, the daemon's methods, the tools, the panel's buttons | composition, extends `IlaCore` |
| `MC...` | instances for TLC, one per run's module | model checking |
| `HardwareExecutorProofs` | the executor's invariant; it implements `JobService` | proofs |
| `DaemonProofs` | the daemon uses the executor properly; stop order | proofs |
| `CaptureSessionProofs` | the ring implements `SampleLog`; the trigger frame | proofs |
| `CaptureEngineProofs` | engine and window: stop joins, the view is whole and complete, the trigger stays | proofs |
| `TapControllerProofs` | `state_` follows the device's TAP, scans take the clocks asked for and return their own bits | proofs |
| `FlashProgrammerProofs` | programming says what is true, HEX images are right below 2^32 | proofs |
| `HardwareToolsProofs` | samples, driven pins and verdicts are true, EXTEST is guarded; `owltap_mcp` uses the executor properly | proofs |
| `AppWindowProofs` | answers reach their own calls, no promise is left behind but by an exception, running jobs are held | proofs |

### State and actions

**HardwareExecutor.** `running`, `stop_flag`, `queue` are the members of the
class; `worker`, `owner` and `cpc[c]` say where the worker thread, the thread
that calls `start`/`shutdown`, and each calling thread are; `hw_open` is
`context_->isOpen()`. `state`, `result`, `error` and `cancel_requested` are the
fields of each `HardwareJob`, with values reduced to what can be told apart: no
value, a value. A step is a stretch of code between two points at which another
thread can see a difference: one critical section, one atomic access, one setter
of a job. `workerLoop()` is thus sixteen actions: the wait (`WorkerSleep`,
`WorkerIdleTimeout`), the ways out of it (`WorkerExit`, `WorkerPop`), the first
look at the cancel flag (`WorkerSkip`, `WorkerProceed`), `setState(kRunning)`,
the lazy open, the task's return or exception, the second look (`WorkerDiscard`,
`WorkerKeep`), and result and final state in two steps. `submit()` is the check
of `running_` (`SubmitCheck`, `SubmitReject`), the insertion (`SubmitEnqueue`)
and notification plus `job_table_.add` (`SubmitNotify`); `submitSync()` goes on
with `SyncDone` or `SyncTimeout`. `shutdown()` is five steps. A poll reads
`Snapshot(j)` and changes nothing, so what polls can see is an invariant. The
auxiliary `cancelled_in_time` records the jobs whose cancellation was requested
while the worker was still going to look at the flag.

**Daemon.** `host` is where `runDaemon()` is, `thread[c]` the accept thread of
each `TcpTransport`, which also runs the handlers, `t_stop[c]` the transport's
stop flag, `peer`, `backlog`, `buffered` the connection. A handler begins at most
one bridge call. The environment connects, disconnects, sends and raises
signals.

**OwltapMcp.** The reader thread, the pipe it reads in chunks, and `main()`.
`ChunkMessages` messages stand for the 4096 bytes that `fread()` waits for.

**CaptureSession.** The variables are the members of `CaptureSession` and
`TriggerEngine`, and `scanner_error` says that the borrowed scanner's
`last_error_` is not empty. `buffer` is a function on slots, resized as the
vector is, so that slots and reader order stay apart; `post_trigger_remaining`
is computed modulo `SizeMax`, as `size_t` is. `tick()` is one action per state
of its switch (`RunningStep`, `WaitStep`, `TriggerStep`, `TriggeredStep`) and
`TickFails`. The setters are actions that may be taken on a session
without samples, before `start()`, as the header asks ("must be set before
start()"); `clearSamples()` is taken when STOPPED ("Only valid when STOPPED").
With a larger depth set on a session that still holds samples, `getSamples()`
would read the ring in the wrong order; the program never does this.
`NewSession` is the next `capture_start` job: a new session on the scanner the
hardware context kept, or on a new one after the chain was detected again. The
only caller, `capture_start`, sets depth and mode; conditions and ratio are set
through the class's interface.

**TapController.** `state` is `state_`, `hw` the state of the device's TAP,
`is_open` the adapter's flag and `late` the number of TDO bytes of failed
transfers that are, or will be, in the receive buffer. Every operation is given
as the sequence of transfers it makes (`ResetTransfers`, `GotoTransfers`,
`IdleTransfers`, `ShiftTransfers`, `RepeatTransfers`): a word of TMS bits, the
bytes it reads, and what `state_` becomes. `Succeed` carries out all of them;
`FailAt` carries out those before the i-th and part of the i-th, because a write
may stop anywhere, or all of it when the answer times out. TDO data is reduced to
which bit of the scan each bit is, so that cutting a scan into commands and
putting the answer together (`Answer`, `Reassemble`) can be checked. `sync` and
`clean` record whether a reset has worked with no failure since, and whether a
transfer has failed since the adapter was opened; `last` is the last operation
with the clocks it took. `OtherProcess` moves the TAP while the adapter is closed,
which the idle timeout does so that others can have it. A batch begun outside
`RUN_TEST_IDLE` (possible after `gotoState()` only) is counted as a loss of sync;
see "Findings".

**JtagChain, BoundaryScan, HardwareTools.** `devices` is `devices_`, `ir` and
`latch` what the instruction registers and update latches of the devices on the
board hold. A scan shifts a list of bits through the whole chain, so its length
and its packing (`IrData`, the BYPASS bits around a boundary register) matter.
`scanners` and `drivers` are the objects the hardware context keeps between jobs
for all clients: a decode filter, a sticky error, a cached boundary register.
The hardware worker runs one job at a time; `job.todo` is the list of steps it
has still to make, and each scan is a step that works or fails. Tools, the two
script hosts (MCP and GUI), the suite runner and the interconnect test all
become such lists. A step is put into the list when the one before it has worked,
so a failure leaves nothing of the operation behind (`Sampling`, `Applying`,
`Capturing`); an error ends the job, except in a suite, which goes on with its next
script, and in the interconnect test, which goes on with the next value (`Resume`).
`seen` is what the cells captured in the last scan, so that
the properties can compare what is reported with what was there. The board's
inputs change from scan to scan (`Images`). The receivers of a net are sampled in
the order of their devices, which for nets with several receiver devices may differ
from the order of the file; each is sampled once either way.

Boards are those of which IEEE 1149.1 and BSDL hold (`BoardAssumption`: the three
instructions have opcodes of their own, none of them all ones; `CellsAssumption`:
a control cell is another cell of the register). `Readable` says in one equation
which boards the detection reads correctly: at most `MaxDevices` devices, and
instruction registers of the lengths it guesses (4 bits in a device of ARM, 6 in any
other with an IDCODE, 1 in the rest). On other boards instructions
are packed wrongly until the BSDL files are loaded, and nothing is shown here.

**PlConfig, McsParser, FlashProgrammer.** `pc` and `fp` are where the two
`program()` functions are. Every scan and every transfer of the bridge is a step
that works, or fails before or after the hardware has seen it. External: the PL
as UG470 describes it (`pl.state`, `pl.locked` for its port while it loads), the
flash chip as the driver addresses it (`chip`: memory, write enable latch, the
operation it is busy with). The bridge is an exchange of one whole transfer (the
comment at `flash_jtag_bridge.cpp:43` takes its register the same way). `STAT` is
read in one step, which may fail. `clkIdle()` results are ignored by the code and
so here. A byte is the set of its one bits, so that programming is an
intersection; images are loaded record by record (a recursive function over the
records of a file), and `McsImageRight` compares the result with what each record
says of each address. The parser ORs a record's address to its segment (`Or`, bit
by bit over `AddrBits` bits); that is the sum the format means unless the two share
a bit. It computes the end of a record as a `uint32_t`, and uses it both for the check
of the capacity and for `resize()`, but copies to the unwrapped address: a record that
crosses 2^32 is accepted and copied behind the image. `Put` grows the image to the
wrapped `end`, and `wild` says that bytes went behind it, after which `LoadImage` may
end the program (`"crashed"`) or go on. `McsImageRight` is about files whose records
end below 2^32 (`NoWrap`): nothing is then written behind the image, and without a
carry (`NoCarry`) it is the image that the file describes.

**IlaCore, IlaDriver.** `core` is the sample-clock side (capture state machine,
write address, post-trigger counter, memory, previous sample), `regs` the
configuration registers, `tap` the instruction either TAP has stored. A call is
a list of steps; every scan is one, and the sample clock ticks between scans
with any input. A control pulse is taken to have crossed into the sample clock
domain before the next scan: the scan that sends it is the edge that sees it.
`asked` remembers the trigger the last call that armed asked for, and
`TriggersAsAsked` evaluates it on lanes, as a user reads them from the waveform
(`Extract`), instead of on the register words that the code folds them into. A lane
is the signal's two ends and its conditions. The property names what it leaves out:
lanes with a common bit (`Disjoint`), and samples on which a not-equal lane wider
than one bit holds neither its value nor the complement (`FoldTells`), where the
core stays silent although the condition is met.

**CaptureEngine.** `thread` is where `captureLoop()` is, `gui` where the window's
thread is in `onStartCapture()`, `refreshFromCapture()`, `onStopCapture()` and
`onClearWaveforms()`. A frame is its number in the capture and its trigger flag;
`ring` is the buffer with its write position and counts, `cached` and
`last_total` what the window has fetched. The trigger dialog changes mode, ratio
and depth at any time. Whether the conditions of two scans are met is free.
The window of this version never creates the chain this path needs
(`app_window.cpp:773` returns first): it is modelled as written.

**GuiDaemonClient.** The variables are the members of `Impl` (`sock`,
`connected`, `stop_flag`, `next_id`, `pending`), the reader thread's place and
the call each thread is in. `call()` is four steps (the check, the registration,
framing and sending, the wait), `connect()` three, `disconnect()` two, because other
threads see what lies between. The connection is two queues that keep their order,
and `link`, which either side may close. An answer carries the request it answers, so
that `AnswersOwn` can be stated. Framing throws over a path or a text that is no UTF-8
(`CallThrows`), which may be in any request that carries one (`TextMethods`); the
promise is registered by then and nothing erases it. `abandoned` is a history variable
with the ids of these promises, and `NoLeakedPromise` is about the others.

**DaemonProcessController.** `status` is `status.state`, `proc` the child, `pipe`
the events it wrote that have not been read. The two reader threads end at the
same end of file and are one here.

**AppWindow.** The window's handlers are lists of steps in `todo`; a handler that
calls another puts its steps in front. A step that calls the daemon blocks the
main thread until the call ends. `conn` and `prog` are the connect and program
threads, `jobs` the daemon's capture jobs. Samples are represented by the job
they belong to. `ended` says how the program ended: `exit`, or one of three ways
to abort by assigning to or destroying a thread that is still joinable (see
"Findings"). The chain and the engine of the direct path never exist here, so
every handler takes its daemon path.

## Runs

| Run | Checks | Shows |
|---|---|---|
| `executor` | `TaskHasHardware`, `SnapshotConsistent`, `CancelHonoured`, `RepliesTruthful`, `ImplementsJobService`, `ShutdownReturns` | tasks run on an open device, polls and replies are consistent, a timely cancel is honoured, the threads implement a serial FIFO job service, `shutdown()` returns |
| `daemon` | `ServersStopBeforeExecutor`, `NoJobLost`, `AcceptedJobsEnd`, `StopRequestEndsDaemon` | the stop order loses no job; a stop request ends the process though the servers are inside calls |
| `owltap_mcp` | `ShutdownRequestEndsProgram` | the program ends although its reader submits jobs during `shutdown()` |
| `owltap_mcp_messages` | `MessagesHandled` (violation) | a short request stays in the pipe, see "Findings" |
| `gui` | `AnswersOwn`, `NoLeakedPromise`, `NoOrphanJob`, `MainReturns` | the GUI's threads and client under lost connections, timeouts, requests that cannot be framed and a daemon that ends |
| `capture_session` | `TriggerFrameKept`, `TriggerJustified`, `ImplementsSampleLog`, `CaptureEnds` | sessions one after the other, failing scans, every mode and combined conditions |
| `capture_engine` | `StoppedMeansJoined`, `ViewTail`, `ViewComplete`, `TriggerKept`, `SingleEnds` | the capture thread against a window that polls late, stops, clears, and changes the settings at any time |
| `tap_scans` | `InSync`, `PathsShortest`, `ScanExact`, `TdoOwn` | transfers that fail at any clock, late answers, an adapter others use in between |
| `scan` | `SamplesTrue`, `SetPinDrives`, `NoLiveExtest`, `NetPassesTrue` | tools, scripts, suites and the interconnect test on two devices, any scan may fail |
| `scan_extest` | `ExtestStartsFromStaged` (violation) | what drives the pins for one scan, see "Findings" |
| `programming` | `SuccessIsTrue`, `NoSpuriousFailure`, `McsImageRight`, `ProgramEnds` | PL configuration and flash programming with cable faults, late hardware, wrong chips and files, and a second run after a failed one |
| `ila` | `SamplesInOrder`, `ArmTakes`, `TriggersAsAsked`, `CallsEnd` | two calls on a core behind either TAP while the sample clock runs, one failed scan; lanes of one and of two bits |

Type invariants are conjuncts of one of the run's invariants (`NoOrphanJob`,
`ViewComplete`, `InSync`, `SamplesTrue`, `SuccessIsTrue`, `ArmTakes`), or
theorems (`TypeCorrect`, `SessionTypeCorrect`).

### Bounds

- Executor: two jobs are needed for order and for a job queued behind a running
  one; two clients for two submissions that overlap; two starts for what a second
  lifetime finds.
- Daemon: one job, one connection per port; what is checked is the stop order
  and liveness around it. The safety theorems `StopOrder` and `NothingLost` hold
  for any number of jobs.
- `owltap_mcp`: six messages are one `initialize`, the calls for two jobs with a
  cancel and a `shutdown`, in chunks of two.
- GUI: five inputs are a connect, a BSDL load, a capture, its stop and a second
  capture (or a disconnect, a second connect, the end) in any order; two capture
  jobs; one fault, which is
  a lost connection, a daemon that ends, or a wait that times out though an answer
  may come. `AnswersOwn` and `NoLeakedPromise` are proved for any of them.
- Capture session: a ring of three frames has a wrap in the middle and room for
  frames before and after the trigger, a ring of one is the smallest
  `setBufferDepth()` allows; quarters give ratios whose product with the depth is
  rounded down; `SizeMax` 16 is small enough for a wrapped counter to show.
- Capture engine: depths two and four (the least depth is 2 for 100 in the
  code), six frames wrap the ring twice, three inputs are a start with two changes
  of settings, or two captures.
- TAP: its sixteen states. Scans of 1, 9 and 12 bits have each combination of
  bytes, remaining bits and last bit; ten idle cycles and three scans with
  `kChunk` 2 (512 in the code) need a second, shorter portion; one late byte
  shifts an answer.
- Scan: two devices with instruction registers of different lengths, one with a
  live processing system, every kind of cell; two jobs after detection and BSDL
  load, scripts of two commands, one failed scan. What the cells capture is one of
  two complementary images.
- Programming: a PL with a device on either side; a chip of eight bytes of two
  bits, pages of two, verify chunks of four; two status polls for ten; two
  runs; files of one byte to one too many, HEX files with gaps, overlaps, both
  kinds of extended address, one of them with a carry, one record that crosses
  the end of the address range, a missing end and bad records. Addresses have four
  bits for 32 (`AddrBits`, `AddrSpan`).
- ILA: one address bit, two calls, one failed scan; a core that is idle or full of
  an earlier capture. Three data bits are a lane of one bit and one of two above it,
  so that a value which is not shifted to its lane shows; of the three inputs no two
  bits are alike, and the wide lane holds its not-equal value, the complement, and a
  third value. One pre-trigger sample, another number than the core starts with.

The theorems hold for every value of the constants of the modules they are about.

### Fairness

Every thread of a process is scheduled again and again: weak fairness of the
executor's worker, of a thread inside a call, of the hosts, of the GUI's threads,
of the capture thread and of the window's step once it has begun one. Callers,
users, client programs and signals owe nothing. A task is taken to return or
throw: the tasks of the repository are bounded by a depth, a timeout or a
script's length. A capture's `tick()` is called until the session is no longer
active: that is the loop of the `capture_start` task. Time passes: a wait with a
timeout ends (`TimeoutPasses`, `Deadline`, and the GUI's wait for an answer, which
ends by an answer or the timeout). A child process that was told to stop dies: on
Windows the controller terminates it after three seconds, elsewhere the daemon
answers SIGTERM by ending, which the run `daemon` checks. The hardware (the PL,
the flash chip, a trigger) owes nothing: programming and ILA calls end because the
code gives up.

External: closing a socket makes a blocked `accept()` or `recv()` fail, as on
Windows, for which the sockets are written.

## Findings

Two runs show a disagreement between the code and what is written about it:

- The stdio reader asks `fread()` for 4096 bytes, so a short request is not
  handled until more input arrives (`owltap_mcp_messages`).
- `applyOutputs()` selects EXTEST before it writes the boundary register, and the
  SAMPLE read that captured the live state has shifted zeros into the update
  latches: for one scan every pin of the device is driven with zeros, against the
  comment at `pin_driver.cpp:151` (`scan_extest`).

Others were met while modelling. They can be read off the actions of the models
and have no run of their own; where a property would be affected, its comment
says what it leaves out.

Executor, servers, programs:

- `shutdown()` is documented to "Stop accepting new jobs, wait for the current
  job to finish" (`hardware_executor.h:71`). The worker leaves only when the queue
  is empty (`WorkerExit`), so every queued job runs first, and `submit()` looks at
  `running_`, which is cleared after the join (`SubmitCheck`).
- `owltap_mcp` is documented to end at EOF on stdin (`owltap_mcp.cpp:10`); EOF
  ends the reader thread and nothing else.
- `--exit-on-disconnect` is documented to wait for the last MCP client; the daemon
  leaves after the first connection that ends, also with another client in the
  backlog. `completedConnections()` (`daemon_runner.cpp:564`) counts connections
  that ended, not clients that are left.
- `StdioTransport::stop()` detaches a reader that still holds the transport
  (`mcp_transport.cpp:100`); `client_sock` is written without the lock under which
  `stop()` reads it (`mcp_transport.cpp:219`); `JobTable::cleanup()` is never
  called (`job_table.cpp:23`), so results stay for the life of the process.

Capture:

- A pre-trigger ratio of 1.0 is accepted and documented; the count of samples to
  take is then 0 when the trigger fires and wraps when it is decremented, so the
  capture overwrites its trigger frame and does not end (`capture_session.cpp:97`;
  the proof needs `RatioBelowOne`).
- `tick()` is documented to return true if a sample was taken; the scanner's error
  is never cleared (`scanner.cpp:131`), so after one failed scan every later tick
  throws its sample away, in later sessions too.
- Direct capture: raising the depth in the trigger dialog while a capture runs
  (its button is never disabled, `waveform_view.cpp:289`, against "configurable
  before capture" at `app_window.h:130`) can leave a gap in the view, further back
  than the engine's depth; changing the mode when a single capture has just
  finished leaves `capturing_` set until Stop.

TAP and scans:

- The path search of `computeTmsPath()` is limited to seven bits; from
  `CAPTURE_DR`, `SHIFT_DR` and `PAUSE_DR` to `EXIT2_IR` it takes eight, and
  `gotoState()` then reports a state the TAP is not in. No caller asks for it.
- After a read timeout the late bytes stay in the receive buffer, and later scans
  return them as their own data, also after a reset of the TAP.
- `shiftDRRepeat()` is documented to leave the TAP in Run-Test/Idle on success;
  `RepeatTransfers` begins as from Run-Test/Idle wherever `state_` is.
- When the IR scan of a sample fails, the scanner takes over the chain's
  `last_error_`, which may be empty: the MCP script then reports "sample OK" and
  `read_pin` answers "unknown"; the GUI's script host looks at the raw register.
- `read_pin` after `set_pin` selects SAMPLE and so releases the driven pins; the
  interconnect test puts the driver's device in BYPASS when it samples a receiver
  on another device.
- `read_pin` decodes through the filter a capture has left in the shared scanner;
  `load_bsdl` does not compare the file's IDCODE with the device's; a script that
  fails reports 0 of 0 expectations.

Programming and ILA:

- An extended segment address whose base shares a bit with a record's address puts
  the record elsewhere than the format says, without an error: `mcs_parser.cpp:127`
  ORs the two.
- A data record that crosses 2^32 passes the capacity check with its wrapped end and
  is copied behind the image (`mcs_parser.cpp:128`).
- `PlConfig::program()` returns true when every status read fails
  (`pl_config.cpp:282`), against `pl_config.h:82`; the error text of the MCP tool
  `program_bitstream` does not carry the reason of a failure.
- With `pre_samples` 0, the default of `ila_run_capture`, the post-trigger count
  is cut to `ADDR_W` bits, is 0, and the core is full after one sample, against
  `ila_capture_fsm.sv:10` ("(DEPTH - pre_samples) additional valid samples").
- A mask of 0 never fires, although `ila_run_capture` calls it match-all: with
  `force` false the call ends at its deadline.
- `ila_run_capture` over BSCANE2 reads from address 1
  (`register_tools.cpp:776` says "Read all samples from address 0."), and the other
  readers over the core's own TAP likewise: the first scan on a stale opcode moves
  the read address. A buffer that wrapped is not rotated back.
- `PRE_SAMPLES` has 16 bits in `ila_tap.sv`; the driver shifts `ADDR_W` bits, so the
  register gets another value over the core's own TAP.
- A forced trigger is lost when `valid_in` is low in its cycle; a not-equal lane
  wider than one bit matches only the exact complement (`ila_panel.cpp:437`), against
  `ila_panel.h:32` ("(data & lane_bits) != trig_value").
- `ila/arm` ignores a failed probe and then leaves the edge and OR registers as
  they were; `stored_ir_in_hw_` is stale after a failed scan.

GUI:

- Starting the daemon again while the readers of the last one have not been joined
  (it ended by itself) assigns to a joinable thread: the program ends
  (`daemon_process_controller.cpp:292`; `ended = "restart"`). Connecting while the
  client's old reader has not been joined does the same
  (`gui_daemon_client.cpp:209`; `"reconnect"`), and so does destroying the
  controller after a "stopped" event (`"unjoined"`).
- Disconnect during a capture forgets the job id first, and `onStopCapture()`
  without one returns at once: `capturing_` stays set (`app_window.cpp:1444`), and
  Stop has no effect any more, against the help text at `app_window.cpp:2126`
  ("Capture > Stop (F6) to halt.").
- After Stop there is one poll only, so samples the daemon takes until it sees the
  cancel can be missing from the view (`app_window.cpp:1438`).
- A request with a text that is no UTF-8 (a file path, a script) throws after its
  promise is registered (`gui_daemon_client.cpp:332`); the promise stays until the
  connection ends.
- `runScript` sends `script_text`, the tool requires `script`.
- `pending_daemon_connect_` stays set when the daemon cannot be started.

## Proofs

The executor's proofs are for arbitrary finite or infinite sets of jobs and clients,
arbitrary `MaxStarts`, and both values of `IdleClose`. The assumptions are
`ConstantsAssumption` (`NoJob` is not a job, `IdleClose` is Boolean, `MaxStarts`
is a natural number), and for the daemon that its two servers are the clients.

`HardwareExecutorProofs` proves `Spec => []IInv`. None of the properties is
inductive alone. `TaskHasHardware` needs to know that there is no worker after
the join (`OwnerInv`); `SnapshotConsistent` needs what a job holds between the
two setters (`DataInv`), which needs that only the worker's own job is running
(`WorkerInv`); that in turn needs that the queue holds queued jobs, each once
and none of them the worker's (`QueueInv`), which depends on submitting threads
owning fresh jobs (`ClientInv`). `CancelHonoured` needs that a request that
counts as timely is visible in the flag and that the worker has not passed its
last look (`CancelInv`). The step lemmas have one step per action and under it
one per conjunct it touches; `Frame` covers the rest.

The last part proves that the executor implements `JobService`: a
job leaves the service's queue when it is marked running, not when it is popped,
so the pop is invisible and a job cancelled before its turn is dropped from the
front.

`DaemonProofs` proves that the daemon implements the executor's specification,
so everything above holds of it, and from `DInv` (where `runDaemon()` is tells
which server threads exist; every queued job is in the queue or the worker's
hands; a worker that left has left an empty queue) that the stop order keeps
bridge calls and `shutdown()` apart and that no accepted job is lost.
`McpUsesExecutor`, at the end of `HardwareToolsProofs`, does the first part for
`owltap_mcp` (its server is its only client, where the daemon has two, so the two
programs cannot share a module).

`CaptureSessionProofs` is for arbitrary pins, conditions, depths, ratios and
`SizeMax` above the depths. Its invariant ties the write position to the count
until the ring is full and says when the ring has its full size (`RingInv`), so
that `AppendEffect` can say what one `appendSample()` does to `getSamples()`: a
frame is added, or the oldest one is replaced by a shift. From this follow the
refinement of `SampleLog`, and, with `PrevInv` (the newest frame is what the
next sample is compared with), that every trigger is justified. `TriggerInv`
says how far the trigger frame is from the newest one; it is inductive only for
ratios below 1.0 (`RatioBelowOne`), the case the finding excludes. The ratio
times the depth is exact here and a `float` in the code: for depths above 2^24
rounding could reach the depth for a ratio just below 1.0.

`CaptureEngineProofs` is for any depths, ratios and numbers of frames and inputs.
`StopInv` says for each place of the window's thread what state the engine and its
thread can be in; `StoppedMeansJoined` follows. For the view, `RingInv` locates the
frames: frame j lies in slot (j - 1) modulo the size until it is overwritten, so
that `getNewSamples()` returns exactly the newest frames that were not yet seen
(`NewFrames`). `ViewInv` says that the newest part of the view is consecutive; it
is kept when they are appended (`AppendWhole`) and when the window trims its view
(`TrimWhole`). `ViewComplete` needs what is still to be fetched at each place of
the window's thread: once the engine's thread has ended, the last poll, made after
the end was seen, took all of it (`PollInv`, with `BoundInv` and `SingleInv` for
the counts and for who ends a single capture). `TriggerKept` follows from where
the trigger frame lies in the ring and from how many frames are still to come
(`TrigInv`): at most depth less one are taken after it, also when the ratio or the
depth is changed in between.

`TapControllerProofs` is for scans of any length, any number of idle cycles and
scans, and any `kChunk`. What a word of TMS bits does to a TAP is a recursive
function over the word, so the proof is an induction over words, over the
transfers of an operation and over the scans of a chunk. The library's induction
theorem takes an operator, which the provers cannot instantiate; `NatSetInduction`
says the same of a set of numbers and is proved from well-foundedness of finite
sets, so that it can be applied to the set of lengths for which a fact holds. The
words themselves come from the search of `computeTmsPath()`: that it finds one of a
single command for the targets of the operations, from each of the sixteen states,
is an assumption about a finite graph with no constant in it (`PathsAssumption`),
and so are the four words it finds for a scan (`ScanPathsAssumption`); TLC
evaluates both; `TargetsAssumption` asks the same of the states given to
`gotoState()`, and leaves out `EXIT2_IR` (see "Findings"). `InSync` needs that every
portion of an operation leaves the device where the next portion begins; `TdoOwn`
needs that no byte of an earlier transfer is in the receive buffer while no transfer
has failed (`TdoInv`), and that the answer cut into commands and put together again
is the scan (`Reassemble`). `ScanExact` counts clocks: those of two words in a row
add up (`ClocksConcat`), all bits of a scan but the way there and back are clocked
in the shift state (`ScanClocks`), a chunk has the clocks of its scans
(`TimesClocks`), and the chunks of `shiftDRRepeat()` and the portions of
`clkIdle()` have those of the whole (`RepeatClocks`, `IdleClocks`).

`FlashProgrammerProofs` is for any PL position, bitstreams, files, chip, capacity,
page and chunk sizes, poll limit and number of runs. The assumptions: the capacity
is a whole number of pages, the bridge bitstream is one the PL takes, a missing
chip does not answer with the wanted JEDEC id. `ProgInv` has a part for each
layer. `LockInv` says that the configuration port locks only after DONE, which is
why a status that reads zero can count as success; `CleanInv` says what the PL is
at each step when no call has failed. `BridgeInv` says that from the JEDEC id on
the bridge runs, USER1 is loaded and the chip is the wanted one: nothing but a new
run can change that, because `PlDevice` can only lock the port of a started PL.
`ContentInv` says how much of the image the chip holds at each place of
`program()`, with the write that is under way; a page written to erased cells is
the page's bytes (`PageProgrammed`), because pages start at multiples of the page
size and so do not wrap. `SuccessIsTrue` is the last of these places, and
`NoSpuriousFailure` says that each way to `false` is a fault, a late device, or a
wrong file or chip. That the parser's image is the one the file means
(`McsParserRight`) is an induction over the records: after k of them the image is
what the first k say, or the file has been refused. The same induction carries that
nothing is written behind the image (`Tame`) when every record ends below 2^32
(`NoWrap`). After a write behind the image the model either ends the program or goes
on with everything else untouched: of what such a write destroys nothing is said.

`HardwareToolsProofs` is for any board as above, with any number of devices and any
boundary registers, and for any pins, decode filters, images, nets and bounds. Four
results:

- `ExtestGuarded` and what the others share come from `ToolsInv`. `HeadOK` says what
  the first step of the job rests on: a data scan on the instruction that the
  instruction scan before it has selected in this device and in no other
  (`Only`), the use of a sample on the sample. It is inductive because only the
  first step of the list may be of that kind (`TodoOK`): detection and BSDL loading,
  which would take the ground away, are jobs of their own. The arithmetic is
  in lemmas about the chain: what lies where in a register put together from those
  of all devices (`FlattenFacts`, `SliceIs`), what a selected instruction, a read and
  a write do (`SelectIs`, `ReadIs`, `WriteIs`), and that a partial read has all the
  cells the filter asks for (`DecodeScanIs`).
- `SetPinHolds` adds where a `set_pin` is (`SetPinInv`): its list can only be one of
  seven, and once the value is staged the buffer holds it until it is in the latches.
- `SamplesHold` adds that scanners and pin drivers are made before they are used
  (`MadeInv`). The steps that make them come first in a list, with only the capture
  of a new driver between them, and every other step finds its object made or its
  maker in the list.
- `NetPasses` adds that only the samples of the receivers stand before a check, and
  that each kept sample is what the cells captured last (`NetInv`). A device is
  sampled once for a value, so no later sample spoils a kept one; a scan that fails
  leaves an empty sample, on which nothing passes.

`AppWindowProofs` is for any number of inputs, faults and capture jobs. The
client's part of the invariant says that ids are handed out once (`IdInv`) and
that a message under way which carries the id of a call in progress is about that
call's request (`MatchInv`); without it a late answer could be taken for another's.
`PromisesAreKept` is about the promises outside `abandoned`: `IdInv` adds that an id
in it belongs to no call any more. The
application's part is needed because a thread that began a call while its last
one still waits would leave its promise behind: the main thread is in a call
exactly when the head of `todo` waits for one, and nothing further back does
(`MainInv`); the other two threads are in one exactly at one place (`OthersInv`),
which they cannot leave unseen (`ConnBusy`). Every step of the program is then one
of a few kinds (`Begins`, `Ends`, `QuietStep`), and each kind is shown once to
keep the client's part.

`NoOrphanJob` rests on more (`JobInv`). What requests and answers under way say of
jobs is true and stays true, because the daemon's jobs are only added and end
(`TruthInv`): a poll that reports a job as done lets the window drop `capturing_`
without losing a job. Each call of the main thread is the one its place says, and
only the main thread starts jobs (`CallInv`), so that what `onStopCapture()` hears
is about the job it holds. Between `capture_start` and the return of its call
nothing in the GUI names the new job; `StartInv` says that there is then one
request, one answer or the call itself, that no job ran when the request was sent,
and that the answer tells of the job. `HeldInv` is the property with what makes it
inductive: outside that time no job runs unless `capturing_` is set, and the one
that runs is `daemon_capture_job_id_`. These two hold until a call fails: after
that a job may be left behind, as the hazard at `app_window.cpp:668` says.
`RestTypes` has the types of the other variables, which `NoOrphanJob` includes.

Only model-checked:

- liveness (`ShutdownReturns`, `AcceptedJobsEnd`, `StopRequestEndsDaemon`,
  `ShutdownRequestEndsProgram`, `MainReturns`, `CaptureEnds`, `SingleEnds`,
  `ProgramEnds`, `CallsEnd`): it needs fairness, which is out of the prover's
  reach;
- `PathsShortest`, a statement about the sixteen states of the graph and nothing
  else, which TLC evaluates for all of them;
- the ILA (`SamplesInOrder`, `ArmTakes`, `TriggersAsAsked`): an induction over the
  calls of the driver against the core's registers that has not been carried out.

## Plan

1. (done) Executor, its abstract specification, both programs, proofs.
2. (done) `CaptureSession` with `TriggerEngine`, with proofs; `CaptureEngine`
   against its window, with proofs of the stop and of the view.
3. (done) `TapController`, `JtagChain`, scanner, pin driver, the tools, the script
   engine and the interconnect test on top.
4. (done) ILA core and the host side over both TAPs.
5. (done) `GuiDaemonClient`, `DaemonProcessController` and the window's handlers,
   with proofs about the client and the capture jobs.
6. (done) `PlConfig` and flash programming, with proofs.
7. (done) Proofs of the TAP controller, of the rest of `CaptureEngine`, of flash
   programming and of the boundary-scan tools.
8. Left: proofs about the ILA (`ArmTakes`, `SamplesInOrder`); the status poll thread
   of the window as a further caller of the client.

## Not modelled

- JSON-RPC framing (`json_rpc.cpp`): stateless text handling over a JSON library.
  What a lost, late or duplicated message does is modelled where messages are used.
- Protocol decoders, BSDL and XDC parsers: pure functions of texts or whole
  waveforms, better served by tests on real files.
- ILA generator and the RTL templates: text, no state. `ila_top.sv` and `ila_bram.sv`
  are wiring.
- The GUI's layout, drawing, plots, exports and settings; the status poll thread,
  whose result only colours the status bar.
- `jtag_diag`: a print-out of scans.
- FTDI enumeration, the clock divisor and the MPSSE handshake: they only decide
  whether `open()` succeeds.
- The clock crossing inside the ILA core: pulses are taken to arrive before the
  next scan.
- Message wording, logging, timestamps and sampling intervals everywhere; the
  vendor's USB library appears as operations that may fail.

`components` in `PROJECT.json` says the same for each part, with its sources.
