# Verification of ros2_roamadome

TLA+ modules, TLC runs and TLAPS proofs for the ros2_control hardware component
of the RoamADome dome rotation controller and for its `roamadome_bench` node.
Paths and line numbers are those of the repository; `PROJECT.json` maps every
definition to the lines it stands for.

## 1. The system

A dome motor, its encoder ring and its firmware sit behind a serial line. The
hardware component `RoamadomeControl` (a `SystemInterface`) sends text commands
(`:DPR<p>` rotate at p %, `:DPA<deg>` move to an angle, `#DP...` settings and
queries) and reads lines. Two host threads share its state:

* the **controller manager thread** calls `read()`, `write()`,
  `perform_command_mode_switch()`, `on_activate()`, `on_deactivate()` one at a time;
* the **executor thread** runs service, parameter and timer callbacks.

The bench node is another process. It drives the dome through the services
`~/bench/drive` and `~/bench/move` and has threads of its own: the reentrant start
services, a worker per sweep, a heartbeat timer, and the signal handlers.

| Component | State | Operations | What makes it correct |
|---|---|---|---|
| Motion path (`roamadome_control.cpp`: `write`, `serviceBenchDrive`, `stopBenchDrive`, mode switch, lifecycle, bench services) | bench claim (`benchActive_`, pending and last sent percent, move, freshness), command mode, `lastSentPercent_`, `lastCommandedPercent_`, `firmwareMoveOutstanding_` | the cycle, switches, (de)activation, drive and move calls, heartbeat | one commander at a time; what is recorded of the motor is what it does; a stop is not lost; an unattended rotation ends |
| Send queue and settings acknowledgements | queue of commands, ack stage, deferred refresh | push by callbacks, pop by `write()`, ack lines, ack timeout | settings writes and motion exclude each other (a settings write stops the motor); writes do not starve; one write at a time, counted as acknowledged only when the device has stored it |
| Report gate and position tracker | accepted history, held report, counters, unwrapped angle | one update per report, reset on activation | a misread does not shift the continuous angle by a turn; nothing vanishes uncounted; no freeze |
| Startup | baud rate of both ends, command table position, probe flags, retries | the baud sweep, one step per loop, answers, timeouts | commands go out at the device's rate; a startup that succeeds leaves a safe and configured device; it ends |
| Serial reader | line buffer, open CONFIG/STATUS section | bytes in, lines, reports and sections out | a section is handed on whole, once and unmixed, however the stream is chopped; a line that matters reaches its observer |
| Parameters and their synchronisation | registry, `device.*` parameters, deferred refresh | parse a dump, push differences, accept `set_parameters` | the parameters are the settings of one moment; what is accepted is read back; host and device agree in the end |
| Velocity map (`velocity_map.hpp`, hardware parameters) | the calibration | parse the hardware parameters, velocity to percent | opposite velocities turn opposite ways, a greater speed is not sent a smaller percent |
| Diagnostics | counters, ages, last failures | fold lines, sections and reports; published at 1 Hz | the counters belong to one answer; a silent controller is shown |
| Bench drive gate, sweep claim, bench node | claim, lock, recorded percent/move, stopping and abort flags; settings saved, baseline of the counters | start, step, beat, abort, cleanup, forced exit; write, confirm and restore settings | one sweep at a time; the stop is the last word; every sweep ends; a held drive is kept alive; "restored" is true |
| Line classifier, bench analysis | none | pure functions | see section 8 |

How they interact. Bench calls and settings writes meet in the motion path: both
look for the other before they are accepted and both are carried out by later
cycles of `write()`. The serial reader feeds position reports to the gate,
acknowledgements to the queue, end-of-move lines to the move guard, and probe
answers to startup, all within `read()`. Telemetry (`command_mode`,
`commanded_percent`) is how the bench node learns whether it may start, and the
counters of `/diagnostics` with the `device.*` parameters are how it learns whether
its settings have arrived.

What is hard here, and what a unit test hardly reaches:

* every check-then-act of an executor callback spans two or three mutexes, so a
  mode switch, a send or a deactivation fits in between;
* each send happens outside the locks and is recorded by a later store;
* sends fail, and a failed stop is retried by later cycles that race with new
  requests;
* answers are lines without identity: acknowledgements, probe answers and
  end-of-move reports can belong to an earlier command;
* in the bench node a lock is held across service calls, calls that are given up
  are still executed, and three threads may stop the dome.

`PROJECT.json` "hazards" lists each of these at its line, with the property that
covers it or the reason why none does.

## 2. The modules

| Module | Models | Size of the source it stands for |
|---|---|---|
| `MotionControl` | the motion path, the send queue, the bench services and the lifecycle, as two interleaved threads and the firmware | most of `roamadome_control.cpp` 1040-2330 |
| `ReportFilter` | abstract: what the tracker may rely on from the filter in front of it | comment of `ReportPlausibilityGate` |
| `ReportGate` | `report_plausibility_gate.hpp`, the unwrapping of `position_tracker.hpp`, `handlePositionReport`, the reset in `on_activate`; refines `ReportFilter` | both headers |
| `DomeTracking` | `ReportGate` composed with a turning dome and a ring that misreads | (environment) |
| `Startup` | `openDeviceAndRunStartup`: the port, the baud sweep, `runStartupStateMachine` with the reader, the observers and the device | `roamadome_control.cpp` 560-1030, parts of the reader |
| `VelocityMap` | `velocityToPercent`, `linearVelocityMap`, `parseVelocityMapParameters`; operators only | `velocity_map.hpp`, `roamadome_control.cpp` |
| `CalibratedDrive` | `MotionControl` composed with the map it was initialised with | (composition) |
| `DeviceParameters` | the table of the `device.*` parameters: types, ranges, defaults, what a write may hold and what a dump is read as; operators only | `device_parameter_specs`, `parameter_parser.cpp`, `validateAndBuildCommand` |
| `SettingsWrites` | abstract: what `set_parameters` promises of the writes it accepts | (promise of the send queue) |
| `Settings` | `set_parameters`, `set_home_here`, the queue with what each write carries, acknowledgements, dumps, the counters of `/diagnostics`, and the settings phases of the bench node; refines `SettingsWrites` | `roamadome_control.cpp`, `node.py` 400-700 and 1040-1150 |
| `BenchNode` | `control.py` (claim and gate) and the threads of `node.py` | both files, without results; the settings are in `Settings` |
| `DomeDiagnostics` | the folding of lines, status sections and reports into `DomeDiagnosticsState`, and the link and motion levels; operators only | `dome_diagnostics.cpp` |
| `Console` | what the firmware prints, `RoamadomeSerialPort::read`, the `device.*` parameters, the move record and the timers that poll; owns the record of `DomeDiagnostics` | `roamadome_serial_port.cpp` 200-308, 487-529; `roamadome_control.cpp` 1009-1130, 2269-2318, 2418-2459; `device_parameter_specs.cpp` |
| `MotionControl_proofs`, `ReportGate_proofs`, `Startup_proofs`, `Settings_proofs`, `VelocityMap_proofs`, `BenchNode_proofs`, `Console_proofs`, `DomeTracking_proofs` | theorems | |
| `MC_Motion`, `MC_Drive`, `MC_Gate`, `MC_Tracking`, `MC_Startup`, `MC_Bench`, `MC_Console`, `MC_Settings` | values of constants for TLC | |

A definition `Name_Variant` placed before `Name` is `Name` with a plausible mistake
in it. Nothing uses it; `PROJECT.json` "mutants" says which property fails when it
takes the place of `Name`.

### MotionControl

A step is what one thread does inside one critical section, in one serial write,
or in one store to an atomic. `cmPc` and `exPc` say where the threads are; the other
locals (`benchBusy`, `moving`, `outPercent`, ...) are the local variables that the
code carries from one critical section to the next. The chain of one `write()` is
`WriteBegin`, `RefreshSample`, `RefreshService`, `QueueStep`, `QueueIo`, one of the
control steps (`VelocityCommand`, `PositionCommand`, `NoControllerCommand`), one of
`ServiceStops | ServiceMove | ServiceDrive | ServiceNothing`, and the send, store and
finish of what was chosen. `StopCheck .. StopFailed` is `stopBenchDrive`, which a
cycle and a mode switch both call (`ret` says which). The lifecycle calls are chains
of the same kind. Executor callbacks are `DriveCall`/`DriveRecord`,
`MoveCall`/`MoveRecord` (with `BenchRequestCheck`, the look into the queue, as a step of
its own in between), `SettingsCall`/`SettingsCheck`/`SettingsPush`,
`RefreshCall`/`RefreshCheck`/`RefreshPush`, and the one-step `StatusPoll` and `SetupCall`.

The firmware is external and has the few rules the host relies on: `:DPR` turns
the motor until the next one, `:DPA` starts a move that only the firmware ends, a
settings write stops both, and the end of a move is one line in transit.

Abstractions. A queued command is its flow, since only the flow decides what
`write()` does with it; a parameter set with several values is one queued write
(which setting and value it carries is the business of `Settings`).
Velocity commands are the percents they map to. Time: a timeout has or has not
passed when the code looks at the clock, so every order of clock and events is
covered. The measured velocity is any value. `enableBenchMode_` is true and telemetry
is on. `lifecycleActive` stands for the existence of the timers. `ActivateDone` merges
stores that commute. `Room(n)` bounds the queue, which the code does not.

### ReportFilter, ReportGate, DomeTracking

Times and angles are integers; `Turn` is the circle, `MaxRate`, `MinDt`, `Slack` and
`Wrap` the parameters of the gate, `ResyncAfter` its limit. A report is its arrival
number, time and angle. `ReportGate` keeps the accepted `last`, the `held` report,
`disagreements`, the four counters, the sequence number of the telemetry and the
unwrapped angle of the tracker, and its steps are the exits of `update()` with what
`applyAcceptedReport` does for each delivered report. Under the mapping *newest
delivered number, held number, numbers delivered by this arrival* it implements
`ReportFilter` with `Limit = ResyncAfter` (`GateIsFilter`). `DomeTracking` adds the
true angle of a dome that turns within the configured rate and lets at most one
report in three be a misread. The regression of the tracker over doubles is left out.

### VelocityMap, CalibratedDrive

`VelocityMap` is the arithmetic between a joint velocity and the percent of `:DPR`,
and the parsing of its parameters with every refusal (a number that is not finite, a
minimum that is not a whole percent, a sign that is neither 1 nor -1, two equal signs,
an unknown key). The code computes with doubles; here a calibration is a whole number
of tenths and a velocity a whole number, so that rounding still happens.
`CalibratedDrive` gives `MotionControl` the percents that a map makes (an assumption
of the composition); what is said of the maps themselves (`EveryMapSteersTrue`) is a
formula without variables, which TLC evaluates once.

### Startup

Before the state machine the port is opened and the wanted rate is told to the device
at each rate that the host supports, one after the other, since it may be at any
(`SweepTurn`); what it hears at another rate than its own spoils the line it next
reads. After each rate the host reads whatever has come in (`Reading`), so the observers
run before `resetStartupContext` wipes what they have noted (`BeginStartup`), and an
open section may outlive the sweep. (The sweep is a hardware parameter and off by default; the model is of a
startup that has it on. Without it the device must be at the wanted rate, which is the
case where `deviceBaud` is that rate from the start.)

One turn of the loop is a `read()` (with the open section of the reader, its end and
its flush) and one step of the state machine: send a command and its probe, wait,
retry after a timeout, give up, or go on. The device executes what it is sent in
order and answers; a line may be lost, a send or a read may fail, and answers of an
earlier session may be left in the line. A dump is one line here. The age of the
configuration (a warning) is left out; of the five blank lines before a baud command
one is enough.

### DeviceParameters, SettingsWrites, Settings

`DeviceParameters` is the table of `buildParameterSpecs` as sets of names, with
`Accepts` (what `validateAndBuildCommand` lets through) and `ParseConfigScalar` and
`ParseConfigMap` (what the parser makes of a dump, including its defaults for what is
missing or refused). `Settings` follows a write from the caller to the device and
back: `SetParameters` queues one command per parameter and stores the values;
`WriteCycle` is one `write()` as far as the queue is concerned (take the first command
that may be sent, rotate settings writes behind a bench claim, send, give up a wait
that is over); `FwExecutes` is the firmware, which answers "Unchanged", or "Write
Settings" and "Updated"; `Feedback` settles the wait, and queues the dump that
`SyncParameters` turns into parameters; `PublishDiagnostics` shows the counters. The
worker of the bench node saves the parameters, takes a baseline of the counters,
compares, writes and reads back one setting after the other, waits for the
acknowledgements, turns the dome, and does it all again to restore what it saved
(`pc`, `phase`). A request it has given up is served later all the same (`LateSet`).

Under the mapping *write at the device followed by the writes in the queue* it
implements `SettingsWrites`: a line of writes, of which the first is stored and then
acknowledged, or abandoned. Variables marked "history" (`stored`, `meddled`,
`misled`) are not in the code; they serve the mapping and the properties.

Abstractions. One `write()` is one step here; its inner steps are those of
`MotionControl`. The raw settings of a motor sweep are two of the fields. The wait of
seconds (`NothingMore`) ends without what it waits for only when nothing more is on
the way, unless the fault kind "slow" is allowed. The diagnostics may be silent while the
node waits for a baseline (fault kind "silent", `NoCounters`): `_wait_settings_acked` then
returns None, `firmware_acked` stays null, and `settings_restored` becomes true from the
ROS parameters alone (`node.py` 523-527, 1128). That report says nothing of the device, and
`RestoredIsTrue` is only about one that had counters.

### BenchNode

A step is what one thread does between two points at which another can interfere;
the drive lock is held across several. `_call_drive` and `_call_move` put a request
on the wire of their service; the plugin executes the requests of one service in
order; the caller takes the answer or gives up after `MaxFaults`-bounded timeouts, in
which case the request is executed all the same. The worker loops over steps
(`NextStep`, gate, call, `hold` or `moving`, 0) and runs the cleanup (`CleanupBegins`
to `ReleaseClaim`). The plugin is external and may refuse a request that starts
motion, and may stop the dome by itself. Phases that depend on telemetry, settings
or files may end, fail or be aborted at any time. A forced exit takes the lock for half a
second at most, sends 0, gives the lock back (`ForceReleases`), and the process ends only
after the executor was shut down (`ForceEnds`); the other threads go on until then.

Abstractions: one aborter thread stands for the abort service and the first signal;
`arm()` is one step; the settings phases are one step that may fail (they are taken
apart in `Settings`); refusals of the plugin other than "settings write is in flight"
are one answer; each service is FIFO, the two services are not ordered; a third signal,
which sends the same 0 again, is left out.

### DomeDiagnostics, Console

`Console` takes the printed output of the controller apart. A `read()` is a `ReadChunk`
(whatever has arrived, possibly cut because it is too much) and one `ProcessLine` per
line, whose four cases are those of the loop in the code: the echo of a command ends
the open section and may begin the next, a position report is recognised in every
state, a line within a section belongs to it, any other line is classified. `FlushIdle`
is the `read()` that finds nothing and closes a section that has been idle too long.
`DeliverConfig` is the whole way from a section to the parameters: the reset to the
defaults, the unknown keys, the value that does not parse and stops the
synchronisation. `Write` is the cycle as far as the console is concerned: the deferred
refresh, one command of the queue, and a new position target. The timers are
`StatusPollTimer` and `RequestConfigRefresh`. `DomeDiagnostics` holds the operators
that fold all this into the diagnostics state.

The firmware is external: a single loop that answers a command line by line, in order,
reports positions between answers, ends a move with one line, and may be changed at its
menu, count errors, be garbled, pause or reboot. Each of these is a member of `Events`
and takes one of `MaxEvents`.

Abstractions. A line is what it says, not its bytes, and the remainder of a line stays
with the sender until the line is whole. An age stops at the threshold it is compared
with. The measured velocity of a dome that turns may be below the limit of
`domeMoving`. A key-value line carries the dump it is of, and a sensor line the packet
count of its answer; both only for the properties.

## 3. The runs

Workstation times with two to four workers. All bounds are named constants.

| Run | Asks | Bounds |
|---|---|---|
| `motion_drive` | Do the records of the motor stay true, do bench motion, moves, controllers and settings writes exclude each other, does telemetry that says idle mean it, does whoever lets go of the dome leave it still, and does what the parser accepts of a velocity map steer true? | the calibration of README.md 473, one percent and 0, one move, both controllers, 1 failed send, queue of 2, 1 line in transit; maps of 15,000 sets of parameters |
| `motion_watchdog` | Is an unattended drive stopped, and an accepted one sent? | 2 failed sends, queue of 2 |
| `motion_drain` | Does a settings write get out? | no failed send, queue of 3, polls, refreshes and setup calls around it |
| `gate_any` | Any five reports, with activations: accounting, common history of gate and tracker, refinement of `ReportFilter`. | circle of 12, gaps 0, 1, 2, resync after 3 |
| `gate_tracking` | Does the continuous angle come back to the true one? | circle of 25, gaps 0, 1, 2, 6 reports, one in three misread |
| `startup_faults` | Does startup speak at the device's rate, does success mean safe and configured, does failure have a cause, does startup end? | five rates of 2400 to 115200 and a device at any of them, 9600 wanted, safety on or off, 1 failed send or read, 1 lost line, 1 retry, leftovers of one probe |
| `bench_sweep` | Is the stop the last word, is a held drive kept alive, is there one worker? | two start services, one step, drives and moves, forced exit, 1 fault |
| `bench_ends` | Does every sweep end, and is a turning dome stopped? | one start service, one step, drives and moves, 2 faults, no forced exit |
| `console_read` | Is every report and every answer handed on once and whole, are the parameters those of one moment, is the end of a move told? | two keys, two lines on the wire, any two of: move, change, error, reboot, lost command |
| `console_heal` | Do the parameters settle, and is silence shown? | the same, any one of all events: also a stall, a garbled line, a cut buffer |
| `console_swallow` | violation, section 6 | two events, no reboot |
| `settings_restore` | Is a restore that is reported as successful one, are the writes settled as promised, do the parameters follow the device in the end, is what is accepted read back? | three settings, two of them saved; one event: a fault of eight kinds, a call of an operator, a refresh in the middle; queue of 3 |

Why the bounds are enough. *Motion*: every property is about one percent, one move
and one settings write at a time, and 0 is the percent that replaces another; a queue
of two writes also takes the query of an acknowledged one (two entries, behind a write
that waits), which is what rotation is about, and in `motion_drain` the queue of three
holds queries of every caller before and behind a write; two failures, in
`motion_watchdog`, are a failed stop and a failed retry. The safety properties hold with two
as well (`MaxFailures = 2`, 4.3 million states, more than a run of five minutes), and are
proved for any number (section 4). *Gate*: `ResyncAfter = 3` gives every length of a run of
disagreements below the limit, and five reports reach hold, confirm, reject and
resync, each before and after the others. For tracking the circle must be wide
compared with what the gate lets pass in the longest gap (rate, slack and wrap); on a
circle too narrow a misread next to the true angle *on the other side* is plausible, and
`AngleIsTrue` fails, which is a limit of the method and not of the code. The run is an
instance of the theorem about it (`Distinguishable`, section 4), and six reports are the
first one, a misread, the two that settle it, a second misread and the one after it. *Startup*: one retry
distinguishes first and last attempts, and one fault of each kind may hit any of
the eight commands; of five rates the wanted one has slower and faster ones on both
sides of it in the order of the sweep. *Bench*: a sweep of one step has every phase, and further
sweeps follow it; fewer faults than the three tries of the cleanup. With as many
faults as tries the stop may go unsent, which the code reports and leaves to the
plugin heartbeat (`WatchdogStops`). Two start services are what an overlap of starts
takes. `bench_ends` is without a forced exit to keep the liveness check small: such an exit
waits for the lock for half a second at most and ends the process, with which both
properties end; that it may come at any point of a sweep is part of `bench_sweep`. *Console*: two keys are a dump that can be cut and mixed; a wire of two lines
and chunks of one or two chop an answer of three or four lines at every place, with a
report in between; two events are an event and one in its aftermath (a reboot within
the answer to a poll that follows a counted error). The timers add commands when those
of the last poll are gone (`MaxQueue`), as they do at their intervals of seconds; each
answer is nevertheless followed by any other one, with the echo of its probe still to be
read. *Settings*: a plain number, a switch and a setting that is written but not saved;
one fault may hit each write, answer and dump of a whole sweep with its restore. With two events `RestoredIsTrue` holds as well (10 million states, too many for a run). A periodic refresh is no fault; that one which comes
while the bench node is at work counts as an event too (`CountRefreshes`) only keeps the
run small. Section 4 proves `RestoredIsTrue` for any number of events and refreshes.
`ParamsFollowDevice` relies on the periodic refresh, which the parameter that sets its
interval may turn off (`roamadome_control.cpp` 1286): without it a parameter whose write
was dropped stays wrong, as the mutant `PeriodicRefresh_Never` shows.

`CHECK_DEADLOCK FALSE` is set where the system really may stop: startup ends, a
process that was forced to exit takes no step, and reports are bounded in
`gate_tracking`.

### Fairness

* `MotionControl`: `SF(WriteBegin)`: the controller manager runs its loop for ever,
  whatever other calls it serves between cycles. `WF` of the steps of a call that
  has begun, for each thread: a function that was entered returns. `SF(QueueStep(TRUE))`:
  an acknowledgement that is awaited for ever is once looked for after its timeout.
  Nothing is assumed of clients, controllers or lines.
* `Startup`: `WF` of the loop, `SF` of the timeout, as its deadline is fixed when the
  command is sent. Nothing of the device.
* `Console`: `WF` of the firmware's execution and printing and of the chunk and line
  loop of `read()`; `SF` of `FlushIdle`, `Write`, the refresh timer and `Tick`, because
  `read()` and `write()` alternate and timers and clock come round although their guards
  (nothing to read, room on the line) hold only at times. Nothing makes the firmware
  report, a move end, or an event happen.
* `Settings`: `WF` of the refresh and diagnostics timers, of `write()` and `read()`, of the
  firmware and of the worker. Nobody has to call, and no fault has to happen.
* `BenchNode`: `WF` of each thread; `SF(TakeLock)`: a waiter of a lock that becomes
  free again and again gets it, or its wait times out; `SF(RetryEnds)`: the deadline
  of the retry loop passes; `WF` of the plugin: requests are executed. Nobody has to
  start or abort a sweep.

## 4. What is proved

TLAPS proves the following for every value of the constants, from the named
assumptions in the modules (percents in -100..100 with 0 among them, markers that
are not values, bounds that are naturals, positive circle and rate, a list of rates
that holds the wanted one, settings of the parameter table that are within its
ranges, kinds of lines that are no keys of a dump).

`MotionControl_proofs`, from the inductive invariant `IInv`:

* `TypeCorrect`, `RecordIsNeverLow`, `BenchRecordIsTrue`, `BenchAlwaysYields`,
  `IdleTelemetryIsTrue`: the safety invariants of the motion path;
* `NoMotionIsSentBehindWrite`, `NoWriteIsSentUnderBenchDrive`: the two action
  properties that keep settings writes and bench motion apart.

None of them is inductive by itself, because each send is recorded a step later and
each decision is made of values sampled before. `IInv` adds what holds in between:
`SendInv` (what the motor does between a send and its store), `ClaimInv` (a percent that
is pending, sent or under way keeps the claim), `ControllerInv` (no bench percent is
in force while a switch towards a controller is committed), `WriteInv` (a cycle that
found the bench unclaimed may send a settings write, since only this thread could
have sent a bench percent since), `TelemetryInv` (telemetry is a function of claim and
mode, but for one moment of `on_deactivate`), and `ExclusionInv` (motion that was asked
for and settings writes in flight exclude each other, through both halves of each
executor callback). The last is where the threads meet: the executor is one thread,
so it cannot accept a write between the two halves of a drive call, and the
controller manager thread only ever takes claims and writes away. `Inductive` has one
step per action; the queue operators have lemmas of their own.

* `LetGoLeavesItStill`, `VelocityAlwaysStartsStill`: what holds until a send fails, from
  `LInv`. A closed port and a finished switch are the ends of calls of several steps, so
  `LInv` follows them: what each step of a switch (`SwitchInv`) and of a deactivation
  (`PortInv`, `ConfiguredInv`) has already stopped, and that nothing but a controller's
  percent turns the motor where the bench has no claim (`StillInv`).

`ReportGate_proofs`, from `GInv` (the count of disagreements is the number of reports
since the last accepted one, a report is held exactly while it is positive, and
counters balance): `GateTypeCorrect`, `ReportsAreAccounted`, `HeldReportIsNews`,
`TrackerFollows` (for any circle the unwrapped angle is the reported one modulo a
turn), and `GateImplementsFilter`, the refinement of `ReportFilter`.

`Startup_proofs`, from five invariants:

* `StartupTypes`: `TypeOK`, with `ConfigSection` (an open section holds lines of a dump
  only) and `WaitsForCommand`. It is no property of a run.
* `StartupLink` (`LinkAgrees`): `LinkInv` says that during the sweep the device is at the
  wanted rate or at one whose turn is to come, so that after the last turn it is at the
  wanted one, for every list of rates.
* `StartupSafe` (`CompleteMeansSafe`): answers may be late, lost, of an earlier session or
  of a retry, so nothing can be said of which command a line answers. `LinesTrue` needs
  no such thing: no command of startup turns the safety on, hence a line that says
  "off" is true whenever it is read. `SafetyChecked` says what each reached command has
  verified.
* `StartupConfigures` (`CompleteMeansConfigured`): the same of the modes (`ShownInv`), and
  `DoneInv`: a wanted mode holds at the device or its command is on its way. A command
  that was heard at a wrong rate spoils only the first one (`FirstSpoilt`), which is a
  question.
* `StartupFailsForAReason` (`FailureHasReason`): as long as nothing goes wrong, host and
  device are in step (`InStep`): at each command the lines under way are a part of the
  answer to this very command, and what has been read of it is what the transition looks
  for. Without faults a probe cannot be mismatched, which is why this is inductive although
  section 6 shows mismatched probes after a retry.

`Settings_proofs`, from `SettingsInv`: every number of the parameters, the queue, the
wire, the device and the memory of the bench node is within the range of the parser.
This gives `SettingsTypes` (`TypeOK`, no property of a run) and `AcceptedIsReadBack`
(`WrittenIsReadBack`), for every set of settings and every call. The least sendable
entry of the queue exists by the order of the naturals.

`WritesAreSettled` (`SettingsAreWrites`) is the refinement of `SettingsWrites`, for a firmware
whose answers do not come after their time (`"slow" \notin Faults`; with it the property
fails, section 6). The mapping needs only what `OneAtATime` says of the wire: a write on
its way to the device is the one that is awaited and is alone, and an answer that is
still to be read says that the device has stored it and is the last one unless it is
"Write Settings". Where a timeout is due nothing is under way any more, so the next write
is alone again. Two thirds of the proof are about sequences: `Writes` is a recursive
function, whose facts (of an appended command, of a concatenation) are proved by
looking at the least prefix for which they would fail, since the induction theorems of
the library cannot be used.

`RestoredSettingsHold` (`RestoredIsTrue`), for every set of settings and all their values,
any number of refreshes, and any number of lost sends, commands, answers and dumps, of
incomplete dumps, of timeouts and of silences of the diagnostics. The bench node compares
the counters of the plugin with a baseline and the parameters with a snapshot, and neither
is the device. What has to be shown is that nothing can make both look right when the
device is not. Of `RAW_MOTOR_SETTINGS` the proof takes that each setting is named once with a
value that is accepted (`RawAssumption`). Four things are excluded:

* an answer that comes after its write was given up (`"slow" \notin Faults`): with it the
  counters say nothing of the writes, and `RestoredIsTrue` fails;
* a write of somebody else since the sweep began (`meddled`): an operator's, or a request
  of the bench node itself that it had given up and that is served late;
* a restore without counters (`Confirmed`): nothing was confirmed then;
* a restore that began from a wrong picture (`misled`): from counters that were out of date
  or with a write pending, or from a parameter that showed the old value of a setting
  while the device held another. Section 6 shows that the code then reports falsely
  (`SettingsBaseline`, `SettingsOldDump`).

`misled` is decided at the two steps in which the restore looks at the counters and at the
parameters; whatever goes wrong after these is covered. That is what `RestoreInv` is about
(`Trusted => Restores`), and it is an account. A setting is `Astray` if the device holds
something else than before the sweep and no write of it is still to be issued, queued or at
the device. A write that is lost makes its setting astray or changes nothing; a write
that is stored and acknowledged makes one setting right. So as long as no write has
timed out,

    |Astray| + pending + acknowledged + still to issue <= baseline + written

(`Account`) and whatever is queued or at the device carries the value from before
(`Restoring`). When the diagnostics say that nothing is pending, nothing has timed out and
`written` acknowledgements have been counted since the baseline, nothing is left for
`Astray`, and the device holds what it held. When a write has timed out the counters say so
and the node does not report success. `Account` needs from `OneAtATime` and `StoredHolds`
that an acknowledgement is counted only for a write that the device has stored.

`VelocityMap_proofs`: `EveryPercentIsSendable`, `OppositeVelocitiesOppose` and
`GreaterSpeedIsNotLess` for every map and all velocities, and `MapSteersTrue`
(`EveryMapSteersTrue`), since what the parser accepts is such a map. `ActiveMapIsTrue`
(`ActiveMapSteersTrue`) is its consequence for the motion path that is composed with it.

`BenchNode_proofs`, from `IInv`: `TypeCorrect` (`TypeOK`, no property of a run),
`StopIsTheLastWord` (`StopIsLast`), `HeldStepIsKeptAlive` (`HoldIsKeptAlive`) and
`OneSweepAtATime` (`OneWorker`), for any steps, percents and number of faults.

* `LockInv`, `ClaimInv`: who is between taking and releasing the lock or the claim is the
  one that holds it; so at most one of worker and heartbeat waits for an answer.
* `AnswerInv`, `OwnerInv`, `LengthInv`: requests that were given up stay on the wire and are
  executed, hence an answer has to be shown to belong to the one who waits: the last
  request of the wire is the one of the owner of the lock, and there are as many others
  as there were faults.
* `ZeroInv`: once a sweep is being stopped, requests that are still to be sent are zeros,
  and those on the wire in front of the worker's 0 are executed before it. With
  `RecordInv` this is what makes `StopIsLast` inductive. `HoldIsKeptAlive` relates two
  threads at each step of both, and is proved on top of `IInv`.

`Console_proofs`, from `IInv`: `TypeCorrect` (`TypeOK`, no property of a run),
`NothingSwallowed` (`NothingIsSwallowed`), `CountersBelongTogether` (`CountersOfOnePoll`),
`ParamsAreOneDump` (`ParamsOfOneDump`) and `EndOfMoveIsTold` (`EndIsTold`), for any keys,
settings, chunk sizes and bounds.

The reader cuts the stream wherever it likes, so the argument is about the whole stream:
what `read()` holds of a line, what is on the wire and what the firmware has still to
print are one sequence (`InFlight`), and no step but the firmware's and the delivery of a
line changes it. Unless an answer was cut, the open section followed by that sequence is
a chain of whole answers (`ChainInv`), each an echo, its lines and the echo of its probe.
So a section that is closed by an echo is whole, and the idle flush (`AgeInv`) finds one
that is. `DumpPart` and `StatusPart` say that what has been collected is a prefix of one
answer; `CountersInv` and `ParamsInv` carry this to the diagnostics and to the parameters;
`OwedInv` counts what was printed against what was delivered (lemmas on the cardinality of
the positions of a kind of line in a concatenation); `OutstandingInv`, `LastEndInv` and
`ToldInv` follow the end of a move. All of it was checked by TLC on `console_read` first.

`DomeTracking_proofs`: `MisreadsDoNotShift` (`AngleIsTrue`) and `HistoryIsKept` (`NeverResynced`), for every circle, rate, allowance,
pattern of misreads and number of reports that are `Distinguishable`: the gate is on, its
minimal interval is a report interval, two misreads are at least two good reports apart,
`kResyncAfter` is 3 or more, and eight of the largest steps that the gate lets pass do not
make a turn. In the robot (600 deg/s, slack 2, wrap allowance 10, interval 28 ms) the last
one says that no two reports are more than 54 ms apart; over a longer gap a misread may be
as plausible as the truth, and nothing is claimed.

`DomeInv` follows one misread. On track (`OnTrack`) the angle is the true one. A misread
is accepted and leads it astray by what the gate lets pass and the dome turns (`Misled`), or
is held (`Doubted`). The good report behind it is accepted, or confirms the misread, or is
held in its turn (`Doubting`); a further good one agrees with that one, so the third
disagreement never comes. In all of these the angle is within four such steps of the true
one, hence by `NearDelta` the shortest step to a good report is the step to the true angle,
by whichever of the exits of `update()` the report gets in. For the misread that is
*confirmed* by a good report `StepBack` is needed too: it lies near that report, so the two
steps of the tracker, to the misread and back, add up to the right one.

Only model-checked: all liveness (the prover has no fairness reasoning that reaches
it), which is every property of the passing runs that has no theorem.

## 5. Properties, in words

*Motion.* `RecordNeverLow`: a motor that turns is recorded as turning, at the percent it
turns at. `BenchRecordTrue`: a bench drive that the host believes to be turning is; as
an unchanged percent is never resent, a drive that was stopped behind the record
would stay stopped. `IdleTelemetryIsStill`: telemetry that lets a sweep start is true.
`BenchYieldsToController`: the executor cannot slip a drive into a mode switch.
`NoMotionBehindWrite`, `NoWriteUnderBenchDrive`: a settings write stops the motor, so
neither may be sent under the other. `LetGoIsStill`, `VelocityStartsStill`: until a send
fails, the three places that must leave the dome still do (a closed port, a switch to
idle, a velocity controller that takes over). `ActiveMapSteersTrue`: what the parser
accepts of hardware parameters turns opposite velocities opposite ways and a greater
speed not less. `WatchdogStops`, `AcceptedDriveIsSent`, `SettingsWritesProceed`: liveness.

*Reports.* `EveryReportAccounted`, `HeldIsNews`, `TrackerFollowsGate`, `GateIsFilter`,
`AngleIsTrue`, `NeverResynced`.

*Startup.* `LinkAgrees`, `CompleteMeansSafe`, `CompleteMeansConfigured`, `FailureHasReason`,
`StartupEnds`. The second holds although probes can be mismatched (section 6), because
auto safety is read twice, from the settings and from the status.

*Console.* `NothingIsSwallowed`: reports and answers that were printed and not
delivered are under way, exactly. `ParamsOfOneDump`: the parameters are never a mixture
of two dumps or a part of one, unless an answer was cut. `CountersOfOnePoll`: the two
error counters that `/diagnostics` shows side by side come from the same answer, also
when a reboot has set them back. `EndIsTold`: the record of an outstanding move and
the motion level follow the end of the move. `ParamsSettle`: the periodic refresh heals
whatever a garbled, cut or lost dump did. `SilenceIsShown`: a controller that has stopped
reporting is shown although the READY that would tell of its reboot was swallowed.

*Settings.* `RestoredIsTrue`: when the bench node says that the settings are restored,
the device holds them, whatever was lost or timed out, if it had counters, nobody else
wrote meanwhile, and the restore began from the right picture (`SettingsBaseline` and
`SettingsOldDump` show what happens otherwise). `SettingsAreWrites`: one write is at
the device at a time, in order but for the bench's hold, and an acknowledgement is
counted only for a write the device has stored. `ParamsFollowDevice`: writes that are
dropped, given up or lost do not stay in the parameters. `WrittenIsReadBack`: what the
writer accepts is within what the parser accepts, without which one setting would stop
the whole synchronisation.

*Bench.* `StopIsLast`: once the plugin has confirmed the worker's 0, no heartbeat, late
request or other sweep turns the dome again. `HoldIsKeptAlive`: a worker that holds a
step does so with a record that the heartbeat repeats, or is about to be aborted.
`OneWorker`, `SweepEnds`, `StoppingStopsDome`.

## 6. Known disagreements

Each is a property that a comment, a document or the README states, and a
configuration in which the code does not keep it (`tlc -config X.cfg MC_...`). The first
is a run of `PROJECT.json`; the others are next to the modules.

| Configuration | Property | What happens |
|---|---|---|
| `ConsoleSwallow` | `EndedMoveIsNotOutstanding` | The end of a move that is printed between the echo of a poll and the echo of its probe goes into the section (`roamadome_serial_port.cpp` 297): the move stays outstanding, so settings writes, bench drives and the refresh wait until another move has ended. |
| `ConsoleCut` | `ParamsAreReported` | A reboot in the middle of a dump leaves a section that the idle timeout delivers; every key it did not bring is set to its default (`device_parameter_specs.cpp` 232), a value the device never had, until the next refresh. A test pins the reset (`Parse_ResetsMissingFieldsToDefaults`). |
| `MotionLostMove` | `MoveClaimIsBench` | After a sent stop `serviceBenchDrive` clears `benchActive_` without looking at `benchMoveTarget_` (`roamadome_control.cpp` 2131): a move accepted while the stop was on the wire loses its claim and is never sent, although its call succeeded. |
| `StartupProbe` | `ProbeMeansExecuted` | A retry after a timeout leaves two probes under way; the late answer to the first completes the next command before the device has executed it (868). |
| `BenchMoveAbort` | `ClaimOutlivesMove` | After an abort during a move the next heartbeat sends 0 and forgets the move (`control.py` 175-181): the claim is released while the firmware moves, and the cleanup finds no move to wait for. |
| `MotionFailedStop` | `NeverLeftTurning` | `on_deactivate` ignores the result of its stop and closes the port (1400). |
| `MotionFailedSwitch` | `SwitchStopsFirst` | A mode switch ignores the result of its stop and records 0 as sent (1641). |
| `MotionWriteRotating` | `NoWriteWhileRotating` | A settings write accepted at rest and still queued is sent under a velocity controller (1500). |
| `MotionStaleReached` | `MoveIsOutstanding` | The end-of-move line of an earlier move clears the flag of the later one (2290). With one move and the request "deactivate": `on_activate` forgets a move the firmware still runs (1296). |
| `MotionReleaseRace` | `NoDriveOverMove` | The outstanding-move flag is stored after the send, outside the lock (1843). |
| `MotionNaN` | `NaNCommandStops` | A NaN velocity command sends nothing; the last percent stays (1562). |
| `MotionRefreshRace` | `RefreshWaitsForRest` | The dome is looked at before the queue lock is taken (1055). |
| `MotionLateDrive` | `DriveAcceptedWhileActive` | A drive call that races with `on_deactivate` is recorded and answered with success (1944). |
| `SettingsSlow` | `SettingsAreWrites` | An acknowledgement has no identity (`roamadome_control.cpp` 1143): one that comes after its write was given up completes the next write, or none; README.md 602 counts them per write. |
| `SettingsBaseline` | `RestoredWhateverPends` | The baseline of the counters is the last diagnostics message, and a write of the raw settings may still be pending then (`node.py` 495-548): its acknowledgement counts for a restore write whose send failed, and `firmware_acked` is true (README.md 297: "only if the firmware acked every restore write"). Two faults, nobody else involved. |
| `SettingsOldDump` | `RestoredWhateverShown` | A dump that is older than a write undoes it in the ROS parameters; the restore compares with these (`node.py` 1117), finds nothing to write back, and reports success while the device holds the raw settings. |
| `BenchLostAbort` | `AbortIsKept` | An abort between the claim and the clearing of the abort event is erased (`node.py` 256). |
| `BenchLateDrive` | `StoppingSendsOnlyZero` | A send that has passed the stopping test puts its percent on the wire after `begin_stopping` (`control.py` 129). |

Not shown by a configuration: a held report is dropped when the next one is
plausible from both the history and the held one (gate 133; a test pins it); a `set_parameters` request that the bench node has given up
is executed all the same, possibly after the restore (`node.py` 461-470; the history
variable `meddled` excludes it); `bench_drive` 0 reorders queued writes
(`roamadome_control.cpp` 1499-1504; `Defer` of `SettingsWrites` allows it); a settings write
that is accepted while `on_deactivate` runs survives the clearing of the queue (README.md
602); a restore without diagnostics is reported as `settings_restored` from the parameters
alone (`node.py` 1128).

## 7. Plan

Done, most important first: `MotionControl` with proofs, `ReportGate` with its abstract
specification and proofs, `Startup` with the baud sweep and proofs, `BenchNode`,
`Console` with `DomeDiagnostics`, `Settings` with its abstract specification and proofs,
`VelocityMap` with proofs and its composition with the motion path; proofs of `BenchNode`,
`Console`, `DomeTracking`, of the properties of motion and startup that hold until
something fails, and of the restored settings.

Next:

1. `Commander`: an abstract arbiter (one commander, a stop before a handover)
   refined by `MotionControl`; an abstract line channel (each report once, in order)
   refined by `Console`.
2. The sensor level of the diagnostics; aborts during the phases of `Settings`.

Runs are kept few: a further component shares a run where it can.

## 8. Not modelled

Serial system calls and termios (pure I/O; a send or a read succeeds or fails); the texts
of the line classifier and the parameter parser (their results are the kinds of lines
and the values of the models; of the parameter table the types, ranges and defaults are
modelled, and the spelling of a value is whether it parses); the regression of the
tracker and the bench analysis (statistics over doubles, no state); message layout,
publishing and logging; entry points, launch files and packaging; the destruction of
the serial handler in `on_deactivate` while an executor callback uses it (a data race on
a `shared_ptr`, listed as a hazard: no state of a model would be right after it).
