# A TLA+ model of the ESP32 data logger

The repository holds the firmware of a vehicle data logger: a **master** (ESP32-P4,
two cores, FreeRTOS) that records CAN and GPS samples on an SD card and serves a web
page, and **sensor nodes** (ESP32-C3, one core) that sample sensors and send them over
CAN while a recording runs. This directory models the parts of it whose correctness
depends on several tasks, on failures, or on arithmetic at its limits. TLC checks the
models on small instances; TLAPS proves the most important results for all instances.

## 1. Inventory

### Components, their state and their operations

| Component (source) | State | Operations |
|---|---|---|
| Recording engine (`logger/data_logger.c`) | `state`, `log_path`, two file handles, sample queue, block buffer of the writer task, drop counter | `data_logger_start`, `_stop`, `_rename`, `_enqueue`, the loop of `writer_task` |
| Application control (`app/app_control.c`) | `lifecycle_mutex` | `start_logging`, `stop_logging`, `start_live_data`, `get_status` |
| Live view (`live/live_data.c`) | latest sample per signal, owner token, lease | `record`, `start`, `snapshot`, `stop`, `force_stop`, `is_enabled` |
| Main, console (`main.c`, `console/serial_console.c`) | none | boot order, automatic start, dispatch of CAN frames, text commands |
| Web server (`web/web_server.c`) | none | status, start/stop, rename, log list, downloads and CSV export, live view |
| CAN master (`can/can_master.c`) | receive queue, retained transmit frame, bus-off generation | send, command bursts, dispatch, recovery |
| Time beacon (`time/time_beacon.c`) | recording flag | a beacon with time and flag every 100 ms |
| Node registry (`node_state/node_registry.c`) | per node: last tick, seen, offline; monitoring flag | record a frame, switch monitoring, look for silent nodes |
| UTC clock (`time/clock_discipline.c`, `absolute_clock.c`, `gps_time.c`) | anchor, correction, rejections | observe a GPS time, read UTC, date a sample |
| GPS receiver (`gps/*.c`) | line buffer, burst start | configure, assemble lines, parse RMC, emit samples |
| CAN node (`sensor-node/src/can/can_node.c`, `main.c`) | `current_state`, receive queue, retained frame, bus-off generation | receive, dispatch, report state, recover |
| Sampler (`sensor-node/src/sampler/sampler.c`) | `active`, sample queue, schedule | start, stop, discard, sample, send |
| Sensors (`sensor-node/src/sensors/`) | edge times, event queue, filters | interrupt handlers, reads |
| Node time (`sensor-node/src/time/time_sync.c`) | offset to the master | update from a beacon, time stamp |

### How they interact

* **Calls under a lock.** HTTP server, console and automatic start call application
  control, which holds `lifecycle_mutex` while it drives the recording engine, the
  registry, the beacon and the command bursts.
* **Queues.** The CAN interrupt fills a queue that `can_dispatch` empties into the
  registry, the recording engine and the live view; the GPS task feeds the last two as
  well. The recording engine has its own queue to the writer task.
* **Shared variables.** The logger's `state`, the registry's table, the recording flag
  and a node's `current_state` are read and written by several tasks without a lock.
* **Messages.** START and STOP (five copies each) and beacons go to all nodes; frames
  may be lost, and a frame whose wait timed out stays with the driver.

### What is hard, and what makes each part correct

* Recording engine: a sample that is queued while a recording runs is in the file, once
  and in order; the companion file gives no record another record's UTC time as long as the
  card's errors are noticed; idle means that both files were closed before; a recording that is
  not active is never touched; a stop ends.
  Hard because producers, writer, controller and renamer interleave, every SD operation
  can fail, and power is cut at any time.
* Application control and live view: flags and view agree with the logger whoever calls
  in whatever order; no path keeps the mutex.
* Recording over CAN: a node ends up doing what the master wants, through losses, late
  frames, reboots and bus-offs.
* Registry: silence is noticed, traffic too, and nothing else.
* UTC clock: no overshoot, no fall beyond what a late sentence explains, and it settles.
* GPS receiver: each measurement sets the clock once, with the moment its own burst began,
  although bytes get lost and lines run together; a date is the right day.
* CAN transport, the same on both ends: a frame goes out with the contents it was sent with,
  although the driver keeps it after a timeout; every bus-off is left again, and a recovery
  that the driver accepted is reported.
* Engine node and node time: a spark and its RPM stay together, an RPM is a measured interval,
  rest is silence, and what is sent is in the order in which it was captured; time stamps go
  back only with the beacons' offset.
* Periodic sampling: the channels of a round come from one burst, a late round costs samples
  instead of repeating them, and a full queue loses the oldest.
* Bearing encoder: the speed is the true movement over the window, with interrupts and
  starts in the middle of a read.
* Web exports: what is listed or downloaded is a finished recording, whole; every row of a
  CSV has the values and the UTC time that belong to its record, over the wrap of 32-bit
  time stamps.

`PROJECT.json` lists the hazards one by one with their source lines.

## 2. Modules

| Module | Models |
|---|---|
| `DataLogger` | the recording engine, with SD failures and power loss |
| `LoggerSession` | what the recording engine promises its callers: idle, running, stopping, idle |
| `DataLoggerProofs` | invariants of `DataLogger`, and that it implements `LoggerSession` |
| `AppControl` | application control, live view and their callers, on top of `LoggerSession` |
| `AppControlProofs` | invariants of `AppControl` |
| `RecordingSync` | command bursts, beacons, the bus, and a node's dispatch, boot and recovery |
| `RecordingSyncProofs` | types, and that a node reports its sampler's state |
| `NodeRegistry` | the registry and its three tasks |
| `NodeRegistryProofs` | its types and that its table is indexed within its slots |
| `ClockDiscipline` | the UTC estimate and the GPS observations |
| `Sampler` | the engine node's capture interrupt, sampling and sending tasks, starts, stops and discards, and the beacons' time offset |
| `PeriodicSampler` | the other nodes' unlocked schedule and overwriting queue, with the burst of the inertial sensor |
| `BearingEncoder` | quadrature interrupt, window and read of the wheel speed |
| `SamplerProofs` | types and invariants of these three |
| `CanLink` | sending and bus-off recovery as `can_master.c` and `can_node.c` have them in common |
| `CanLinkProofs` | types and the retained frame of `CanLink` |
| `GpsReceiver` | the receiver's configuration, and its byte stream up to the observation |
| `RmcDate` | the date of an RMC sentence as a number of days, for all date fields |
| `ClockProofs` | invariants of `ClockDiscipline` and `GpsReceiver`, and the dates of `RmcDate` |
| `LogExport` | `DataLogger` together with the log list and the downloads |
| `PairedCsv` | the two CSV exports, record by record |
| `ExportProofs` | what readers see of recordings, and the rows of both CSV exports |
| `MC*` | the instances for TLC |

`LogExport` composes with `DataLogger`, `AppControl` with `LoggerSession`, which
`DataLogger` implements. Modules that share no state, and instances of one module with
different bounds, are checked together where one run shows them: their `MC` module has a
variable `unit` that says whose behaviour it is, takes the initial states of all of them and
lets only that one move. This is the sum of their behaviours, not the product; a property of
one module is evaluated in its unit's states and in the initial states of the others.

| Instance | Units |
|---|---|
| `MCLogExport` | `racing` and `failing` (`DataLogger`), `readers` (`LogExport`), `csv` (`PairedCsv`) |
| `MCAppControl` | `control` (`AppControl`), `can` (`CanLink`), `recorder` (`DataLogger` against `LoggerSession`) |
| `MCRecordingSync` | `sync` (`RecordingSync`), `registry` (`NodeRegistry`) |
| `MCSampler` | `engine` (`Sampler`), `periodic` (`PeriodicSampler`), `encoder` (`BearingEncoder`) |
| `MCClockDiscipline` | `clock` (`ClockDiscipline`), `receiver` (`GpsReceiver`), `date` (`RmcDate`) |
| `MCDataLogger` | `DataLogger` alone, for two of the disagreements |

Actions carry the name of the function they model, or, where a function is several
steps, the name of the step; `PROJECT.json` gives the lines of each. A definition marked
"Faulty variant" is not part of a model: it is a plausible mistake that a property is
shown to catch.

### DataLogger

One step ends wherever another task can come in between: a task switch is harmless while
`file_mutex` is held except for accesses outside the mutex, so `data_logger_start` is a
check step, a step for the `.bin`, and a step for the companion; a rename is one step per
file; a checkpoint is one step per file; the writer's round is a step per decision.
`data_logger_enqueue` is split between its state check, the send, and the two halves of
`queue_drops++`. A file is a serial number in a directory; a record and its UTC entry are
both the sample they come from. Clocks are left out: timers may expire at any moment.

SD operations fail nondeterministically, at most `MaxFaults` times: opens, writes (whole or
cut short, in the middle of a record too), flushes, closes, renames and removals. `bin_size`
and `utc_size` are the sizes that the FAT directory has of the files, i.e. those of the last
close that worked. Nothing else survives a power loss, and nothing else is left when a close
fails: that file is then as long as the directory says. The code looks neither at the result
of `fflush(log_file)` nor at that of any `fclose`; the model takes the same path whatever they
return. `slipped` remembers the recordings for which a flush, or a close in a checkpoint, failed
and which went on all the same.

Names are members of a set; the default name is any free name, which is what
`choose_default_log_path` computes. The card's file system finds a file under its name in any
letter case (FAT with long names, `sdkconfig`), while the code compares with `strcmp`
(`data_logger.c:171`, `web_server.c:454`). A member of `Names` is a name as the file system
sees it, and `rsame`, or a choice from `Spellings`, says whether a request spells it in the way
`log_path` does; `OtherSpellings = FALSE` restricts requests to that spelling, which is the one
that the web page sends (`index.html:175`, `:181`: names as the list returned them, and
`readdir` returns them as the start or the rename spelled them). Renaming a file that is open
moves it, and a checkpoint then opens `log_path` anew.

### AppControl

The logger is `LoggerSession`, instantiated with the variable `logger`. Each call holds
the mutex from its first step to its last; a call that times out on the mutex has no
effect. `live_data.c` works in critical sections, so its operations are single steps; the
few instructions between reading the timer and entering the section are not separated.
The lease is a countdown, and an expired view stays on until the next operation notices.

### RecordingSync

A frame is a command or a beacon's flag. `Transmit` delivers it to any subset of the listening
nodes. `can_master_send` sends, leaves the frame with the driver, or fails because the driver
still has one. Beacon task and burst interleave freely. On a node, `DispatchFrame` runs the
callback and `DispatchReport` assigns the state, in this order as in `dispatch_task`;
`RecoveryRead` and `RecoveryReport` are the evaluation of the argument and the assignment in
`can_node_report_state(current_state, ...)`. (A compiler that inlines the call may drop that
store; a build without inlining has it.) Bus-off and recovery appear through their effect: no
reception, then the report. `StateMatchesSampler` and `NodesFollow` speak of behaviours without
a reboot and a bus-off (they do occur in the run); what happens after one is shown by the two
violation runs. At the start the master has just booted and nodes may still be sampling for a
recording that its reset cut short.

### NodeRegistry

Every access another task can come between is a step, ticks wrap at `2^Width`, and
`silent` is the true age of an expected node's last frame, at least `Timeout` before the first
one. `SenderIds` are all the values that `protocol_sensor_node_id` may return, nodes that are not
expected and ids beyond the table included; `InRange` is the check that `RecordCheck` makes of
them. `MaxLag` says that the monitor comes
round at least every so many ticks (250 ms against a timeout of 3 s in the code).

### ClockDiscipline

The code uses times only through differences, so the model keeps uptimes as ages and UTC values
as errors against true UTC; this makes unbounded time finite. Division rounds towards zero as in
C. `MaxDelay` is how much later than its burst a sentence is observed. `CountMax` stands for
`UINT8_MAX`, at which the count of rejections stops. Setting the system clock at the first
observation (for file dates) is left out.

### Sampler

A section under the driver's spinlock is one step; everything else another task may come
between is a step of its own: the wait for a capture, the look at `last_spark_us` after it,
the check of `active`, the reservation of room and each send. An RPM is represented by the
interval it is computed from. Captures and samples carry as history the edge and the
discard before them and the session, which is what the properties compare. One bound is an
assumption about the code's scheduling: between the end of the wait and the critical
section after it fewer than `ENGINE_STOP_TIMEOUT_US` (100 ms) pass, because only tasks that
mostly wait have a higher priority. Without it an edge can be reported after the zero that
follows it. A beacon (`TimeSyncUpdate`) replaces `offset`, the model's `master_offset_us`, at any
moment. `sample_task` takes the offset when it consumes a capture and stamps both samples with
`(time + offset)` in units of `Resolution`; that stamp is what `send_task` sends.

### PeriodicSampler

The ESP32-C3 has one core and commands run at a higher priority than `sample_task`, so
`sampler_start` and `sampler_stop` are one step each, between any two steps of a round:
above all while the task waits for the I2C bus. A value is represented by the burst it was
read in. `next_sample_us` is moved on without a lock, in two steps: one reads it, and one stores
what was computed from it, or from the value that the addition read again (`ReadAgain`); a
start in between sets the due time in vain. `shifted` remembers the recordings that began
so. The variable is 64 bits wide; that its halves are read and stored one after the other is not
modelled (it matters only when the upper half changes, once in 71 minutes), nor is the wrap
of a 32-bit time stamp on the node (24 days). `enqueue_latest` is three steps, because
`send_task` or a stop may come between.

### BearingEncoder

Each edge is served before the next one comes; a speed is the pair of a count and a duration
that `calculate_rpm` divides and rounds. `marks` remembers where the wheel was at each
read, which is what the average is compared with. A read that a start comes into mixes the
two recordings by at most that read; such a window is excluded until the next start.

### CanLink

The driver keeps a pointer to the one static frame, so what goes out is what the frame holds
then. `side` chooses between the two programs, which differ in the report that only a node
makes. `generation` counts bus-offs; the controller can be bus-off again before anybody
polls. `RecordingSync` leaves all this out and has the effect of a bus-off on the node's
state instead.

### GpsReceiver and RmcDate

One tick is the time of one byte. `GpsTiming` states what the constants of the code
provide: with the configured sentences a silence of `GPS_BURST_GAP_US` separates bursts, and
neither the task's delay nor lost bytes make one within a burst. It also bounds the bytes
lost by the length of a sentence (`MaxGarbled =< Parts`), which cannot be dropped: when the
newline of an RMC sentence is lost, and then all of the next burst's sentence but its
newline, `read_sentences` takes the first sentence's text for the second burst's, since a
silence does not end a line, and dates it with the wrong start. That the task reads a byte
within `MaxLag` is an assumption about scheduling; the UART hands over every byte at once
(`uart_set_rx_full_threshold`). `gps_rmc_parse` is assumed to accept exactly the whole RMC
sentences, as its checksum is there for. `RmcDate` evaluates `parse_utc` for every field of
two digits up to the constants, against the Gregorian calendar in closed form.

### LogExport and PairedCsv

All requests run in the one task of the HTTP server, so they follow one another; starts,
stops, checkpoints and the writer interleave with their steps. The size that a reader sees
is the one in the directory entry. The list asks once whether the logger is active and keeps a
pointer into `log_path` if so; `skips` is that pointer, and each name is compared with what
`log_path` holds by then. `before` remembers the recordings that existed when a
request was accepted, and the properties are about these. In `PairedCsv` a record's value is
its place in the file, and time stamps have `Width` bits and wrap; the reference says in true
time what the comment above `stream_paired_csv` promises. The moments of one log span less
than half the range of a time stamp, i.e. 24 days.

## 3. Runs

| Run | Shows | Bounds |
|---|---|---|
| `logger` | racing: `NoLoss`, `DropsShow`; failing: `UtcAligned`, `IdleIsDurable`, `ActiveFilesStayPut`, `CompletedLogsKept`; readers: `LogsAreWhole` (of downloads and of the list); csv: `RowsAreRight`, `RowsAreTimed` | queue 2, block 2, 2 recordings, 2 names, requests spelled alike. Racing: 2 producers, 5 samples, no failures, so that the queue and the block fill up and records are left in the buffer at a checkpoint and at a stop. Failing: one enqueue at a time, 3 samples, 2 SD failures (so that a rollback can fail), 1 power loss; 2 names give a rename a free target and let a name be freed and recorded to again. Readers: samples and SD failures together at most 3, at most 1 failure, 1 power loss. Csv: all files of 3 records of 4 kinds at 4 moments, companions of 0 to 3 entries, all 8 places of the wrap |
| `control` | `LiveOnlyWhileRunning`, `FlagsFollowLogger`, `LiveSamplesAreCurrent`, `MutexReturned`, `StopTakesEffect`; `FrameKept`, `BusOffIsLeft`, `RecoveryIsReported`; `ImplementsSession` (its safety and that a stop ends) | control: 2 recordings, 3 leases of length 2 (one recording sees a lease expire and be taken by the other token), 2 tokens, 1 signal. can: 2 senders, 2 contents, 3 bus-offs (one during the recovery from another, and one after), 1 failing driver call. recorder: queue 1, block 2, 2 samples, 2 recordings, 2 names, 1 failure, no power loss |
| `sync` | `StateMatchesSampler`, `StateFollowsMaster`, `NodesFollow` (a recording reaches the node, and so does its end); `RegistryTypeOK`, `SilenceIsNoticed`, `TrafficIsNoticed` | sync: 1 node, 3 changes, 2 copies of a command, receive queue of 2 (it overflows), 1 reboot, 1 bus-off. registry: 3 slots, senders 0 to 3 (no sensor, expected, not expected, beyond the table), 2-bit ticks, timeout 2, lag 1: the counter wraps within every second timeout |
| `sampler` | `UnitTypes` (the types of all three units); `PairsTogether`, `RpmMeasured`, `ZeroMeansSilent`, `FewLate`, `SentInOrder`; `ValuesOfTheRound`, `OncePerSlot`, `NewestAreKept`; `AverageIsRight` | capture queue 2, sample queue 3 (both fill up), intervals of 2 ticks are credible, 1 is too short and 3 too long, timeout 3, 2 sessions, 1 discard, 6 ticks, time stamps in units of 2 ticks, 1 beacon that may lower the offset by a tick; the 3 late samples that `FewLate` allows do occur. Periodic: 2 channels, period 2, queue 2, 6 ticks, 2 recordings, so that slots are missed, the queue overflows and a start loses its due time. Encoder: window 2, timeout 2, positions -1 to 3 (every transition both ways), 4 ticks, 2 starts |
| `clock` | `UnitTypes` (of clock and receiver); `NoOvershoot`, `HardlyBackwards`, `Settles`; `ObservedAtItsStart`; `DatesAreRight` | correction over 8 ticks, errors of -5 to 6 of which up to 3 are accepted, sentences up to 2 ticks late, a burst every 4 ticks, a step after 9 ticks and 2 rejections, at which their count stops. Receiver: 2 unused sentences, sentences of 2 bytes, lines of 3, so that two that run together overflow, 3 bursts, 1 byte lost or garbled, reading up to 1 tick late. Dates: days 0 to 32, months 0 to 13, years 2000 to 2099 |

Nodes do not influence each other in `RecordingSync` (a frame is delivered to any subset of
them) or `NodeRegistry` (the monitor looks at them one by one), and every property says
something of each node by itself: what one node does in a behaviour of many is a behaviour of
one, so that one node shows what there is to see. In the registry the other slots belong to
senders that are not expected. `CHECK_DEADLOCK FALSE` is set for `sampler` only: a node that is
not active waits for a command, and the commands of an instance are bounded.

### Disagreements between code and documentation

Seven runs expect a violation. Each is a real disagreement that the models brought up:

* `sync_boot_race`: a frame handled just before the boot report leaves a node sampling
  after the recording.
* `sync_recovery`: the recovery report undoes a newer state, and the node misses a
  recording.
* `registry_false_offline`: the monitor reads the tick counter, a tick passes, and a node's frame
  is recorded; the unsigned difference wraps around and the node is marked offline, until its
  next frame, although this one has just been recorded. `PROTOCOL.md:45` says "after three
  seconds without sensor traffic". (A node whose frame is being recorded at this very moment is
  left out of `OfflineMeansSilent`.)
* `logger_misaligned`: a flush of the `.bin` (`data_logger.c:256`) or its close in a checkpoint
  (`:269`) fails, nothing looks at the result, and the entries of the companion belong to other
  records from then on. `LOG_FORMAT.md:23` says "aligned by record index". `UtcAligned`
  says the same of all recordings to which this has not happened (`slipped`).
* `logger_spelling`: a request that spells the active file in other letter case passes the
  `strcmp` of `data_logger.c:171`, and the file is moved away under the running session.
  `LOG_FORMAT.md:9` says "Active recordings cannot be downloaded or renamed."
* `clock_backwards`: an observation is applied when its sentence has been read, for the moment
  at which its burst began, and takes back what the old correction added since.
  `ABSOLUTE_TIME.md:28` says "so absolute time never steps or runs backwards".
  `HardlyBackwards` bounds the fall by `Slip` (at most about half a millisecond with the code's
  constants), which is 0 only without delay.
* `gps_rate`: the acknowledgements of the commands that switch sentences off are equal, and one
  that comes twice is taken for the answer to the next command. If that was lost, the rate is
  raised with its sentence still on, which the comment at `gps_receiver.c:91` rules out.

Others have no run of their own but follow from the models:

* A sample whose state check (`data_logger.c:220`) passed before a stop may be sent after the
  next start and is then stored in the wrong recording, although `logger/README.md:15` says
  that samples outside a running session are ignored. `NoLoss` allows for it: the owed
  sequence includes what is sent while running, whenever it was checked.
* `queue_drops++` (`data_logger.c:224`) loses a count when two tasks meet a full queue, so
  `DropsShow` does not say `queue_drops = refused`.
* A close that fails at the end of a session (`data_logger.c:318`, `:320`) costs what was
  written since the last one, and the logger is idle all the same. `IdleIsDurable` says
  that nothing is pending then, not that everything written is there; `NoLoss` is about
  recordings on a card without failures.
* A bus-off that comes between the snapshot of the generation and the status read
  (`can_node.c:235`) is recovered from, and then asked for once more, because its generation
  is newer than the one noted. If the controller is back by then the request is refused,
  `recovering` becomes false, and the RECOVERY report that `NODE_ARCHITECTURE.md:29`
  announces is not made; `RecoveryIsReported` makes an exception for this.
* `data_logger_start` creates the `.bin` before `state` leaves idle (`data_logger.c:121` and
  `:145`), and downloads check and open in two steps, so a download or a listing may take the
  file of the recording that begins for a finished one, although `web_server.c:457` says that
  the active log is not available until Stop completes. `before` keeps that file out of the
  properties.
* A start that comes between the status check and the value of an inertial channel
  (`mpu6500.c:201` and `:204`) makes that round send the zero which `start_mpu` has just
  stored. `ValuesOfTheRound` allows this zero.
* A start that comes while `sample_task` moves a due time on (`sampler.c:173-175`) has the due
  time it sets overwritten. The channels of that recording are then due at different times: a
  channel may send a burst that is older than its time stamp, by less than a period, and a
  slot of the schedule may be sampled twice, although `sensor-node/docs/NODE_ARCHITECTURE.md:19`
  says that a start arms the schedules. `ValuesOfTheRound` and `OncePerSlot` make exceptions of
  this extent for the recordings in `shifted`.
* A stop clears pending output (`NODE_ARCHITECTURE.md:25`), but not what `sample_task` and
  `send_task` have in hand: up to three samples enter the next recording (`FewLate`).
* A wheel speed window that a start cuts through mixes two recordings; `AverageIsRight` leaves
  such windows out until the next start.

That time stamps of a node go back when a beacon lowers the offset is no disagreement:
`PROTOCOL.md:29-31` does not promise continuity, and `SentInOrder` says that they do so for no
other reason.

## 4. Fairness

* `DataLogger`: strong fairness of the writer. It has the highest priority of the
  master's tasks and FreeRTOS gives a mutex to its highest waiter, so it gets
  `file_mutex` although others take it again and again. Weak fairness of the steps inside
  the mutex.
* `AppControl`: weak fairness of a call in progress (all its waits have a timeout or are
  for `file_mutex`), and of the end of a session, which `DataLogger!ImplementsSession`
  includes.
  Nobody is assumed to start or stop anything.
* `RecordingSync`: weak fairness of all tasks and of the driver; strong fairness of a
  beacon reaching a listening node with room in its queue, i.e. the bus is not lost for
  good. Commands have no delivery fairness.
* `NodeRegistry` (`RegistryFairness`): time, the monitor, and steps already begun. Frames need
  not come.
* `ClockDiscipline`: time, and a usable sentence again and again.
* `CanLink`: weak fairness of the recovery task, which polls for ever, and of the bus becoming
  idle, which the controller needs in order to recover. Nobody is assumed to send.
* The other modules have safety properties only.

## 5. Proofs

`DataLoggerProofs` proves, for all sizes of queue and block and all numbers of names,
producers, samples, files, failures and power losses, from the assumptions named in
`DataLogger` (sizes are positive, bounds are naturals, `NoName` is no name) and, in each
theorem, from `SpelledAlike`, i.e. that requests spell names as the logger does (without it
`logger_spelling` shows that the inductive invariant fails):

* `TypeCorrect`, `NothingLost`, `IdleDurable`, `FilesStayPut`: `TypeOK`, `NoLoss`,
  `IdleIsDurable` and `ActiveFilesStayPut` are invariants;
* `LogsKept`: `CompletedLogsKept`, of every recording that is not active, through renames,
  failed starts and power losses;
* `DropsAreShown`: `DropsShow`;
* `EntriesAligned`: `UtcAligned`;
* `RefinesSession`: without power losses, `Spec` implements `LoggerSession!Spec`.

None of the properties is inductive. The inductive invariant `IInv` adds: who may be
inside `file_mutex`, and which positions of the writer and controller go with which
logger state (`Control`); that the buffer has room whenever the writer may receive
(`Buffer`); that handles and directory name only the session's files, and files not yet
started are empty (`Files`); that the directory has the size of every file that is not open
(`Durable`);
that file, buffer and queue together are exactly what is owed (`Stream`: while running
`bin \o records \o log_queue = owed`; while stopping `owed` is a prefix of it, because late
samples may follow); and that a half-renamed pair has freed its old name (`Moving`).
`Stream` is the heart of `NothingLost`: each writer step moves samples along this
concatenation without changing it.

`DropsAreShown` adds that a producer in the middle of `queue_drops++` read less than the drops
that took place, and that after a drop the counter is positive or a producer is still in the
middle (`DropCount`). `EntriesAligned` adds how far the two files of a session may be apart
(`Companion`: entries in step with the records wherever both are, no more of them than records,
and as many while the companion is open), and which companion may stand beside which `.bin`:
its own, or any beside one that is empty for good after a start that failed half way (`Pairs`).
Recordings in `slipped` are exempt, because a failure that is not noticed makes entries run
ahead or behind for good (see the disagreements above); that a recording stays aligned until
then, through all failures that are noticed, is what the theorem is about.

`AppControlProofs` proves `ControlTypes`, `LiveIsWithinRecording`, `FlagsAgree` and
`ViewersSeeTheirOwn` for all signals, tokens and bounds. The invariant adds who holds the mutex
(`Holder`) and, for each position inside a call, how flags, logger and view differ there
(`Position`).

`RecordingSyncProofs` proves `TypeOK` with any number of reboots and bus-offs, and
`StateMatchesSampler`, i.e. until a node reboots or leaves the bus for the first time, for any
number of nodes, commands and lost frames, if the nodes are up before the first command
(`NodesFirst`). The invariant adds that between switch and report the state
about to be assigned is the sampler's, and that nobody else is about to assign one
(`Settled`). The condition cannot be dropped: `sync_boot_race` and `sync_recovery` show what
the boot report and the recovery task do otherwise.

`NodeRegistryProofs` proves `RegistryTypeOK`, across the wrap of the tick counter and for any ids
of senders: the table is only indexed within its slots, because of the range check alone.

`CanLinkProofs` proves `CanTypeOK` and `FrameKept` for any number of tasks, frames, bus-offs
and failures. `FrameKept` alone is not inductive: that the buffer is not filled while the
driver holds it follows from `PendingCovers` (a frame with the driver is covered by
`tx_pending`; a task is inside the call exactly when it holds the mutex; past the check
`tx_pending` is unset).

`SamplerProofs` proves every safety property of the run `sampler`, for any lengths of the
queues, numbers of channels, periods, timeouts, windows, recordings and bus-offs.

* Engine node (`EngineInv`). `PairsStayTogether`: room for both is kept until both are sent,
  and between the two sends the spark is last in the queue if it is there at all
  (`RoomKept`, `HalfQueued`). `RpmsAreMeasured` and `RestIsSilence`: what the driver knows of
  the last edge is true (`EdgeKnown`), and a capture that has come since the wait ended is
  younger than the pause (`WaitEnds`). The latter needs `MaxPause < StopTimeout`, the
  scheduling assumption named above. `StampsInOrder`: what has come further, from the driver
  over queue and tasks to the bus, was captured earlier (`InOrder`), so stamps fall only where
  the offset fell between the two samples; the unit of the stamps needs that division by
  `Resolution` is monotonic. `FewAreLate`: between the two steps of
  `sampler_start` no more than `sample_task` has in hand can get into the queue
  (`StartsClean`); the sum of what is late in queue and hands never exceeds 3.
* Periodic nodes (`PeriodicInv`). `NewestKept`: there is room in the last step of
  `enqueue_latest` (`RoomIsMade`). `OnePerSlot`: due times are whole periods from the start
  in a schedule whose start did not lose one (`InStepUnlessShifted`), what a round reads was due
  (`DueNow`), what is about to be stored is up to date or from before a start (`Storing`), and
  the sensor is next due after the begin of the slot of its last sample, and after its end once
  there were two (`SlotsTaken`). `ValuesAreOfTheRound`: in such a schedule the channel that
  reads the device is due no later than the others (`FirstLeads`), so no channel of a round
  finds an older burst; in one that is shifted the burst is less than a period old because that
  channel is due a period after it (`YoungOrDue`).
* Wheel speed (`EncoderInv`). `AverageRight`: every edge since the last mark is in
  `pending_count`, in the read's hands, or the one being served (`EdgesServed`,
  `EdgesCounted`), the same for time (`TimeCounted`), and the slots of the ring buffer, oldest
  first, are the differences of the marks (`WindowSpans`), so that their total is that of
  the two ends. The total is a recursive function, whose values are proved by
  the least counterexample (`LeastNat`, from the well-foundedness of finite subsets).
* `UnitsTyped`: the types of all three.

`ClockProofs` does the same for the run `clock`, except for `Settles`. `RateOnlyIfQuiet` and
`NeverBackwards` are not theorems: the violation runs refute them.

* `NothingOvershoots`: the estimate itself gives no induction, because a correction that is cut
  off leaves the line somewhere in the middle. Inductive is that both ends of the line,
  the anchor and the anchor with the whole correction, lie between errors that GPS values
  had (`EndsWithin`), since an observation leads from a point of the old line to its own
  value; and that the anchor is not after the burst that is being read (`AnchorFirst`).
* `TimeHardlyFalls`: lemmas about division towards zero bound a tick's part of the
  correction by one tick, and what an observation takes back by `Slip`.
* `StartsAreRight`: `ReadInv` tells everything from the moment when the measurement's phase
  was 0. Unread bytes are of this burst, each at the place that its arrival says
  (`AllTimely`), what is missing between them was lost (`Continuous`, `UpToNow`), before the
  burst was silence (`Silence`), the start kept is this burst's (`Firsts`, `StartKept`), the
  line is what was sent or is refused (`LineKept`), and a sentence left without its newline
  cannot be taken for a later one (`HeardOnce`, `LeftOpen`). The last needs
  `MaxGarbled =< Parts`.
* `DatesRight`: the sums over years and months, recursive functions, are shown to have closed
  forms for 1970 to 2099 and for all months (existence, and the least wrong argument), and
  these agree with the calendar of `DayNumber`, which begins its years in March.
* `UnitsTyped`: the types of clock and receiver.

`ExportProofs` proves what readers and exports are checked for.

* `ReadersSeeWhole` (`LogsAreWhole`) rests on the inductive invariant of `DataLogger`: files that
  were finished when a request was accepted keep their contents and lengths whatever the
  recorder does, and the active one is the one that is left out (`Reading`): a recording that is
  active and was there when the listing began was active then, so the listing has its
  pointer. The theorem assumes `SpelledAlike` as well.
* `RowsTimed`: the entries consumed are the records read, up to the end of the companion
  (`CsvInv`).
* `RowsRight`: `last` holds each column's last record before the next one (`LastInv`), and a
  difference modulo `2 ^ Width` is the true age as long as a log spans less than half the
  range; the rows so far are those of the records so far, in order. `CsvBounds` states the
  facts about powers of two that the provers lack.
* `CsvTypes`: the types of the exports.

Every invariant and every safety property of a run is stated by a theorem. Only model-checked is
liveness: `MutexReturned`, `StopTakesEffect`, `BusOffIsLeft`, `RecoveryIsReported`,
`NodesFollow`, `StateFollowsMaster`, `SilenceIsNoticed`, `TrafficIsNoticed`, `Settles`, and the
part of `ImplementsSession` that says that a stop ends; fairness and ENABLED are out of the
prover's reach. The type invariants of `DataLogger`, `AppControl`, `RecordingSync`, `CanLink`
and `PairedCsv` are proved and not part of a run. The bounds of the models (samples, files,
ticks, recordings, measurements) are constants in the theorems as well: they hold for every
value, but each behaviour is bounded.

## 6. Not modelled

* SD mounting, sensor register access and scaling, the web page, the simulators and the
  offline decoder: I/O or arithmetic in sequence, or outside the logger.
* `gps_time.c`: one assignment and one subtraction. On the periodic nodes time stamps, and with
  them the beacons' offset, are left out of the samples (`Sampler` has them).
* The checksum, coordinates and speed of an RMC sentence; `GpsReceiver` assumes that what was
  garbled is refused.
* The master's receive queue: frames reach the registry, the recorder and the live view at
  any time in their modules, and may be missing.
* State reports of nodes (the master prints them), status texts, JSON and logging.

## 7. Plan

Done: recording engine and exports, application control and live view, recording over CAN,
CAN transport, registry, clock and GPS receiver, both kinds of sensor node. Next:

1. `RecordingSync` on `CanLink`: the frames of a burst sent through the retained frame itself.
2. The fields of `gps_rmc_parse` against a reference over bounded sentences.
3. Theorems: the steps that the liveness results rest on, as invariants and action properties,
   e.g. that a beacon leaves a listening node in the master's state (`RecordingSync`), and that
   an unsigned age is the true age while the monitor keeps up (`NodeRegistry`).
