# TLA+ models of the vayu flight controller

vayu is the firmware of a quadrotor flight controller, in C, on the vaios RTOS:
tasks of three priorities share a handful of state words, queues, buses and a
filesystem, and talk to a ground station over a lossy serial link. This
directory models the firmware (`firmware/src`) and the in-process simulator it
is tested in (`sim/host`), checks the models with TLC on small instances, and
proves the most important results with TLAPS for every value of the constants.

Contents: 1 inventory, 2 modules and their correspondence to the code, 3 runs and
bounds, 4 fairness, 5 proofs, 6 observations, 7 what is not modelled, 8 plan.
`PROJECT.json` has the same in machine-readable form: the source lines behind
each definition, the hazards, and for every checked property a mutation of the
code that breaks it.

## 1. Inventory

Three priorities: 2 for `imu_read`; 1 for attitude, vertical, angle, rate and
motor; 0 for everything else. On the target a higher priority preempts
(`firmware/docs/reference/requirements.md`, VOS-SCHED-001). The host build
(`sim/host/src/host_rtos_port.c`) switches only when a task blocks. Whether equal
priorities are time-sliced is decided by vaios, which is a submodule.

| Component | State | Operations | Talks to | What makes it correct |
|---|---|---|---|---|
| Flight state (`sys/state.c`) | `_system_current_status` | `system_state_set`: load, look up the table, store | written by boot, RC, comm, attitude, vertical, angle and calibration tasks; read by everyone | every change is a row of the table; FAILSAFE is not lost |
| Boot (`sys/boot.c`, `main.c`) | boot checks | `boot_task`: take an ESC-calibration request, spawn tasks, verdict | flight state, ESC calibration, filesystem | the verdict overwrites no calibration; nothing runs before the spawn |
| I2C manager and sensor drivers (`driver/`) | bus flag, transfer, semaphore, ride-along table, snapshots | DMA bursts, completion interrupt, recovery, bring-up | IMU task, interrupt | one token; bytes stay in their section; samples keep coming |
| Hub (`hub/hub.c`) | overwriting pipes, latest-value slots, statistics | publish, receive, copy | drivers to estimators, controllers, telemetry | a reader sees each message once, in order; drops are counted |
| Estimators (`est/`) | filter time, health, references, flight phase | per IMU sample; safety step; takeoff and landing | hub, flight state | no time lost or invented; stale readings dropped; a degraded estimator stops flight |
| Angle controller, height modes (`control/`) | recovery latch, mode, hover estimate | upset recovery, height control, hand-back | flight state, vertical task, rate loop | a recovery ends and is applied last; no automatic flight before a centred switch |
| Rate loop, mixer, motor (`control/`, `actuator/motor.c`) | integrators, mixer, capture, notch, motor FIFO | mix at 1 kHz; write ESCs at 500 Hz; identification runs | flight state, command task | no output outlives the state that allows it; no windup |
| RC and arming (`comm/rc_task.c`, `rc_safety.c`, `ibus.c`) | DMA ring, parser, last frame time, arm latch, throttle-failsafe detector | parse and apply a frame, watchdog | flight state; latch set by the ground station | arm only when allowed, link loss stops the motors, a pilot is never cut off |
| Serial channel, telemetry (`comm/channel.c`, `telemetry.c`) | ping-pong buffers, busy flag, drop counter | write, flush, DMA completion | all senders | frames are neither lost nor torn nor stuck |
| Command processing, clock (`comm/comm_processor.c`, `navlink_router.c`, `sys/sys_utils.c`) | receive ring, deferred acknowledgement, clock offset | drain, parse, execute, acknowledge, discipline | channel, latch, calibration, parameters | commands run once; an arm request is answered; the clock converges |
| Transfer sessions (`comm/xfer/`) | two sessions: state, cursor, repair backlog, timers | handlers on the comm task, tick on the transfer task | filesystem owner, channel, ground station | an upload told DONE is on the card; a download is a faithful copy (up to 7 of section 6); sessions are reclaimed |
| Filesystem owner (`storage/fs_owner.c`) | write, retry, save and sync queues; counters; cached handles | the only task that writes to the card | uploads, saves, queries, recorder | bookkeeping agrees with the queues; nothing is reported durable that is not |
| Remote file queries (`storage/fs_query.c`) | one query per kind | list, stat, delete over synchronous calls | filesystem owner | every query is answered once |
| Flight recorder (`storage/imu_hs_log.c`) | sector buffers, ring on the card, header, sessions | record, drain, header, boot resume | filesystem owner, producers | the reader orders and separates what was recorded; losses are counted |
| Saved tune (`control/pid_config.c`) | live store, queued snapshot | change, save, load | save lane | the latest change ends up on the card |
| ESC calibration (`actuator/esc_calib.c`) | phase, commit wait; marker file | gesture, request, take at boot, drive maximum, end | write lane, flight state | one attempt per request (but see 6 of section 6); it always ends; the operator is told the truth |
| IMU calibration (`driver/sensor/bmx160.c`, `calib/`) | task handle, active and cancel flags, capture ring, faces | start, capture, fit, commit, tear down, cancel | flight state, estimators (diverts their samples) | the diversion ends; the estimator gets no half-written calibration |
| Heartbeat, indicator, battery (`sys/heartbeat.c`, `driver/`) | pattern, activity deadline, rail history | render, report, sample | flight state, router | what is shown is the state; a voltage is believed only after it settled |
| In-process simulator (`sim/host`) | ucontext tasks, control pipe, settings, pose | step physics, run the scheduler until idle, feed RC | external driver, window | every step settles and ends; control frames apply once; no foreign thread becomes a task |
| Filters, FFT, PID, mixer arithmetic | floating point | | | numerics, not for TLC |

Where it is hard, and hard to test: the state word is not updated atomically; a
task acts on a state it read earlier; an interrupt falls between any two steps of
the bus owner; a blocking read or truncate lets handlers run in the middle of the
transfer tick; writes fail after their bytes landed and are retried out of order;
power is cut between any two steps; frames and reports are lost, repeated and
late; a timeout fires while the answer is on its way; stamps, sequence numbers and
clocks wrap; buffers and rings fill up; the component that must notice a dead link
is the one whose input has died. Section "hazards" of PROJECT.json lists the
forty that matter most, each at the line where it bites.

## 2. Modules

Composition, by EXTENDS unless noted:

    FlightState <- FlightStateProofs
    WriteLane <- Upload, EscCalib
    Upload, Download <- Transfers <- MCTransfers, TransfersProofs
    EscCalib, Calibration, Annunciator, BatterySense <- Bench <- MCBench, BenchProofs
    FsLoop <- BlackBox <- FsFunnel <- ConfigStore <- Storage <- MCStorage, StorageProofs
    Channel <- Uplink;  Uplink, RcLink <- CommLink <- CommLinkProofs
    SensorPath <- MCSensorPath, with INSTANCE SampleFlow (refinement);  ImuBus <- MCImuBus
    SensorPath, ImuBus <- SensorProofs;  VerticalLoop <- MCVerticalLoop, VerticalLoopProofs
    Sitl <- MCSitl;  RateLoop, Sitl <- ControlProofs

### FlightState

The state word and everything that drives it: `boot_task`, `rc_ibus_task`
(frames, `esc_calib_rc_step`, watchdog), the attitude, vertical, angle and motor
tasks, `comm_processor_task` and spawned calibration tasks.

* A call of `system_state_set` is three steps of its caller: the decision from a
  `system_state_get` (`SetCall`), load and table lookup (`SetCheck`), store
  (`SetWrite`). `call[t]` says where task `t` is.
* `MayRun` is the scheduler, selected by `Policy`. A task that is between two
  steps (`Busy`) is interrupted by nobody ("cooperative"), by a strictly higher
  priority ("preemptive"), or by an equal one too ("sliced").
* `motor_task` is two steps: sample the state and choose the outputs, write them.
  An empty queue replays the previous outputs.
* The RC detector's verdict, throttle position, gesture, estimator health and
  bank angle are inputs chosen freely. Bank angle has three values, the ones the
  two thresholds tell apart. Time is in ticks of the respective timeouts.
* The actions up to the spawn are one step of the boot: no other task exists.

### ImuBus

`i2c_manager.c`, the acquisition chain of `bmx160.c` and the two drivers that
ride along on it. The chain is one token: in `ready_sema`, in the `imu_read` task
or on the bus. The completion interrupt may come between any two steps of the
task, a burst may be refused, lost, late or completed with an error
(`MaxFaults`), and the task's own watchdog resets the bus and starts a new token.
Bring-up probes the devices; an absent one is never read.

### SensorPath and SampleFlow

The fan-out of one sample to the topics of `hub.c`, and the attitude and vertical
tasks behind them, on the target and in the simulator (`Platforms`). Pipes
overwrite their oldest message; stamps are counts modulo `Wrap`. Values are left
out: what is modelled is which sample a result is of and how much time it
integrated.

`SampleFlow` is the abstract specification: the attitude and the vertical
estimate are of acquired samples, each later than the one before, the vertical
one never ahead. `InOrder == Flow!Spec` with the mapping `Flow == INSTANCE
SampleFlow WITH ...` in SensorPath, and TLC checks it as a property.

### VerticalLoop

The collective as the vertical task and the angle task decide it together:
takeoff and landing detection, hover estimate, height modes, recovery. Each task
is atomic and sees what the other published last; the pilot, the air and the
sensors are free. Heights and collectives are small integers ordered as the
code's thresholds are; the controllers' outputs are chosen from a set.

### RateLoop

The 1 kHz task (PID with anti-windup, mixer, geometry, notch service,
identification runs), the motor FIFO, the motor task and the command processor,
whose commands may be cut by ticks between any two of their writes. Efforts are in
twentieths of full scale, so that the mixer's shares and limits are exact.

### Channel, Uplink, RcLink, CommLink

`Channel` is the downlink: writers with two caps, the swap, the DMA, the drop
counter loaded and stored outside the critical section, and the delta-coded IMU
stream with the reader's reconstruction. `buf_lens` is kept as the code keeps it,
and the DMA puts a buffer on the wire frame by frame (`DmaFrame`, `sent`), so that
a writer may come between any two. `Uplink` extends it with the receive
ring, the command task and the clock; answers leave through the channel. `RcLink`
is the receiver's DMA ring, parser and throttle failsafe. `CommLink` composes
them; a behaviour's traffic (`offered`) is chosen at the start from `Offers`.

### WriteLane, Upload, Download, Transfers

`WriteLane` is the write-at lane of `fs_owner_task`: the bounded fresh queue, the
retry queue, the request in progress, and per slot `pending`, `committed` and
`failed`. A write is two steps, because it blocks; a failed one may have landed.
`committed` counts requests instead of bytes: the code only compares it with an
earlier value of itself.

`Upload` extends it with `navlink_xfer.c` and the FILE provider: handlers on the
comm task, `xfer_tick` on the transfer task, a blocking truncate in the open. The
ground station may send any chunk at any time, which covers loss, duplication and
reordering. The history variable `clean` says of a session that its counters were last reset
when nothing of an earlier upload was queued for it or waiting to be truncated; without it the
upload's promises are false (observation 4), so its two invariants are stated under it.

`Download` is one download session with its receiver and the link. `provider->read`
blocks, so a read is several steps: the offset is taken and the request queued (`Ask`),
`fs_owner_task` takes it (`FsTakes`) and reads into the caller's buffer (`FsReads`), the
caller takes the result (`ReadReturns`) and emits the chunk. Between them the handlers run: a
NAK moves the cursor, a SACK rebuilds the backlog, DONE or ABORT frees the session
under the reader. The caller may also give up (`ReadGivenUp`), or another task's call may
(`OthersLate`): the request stays, its late result answers the next read, and that one's own
result the read after it. `dlBuf` is the chunk whose bytes came into the buffer during this
read; the history variable `mixed` records that a chunk went out with other bytes while no
call had been given up.

`Transfers` is the session table with both directions; a session keeps its
direction as long as it lives, so a behaviour has one.

### FsLoop, BlackBox, FsFunnel, ConfigStore, Storage

`fs_owner_task` is one loop over four services; `FsLoop` is the turn and the
card's faults. `BlackBox` is the flight recorder: two streams stand for the two
kinds there are, sector buffers between producer and task, a ring of frames and a
header on the card, boot resume, sessions, suppression during transfers. Fields
of a frame that the card does not hold say what it really is, for the properties
about the reader (`tools/telemetry/hslog.py`). `FsFunnel` is the synchronous calls
of other tasks with their 2 s timeouts, the cached handles and the file queries.
`ConfigStore` is the save lane. `Storage` composes them on one card, with power
cuts between any two steps.

### EscCalib, Calibration, Annunciator, BatterySense, Bench

`EscCalib` extends WriteLane with the two-boot request of `esc_calib.c` and the
hover save that shares its bookkeeping slot. `PowerCut` may come between any two
steps, also between reading the marker, clearing it and driving maximum. The read may
fail, and so may the clear (`BootClear`), whose result the code ignores: maximum is driven
all the same, and `uncleared` counts these boots. How a
running calibration ends is FlightState's part; `FlightState.escTaken` is the
marker that `EscCalib.BootClear` consumes.

`Calibration` is the IMU calibration: start, cancel, capture, fit, commit, save
and teardown, with the IMU task diverting its samples meanwhile. A fit is the
number of its run; a stored calibration is two halves written one after the
other. `Annunciator` renders the state on LEDs and buzzer across wraps of the
tick counter; `BatterySense` decides whether volts may be believed. `Bench` puts
them together, one per behaviour: they meet in the flight state only.

### Sitl

The in-process simulator: the stepping thread (physics, control pipe, then the
real scheduler on ucontexts until it is idle), the RC thread, the window that
reads the pose by a seqlock, and the external driver. A control frame is two
cells, so a read may end inside it; a sample and the command computed from it are
named by their step. Simplifications that nothing observes: the pipe is written
and the pty read at the top of the loop only, the window reads only around
`publishPose`, the attitude, angle and rate tasks are one pipeline, and
`apply_arm_logic` is atomic. The kernel's `set_next_task` is external, and an access
of another thread to the kernel's lists is one step.

### Proof modules

`FlightStateProofs`, `BenchProofs`, `TransfersProofs`, `SensorProofs`,
`VerticalLoopProofs`, `ControlProofs`, `CommLinkProofs`, `StorageProofs`: section 5.
Two are about two specifications: `SensorProofs` about SensorPath's `Spec` and ImuBus's `ImuSpec`,
`ControlProofs` about RateLoop's `Spec` and Sitl's `SitlSpec`.

## 3. Runs

A run checks a few properties, each a conjunction of the named parts in
parentheses where it has several; the parts are stated and commented one by one
in the modules.

| Run | Instance | Checks | Shows |
|---|---|---|---|
| `fs_target` | preemptive; boot, RC, comm, angle, vertical, one calibration task; allocation may fail | `TypeOK`; `DiversionNotStranded`; `OnlyArmOverwritesFailsafe` | no refused or cancelled calibration leaves samples diverted; the only off-table change of the state is an arming already decided |
| `fs_flight` | preemptive; boot, RC, comm, attitude, vertical, motor; fairness | `RcLossStopsMotors`; `FlightEnds` (`DegradedStopsFlight`, `DisarmStopsFlight`) | the motors do stop, although FAILSAFE may be overwritten: the watchdog and the safety step ask again |
| `fs_esc` | preemptive; boot, RC, comm, motor; fairness | `FullThrottleNeedsRequest`; `EscCalibIsolated`; `EscCalibEnds` | full throttle needs a request; calibration is isolated from flight, is not ended by the boot's own verdict and always ends, link or no link |
| `imu_bus` | both ride-along devices, two faults | `BusHonest` (`BytesInTheirSection`, `AbsentNeverRead`, `MagBurstAtData`); `ChainSound` (`SingleToken`, `NoGiveStorm`, types); `BusServes` (`MixedIsRedone`, `SamplesForever`, `RidesServed`) | through lost, late and refused bursts the chain keeps one token, bytes stay in their section, samples and ride-alongs keep coming |
| `sensor_path` | target and host; six samples | `TimeExact` (`AttitudeTimeExact`, `VerticalTimeExact`, `DegradedOnTime`); `ReadingsHonest` (`BaroUsedOnce`, `RangePairHonest`, `DeadRangeDropped`, `MagReferenceContinuous`); `StreamHonest` (`StalledStreamStops`, `DropsNeverHidden`, types); `InOrder` | no time lost or invented, no reading used twice, stale ones dropped; the pipeline refines SampleFlow |
| `vertical_loop` | three modes, one sensor fault | `VerticalSafe` (`CentredBeforeAutoFlight`, `HoverKept`, types); `CollectiveHandled` (`HandbackNearHover`, `RecoveryFinal`); `AglContinuous` | modes, recovery, hover estimate and height reference agree across both tasks |
| `rate_loop` | three armings, two commands | `OutputsSound` (`StaleBounded`, `MixerKeepsRollPitch`, `MixerRestored`, types); `NoWindup` (`IntegratorHonest`, `NoWindupWhileShort`); `CapturesWhole` (`CaptureOneRun`, `DumpOneRun`, `NotchServed`) | stale motor commands are bounded, no windup, captures and dumps never mix runs |
| `comm_link` | five kinds of traffic | `DownlinkExact` (`AcceptedExact`, `XferHeadroom`, `DropsReported`, `ReconstructionBounded`, types); `CommandsExact` (`CommandsOnce`, `AnsweredOnce`, types); `RcSound` (`PresetExposure`, `PilotNeverCut`, `FramesKept`, types); `LinkServes` (`Drains`, `ArmAnswered`, `ClockConverges`) | accepted frames reach the wire once and in order; commands run once and are answered; the clock converges; a lost radio is cut in time |
| `storage` | twelve scenes, two boots | `RecordingSound` (`SeqExact`, `SessionsApart`, `NoForeign`, `RecordsExact`, `LossCounted`, types); `CallsSettled` (`SyncMatched`, `HandlesApart`, `QueriesSettled`, types); `TuneSound` (`ConfigKept`, types); `StorageServes` (`TextReachesCard`, `FileReleased`, `EverythingServed`) | the recording can be read back, losses are counted, handles never alias, everything queued is served |
| `transfers` | two upload sessions, or a download of two chunks | `UploadExact` (`DoneMeansOnDisk`, `PendingExact`, types); `CopyIsFaithful`; `DownloadCompletes`; `SessionsReclaimed` | DONE is said only for a file on the card; a chunk carries its own bytes until a call is given up while its request is pending; the copy becomes complete; sessions end |
| `bench` | four scenes | `OneAttemptPerRequest`; `CalibrationSound` (`EstimatorNeverTorn`, `DiversionEnds`, `SidesDistinct`, types); `OperatorTold` (`ToldOnCardIsStored`, `OutcomeHonest`, `PatternOfState`, `ActivityHonest`, `PresentEarned`, `PackSeen`); `CaptureBounded` | no power cut causes an extra attempt, a clear of the marker that failed exactly one; a calibration ends, gives samples back and reports what became of it; lights and volts are true |
| `sitl` | nine plans of control frames | `ControlExact` (`CtlExact`, `ConfigSticks`, `MeshMapped`); `StepSound` (`PoseWhole`, `StepSettled`, `DutyFresh`, `ThreadsApart`, types); `StepsHonest` (`FrozenHonest`, `StepsEnd`) | steps settle and end, frames cut anywhere apply once, no other thread is switched into a task |

The bounds, and why the interesting cases happen within them:

* **Timeouts** are 0 to 3 ticks throughout (`RcLoss`, `EscTimeout`, `RecoveryTicks`,
  `IdleTicks`, `AckTicks`, `CaptureTicks`, ...). A timer's only effect is whether it has
  expired when its task looks; since a tick may fall between any two steps, one
  or two values before expiry are enough.
* **Scenes.** `comm_link`, `storage`, `bench`, `transfers` and `sitl` choose at the start what
  traffic a behaviour has, and explore that to the end, instead of all traffic at
  once. The scenes pair the parts that share state: a recorder with a power cut,
  a query with the file it deletes, a transfer beside the performance burst.
* **FlightState.** `fs_target` leaves out the motor task, which writes no state,
  and the attitude task, whose only write, FAILSAFE, the angle task makes as
  well. One calibration task is enough for a start, a cancel, a second start; the
  theorems are for any number.
* **imu_bus**: slots wrap at 2, ride-along periods 2 and 1, so that both are due at
  once and one must wait; two faults, so that one falls into the recovery
  from the other.
* **sensor_path**: pipes of 1 and 2 slots overflow within six samples, stamps wrap
  at 4, a stall is longer than the wrap allows to be seen.
* **vertical_loop**, **rate_loop**: every threshold is separated from its neighbours
  by one unit (a throttle exactly at the height controller's minimum is left out); FIFO 3, capture 2, notch hop 3 fill up and overflow.
* **comm_link**: buffers of 4 units with a reserve of 2, a ring of 3 chunks with frames
  of 2, a DMA ring of 4 tokens with frames of 3: all of them overflow in
  mid-frame. Two commands, so that one replaces the other's request.
* **storage**: one write failure and two boots per behaviour, a ring of 3 sectors
  (it laps), generation starting at 255 (it wraps on the second boot), two buffers of
  two records, one late result. A second failure repeats the retry path.
* **transfers**: `LaneCap = 2` is the firmware's value. `RetryCap` 1 (firmware 4) and
  `MaxTries` 2 (16) make the retry lane fill up and the budget run out within a few
  steps. Two chunks and one backlog entry (8), so that there can be more holes than
  entries. `MaxOpens = 1` and `SyncMayTimeOut = FALSE`: sessions reopened over queued chunks
  and truncates that come late are what `UploadIsExact` is proved for. `IdleTicks = 1`.
  `DlMaxLate = 1`: while the receiver is there one call, this task's or another's, is given up
  with its request pending, which is enough to put every later read one result behind; after
  it has gone, any number.
* **bench**: 3 gestures, 4 boots, 1 hover save; two calibrations per behaviour, two sides
  instead of six, clock modulo 8 (several wraps), one boot fault and four shown
  states, which between them have every pattern kind.
* **sitl**: five steps, a buffer of three cells, i.e. one frame and a half; motor and
  flush periods of 2 steps; the PWM pipe present or not.

Deadlock is checked in the FlightState runs, `imu_bus` and `rate_loop`. The others
may stop: sessions end and the ground station is gone, the bound on samples,
boots, records or steps is reached, or the plan has run out.

## 4. Fairness

* **FlightState** (`Fairness`): time passes (weak); every task that keeps becoming
  runnable is run (strong). Strong because a priority-0 task is disabled whenever
  a priority-1 task is inside a call. Those tasks are periodic and block, so they
  leave gaps. For the RC task this means its loop goes round: it waits on a
  semaphore with a timeout. Nothing is assumed of pilot, ground station, attitude or
  whether frames arrive.
* **ImuBus**: the task runs, a raised interrupt is served, a DMA that is not lost
  completes. Lost ones are bounded by `MaxFaults`.
* **Transfers**: in the upload direction the transfer task and `fs_owner_task` are
  periodic, and a write returns, with whatever result. In the download direction the
  tasks are periodic; while the ground station is there, a chunk that is read again
  and again is eventually accepted by the channel and not lost, and a receiver
  that misses chunks goes on reporting. Its reads are served, and a read that is made again
  and again eventually succeeds. Once it is gone nothing is assumed of channel,
  card or `fs_owner_task`, so the download half of `SessionsReclaimed` does not rest on them. Each direction's
  fairness is owed only by behaviours of that direction.
* **CommLink**: the command and flush tasks sleep in `v_delay` and are woken, started
  DMAs complete, time passes, and the ground station repeats its clock exchange.
  Nothing is assumed of RC, telemetry or whether commands arrive.
* **Storage**: `fs_owner_task` runs, callers and queries go on, and quiet time
  passes. A transfer need not end, nor any producer produce.
* **Bench**: only the calibration task is fair; samples may stop coming.
* **Sitl**: only the stepping thread is fair.

SensorPath, VerticalLoop and RateLoop have safety properties only.

## 5. Proofs

Every theorem is of the component's own specification, for every value of its
constants, from the named assumptions in the component modules only: types and ranges of
the bounds, the calibration tasks distinct from the fixed ones, an activity window that is less
than half the tick counter's period, an analyser hop of at least one tick per axis, a transfer
chunk that fits the reserve, and a preset of the receiver that is more than a jump above the
idle throttle it starts with (`JumpDelta < High`; the firmware has 1900, 1000 and 300: were the
preset within a jump of idle, a first push to it would look like the preset).

| Theorem | Says | Argument |
|---|---|---|
| `TypeCorrect` | FlightState: `[]TypeOK` | one lemma per task |
| `EscCalibIsolation` | `EscCalibIsolated`, every policy | `EscInv` |
| `FullThrottle` | `[]FullThrottleNeedsRequest`, every policy | `ThrottleInv` |
| `CooperativeTable` | `TableRespected` if cooperative | `FreshInv` |
| `PreemptiveTable` | `OnlyArmOverwritesFailsafe` if preemptive | `StaleInv` with `EscInv` |
| `DiversionEnds` | `[]DiversionNotStranded`, every policy | inductive with `TypeOK` |
| `EscTypeCorrect` | EscCalib: `[]TypeOK` | `LaneType` and the producers' steps |
| `OneAttempt` | EscCalib: `[]OneAttemptPerRequest` | `RequestInv` |
| `ToldOnCard` | EscCalib: `[]ToldOnCardIsStored` | `StoredInv` with `RequestInv` |
| `BenchInvariant` | Bench: `[]BenchInv` | the parts' invariants; the others leave them alone |
| `BenchAttempts`, `CalibrationIsSound`, `OperatorIsToldSo` | Bench: `[]OneAttemptPerRequest`, `[]CalibrationSound`, `[]OperatorTold` | `BenchInvariant` |
| `TransfersInvariant` | Transfers: `[]XferInv` | `UpInv` and `DlInv`, one lemma per handler and per kind of lane step |
| `UploadIsExact`, `CopiesAreFaithful` | `[]UploadExact`, `[]CopyIsFaithful` | `TransfersInvariant` |
| `PathInvariant` | SensorPath: `[]IInv` | one lemma per part and action |
| `TimeIsExact`, `StreamIsHonest`, `ReadingsAreHonest` | `[]TimeExact`, `[]StreamHonest`, `ReadingsHonest` | `PathInvariant` |
| `ReadersInOrder` | `InOrder`: SensorPath implements SampleFlow | initial states and steps map, by `PathInvariant` |
| `BusInvariant` | ImuBus: `[]BusInv` | boot, interrupt, hardware, task and decode steps |
| `ChainIsSound`, `BusIsHonest`, `MixedIsTakenAgain` | `[]ChainSound`, `[]BusHonest`, `MixedIsRedone` (a part of `BusServes`) | `BusInvariant` |
| `HeightInvariant` | VerticalLoop: `[]HeightInv` | one lemma per task |
| `WhatOutlivesIsSafe`, `TakenOverSafely`, `AglMovesWithAircraft` | `[]VerticalSafe`, `CollectiveHandled`, `AglContinuous` | `HeightInvariant` |
| `MotorsGetSoundOutputs`, `NothingWindsUp`, `CapturesAreWhole` | RateLoop: `[]OutputsSound`, `NoWindup`, `[]CapturesWhole` | `RateInv`: the tick part by part, then one lemma per action |
| `StepIsSound`, `FrozenSensorIsHonest` | Sitl: `[]StepSound`, `FrozenHonest` (a part of `StepsHonest`) | `SitlInv`: one lemma per action |
| `ControlFramesApplyOnce` | Sitl: `[]ControlExact` | `CtlInv`, beside `SitlInv`; the parser and the fold of the settings by induction |
| `RadioIsSound`, `CommandsAreExact`, `DownlinkIsExact` | CommLink: `[]RcSound`, `[]CommandsExact`, `[]DownlinkExact` | `RcInv`, `UpInv` and `DownInv`; the radio shares no state with the other two |
| `StorageInvariant` | Storage: `[]StoreInv` | `CfgInv` and `SvcInv`, one lemma per action |
| `TuneIsSound`, `CallsAreSettled` | Storage: `[]TuneSound`, `[]CallsSettled` | `StorageInvariant` |
| `RecorderInvariant` | Storage: `[]RecInv` | types, ring and streams, one lemma per step of `imu_hs_log_drain`, a record, the boot and a power cut |
| `RecordsAreExact` | Storage: `[](RecordsExact /\ LossCounted)`, any number of faults | `RecorderInvariant` |
| `RecordingIsSound` | Storage: `[](fails <= 2 /\ life <= 4 => RecordingSound)` | `RecorderInvariant` |

**FlightState.** *StepShape* reduces every step to one of six shapes: a
decision by some task for one of the targets that task ever asks for, a check, a
store, the boot's step, a calibration task's return, or a step that touches
neither state nor calls. The invariants below are then shown once per shape, not once
per action.

* `EscInv`: before the spawn nobody is in a call; every call carries a
  target of its task; a store waiting in ESC_CALIB is for one of its two exits.
  Without the last part a late store could take ESC_CALIB anywhere. Nor is a STANDBY of the
  boot's verdict on its way then.
* `FreshInv`: a store that is waiting is still admitted by the table. True when
  nothing can come between load and store.
* `StaleInv`: its weakening for the target. A priority-1 store is always fresh. A
  waiting STANDBY is still a row of the table, because what can have intervened is FAILSAFE,
  a takeoff or a landing, each of which may go to STANDBY. A waiting CALIBRATING,
  and a pending ARMED from its *decision* on, leave the state on the ground
  (STANDBY or FAILSAFE) with the vertical task outside any call. Hence
  CALIBRATING is always a row, and ARMED is stale only over FAILSAFE.
* `ThrottleInv`: whatever could put full throttle on the ESCs (the phase, the
  outputs chosen, the outputs written and replayed) was preceded by a request.

`TableRespected` is about a cooperative scheduler, which the target is not; it is
proved and not run. It is why tests on the host port cannot see observation 1.

**ESC calibration.** `RequestInv`: whatever can still cause an attempt (the marker on the
card, a marker on its way through the lane, a boot that has read it) is paid for by an
unanswered gesture or by a clear that failed; nothing is on its way until the scheduler runs; the
marker is gone, or its clear has been counted as failed, before maximum is driven. `StoredInv`: only markers and hover saves travel, no
request to clear a marker does, and as long as no hover was saved a commit counted while a
gesture waits was the marker's. The lane's part is `LaneFrame` (a file changes only through
a request on its way with that very content; the lane makes up no request) and `EnqueueFrame`.

**Bench.** The pack: `RailInv` ties the run counter to the last readings of the rail. The
lights: `DeadlineInv` says how far ahead the deadline is across a wrap of the counter, and
that the window since the last report is the rest; between the pass that sees it over and the
one that clears it, it is over. Calibration: `CalInv` gives each task a place
and what its run may say, and `Shielded` that, unless two tasks have overlapped, a half-written
target is the one the only task is committing and the samples are its own meanwhile.

**Transfers.** A request *travels* while it is in either queue or being written. `RunningInv`:
while an upload runs whose counters were reset under nothing old, all that travels for
it is its own, and every chunk it took is on the card, travels, or has made the session fail.
`DoneInv`: after DONE nothing travels that could touch the file. With `PendingExact` (the
counter is the number of travelling requests, lemmas on counting in a queue) an
empty counter at DONE means that nothing travels, so every chunk is on the card. Reopened
sessions and late truncates are covered; where they are not `clean`, the properties claim
nothing. `DlInv`: a read in progress is within its budget, and its entry is the one it was
taken from, whatever handlers run during it. `CallInv`: as long as no call was given up, there is
at most one of a request, an execution and a result, it is the reader's own, and the bytes that
come in are those of its offset; this is what a late result breaks (section 6, Transfers).

**SensorPath.** `IInv` has the accounts of every pipe (`Accounted`: published, popped,
overwritten and waiting messages add up, and `evicted` hides none); that the stamps waiting are
in order and the times they carry connect to one another and to what was already
integrated (`VertChain`, broken only by a message that was overwritten, and then marked);
what the task knows of time that it has not handed on (`AttInv`); and for each slow sensor, how
old its reading is. `ReadersInOrder` is the refinement: acquisition and the two estimates are
SampleFlow's steps, everything else stutters.

**ImuBus.** `TokenInv` counts the token in the three places it can be, including the two
that a restart can leave when it meets a late completion, and the absence of any while the pins
are general-purpose outputs. `ManagerInv` says what flag, transfer and interrupt tell
of one another, `RideInv` that a ride is scheduled for a device that is there.

**VerticalLoop.** `CentreInv`: the memory of a centred switch is of this arming, because both
loops run between two decisions of the RC task, so what an arming finds was
switched off by a loop that saw the disarmed state. `PhaseInv`: the references are those of the
ground, and the height is measured from the one in use; from it a drop-out of the
rangefinder leaves the height where it was. The controller's lemmas (`Off`, `Driven`,
`Updated`) say that whatever ends an engagement leaves the collective held (`Caught`).

**RateLoop.** `FifoInv` is about commands of an earlier arming: they are in front of the FIFO,
and those still in it with those already driven are no more than what the disarmed motor task
left, because every run of it between the disarm and the next arming took one out (`Drained`
relates the runs to the two periods). `RunInv`, `CaptureInv` and `HostInv` follow a command
through its writes: between the select and the start of a run the capture is reset and the host
does not look. `NotchInv`: `Fits` is what one retune per tick leaves of three frames completed at
once. The mixer's lemmas bound the least and the greatest motor through its three shifts.

**CommLink.** The radio (`RcInv`): `StickInv` says of every checksum on its way, in the ring or
still to be sent, how its frame relates to the last one applied, so that a jump is one of the
transmitter's; `FlowInv` reads ring and remaining tokens as one stream, whose tokens agree each
with the next, and accounts for every frame not applied by a garbled token. `FlowInv` holds until
the DMA laps the task; the two cut-off properties do not need it. Commands (`UpInv`): a chunk
dropped by the ring leaves the order of the others, so that over what is being parsed, what waits
and what is in the air the keys strictly increase and no chunk is of a command that ran. The
downlink (`DownInv`): the frames accepted and not on the wire are the rest of the buffer under the
DMA and then the active one (`AcceptInv`); a buffer without a chunk keeps the reserve (`RoomInv`);
a drop not counted yet is loaded by some writer (`DropInv`); and a delta is close to the
difference from the IMU frame before it, wherever that is, on its way or in the reader's
vector (`StreamInv`).

**Storage.** `LatestInv` looks for the newest version of a store from the back of the save queue:
the last request for it there, else the one being written, else the file. Unless an attempt failed
or a save was dropped, that one is in force, so an idle lane means that the file is.
`TokenInv`: as long as no pending call was given up, whoever waits holds the token, and there
is at most one of a request, an execution and a result, and it is the holder's; this is
exactly what a late completion breaks (section 6, Filesystem). `HandleInv` follows the
two cached descriptors through close, unlink and rename. `QueryInv`: an accepted request is
answered at most once; where the listing is between opendir and closedir says which directory is
open, and that claim is made only for a card that neither fails nor is slow, since
a closedir that failed or timed out leaves it open. The recorder and the lane touch none of this except to add
a fault (`Aside`).

**The recorder** (`RecInv`, also in `StorageProofs`) has three layers. *Types*: frames on the card
are numbered apart, the file is open in every phase of a session, and the filesystem task stays
at the recorder until its walk ends. *Ring* (`RingOK`): a frame's generation is as many before the header's as the file was
started over since (`GenInv`), so that up to four restarts on its sentinel is another one
(`SentinelsApart`); frames of one generation are numbered in the order of writing (`OrderInv`)
and stay below what a boot resumes at (`MarginInv`). `LagInv` is what makes that inductive: a
header is as far behind as the frames since it was written, or one resume margin further when
the boot could not write it. Two periods are never next to each other in number, since a
session starts with a frame of its own and a resumed ring leaves a gap (`PeriodInv`, `ApartInv`).
*Streams*: a buffer is live when it is queued, being filled, or taken from its producer and
not written yet (`Live`, `Held`). Unless a flush was disturbed, buffers and blocks hold only
records that were made (`CoherentInv`); as long as the card works too, every stream is sorted
over its blocks and its live buffers (`Sorted`), and a text record in none of them was
in a sector the drop counter counts (`Lost`, `Few`).

`RecordingIsSound` is bounded where the code is. `OrderInv` needs `fails <= 2`: after a failed
header write at boot and two SESSION frames whose headers fail, the card is ahead of the margin
and a power cut makes the next boot use a number again. `NoForeign` needs `life <= 4`: the
generations 0, 165 and 170 share a sentinel, and 165 and 170 are five restarts apart.
`RecordsExact` and `LossCounted` need neither bound.

**Sitl.** `PoseInv` and `ReadInv` are the seqlock: the number is odd exactly while a field may
differ from the step, and what the window has copied under a number that still stands is the
pose. `SchedInv`: tasks are ready inside a tick only, and a sample nobody took keeps its pipeline
ready, so an idle scheduler has no sample left. `TickInv`: the steps since the motor task ran and
the ticks it still sleeps add up to its period. `DutyInv` adds that an output other than zero
was chosen in flight, and no more steps have gone by without flight than since then. The
control pipe (`PipeInv`): the headers not parsed yet are later than every frame applied; of
whole frames (`RegularInv`) exactly those written and not applied are left. `Parsed` is a recursive
function and the settings are a fold: `ParsedUnfolds` and `FoldUnfolds` show that both satisfy their
equations, and what they compute is shown by induction, as the absence of a least
counterexample (`LeastNatural`), for buffers and reads of any length.

**Model-checked only.** All liveness (the prover handles neither fairness nor
ENABLED): `RcLossStopsMotors`, `FlightEnds`, `EscCalibEnds`, the rest of `BusServes`,
`LinkServes`, `StorageServes`, `DownloadCompletes`, `SessionsReclaimed`, `CaptureBounded`,
`StepsHonest`. Beyond its bounds on faults and restarts, `RecordingSound` is false of the code
(section 6, Recorder); the run stays within them.

## 6. Observations

Disagreements between the code and the repository's own words:

1. `system_state_set` (state.c:92) loads, decides and stores: an arming decided by
   the RC task may be stored over a FAILSAFE (requirements.md:147, SYS-SAFE-006).
   `OnlyArmOverwritesFailsafe` shows that nothing else can, `fs_flight` that the
   motors stop all the same.
2. rc_task.c:104 says a disarm "is always honoured"; the switch does not
   disarm while the ground station's latch is set (rc_safety.c:220).
3. state.h:32 says calibration "must never turn a motor"; a failsafe frame leads
   CALIBRATING -> FAILSAFE -> STANDBY -> ARMED during a capture (rc_task.c:87).
4. Reopening an upload resets its counters under chunks still queued, so it may
   be told DONE early (file_provider.c:61, :86).
5. "TIMED OUT -- not stored" may be followed by a boot that finds the request
   stored (esc_calib.c:229-232).
6. esc_calib.c:112-114 promises one attempt per request. `request_take` ignores whether the
   marker was cleared (:116-118) and drives maximum all the same, so on a card that can be read
   and not written every boot does. `OneAttemptPerRequest` counts such boots (`uncleared`) and
   shows that each leaves one more attempt, no more.
7. fs_owner.c:510 says "only one cross-task FS request is in flight at a time". A call that is
   given up releases the token with its request still queued or running (:518-525). The late
   result, which carries no name, answers the next read, and that one's own result the read after
   it, so `tick_download` emits an offset with the bytes that happen to be in its buffer,
   against navlink_xfer.c:504-511 ("One snapshot makes each emitted frame self-consistent").
   `CopyIsFaithful` holds up to the first such call, and no further.
8. The landed latch of height_controller.c:135-156 and 197-207 differs from what
   height_controller.h:45 and 128-129 say.

Seen while modelling, by area:

* **Flight state, ESC.** Cancel with nothing running asks for STANDBY and so ends ESC_CALIB
  (comm_processor.c:138). ON CARD may be said for a hover save through the shared
  slot (esc_calib.c:224).
* **IMU calibration.** `_calib_task` is cleared only by a cancel, so a second
  calibration is refused after a completed one (bmx160.c:2173). A cancel
  before the task's first step is erased (:1847). A cancel frees the handle at
  once, so a start in the teardown window overlaps two tasks, which
  `EstimatorNeverTorn` excepts. Control and telemetry get samples converted
  with a half-written calibration. A refused entry still asks for STANDBY.
  `on_cmd_calibrate_imu` passes float arguments (navlink_router.c:289-317) that
  `comm_processor_dispatch` copies into integers: "Unknown IMU ID" after an ACK.
  An accelerometer capture has no overall timeout while samples flow.
* **Heartbeat, battery.** The buzzer is not cleared on a change of state, and a report at
  expiry is lost (heartbeat.c:45-53). RAILED counts as PRESENT.
  `battery_calib_save` has no caller.
* **Filesystem.** A timed-out `fs_sync_call` leaves its request queued and its result
  to the next caller (fs_owner.c:411, :520). A save replaces a file without closing
  the cached read handle (:185). A re-queued save may land after a newer one
  (:207). A request is pushed before it is counted (:693-697): one step in `WriteLane.Enqueue`,
  although the lane could finish the write in between if equal priorities were sliced. A
  replacement truncates first, so a power cut loses both versions. A deletion
  checks and then acts (fs_query.c:272-295). `file_size_of` opens the file on the
  transfer task.
* **Recorder.** Byte-stream flush and session stop race with the producer
  (imu_hs_log.c:1031-1037, :959). A boot that cannot open the file starts again at
  generation 0, sequence 1. Boot flush failures are ignored. The session counter
  restarts with every boot. Drop counters in the header are flushed before reset.
  imu_hs_log.h:87-90 says that a resumed write can never use a number again; three
  failed header writes before a power cut are enough for it (the margin is two header
  periods, imu_hs_log.c:1171-1178). The sentinel is not a function of the generation
  alone: 0, 165 and 170 share one (imu_hs_log.h:289-292 reckons with 1 in 253), so from
  the fifth restart of the ring on, frames of an old generation may be accepted.
* **Transfers.** During a blocking read a rebuilt backlog gets the wrong entry marked
  as sent (navlink_xfer.c:485), and a NAK during the last chunk still ends in
  DONE_LINGER (:533); both heal, as `DownloadCompletes` confirms. The terminal upload
  acknowledgement is sent once. After a given-up call a chunk's bytes may be another's
  (7 above), which completion by offset does not see; the length of a late result, also another
  read's, is not modelled.
* **Channel, commands, RC.** The drop counter is updated outside the critical section
  (channel.c:52). The performance burst of 1336 bytes exceeds its 1280-byte cap
  (channel.c:30-34). The delta stream's anchor moves even when the frame is
  refused. A clock step may be overwritten by a discipline tick. A second
  CMD_ARM takes over the pending answer; the latch stays after a rejection. Lost RC
  frames look like a throttle jump; up to `HoldFrames - 1` preset frames pass.
* **Control.** Motor commands from before a stall are replayed
  (angle_rate_controller.c:644-660). `sysid_start` is accepted while a run is active
  (sysid.c:99-112), and the dump is not guarded (navlink_router.c:157-158). Geometry
  may change while armed (angle_rate_controller.c:174-188); a tick in the middle of the
  pseudo-inverse's update (mixer.c:75-95) is not modelled: `SetGeometry` replaces it at once. The mixer's roll and pitch
  priority counts yaw (mixer.c:199-207). A refused hover save is not retried.
* **Sensors.** Statistics of a pipe may underflow (hub.c:130-149, 162-170). A message is
  published and counted, and taken and counted, in two steps each (hub.c:157-185, 386-391);
  SensorPath makes each pair one, so `DropsNeverHidden` says nothing about a reader interrupted
  between them, after which one drop too many is counted. The
  magnetometer may lock itself out (bmx160.c:1237-1254). Snapshots that "never tear"
  rely on word copies (bme280.c:297-299, vl53l0x.c:176-178). The watchdog's restart may
  leave two tokens for one round. `vertical.state` has no age check.
* **Simulator.** If the PWM FIFO cannot be opened, `pwm_latest` is never updated
  (host_navhal.c:206). host_rc_feeder.c says "Same logic as rc_task.c" but omits IN_AIR,
  the estimator check and failsafe; there is no RC watchdog, and a lost port is
  replaced by a hover frame. Critical sections are a counter
  (host_rtos_port.c:196-205) while other threads change kernel lists. A frame with an
  oversized header stalls parsing until the buffer is full and then drops it all.

## 7. Not modelled

* Floating-point numerics (filters, fusion, FFT, fits): not decidable by these
  tools. They enter as free inputs or outcomes.
* Register-level drivers and formatting: hardware access and layout.
* vaios, NavHAL and the navlink codec: submodules, modelled from their use.
* Simulator physics, scenarios, the older two-process simulator, and tools: test
  equipment. The host tools enter as environment (the reader of recordings, the
  excitation script, the ground station of a transfer).
* Inside modelled parts: INFO retransmission, telemetry streams and the
  opposite-direction rule of transfer sessions; reopening a download; an upload over
  the recorder's own file; seven of the recorder's nine streams, which are
  instances of the two kinds; commands that set one value; telemetry frames that
  copy a latest value; task creation at boot.

## 8. Plan

Done: all modules above, the runs, the theorems of section 5. Every safety property of the runs
that section 5 does not name as model-checked only has a theorem. What a next step would be:

1. `RecordingSound` holds up to two faults of the card and four restarts of the ring, and section 6
   says what goes wrong beyond. A recorder with a wider generation, or a header margin that counts
   failed writes, would let `RecorderInvariant` carry it without bounds: `RingInv` and the order
   of the sequence numbers are the parts to restate.
2. Liveness (`StorageServes` and the other temporal properties) stays with TLC.
