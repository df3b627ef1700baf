---------------------------- MODULE FlightState ----------------------------
(***************************************************************************)
(* The flight-state machine of the vayu firmware and every task that       *)
(* drives it.                                                              *)
(*                                                                         *)
(* One word, _system_current_status (src/sys/state.c), is written by seven *)
(* tasks through system_state_set.  That function loads the word, decides  *)
(* from the loaded value, and stores: here a call is a "check" step        *)
(* followed by a "write" step, and the decision the caller took before the *)
(* call (from its own, earlier, system_state_get) is a third step.         *)
(* What may happen between those steps is the scheduler's business, the    *)
(* constant Policy:                                                        *)
(*   "cooperative"  the host port: a task runs until it blocks;            *)
(*   "preemptive"   the target: a strictly higher priority preempts;       *)
(*   "sliced"       as preemptive, and equal priorities interleave too.    *)
(***************************************************************************)
EXTENDS Naturals, FiniteSets

CONSTANTS
    Policy,         \* the scheduler: see above
    Active,         \* the tasks that exist in this instance
    CalTasks,       \* slots for spawned calibration tasks
    RcLoss,         \* RC_LOSS_TIMEOUT_MS, in watchdog ticks
    EscTimeout,     \* ESC_CALIB_TIMEOUT_MS, in watchdog ticks
    EscSettle,      \* ESC_CALIB_SETTLE_MS, in watchdog ticks
    RecoveryTicks,  \* RECOVERY_TIMEOUT_MS, in outer-loop ticks
    AcroInputs,     \* the flight modes the pilot selects (TRUE: acro)
    EscRequests,    \* what request_take may find on the card at boot
    GcsCommands,    \* the commands the ground station sends
    HeapMayFail     \* whether v_malloc or task_create may return 0

SysStates == {"UNINITIALIZED", "INIT", "STANDBY", "PREARM", "ARMED", "IN_AIR",
              "FAILSAFE", "TERMINATED", "CALIBRATING", "ESC_CALIB"}

FixedTasks == {"boot", "rc", "comm", "att", "ang", "vert", "motor"}
Tasks == FixedTasks \union CalTasks

ASSUME PolicyAssumption == Policy \in {"cooperative", "preemptive", "sliced"}
ASSUME TasksAssumption  == /\ CalTasks \intersect (FixedTasks \union {"none"}) = {}
                           /\ Active \subseteq Tasks
ASSUME BoundsAssumption == /\ RcLoss \in Nat
                           /\ EscTimeout \in Nat
                           /\ EscSettle \in Nat
                           /\ RecoveryTicks \in Nat
ASSUME InputsAssumption == /\ AcroInputs \subseteq BOOLEAN
                           /\ EscRequests \subseteq BOOLEAN
                           /\ GcsCommands \subseteq {"arm", "disarm", "calibrate", "cancel"}
                           /\ HeapMayFail \in BOOLEAN

VARIABLES
    sysState,   \* _system_current_status
    call,       \* per task: the system_state_set call it is inside
    bootPc,     \* where boot_task is
    rcPc,       \* where rc_ibus_task is in its loop
    rcSwitch,   \* position of the arm switch (channel 5)
    rcFail,     \* ibus_raw_data.is_failsafe of the frame being applied
    rcAge,      \* ticks since s_last_valid_frame_ms
    swArm,      \* g_sw_arm_request
    degraded,   \* s_degraded of the estimator
    tilt,       \* bank angle the angle controller sees
    recovering, \* s_recovering
    recTicks,   \* s_recovery_ticks
    escPhase,   \* s_phase of esc_calib.c
    escTimer,   \* ticks since s_phase_ms
    escTaken,   \* a calibration request was taken from the card at this boot
    calPc,      \* per calibration task: where it is
    calibTask,  \* _calib_task, the handle the driver keeps
    calibActive,\* _calib_active, samples diverted from the estimator
    calibCancel,\* _calib_cancel
    motorPc,    \* "idle", or "write" between sampling the state and the ESCs
    motorOut,   \* motor_outputs chosen in this iteration
    motors      \* what the ESCs were last given (and prev_motor_outputs)

setVars   == <<sysState, call>>
rcVars    == <<rcPc, rcSwitch, rcFail, rcAge>>
estVars   == <<degraded, tilt>>
angVars   == <<recovering, recTicks>>
escVars   == <<escPhase, escTimer>>
calVars   == <<calPc, calibTask, calibActive, calibCancel>>
motorVars == <<motorPc, motorOut, motors>>
vars == <<sysState, call, bootPc, rcVars, swArm, estVars, angVars, escVars,
          escTaken, calVars, motorVars>>

Outputs == {"zero", "cmd", "max"}
NoCall  == [pc |-> "idle", tgt |-> "none"]
Refused == [pc |-> "refused", tgt |-> "none"]
Calls   == {NoCall, Refused} \union [pc : {"check", "write"}, tgt : SysStates]

TypeOK ==
    /\ sysState \in SysStates
    /\ call \in [Tasks -> Calls]
    /\ bootPc \in {"start", "eval", "done"}
    /\ rcPc \in {"wait", "esc", "watch"}
    /\ rcSwitch \in {"up", "down"}
    /\ rcFail \in BOOLEAN
    /\ rcAge \in 0 .. RcLoss + 1
    /\ swArm \in BOOLEAN
    /\ degraded \in BOOLEAN
    /\ tilt \in {"level", "mid", "over"}
    /\ recovering \in BOOLEAN
    /\ recTicks \in 0 .. RecoveryTicks
    /\ escPhase \in {"OFF", "HIGH", "SETTLE"}
    /\ escTimer \in 0 .. EscTimeout + EscSettle
    /\ escTaken \in BOOLEAN
    /\ calPc \in [CalTasks -> {"none", "spawned", "enter", "run", "done", "leave"}]
    /\ calibTask \in CalTasks \union {"none"}
    /\ calibActive \in BOOLEAN
    /\ calibCancel \in BOOLEAN
    /\ motorPc \in {"idle", "write"}
    /\ motorOut \in Outputs
    /\ motors \in Outputs

(***************************************************************************)
(* The scheduler.  A task is Busy while it is between two steps that other *)
(* tasks could separate.                                                   *)
(***************************************************************************)
\* Mutant of Prio: the vertical task spawned in the lowest band.
Prio_VertLow(t) == IF t \in {"att", "ang", "motor"} THEN 1 ELSE 0

\* The priorities init_tasks and calibrate_start spawn the tasks with.
Prio(t) == IF t \in {"att", "ang", "vert", "motor"} THEN 1 ELSE 0

Busy(t) == \/ call[t].pc \in {"check", "write"}
           \/ t = "motor" /\ motorPc = "write"

MayRun(t) ==
    /\ t \in Active
    /\ bootPc = "start" => t = "boot"
    /\ \A u \in Tasks \ {t} :
         Busy(u) => \/ Policy = "preemptive" /\ Prio(u) < Prio(t)
                    \/ Policy = "sliced" /\ Prio(u) <= Prio(t)

(***************************************************************************)
(* system_state_set                                                        *)
(***************************************************************************)
AllowedTable ==
    {<<"UNINITIALIZED", "INIT">>, <<"INIT", "STANDBY">>,
     <<"STANDBY", "PREARM">>, <<"STANDBY", "ARMED">>, <<"STANDBY", "CALIBRATING">>,
     <<"INIT", "ESC_CALIB">>, <<"STANDBY", "ESC_CALIB">>, <<"ESC_CALIB", "STANDBY">>,
     <<"FAILSAFE", "CALIBRATING">>,
     <<"PREARM", "ARMED">>, <<"PREARM", "STANDBY">>,
     <<"ARMED", "IN_AIR">>, <<"ARMED", "STANDBY">>,
     <<"IN_AIR", "ARMED">>, <<"IN_AIR", "STANDBY">>,
     <<"CALIBRATING", "STANDBY">>, <<"FAILSAFE", "STANDBY">>}

Allowed(cur, new) == new = "FAILSAFE" \/ <<cur, new>> \in AllowedTable

\* system_state_set will store new over the loaded value cur.
Admits(cur, new) == cur # new /\ Allowed(cur, new)

\* Task t, having taken its decision, calls system_state_set(new).
SetCall(t, new) == call' = [call EXCEPT ![t] = [pc |-> "check", tgt |-> new]]

\* Load the state and decide.  Only the calibration task looks at the status;
\* every other caller discards it.
SetCheck(t) ==
    LET new == call[t].tgt IN
    /\ call[t].pc = "check"
    /\ MayRun(t)
    /\ call' = [call EXCEPT ![t] =
                  IF Admits(sysState, new) THEN [pc |-> "write", tgt |-> new]
                  ELSE IF sysState # new /\ t \in CalTasks THEN Refused
                  ELSE NoCall]
    /\ UNCHANGED <<sysState, bootPc, rcVars, swArm, estVars, angVars, escVars,
                   escTaken, calVars, motorVars>>

\* Store the target, whatever the state has become since the load.
SetWrite(t) ==
    /\ call[t].pc = "write"
    /\ MayRun(t)
    /\ sysState' = call[t].tgt
    /\ call' = [call EXCEPT ![t] = NoCall]
    /\ UNCHANGED <<bootPc, rcVars, swArm, estVars, angVars, escVars, escTaken,
                   calVars, motorVars>>

\* The caller is between two calls and may take its next decision.
Ready(t) == call[t] = NoCall /\ MayRun(t)

(***************************************************************************)
(* boot_task.  Until system_boot_late_init spawns the others it is the     *)
(* only task, so everything up to there is one step: set INIT (already     *)
(* INIT: a no-op), take an ESC-calibration request, spawn.                 *)
(***************************************************************************)
\* Mutant of BootLateInit: any marker file, cleared or not, is a request.
BootLateInit_AnyFile(request) ==
    /\ bootPc = "start"
    /\ Ready("boot")
    /\ bootPc' = "eval"
    /\ escTaken' = request
    /\ IF  Allowed(sysState, "ESC_CALIB")
       THEN sysState' = "ESC_CALIB" /\ escPhase' = "HIGH"
       ELSE UNCHANGED <<sysState, escPhase>>
    /\ UNCHANGED <<call, rcVars, swArm, estVars, angVars, escTimer, calVars, motorVars>>

BootLateInit(request) ==
    /\ bootPc = "start"
    /\ Ready("boot")
    /\ bootPc' = "eval"
    /\ escTaken' = request
    /\ IF request /\ Allowed(sysState, "ESC_CALIB")
       THEN sysState' = "ESC_CALIB" /\ escPhase' = "HIGH"
       ELSE UNCHANGED <<sysState, escPhase>>
    /\ UNCHANGED <<call, rcVars, swArm, estVars, angVars, escTimer, calVars, motorVars>>

\* Mutant of BootEvaluate: the verdict is decided on the state sampled at the
\* head of boot_task, when no calibration can have begun.
BootEvaluate_Sampled(clockOk) ==
    /\ bootPc = "eval"
    /\ Ready("boot")
    /\ bootPc' = "done"
    /\ SetCall("boot", IF clockOk THEN "STANDBY" ELSE "FAILSAFE")
    /\ UNCHANGED <<sysState, rcVars, swArm, estVars, angVars, escVars, escTaken,
                   calVars, motorVars>>

\* The final verdict: a failed check wins; otherwise the state is read live,
\* so that a calibration taken by this boot is left alone.
BootEvaluate(clockOk) ==
    /\ bootPc = "eval"
    /\ Ready("boot")
    /\ bootPc' = "done"
    /\ \/ ~clockOk /\ SetCall("boot", "FAILSAFE")
       \/ clockOk /\ sysState # "ESC_CALIB" /\ SetCall("boot", "STANDBY")
       \/ clockOk /\ sysState = "ESC_CALIB" /\ UNCHANGED call
    /\ UNCHANGED <<sysState, rcVars, swArm, estVars, angVars, escVars, escTaken,
                   calVars, motorVars>>

(***************************************************************************)
(* rc_ibus_task: frames drained from the DMA ring, then the watchdog.      *)
(***************************************************************************)
HasSignal == rcAge <= RcLoss

\* Mutants of RcWatchdogActive: a state is forgotten.
RcWatchdogActive_NoInAir(s) == s \in {"STANDBY", "PREARM", "ARMED", "ESC_CALIB"}
RcWatchdogActive_NoEsc(s) == s \in {"STANDBY", "PREARM", "ARMED", "IN_AIR"}

\* States in which a lost link drives FAILSAFE.
RcWatchdogActive(s) == s \in {"STANDBY", "PREARM", "ARMED", "IN_AIR", "ESC_CALIB"}

\* Mutant of DisarmsFrom: the switch is honoured on the ground only.
DisarmsFrom_NotInAir(s) == s \in {"ARMED", "FAILSAFE"}

\* States a released arm switch takes to STANDBY.
DisarmsFrom(s) == s \in {"ARMED", "IN_AIR", "FAILSAFE"}

ArmEngaged == rcSwitch = "up" \/ swArm

\* A complete frame is applied: throttleLow is channel 3 under the arm
\* limit, snapped the throttle-failsafe detector's verdict.  The frame has
\* just been marked valid, so rc_has_signal holds in the preconditions.
RcFrame(throttleLow, snapped) ==
    /\ rcPc \in {"wait", "watch"}
    /\ Ready("rc")
    /\ rcAge' = 0
    /\ rcFail' = snapped
    /\ rcPc' = "esc"
    /\ IF snapped
       THEN SetCall("rc", "FAILSAFE")
       ELSE \/ /\ ArmEngaged /\ sysState = "STANDBY"
               /\ throttleLow /\ ~degraded
               /\ SetCall("rc", "ARMED")
            \/ /\ ArmEngaged /\ sysState = "STANDBY"
               /\ ~(throttleLow /\ ~degraded)
               /\ SetCall("rc", "FAILSAFE")
            \/ /\ ~ArmEngaged /\ DisarmsFrom(sysState)
               /\ SetCall("rc", "STANDBY")
            \/ /\ ~(ArmEngaged /\ sysState = "STANDBY")
               /\ ~(~ArmEngaged /\ DisarmsFrom(sysState))
               /\ UNCHANGED call
    /\ UNCHANGED <<sysState, bootPc, rcSwitch, swArm, estVars, angVars, escVars,
                   escTaken, calVars, motorVars>>

\* esc_calib_finish: motors first, and STANDBY only if still the owner.
EscFinish ==
    /\ escPhase' = "OFF"
    /\ escTimer' = 0
    /\ IF sysState = "ESC_CALIB" THEN SetCall("rc", "STANDBY") ELSE UNCHANGED call

EscAbandon == escPhase' = "OFF" /\ escTimer' = 0 /\ UNCHANGED call

\* esc_calib_rc_step, the end of rc_apply_frame.  closing: the closing gesture
\* has been held long enough.  (Writing a new request, in phase OFF, is in
\* module EscCalib: it changes nothing here.)
RcEscStep(closing) ==
    /\ rcPc = "esc"
    /\ Ready("rc")
    /\ rcPc' = "watch"
    /\ rcFail' = FALSE            \* the frame is done with
    /\ \/ escPhase = "OFF" /\ UNCHANGED <<escVars, call>>
       \/ escPhase # "OFF" /\ rcFail /\ EscFinish
       \/ escPhase # "OFF" /\ ~rcFail /\ sysState # "ESC_CALIB" /\ EscAbandon
       \/ /\ escPhase # "OFF" /\ ~rcFail /\ sysState = "ESC_CALIB"
          /\ \/ escTimer >= EscTimeout /\ EscFinish
             \/ /\ escTimer < EscTimeout /\ escPhase = "HIGH" /\ closing
                /\ escPhase' = "SETTLE" /\ escTimer' = 0
                /\ UNCHANGED call
             \/ /\ escTimer < EscTimeout /\ escPhase = "SETTLE" /\ escTimer >= EscSettle
                /\ EscFinish
             \/ /\ escTimer < EscTimeout
                /\ \/ escPhase = "HIGH" /\ ~closing
                   \/ escPhase = "SETTLE" /\ escTimer < EscSettle
                /\ UNCHANGED <<escVars, call>>
    /\ UNCHANGED <<sysState, bootPc, rcSwitch, rcAge, swArm, estVars, angVars,
                   escTaken, calVars, motorVars>>

\* The semaphore timed out with nothing in the ring.
RcTimeout ==
    /\ rcPc = "wait"
    /\ Ready("rc")
    /\ rcPc' = "watch"
    /\ UNCHANGED <<setVars, bootPc, rcSwitch, rcFail, rcAge, swArm, estVars, angVars,
                   escVars, escTaken, calVars, motorVars>>

\* rc_watchdog_step, the end of every pass of the loop.
RcWatchdog ==
    /\ rcPc = "watch"
    /\ Ready("rc")
    /\ rcPc' = "wait"
    /\ IF ~HasSignal /\ RcWatchdogActive(sysState)
       THEN SetCall("rc", "FAILSAFE")
       ELSE UNCHANGED call
    /\ UNCHANGED <<sysState, bootPc, rcSwitch, rcFail, rcAge, swArm, estVars, angVars,
                   escVars, escTaken, calVars, motorVars>>

(***************************************************************************)
(* The priority-1 tasks that drive the state.                              *)
(***************************************************************************)

\* States in which an estimator failure drives FAILSAFE.
EstimatorSafetyActive(s) == s \in {"STANDBY", "PREARM", "ARMED", "IN_AIR"}

\* attitude_task -> estimator_safety_step.  The task runs on IMU samples, and
\* a calibration diverts them.
EstimatorSafetyStep ==
    /\ ~calibActive
    /\ Ready("att")
    /\ degraded
    /\ EstimatorSafetyActive(sysState)
    /\ SetCall("att", "FAILSAFE")
    /\ UNCHANGED <<sysState, bootPc, rcVars, swArm, estVars, angVars, escVars,
                   escTaken, calVars, motorVars>>

\* vertical_estimator_task: flight_phase_update reports a takeoff only while
\* armed on the ground, a landing only in the air.
VerticalStep ==
    /\ ~calibActive
    /\ Ready("vert")
    /\ \/ sysState = "ARMED" /\ SetCall("vert", "IN_AIR")
       \/ sysState = "IN_AIR" /\ SetCall("vert", "ARMED")
    /\ UNCHANGED <<sysState, bootPc, rcVars, swArm, estVars, angVars, escVars,
                   escTaken, calVars, motorVars>>

\* Mutant of RecoveryExpired: the tick is compared before it is counted.
RecoveryExpired_Late == recTicks > RecoveryTicks

\* ++s_recovery_ticks > recovery_timeout_ticks
RecoveryExpired == recTicks + 1 > RecoveryTicks

\* angle_controller_task: bank-angle upset handling, once per outer tick.
AngleStep(acro) ==
    /\ Ready("ang")
    /\ \/ acro /\ recovering' = FALSE /\ UNCHANGED <<recTicks, call>>
       \/ /\ ~acro /\ sysState = "IN_AIR"
          /\ \/ /\ ~recovering /\ tilt = "over"
                /\ recovering' = TRUE /\ recTicks' = 0 /\ UNCHANGED call
             \/ ~recovering /\ tilt # "over" /\ UNCHANGED <<angVars, call>>
             \/ /\ recovering /\ tilt = "level"
                /\ recovering' = FALSE /\ UNCHANGED <<recTicks, call>>
             \/ /\ recovering /\ tilt # "level" /\ ~RecoveryExpired
                /\ recTicks' = recTicks + 1 /\ UNCHANGED <<recovering, call>>
             \/ /\ recovering /\ tilt # "level" /\ RecoveryExpired
                /\ recovering' = FALSE /\ UNCHANGED recTicks
                /\ SetCall("ang", "FAILSAFE")
       \/ /\ ~acro /\ sysState # "IN_AIR"
          /\ recovering' = FALSE /\ UNCHANGED recTicks
          /\ IF tilt = "over" THEN SetCall("ang", "FAILSAFE") ELSE UNCHANGED call
    /\ UNCHANGED <<sysState, bootPc, rcVars, swArm, estVars, escVars, escTaken,
                   calVars, motorVars>>

\* motor_task: sample the state and choose the outputs (a fresh mix from the
\* rate loop, or the previous outputs when its queue is empty) ...
MotorSample ==
    /\ motorPc = "idle"
    /\ Ready("motor")
    /\ motorPc' = "write"
    /\ \/ /\ sysState = "ESC_CALIB"
          /\ motorOut' = IF escPhase = "HIGH" THEN "max" ELSE "zero"
       \/ /\ sysState \in {"ARMED", "IN_AIR"}
          /\ motorOut' \in {"cmd", motors}
       \/ /\ sysState \notin {"ESC_CALIB", "ARMED", "IN_AIR"}
          /\ motorOut' = "zero"
    /\ UNCHANGED <<setVars, bootPc, rcVars, swArm, estVars, angVars, escVars,
                   escTaken, calVars, motors>>

\* ... and give them to the ESCs.
MotorWrite ==
    /\ motorPc = "write"
    /\ MayRun("motor")
    /\ motorPc' = "idle"
    /\ motors' = motorOut
    /\ motorOut' = "zero"
    /\ UNCHANGED <<setVars, bootPc, rcVars, swArm, estVars, angVars, escVars,
                   escTaken, calVars>>

(***************************************************************************)
(* comm_processor_task: the ground station's commands.                     *)
(***************************************************************************)
CommOthers == UNCHANGED <<sysState, bootPc, rcVars, estVars, angVars, escVars,
                          escTaken, motorVars>>

Received(cmd) == cmd \in GcsCommands /\ Ready("comm")

\* CMD_ARM and CMD_DISARM only move the latch; rc_apply_frame acts on it.
CommArm ==
    /\ Received("arm")
    /\ swArm' = TRUE
    /\ CommOthers /\ UNCHANGED <<call, calVars>>

CommDisarm ==
    /\ Received("disarm")
    /\ swArm' = FALSE
    /\ CommOthers /\ UNCHANGED <<call, calVars>>

Calibrating == calibActive \/ calibTask # "none"

\* _bmx160_calibrate_start: refuse when busy, otherwise spawn a task; the heap
\* may have no room for it.  The dispatcher discards the status.
CalibrateStart ==
    \/ Calibrating /\ UNCHANGED <<calPc, calibTask>>
    \/ ~Calibrating /\ HeapMayFail /\ UNCHANGED <<calPc, calibTask>>
    \/ /\ ~Calibrating
       /\ \E c \in CalTasks :
            /\ calPc[c] = "none"
            /\ calPc' = [calPc EXCEPT ![c] = "spawned"]
            /\ calibTask' = c

\* on_cmd_calibrate_imu, start: refused outside STANDBY and FAILSAFE.
CommCalibrate ==
    /\ Received("calibrate")
    /\ sysState \in {"STANDBY", "FAILSAFE"}
    /\ CalibrateStart
    /\ CommOthers
    /\ UNCHANGED <<call, swArm, calibActive, calibCancel>>

\* Command 0x0009, cancel calibration; with nothing running it sets STANDBY.
CommCancel ==
    /\ Received("cancel")
    /\ IF Calibrating
       THEN /\ calibCancel' = TRUE
            /\ calibTask' = "none"
            /\ UNCHANGED call
       ELSE /\ SetCall("comm", "STANDBY")
            /\ UNCHANGED <<calibCancel, calibTask>>
    /\ CommOthers
    /\ UNCHANGED <<swArm, calPc, calibActive>>

(***************************************************************************)
(* calibration_task (src/driver/sensor/bmx160.c).                          *)
(***************************************************************************)
CalOthers == UNCHANGED <<sysState, bootPc, rcVars, swArm, estVars, angVars, escVars,
                         escTaken, calibTask, motorVars>>

CalGoto(c, pc) == calPc' = [calPc EXCEPT ![c] = pc]

\* Mutant of CalEnter: samples are diverted before the transition is accepted.
CalEnter_EarlyLatch(c) ==
    /\ calPc[c] = "spawned"
    /\ Ready(c)
    /\ calibCancel' = FALSE
    /\ calibActive' = TRUE
    /\ SetCall(c, "CALIBRATING")
    /\ CalGoto(c, "enter")
    /\ CalOthers

\* First steps of the task: clear a stale cancel, ask for CALIBRATING.
CalEnter(c) ==
    /\ calPc[c] = "spawned"
    /\ Ready(c)
    /\ calibCancel' = FALSE
    /\ SetCall(c, "CALIBRATING")
    /\ CalGoto(c, "enter")
    /\ CalOthers /\ UNCHANGED calibActive

CalEntered(c) ==
    /\ calPc[c] = "enter"
    /\ Ready(c)
    /\ calibActive' = TRUE
    /\ CalGoto(c, "run")
    /\ CalOthers /\ UNCHANGED <<call, calibCancel>>

CalRefused(c) ==
    /\ calPc[c] = "enter"
    /\ call[c] = Refused
    /\ MayRun(c)
    /\ call' = [call EXCEPT ![c] = NoCall]
    /\ CalGoto(c, "done")
    /\ CalOthers /\ UNCHANGED <<calibActive, calibCancel>>

\* The capture ends: samples collected and saved, a fit or a capture failed,
\* or the cancel flag was seen.
CalCaptureEnds(c) ==
    /\ calPc[c] = "run"
    /\ Ready(c)
    /\ CalGoto(c, "done")
    /\ CalOthers /\ UNCHANGED <<call, calibActive, calibCancel>>

\* done: stop diverting samples and restore STANDBY, however it got here.
CalTeardown(c) ==
    /\ calPc[c] = "done"
    /\ Ready(c)
    /\ calibActive' = FALSE
    /\ SetCall(c, "STANDBY")
    /\ CalGoto(c, "leave")
    /\ CalOthers /\ UNCHANGED calibCancel

CalExit(c) ==
    /\ calPc[c] = "leave"
    /\ call[c] \in {NoCall, Refused}
    /\ MayRun(c)
    /\ calibCancel' = FALSE
    /\ call' = [call EXCEPT ![c] = NoCall]
    /\ CalGoto(c, "none")
    /\ CalOthers /\ UNCHANGED calibActive

(***************************************************************************)
(* The world.                                                              *)
(***************************************************************************)
PilotSwitch ==
    /\ rcSwitch' = IF rcSwitch = "up" THEN "down" ELSE "up"
    /\ UNCHANGED <<setVars, bootPc, rcPc, rcFail, rcAge, swArm, estVars, angVars,
                   escVars, escTaken, calVars, motorVars>>

\* estimator_mark_sample raises or clears s_degraded (not while diverted).
EstimatorHealth ==
    /\ ~calibActive
    /\ degraded' = ~degraded
    /\ UNCHANGED <<setVars, bootPc, rcVars, swArm, tilt, angVars, escVars, escTaken,
                   calVars, motorVars>>

\* A new attitude estimate reaches the angle controller (not while diverted).
Attitude ==
    /\ "ang" \in Active
    /\ ~calibActive
    /\ tilt' \in {"level", "mid", "over"} \ {tilt}
    /\ UNCHANGED <<setVars, bootPc, rcVars, swArm, degraded, angVars, escVars,
                   escTaken, calVars, motorVars>>

Tick ==
    /\ rcAge' = IF rcAge <= RcLoss THEN rcAge + 1 ELSE rcAge
    /\ escTimer' = IF escPhase # "OFF" /\ escTimer < EscTimeout + EscSettle
                   THEN escTimer + 1 ELSE escTimer
    /\ UNCHANGED <<setVars, bootPc, rcPc, rcSwitch, rcFail, swArm, estVars, angVars,
                   escPhase, escTaken, calVars, motorVars>>

----------------------------------------------------------------------------
Init ==
    /\ sysState = "INIT"          \* system_state_init, before the scheduler
    /\ call = [t \in Tasks |-> NoCall]
    /\ bootPc = "start"
    /\ rcPc = "wait" /\ rcSwitch \in {"up", "down"} /\ rcFail = FALSE
    /\ rcAge = 0                  \* seeded when rc_ibus_task starts
    /\ swArm = FALSE
    /\ degraded = FALSE /\ tilt = "level"
    /\ recovering = FALSE /\ recTicks = 0
    /\ escPhase = "OFF" /\ escTimer = 0 /\ escTaken = FALSE
    /\ calPc = [c \in CalTasks |-> "none"]
    /\ calibTask = "none" /\ calibActive = FALSE /\ calibCancel = FALSE
    /\ motorPc = "idle" /\ motorOut = "zero" /\ motors = "zero"

SetStep(t) == SetCheck(t) \/ SetWrite(t)

BootTask == \/ \E request \in EscRequests : BootLateInit(request)
            \/ \E clockOk \in BOOLEAN : BootEvaluate(clockOk)
RcTask == \/ \E throttleLow, snapped \in BOOLEAN : RcFrame(throttleLow, snapped)
          \/ \E closing \in BOOLEAN : RcEscStep(closing)
          \/ RcTimeout
          \/ RcWatchdog
AngleTask == \E acro \in AcroInputs : AngleStep(acro)
MotorTask == MotorSample \/ MotorWrite
CommTask  == CommArm \/ CommDisarm \/ CommCalibrate \/ CommCancel
CalTask(c) == \/ CalEnter(c) \/ CalEntered(c) \/ CalRefused(c)
              \/ CalCaptureEnds(c) \/ CalTeardown(c) \/ CalExit(c)
World == PilotSwitch \/ EstimatorHealth \/ Attitude \/ Tick

Next == \/ \E t \in Tasks : SetStep(t)
        \/ BootTask \/ RcTask \/ EstimatorSafetyStep \/ VerticalStep
        \/ AngleTask \/ MotorTask \/ CommTask
        \/ \E c \in CalTasks : CalTask(c)
        \/ World

Spec == Init /\ [][Next]_vars

(***************************************************************************)
(* Fairness: time passes, and every task that keeps becoming runnable is   *)
(* eventually run.  Strong, because a priority-0 task is held up whenever  *)
(* a priority-1 task is inside a call; those tasks are periodic and block, *)
(* so they leave gaps.  Nothing is assumed of the pilot, the ground        *)
(* station, the attitude, or whether frames arrive.                        *)
(***************************************************************************)
Fairness ==
    /\ WF_vars(Tick)
    /\ SF_vars(BootTask \/ SetStep("boot"))
    /\ SF_vars(RcTask \/ SetStep("rc"))
    /\ SF_vars(SetStep("comm"))
    /\ SF_vars(EstimatorSafetyStep \/ SetStep("att"))
    /\ SF_vars(SetStep("vert"))
    /\ SF_vars(SetStep("ang"))
    /\ SF_vars(MotorTask)

FairSpec == Spec /\ Fairness

----------------------------------------------------------------------------
(***************************************************************************)
(* Properties.                                                             *)
(***************************************************************************)
Flying == {"ARMED", "IN_AIR"}

\* SYS-SAFE-006: every change of _system_current_status is a row of
\* k_allowed_transitions (or goes to FAILSAFE), as seen by an observer of the
\* word, not by the task that wrote it.
TableRespected == [][Allowed(sysState, sysState')]_sysState

\* On the target, where only a higher priority preempts, one off-table change
\* is left: rc_apply_frame stores ARMED over a FAILSAFE that a control task
\* stored between system_state_set's load and its store.
OnlyArmOverwritesFailsafe ==
    [][\/ Allowed(sysState, sysState')
       \/ sysState = "FAILSAFE" /\ sysState' = "ARMED"]_sysState

\* ESC_CALIB is isolated from flight under every schedule: it is entered only
\* before boot_task has spawned the other tasks, and no task, however late its
\* store, takes it anywhere but STANDBY or FAILSAFE (state.c: "the only way out
\* is back to STANDBY or to FAILSAFE").  Of those, STANDBY is never stored by the
\* boot's own verdict: boot_task reads the state live so that the calibration it
\* has just begun is left alone (boot.c:104-120).
EscCalibIsolated ==
    [][/\ sysState' = "ESC_CALIB" => bootPc = "start"
       /\ sysState = "ESC_CALIB" => sysState' \in {"STANDBY", "FAILSAFE"}
       /\ sysState = "ESC_CALIB" /\ sysState' = "STANDBY"
            => call'["boot"] = call["boot"]]_sysState

\* Full throttle reaches the ESCs only in a boot that took a request from the
\* card (esc_calib_boot_init), whatever motor_task replays.
FullThrottleNeedsRequest == motors = "max" => escTaken

\* Samples are diverted from the estimator only while a calibration task exists
\* that will restore them (calibration_task: "a rejected entry never strands
\* the diversion on").
DiversionNotStranded ==
    calibActive => \E c \in CalTasks : calPc[c] \in {"run", "done"}

\* SYS-SAFE-002: if the RC link is lost for good, the motors stop for good,
\* whatever the ground station, the estimator and the detector do.
RcLossStopsMotors == <>[](~HasSignal) => <>[](motors = "zero")

\* SYS-SAFE-003: if the estimator stays degraded, flight outputs stop for good.
DegradedStopsFlight == <>[]degraded => <>[](motors # "cmd")

\* With the arm switch down and the software latch clear, flight outputs stop
\* for good, airborne or not, frames or no frames.
DisarmStopsFlight == <>[](rcSwitch = "down" /\ ~swArm) => <>[](motors # "cmd")

\* ESC calibration always ends, for good: the gesture comes, or the timeout, or
\* the link dies, or the frames are failsafe frames.  (esc_calib_rc_step runs
\* only on frames, so without a link it is the watchdog that must end it.)
EscCalibEnds == <>[](sysState # "ESC_CALIB")

\* Flight ends for each of the other two reasons as well: a degraded estimator
\* (sensor_fusion.c) and a released switch (rc_task.c).
FlightEnds == DegradedStopsFlight /\ DisarmStopsFlight
============================================================================
