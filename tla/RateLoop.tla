------------------------------ MODULE RateLoop ------------------------------
(***************************************************************************)
(* The inner loop: the 1 kHz rate task (control/angle_rate_controller.c)   *)
(* with its PID (pid.c), the control-allocation mixer (mixer.c), the motor *)
(* FIFO and the motor task (actuator/motor.c), the dynamic gyro notch      *)
(* (dsp/gyro_notch.c) and the system-identification excitation (sysid.c)   *)
(* with its host tool (tools/sysid/sysid_excite.py).                       *)
(*                                                                         *)
(* One rate tick is one unit of time and is atomic: the rate task has the  *)
(* higher priority.  The command processor runs below it, so a command     *)
(* that writes several variables may be cut by any number of ticks.        *)
(* Efforts and throttles are in twentieths of full scale.  The ESC_CALIB   *)
(* branch of the motor task is part of FlightState.                        *)
(***************************************************************************)
EXTENDS Integers, Sequences, FiniteSets

CONSTANTS
    FifoSize,     \* MOTOR_QUEUE_SIZE
    MotorTicks,   \* v_delay(2) of the motor task
    FrameTicks,   \* rate ticks between two decisions of the RC task
    MaxEpochs,    \* armings and disarmings together
    Errors,       \* the signs of the rate error that are exercised
    Throttles,    \* the collectives the angle task may ask for
    Yaws,         \* the yaw demands that are exercised
    RunTicks,     \* ticks of an excitation
    CapSize,      \* SYSID_CAP_N
    Hop,          \* ticks between two analyser frames
    MaxCommands   \* ground commands

ASSUME RateAssumption ==
    /\ FifoSize \in Nat \ {0} /\ MotorTicks \in Nat \ {0} /\ FrameTicks \in Nat \ {0}
    /\ MaxEpochs \in Nat /\ RunTicks \in Nat \ {0} /\ CapSize \in Nat \ {0}
    /\ Errors \subseteq -1..1 /\ Throttles \subseteq 0..20 /\ Yaws \subseteq -20..20 /\ MaxCommands \in Nat

Motors == 1..4
Axes == 0..2
ASSUME HopAssumption == Hop \in Nat /\ Hop >= Cardinality(Axes)

Kp == 8            \* effort of the proportional term for a unit error
IMax == 1          \* i_max
OutMax == 20       \* out_max, full scale
IdleFloor == 3     \* MOTOR_IDLE_FLOOR
Gate == 6          \* RATE_PID_INTEGRATE_THROTTLE
MinArmed == 2      \* MIN_ARMED_THROTTLE
FullAuthority == 4 \* PID_FULL_AUTHORITY_THROTTLE
AmpU == 6          \* SYSID_MAX_AMP_U
AmpDps == 40       \* SYSID_MAX_AMP_DPS, taken as an effort

VARIABLES
    sys,     \* STANDBY stands for every disarmed state
    epoch,   \* history: changes between armed and disarmed, odd while armed
    rc,      \* ticks since the RC task last acted, up to FrameTicks
    mot,     \* ticks since the motor task last ran
    fifo,    \* motor_angle_rate2motor_queue: the epoch of each command in it
    stale,   \* history: commands of an earlier epoch driven in this one
    pid,     \* one rate PID with prev_state
    mixer,   \* airmode, idle floor, and whether Bpinv belongs to B
    comm,    \* where the command processor is in a command
    cmds,    \* commands sent so far
    sid,     \* s_active, s_mode, the amplitude cap in force, ticks left, run
    cap,     \* s_cap: the run of each captured sample
    decim,   \* s_decim
    dump,    \* s_dump_active and s_dump_pos
    host,    \* the host tool: collecting, and the runs whose samples it holds
    notch,   \* the gyro notch
    lost     \* history: an analyser frame was overwritten before its retune

flight == <<sys, epoch, rc>>
drive == <<mot, fifo, stale>>
sysid == <<sid, cap, decim, dump, host>>
vars == <<flight, drive, pid, mixer, comm, cmds, sysid, notch, lost>>

Armed(s) == s \in {"ARMED", "IN_AIR"}
Clamp(v, lo, hi) == IF v < lo THEN lo ELSE IF v > hi THEN hi ELSE v
Sign(v) == IF v > 0 THEN 1 ELSE IF v < 0 THEN -1 ELSE 0
Least(S) == CHOOSE x \in S : \A y \in S : x <= y
Greatest(S) == CHOOSE x \in S : \A y \in S : x >= y
\* Scaling toward zero, as a float product would for a differential.
Scale(v, num, den) == Sign(v) * ((Sign(v) * v * num) \div den)
-----------------------------------------------------------------------------
(* The mixer: for a quad-X the normalised pseudo-inverse is the sign matrix. *)

MixRoll == <<-1, -1, 1, 1>>
MixPitch == <<1, -1, -1, 1>>
MixYaw == <<-1, 1, -1, 1>>
MixThrust == <<1, 1, 1, 1>>
Shift(m, k, dir) == [i \in Motors |-> m[i] + k * dir[i]]
Along(m, dir) == m[1] * dir[1] + m[2] * dir[2] + m[3] * dir[3] + m[4] * dir[4]

\* desat_gain: the largest corrections either way, added.
DesatGain(m, dir, lo) ==
    LET low  == {(lo - m[i]) * dir[i] : i \in {j \in Motors : m[j] < lo}}
        high == {(OutMax - m[i]) * dir[i] : i \in {j \in Motors : m[j] > OutMax}}
        ks   == {0} \cup low \cup high
    IN  Least(ks) + Greatest(ks)

\* Airmode DISABLED: keep the collective, shrink the differential to fit.
Shrunk(m, thr) ==
    LET mn == Least({m[i] : i \in Motors})
        mx == Greatest({m[i] : i \in Motors})
        fit(num, den) == [i \in Motors |-> thr + Scale(m[i] - thr, num, den)]
        under == mn < 0 /\ (mx <= OutMax \/ thr * (mx - thr) <= (OutMax - thr) * (thr - mn))
    IN  IF under THEN fit(thr, thr - mn)
        ELSE IF mx > OutMax THEN fit(OutMax - thr, mx - thr) ELSE m

\* Airmode RP: shift the collective, then the yaw.
Desaturated(m, lo) ==
    LET t == Shift(m, DesatGain(m, MixThrust, lo), MixThrust)
    IN  Shift(t, DesatGain(t, MixYaw, lo), MixYaw)

\* mixer_allocate: the four motor commands for a wrench.
Allocate(mx, roll, pitch, yaw, thr) ==
    LET nominal == [i \in Motors |-> roll * MixRoll[i] + pitch * MixPitch[i]
                                     + yaw * MixYaw[i] + thr]
        m == IF mx.air = "DISABLED" THEN Shrunk(nominal, thr)
             ELSE Desaturated(nominal, mx.floor)
    IN  [i \in Motors |-> Clamp(m[i], mx.floor, OutMax)]

Flying == [air |-> "RP", floor |-> IdleFloor, ok |-> TRUE]
Resetting == [air |-> "DISABLED", floor |-> 0, ok |-> TRUE]

\* Which way the delivered roll fell short of the demand: the sign of
\* w - realized, for every wrench of an instance.
Efforts == -(OutMax + AmpDps)..(OutMax + AmpDps)
Short ==
    [w \in {"RP", "DISABLED"} \X Efforts \X Yaws \X Throttles |->
        LET m == Allocate(IF w[1] = "RP" THEN Flying ELSE Resetting, w[2], 0, w[3], w[4])
        IN  Sign(4 * w[2] - Along(m, MixRoll))]
-----------------------------------------------------------------------------
Init ==
    /\ sys = "STANDBY" /\ epoch = 0 /\ rc = FrameTicks
    /\ mot = 0 /\ fifo = <<>> /\ stale = 0
    /\ pid = [i |-> 0, sat |-> 0, armed |-> FALSE, wound |-> 0]
    /\ mixer = Flying /\ comm = "idle" /\ cmds = 0
    /\ sid = [active |-> FALSE, mode |-> "SP", amp |-> 0, left |-> 0, run |-> 0]
    /\ cap = <<>> /\ decim = 0 /\ dump = [on |-> FALSE, pos |-> 0]
    /\ host = [on |-> FALSE, got |-> {}]
    /\ notch = [enabled |-> FALSE, engaged |-> FALSE, hop |-> 0, ready |-> {},
                turn |-> 0, tuned |-> {}]
    /\ lost = FALSE

(* The parts of one tick. *)

IntoLimit_Never(err) == FALSE
\* Conditional integration: the mixer was short in the direction of the error.
IntoLimit(err) == pid.sat * err > 0

\* v_pid_reset on the disarmed -> armed edge, by what the last tick saw.
Reset == Armed(sys) /\ ~pid.armed

\* v_pid_update, after the reset and the low-throttle hold.
Integral(err, thr) ==
    LET i0 == IF Reset \/ thr < Gate THEN 0 ELSE pid.i
        i1 == Clamp(i0 + err, -IMax, IMax)
        pi == Kp * err + i1
    IN  [out |-> Clamp(pi, -OutMax, OutMax),
         i |-> IF (~Reset /\ IntoLimit(err)) \/ pi <= -OutMax \/ pi >= OutMax
               THEN i0 ELSE i1]

\* The authority ramp, floored at full authority in flight.
Ramped(u, thr) ==
    LET t == IF sys = "IN_AIR" /\ thr < FullAuthority THEN FullAuthority ELSE thr
    IN  IF t < MinArmed THEN 0
        ELSE IF t < FullAuthority THEN Scale(u, t - MinArmed, FullAuthority - MinArmed)
        ELSE u

\* sysid_step: abort on a limit, end at the duration.
SysidStepped(hot) ==
    IF ~sid.active THEN sid
    ELSE IF hot \/ sid.left = 1 THEN [sid EXCEPT !.active = FALSE]
    ELSE [sid EXCEPT !.left = @ - 1]

\* sysid_capture: every second sample of an active run, while there is room.
Captured(s) ==
    IF s.active /\ decim = 1 /\ Len(cap) < CapSize THEN Append(cap, s.run) ELSE cap

\* The axis served next: the first ready one from the cursor on, cyclically.
ServeFrom(ready) ==
    LET ahead == {a \in ready : a >= notch.turn}
    IN  IF ahead # {} THEN {Least(ahead)}
        ELSE IF ready # {} THEN {Least(ready)} ELSE {}

\* The disengage edge drops all tuning and every pending retune.
Disengaged ==
    IF notch.engaged THEN [notch EXCEPT !.engaged = FALSE, !.ready = {}, !.tuned = {}]
    ELSE notch

\* gyro_notch_apply for every axis, then gyro_notch_service.
NotchTicked ==
    LET framed == notch.enabled /\ notch.hop = Hop - 1
        ready == IF framed THEN Axes ELSE notch.ready
        now == ServeFrom(ready)
    IN  IF ~notch.enabled
        THEN Disengaged
        ELSE [notch EXCEPT !.engaged = TRUE, !.hop = (@ + 1) % Hop,
                           !.ready = ready \ now,
                           !.tuned = @ \cup now,
                           !.turn = IF now = {} THEN @
                                    ELSE (Least(now) + 1) % 3]

\* OVERWRITE: a full queue loses its oldest command.
Pushed(q, c) == Append(IF Len(q) = FifoSize THEN Tail(q) ELSE q, c)

Push_Always == TRUE
\* Only an armed loop feeds the motors.
Push == Armed(sys)

\* One iteration of angle_rate_controller_task.  err is the rate error's sign,
\* inj the chirp's, hot an attitude or rate beyond the abort limits.
RateTick(err, thr, yaw, inj, hot) ==
    LET s == SysidStepped(hot)
        live == sid.active /\ s.active
        e == IF live /\ s.mode = "SP" THEN Clamp(err + inj, -1, 1) ELSE err
        p == Integral(e, thr)
        u == Ramped(p.out + (IF live /\ s.mode = "U" THEN s.amp * inj ELSE 0), thr)
    IN  /\ mot < MotorTicks
        /\ (~sid.active => inj = 0 /\ ~hot) /\ (hot => inj = 0 /\ err = 0)
        /\ (yaw # 0 => thr >= Gate)
        /\ rc' = IF rc < FrameTicks THEN rc + 1 ELSE rc
        /\ mot' = mot + 1
        /\ fifo' = IF Push THEN Pushed(fifo, epoch) ELSE fifo
        /\ pid' \in {[i |-> p.i, sat |-> x, armed |-> Armed(sys),
                      wound |-> Clamp(pid.wound + e * e, 0, IMax)]
                      : x \in IF mixer.ok THEN {Short[<<mixer.air, u, yaw, thr>>]} ELSE -1..1}
        /\ sid' = s
        /\ cap' = Captured(s)
        /\ decim' = IF s.active THEN 1 - decim ELSE decim
        /\ notch' = NotchTicked
        /\ lost' = (lost \/ (notch.enabled /\ notch.hop = Hop - 1 /\ notch.ready # {}))
        /\ UNCHANGED <<sys, epoch, stale, mixer, comm, cmds, dump, host>>

\* One iteration of motor_task: the oldest command, or the last one again.
MotorTask ==
    /\ mot = MotorTicks
    /\ mot' = 0
    /\ fifo' = IF fifo = <<>> THEN fifo ELSE Tail(fifo)
    /\ stale' = IF Armed(sys) /\ fifo # <<>> /\ Head(fifo) # epoch THEN stale + 1
                ELSE stale
    /\ UNCHANGED <<flight, pid, mixer, comm, cmds, sysid, notch, lost>>
-----------------------------------------------------------------------------
(* Flight state: the RC task arms and disarms, the vertical task reports      *)
(* takeoff and landing.                                                       *)

Arm ==
    /\ sys = "STANDBY" /\ rc = FrameTicks /\ epoch < MaxEpochs
    /\ sys' = "ARMED" /\ epoch' = epoch + 1 /\ rc' = 0 /\ stale' = 0
    /\ pid' = [pid EXCEPT !.wound = 0]
    /\ UNCHANGED <<mot, fifo, mixer, comm, cmds, sysid, notch, lost>>

Disarm ==
    /\ Armed(sys) /\ rc = FrameTicks /\ epoch < MaxEpochs
    /\ sys' = "STANDBY" /\ epoch' = epoch + 1 /\ rc' = 0
    /\ UNCHANGED <<drive, pid, mixer, comm, cmds, sysid, notch, lost>>

TakeoffOrLanding ==
    /\ Armed(sys)
    /\ sys' = IF sys = "ARMED" THEN "IN_AIR" ELSE "ARMED"
    /\ UNCHANGED <<epoch, rc, drive, pid, mixer, comm, cmds, sysid, notch, lost>>
-----------------------------------------------------------------------------
(* Commands, on the command processor, which finishes one before the next.    *)

Command == comm = "idle" /\ cmds < MaxCommands /\ cmds' = cmds + 1

\* angle_rate_controller_set_motor_geometry: mixer_set_geometry first switches
\* the airmode off and the floor to zero; a singular layout keeps the old
\* pseudo-inverse beside the new matrix.  The matrices change at once here: a
\* tick amid the update of the pseudo-inverse is left out.
SetGeometry(good) ==
    /\ Command /\ comm' = "geometry"
    /\ mixer' = [air |-> "DISABLED", floor |-> 0, ok |-> good]
    /\ UNCHANGED <<flight, drive, pid, sysid, notch, lost>>

\* ... then mixer_sync restores both.
MixerSync == [mixer EXCEPT !.air = "RP", !.floor = IdleFloor]

GeometryDone ==
    /\ comm = "geometry" /\ comm' = "idle" /\ mixer' = MixerSync
    /\ UNCHANGED <<flight, drive, pid, cmds, sysid, notch, lost>>

\* The host tool waits out a run without looking at samples, then collects
\* what its dump requests bring, in as many passes as it takes.
HostWaits == [on |-> FALSE, got |-> {}]
HostCollects(run) == [host EXCEPT !.got = IF host.on THEN @ \cup {run} ELSE @]

\* CMD_SYSID_EXCITE by the host tool, which then ignores samples until its
\* first dump request: sysid_start writes axis and mode first,
ExciteSelect(mode) ==
    /\ Command /\ comm' = "limits"
    /\ sid' = [sid EXCEPT !.mode = mode, !.run = @ + 1]
    /\ host' = HostWaits
    /\ UNCHANGED <<flight, drive, pid, mixer, cap, decim, dump, notch, lost>>

\* then the clamped amplitude and the times,
ExciteLimits ==
    /\ comm = "limits" /\ comm' = "start"
    /\ sid' = [sid EXCEPT !.amp = IF sid.mode = "U" THEN AmpU ELSE AmpDps,
                          !.left = RunTicks]
    /\ UNCHANGED <<flight, drive, pid, mixer, cmds, cap, decim, dump, host, notch, lost>>

Restarted_KeepsCapture == [cap |-> cap, dump |-> dump]
\* what a new run discards,
Restarted == [cap |-> <<>>, dump |-> [dump EXCEPT !.on = FALSE]]

\* and the run starts.
ExciteStart ==
    /\ comm = "start" /\ comm' = "idle"
    /\ sid' = [sid EXCEPT !.active = TRUE]
    /\ cap' = Restarted.cap /\ dump' = Restarted.dump /\ decim' = 0
    /\ UNCHANGED <<flight, drive, pid, mixer, cmds, host, notch, lost>>

ExciteAbort ==
    /\ comm = "idle" /\ sid.active
    /\ sid' = [sid EXCEPT !.active = FALSE]
    /\ UNCHANGED <<flight, drive, pid, mixer, comm, cmds, cap, decim, dump, host, notch, lost>>

\* CMD_SYSID_DUMP: the host tool waits out the run before it asks.
DumpRequest ==
    /\ comm = "idle" /\ ~sid.active
    /\ dump' = [on |-> cap # <<>>, pos |-> 0] /\ host' = [host EXCEPT !.on = TRUE]
    /\ UNCHANGED <<flight, drive, pid, mixer, comm, cmds, sid, cap, decim, notch, lost>>

\* The telemetry task streams a chunk; the link may lose it.
DumpChunk(arrives) ==
    /\ dump.on
    /\ LET more == dump.pos < Len(cap)
           next == dump.pos + (IF more THEN 1 ELSE 0)
       IN  /\ dump' = [on |-> next < Len(cap), pos |-> next]
           /\ host' = IF more /\ arrives THEN HostCollects(cap[next]) ELSE host
    /\ UNCHANGED <<flight, drive, pid, mixer, comm, cmds, sid, cap, decim, notch, lost>>

\* CMD_SET_GYRO_NOTCH.
SetNotch ==
    /\ Command
    /\ notch' = [notch EXCEPT !.enabled = ~@]
    /\ UNCHANGED <<flight, drive, pid, mixer, comm, sysid, lost>>
-----------------------------------------------------------------------------
Tick ==
    \E err \in Errors, thr \in Throttles, yaw \in Yaws, inj \in {0, 1},
       hot \in BOOLEAN : RateTick(err, thr, yaw, inj, hot)

Next ==
    \/ Tick \/ MotorTask
    \/ Arm \/ Disarm \/ TakeoffOrLanding
    \/ \E good \in BOOLEAN : SetGeometry(good)
    \/ GeometryDone
    \/ \E mode \in {"SP", "U"} : ExciteSelect(mode)
    \/ ExciteLimits \/ ExciteStart \/ ExciteAbort
    \/ DumpRequest
    \/ \E arrives \in BOOLEAN : DumpChunk(arrives)
    \/ SetNotch

Spec == Init /\ [][Next]_vars
-----------------------------------------------------------------------------
\* Every variable holds a value of its kind.
TypeOK ==
    /\ sys \in {"STANDBY", "ARMED", "IN_AIR"} /\ epoch \in 0..MaxEpochs
    /\ Armed(sys) <=> epoch % 2 = 1
    /\ rc \in 0..FrameTicks /\ mot \in 0..MotorTicks
    /\ fifo \in Seq(0..MaxEpochs) /\ Len(fifo) <= FifoSize
    /\ stale \in 0..FifoSize
    /\ pid \in [i : -IMax..IMax, sat : -1..1, armed : BOOLEAN, wound : 0..IMax]
    /\ mixer \in [air : {"RP", "DISABLED"}, floor : {0, IdleFloor}, ok : BOOLEAN]
    /\ comm \in {"idle", "geometry", "limits", "start"} /\ cmds \in 0..MaxCommands
    /\ sid \in [active : BOOLEAN, mode : {"SP", "U"}, amp : {0, AmpU, AmpDps},
                left : 0..RunTicks, run : 0..MaxCommands]
    /\ cap \in Seq(0..MaxCommands) /\ Len(cap) <= CapSize /\ decim \in 0..1
    /\ dump \in [on : BOOLEAN, pos : 0..CapSize] /\ host.got \subseteq 0..MaxCommands
    /\ notch \in [enabled : BOOLEAN, engaged : BOOLEAN, hop : 0..(Hop - 1),
                  ready : SUBSET Axes, turn : Axes, tuned : SUBSET Axes]
    /\ lost \in BOOLEAN

\* Between two decisions of the RC task the motor task runs at least this often.
DrainRuns == (FrameTicks - 1) \div MotorTicks

\* A command computed before the present arming is driven at most as often as
\* the motor task could not drain the FIFO between two decisions of the RC
\* task ("Pushing only while armed eliminates that stale slot").
StaleBounded == stale > 0 => stale + DrainRuns <= FifoSize

\* The integrator of an armed loop holds no more than this arming's errors
\* could put there: nothing winds up before arming or across a disarm.
IntegratorHonest == pid.armed => pid.i \in -pid.wound..pid.wound

\* While the motors deliver less than one direction's demand, the integrator
\* does not wind further that way; the error of one arming is not carried to
\* the next, where the shortage is forgotten too.
NoWindupWhileShort ==
    [][~Reset => ~(/\ pid'.i * pid.sat > 0
                   /\ pid'.i * pid'.i > pid.i * pid.i)]_vars

MixerWhole ==
    \A roll \in {-9, -5, -1, 0, 4, 8}, pitch \in {-6, 0, 3, 9}, yaw \in {-7, 0, 5},
       thr \in 0..20 :
        LET m == Allocate(Flying, roll, pitch, yaw, thr)
        IN  /\ \A i \in Motors : m[i] \in IdleFloor..OutMax
            /\ yaw = 0 /\ 2 * (Sign(roll) * roll + Sign(pitch) * pitch) <= OutMax - IdleFloor
               => Along(m, MixRoll) = 4 * roll /\ Along(m, MixPitch) = 4 * pitch

\* Without a yaw demand the mixer delivers roll and pitch whole at every
\* collective as long as they fit the motor range at all, and no demand drives
\* a motor out of that range (mixer.c, MIXER_AIRMODE_RP).
MixerKeepsRollPitch == mixer = Flying => MixerWhole

\* After a geometry command the loop is back in the airmode and on the idle
\* floor it flies with, however many ticks cut the command.
MixerRestored == comm # "geometry" => mixer.air = "RP" /\ mixer.floor = IdleFloor

\* Between commands the capture buffer holds samples of one run, the last one
\* started, even when that run replaced one still active.
CaptureOneRun == comm = "idle" => \A k \in DOMAIN cap : cap[k] = sid.run

\* What the host tool reassembles from the dump, over a link that loses chunks
\* and with dumps repeated, comes from one run.
DumpOneRun == Cardinality(host.got) <= 1

\* One retune per tick keeps up with the three analysers, and a notch that was
\* switched off keeps no tuning and no pending frame.
NotchServed ==
    /\ ~lost
    /\ ~notch.engaged => notch.ready = {} /\ notch.tuned = {}

\* What reaches the motors is recent and keeps roll and pitch, through armings,
\* saturation and changes of geometry.
OutputsSound == TypeOK /\ StaleBounded /\ MixerKeepsRollPitch /\ MixerRestored

\* The integrators hold only what this arming put there, and nothing is added
\* into an axis the mixer could not deliver.
NoWindup == []IntegratorHonest /\ NoWindupWhileShort

\* Whatever command cuts in, a capture and a dump are of one run, and every
\* frame the analyser completed is served.
CapturesWhole == CaptureOneRun /\ DumpOneRun /\ NotchServed
=============================================================================
