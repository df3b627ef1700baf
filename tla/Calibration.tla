---------------------------- MODULE Calibration -----------------------------
(***************************************************************************)
(* The IMU calibration of the BMX160 driver: the commands that start and   *)
(* cancel it, the task that captures samples, fits and commits, and the    *)
(* IMU task, which diverts its samples to the capture ring meanwhile.      *)
(*                                                                         *)
(* The calibration task has the lowest priority, so the IMU task and the   *)
(* command task may run between any two of its steps.  The handle is not   *)
(* the task's: a cancel frees it at once, and the next start may overlap   *)
(* with the teardown of the cancelled run.                                 *)
(*                                                                         *)
(* A sample is the orientation it was taken in, or "moving".  A fit is its *)
(* run number; each target's stored calibration has two halves (offset and *)
(* matrix, or the first and the other axes) written one after the other.   *)
(* The numeric fits may succeed or fail, except that the six-point fit     *)
(* needs every side.                                                       *)
(***************************************************************************)
EXTENDS Naturals, Sequences, FiniteSets

CONSTANTS
    Sides,          \* the signed axes a face hold can lie on
    HoldSamples,    \* ACCEL_POSE_STILL_SAMPLES
    CaptureTicks,   \* max_ticks of the engine and of the level capture
    StarveLimit,    \* starve_limit, empty polls
    CalibCap,       \* what _calib_ring holds
    CalibPlans      \* bound: the calibrations the ground asks for, in order

ASSUME CalibrationAssumption ==
    /\ IsFiniteSet(Sides) /\ Sides # {}
    /\ {HoldSamples, CaptureTicks, StarveLimit, CalibCap} \subseteq Nat \ {0}
    /\ \A p \in CalibPlans : Len(p) = 2 /\ {p[1], p[2]} \subseteq {"acc", "gyr", "mag", "level", "unknown"}

Runs == 1..2
Orientations == Sides \union {"edge"}
Targets == {"acc", "gyr", "mag", "level"}

VARIABLES
    calState,   \* the flight state, as far as a calibration meets it
    calActive,  \* _calib_active
    calCancel,  \* _calib_cancel
    calHandle,  \* _calib_task: the run it names, or 0
    calRing,    \* _calib_ring
    plan,       \* the two calibrations this behaviour may have
    job,        \* each run's task
    stored,     \* bmx160_calib: per target, the runs its halves are from
    queued,     \* runs whose snapshot was given to the filesystem owner
    torn,       \* targets half written in the sample the estimator got last
    overlap     \* history: two calibration tasks have lived at once

calVars == <<calState, calActive, calCancel, calHandle, calRing, plan, job,
             stored, queued, torn, overlap>>

-----------------------------------------------------------------------------
Fresh == [pc |-> "free", hold |-> <<>>, banked |-> <<>>,
          ticks |-> 0, told |-> "none", asked |-> FALSE]

Alive(r) == job[r].pc \notin {"free", "gone"}

CalTypeOK ==
    /\ calState \in {"STANDBY", "CALIBRATING", "FAILSAFE", "ARMED"}
    /\ calActive \in BOOLEAN /\ calCancel \in BOOLEAN /\ overlap \in BOOLEAN
    /\ calHandle \in 0..2
    /\ Len(calRing) <= CalibCap
    /\ \A r \in Runs :
         /\ Len(job[r].hold) <= HoldSamples
         /\ Len(job[r].banked) <= Cardinality(Sides)
         /\ job[r].ticks <= CaptureTicks + StarveLimit
    /\ \A t \in Targets : stored[t].a \in 0..2 /\ stored[t].b \in 0..2
    /\ torn \subseteq Targets

CalInit ==
    /\ calState \in {"STANDBY", "FAILSAFE"}
    /\ calActive = FALSE /\ calCancel = FALSE /\ calHandle = 0
    /\ calRing = <<>>
    /\ plan \in CalibPlans
    /\ job = [r \in Runs |-> Fresh]
    /\ stored = [t \in Targets |-> [a |-> 0, b |-> 0]]
    /\ queued = {} /\ torn = {} /\ overlap = FALSE

-----------------------------------------------------------------------------
\* The command task.  A refused start (busy, no heap) changes nothing.
Calibrating == calActive \/ calHandle # 0

CalibrateStart ==
    /\ calState # "CALIBRATING" /\ ~Calibrating
    /\ \E r \in Runs :
         /\ job[r].pc = "free" /\ \A q \in Runs : q < r => job[q].pc # "free"
         /\ job' = [job EXCEPT ![r] = [Fresh EXCEPT !.pc = "new"]]
         /\ calHandle' = r
         /\ overlap' = (overlap \/ \E q \in Runs : Alive(q))
    /\ UNCHANGED <<plan, calState, calActive, calCancel, calRing, stored, queued, torn>>

\* With nothing to cancel the state is restored in case it was left stuck.
CalibrateCancel ==
    /\ \/ /\ Calibrating
          /\ calCancel' = TRUE /\ calHandle' = 0
          /\ job' = [r \in Runs |-> [job[r] EXCEPT !.asked = @ \/ Alive(r)]]
          /\ UNCHANGED calState
       \/ /\ ~Calibrating
          /\ calState' = "STANDBY"
          /\ UNCHANGED <<calCancel, calHandle, job>>
    /\ UNCHANGED <<plan, calActive, calRing, stored, queued, torn, overlap>>

\* The flight state moves under the calibration (module FlightState).
StateMoves ==
    /\ \/ calState' = "FAILSAFE"
       \/ calState = "FAILSAFE" /\ calState' = "STANDBY"
       \/ calState = "STANDBY" /\ calState' = "ARMED"
    /\ UNCHANGED <<plan, calActive, calCancel, calHandle, calRing, job, stored, queued, torn, overlap>>

-----------------------------------------------------------------------------
\* The IMU task: a sample goes to the ring, which overwrites its oldest, or
\* to the estimator, converted with the calibration as it stands.
Overwriting(s) == IF Len(s) <= CalibCap THEN s ELSE Tail(s)

HalfWritten == {t \in Targets : stored[t].a # stored[t].b}

ProcessSample_ByState(o) ==
    /\ IF calState = "CALIBRATING"
       THEN calRing' = Overwriting(Append(calRing, o)) /\ UNCHANGED torn
       ELSE torn' = HalfWritten /\ UNCHANGED calRing
    /\ UNCHANGED <<plan, calState, calActive, calCancel, calHandle, job, stored, queued, overlap>>
ProcessSample(o) ==
    /\ IF calActive
       THEN calRing' = Overwriting(Append(calRing, o)) /\ UNCHANGED torn
       ELSE torn' = HalfWritten /\ UNCHANGED calRing
    /\ UNCHANGED <<plan, calState, calActive, calCancel, calHandle, job, stored, queued, overlap>>

-----------------------------------------------------------------------------
(* calibration_task, up to the first capture.                              *)
\* The locals of a capture end with it.
Leaves(j, pc) == [j EXCEPT !.pc = pc, !.hold = <<>>, !.ticks = 0, !.banked = <<>>]

Goto(r, pc) == job' = [job EXCEPT ![r] = Leaves(@, pc)]

TaskStarts(r) ==
    /\ job[r].pc = "new"
    /\ calCancel' = FALSE
    /\ Goto(r, "enter")
    /\ UNCHANGED <<plan, calState, calActive, calHandle, calRing, stored, queued, torn, overlap>>

TaskEnters(r) ==
    /\ job[r].pc = "enter"
    /\ \/ calState = "ARMED" /\ UNCHANGED calState /\ Goto(r, "end")
       \/ calState # "ARMED" /\ calState' = "CALIBRATING" /\ Goto(r, "divert")
    /\ UNCHANGED <<plan, calActive, calCancel, calHandle, calRing, stored, queued, torn, overlap>>

TaskDiverts(r) ==
    /\ job[r].pc = "divert"
    /\ calActive' = TRUE
    /\ Goto(r, IF plan[r] = "unknown" THEN "end" ELSE "capture")
    /\ UNCHANGED <<plan, calState, calCancel, calHandle, calRing, stored, queued, torn, overlap>>

\* A capture that sees the cancel ends without a word.
CaptureCancelled(r) ==
    /\ job[r].pc = "capture" /\ calCancel
    /\ Goto(r, "end")
    /\ UNCHANGED <<plan, calState, calActive, calCancel, calHandle, calRing, stored, queued, torn, overlap>>

-----------------------------------------------------------------------------
(* The capture loops: what a poll of the ring makes of the task's job.     *)

\* Poses and the level capture want a contiguous still window.
StillTaken(kind, hold, o) ==
    IF o = "moving" THEN {<<>>} ELSE {Append(hold, IF kind = "acc" THEN o ELSE "ok")}

\* gyr_read_raw_still: what the stillness gate refuses is skipped.
GyrTaken(hold, o) == IF o = "moving" THEN {hold} ELSE {Append(hold, "ok")}

\* mag_read_raw: any sample may fail the gate; the spin is wanted, and may go
\* on past the samples the fit needs.
MagTaken(hold, o) == {hold} \union (IF Len(hold) < HoldSamples THEN {Append(hold, "ok")} ELSE {})

\* The hold after a poll of the ring.
Taken(kind, hold, o) ==
    IF o = "none" THEN {hold}
    ELSE CASE kind = "gyr" -> GyrTaken(hold, o)
           [] kind = "mag" -> MagTaken(hold, o)
           [] OTHER        -> StillTaken(kind, hold, o)

\* What the average of a hold can look like: its orientation, or, when the
\* board turned slowly under the gate, anything.
Average(hold) ==
    {o \in Orientations : Cardinality({hold[i] : i \in DOMAIN hold}) = 1 => o = hold[1]}

\* pose_advances_coverage for a face: one axis dominates, and no face of the
\* banked ones has it.
Advances(o, banked) == o \in Sides /\ \A i \in DOMAIN banked : banked[i] # o

\* wait_for_static_pose: the full hold is banked, or discarded and asked for
\* again; an empty ring is only waited for so long.
PosePoll(j, o, h) ==
    LET starved == IF o = "none" THEN j.ticks + 1 ELSE 0
        banked(a) == IF Advances(a, j.banked) THEN Append(j.banked, a) ELSE j.banked
        asked(a) == [j EXCEPT !.hold = <<>>, !.ticks = 0, !.banked = banked(a)]
    IN  CASE starved >= StarveLimit -> {Leaves(j, "end")}
          [] starved < StarveLimit /\ Len(h) < HoldSamples -> {[j EXCEPT !.hold = h, !.ticks = starved]}
          [] OTHER -> {[asked(a) EXCEPT !.pc = IF Len(banked(a)) = Cardinality(Sides) THEN "fit" ELSE @]
                         : a \in Average(h)}

\* run_bias, run_ellipsoid and the level capture: every tick counts, with a
\* sample or without.
Ticked_OnSample(j, o) == IF o = "none" THEN j.ticks ELSE j.ticks + 1
Ticked(j, o) == j.ticks + 1

\* run_ellipsoid goes on for coverage while ticks last.
GoesOn(kind, full) == full => kind = "mag"

\* Enough samples make a fit; the tick cap without them does not.
TickPoll(j, kind, o, h) ==
    LET n    == Ticked(j, o)
        full == Len(h) >= HoldSamples
        next == (IF full THEN {Leaves(j, "fit")} ELSE {})
        last == (IF full THEN {} ELSE {Leaves(j, "end")})
        on   == (IF GoesOn(kind, full) THEN {[j EXCEPT !.hold = h, !.ticks = n]} ELSE {})
    IN  next \union (IF n < CaptureTicks THEN on ELSE last)

Poll(r) ==
    LET j == job[r]
        o == IF calRing = <<>> THEN "none" ELSE Head(calRing)
    IN  /\ j.pc = "capture" /\ ~calCancel
        /\ \E h \in Taken(plan[r], j.hold, o) :
             \E k \in (IF plan[r] = "acc" THEN PosePoll(j, o, h) ELSE TickPoll(j, plan[r], o, h)) :
               job' = [job EXCEPT ![r] = k]
        /\ calRing' = IF calRing = <<>> THEN calRing ELSE Tail(calRing)
        /\ UNCHANGED <<plan, calState, calActive, calCancel, calHandle, stored, queued, torn, overlap>>

\* calib_fit_sixpoint: every side has to be among the poses.
EverySide(poses) == {poses[i] : i \in DOMAIN poses} = Sides

\* finalize and its like: a fit that is noisy, degenerate or too far from level
\* commits nothing.
Fit(r) ==
    /\ job[r].pc = "fit"
    /\ \/ Goto(r, "end")
       \/ plan[r] = "acc" /\ EverySide(job[r].banked) /\ Goto(r, "commit")
       \/ plan[r] # "acc" /\ Goto(r, "commit")
    /\ UNCHANGED <<plan, calState, calActive, calCancel, calHandle, calRing, stored, queued, torn, overlap>>

Commit(r) ==
    /\ \/ job[r].pc = "commit"  /\ stored' = [stored EXCEPT ![plan[r]].a = r] /\ Goto(r, "commit2")
       \/ job[r].pc = "commit2" /\ stored' = [stored EXCEPT ![plan[r]].b = r] /\ Goto(r, "save")
    /\ UNCHANGED <<plan, calState, calActive, calCancel, calHandle, calRing, queued, torn, overlap>>

\* The snapshot goes to the filesystem owner, whose queue may refuse it.
Persist(r) ==
    /\ job[r].pc = "save"
    /\ Goto(r, "end")
    /\ queued' \in {queued, queued \union {r}}
    /\ UNCHANGED <<plan, calState, calActive, calCancel, calHandle, calRing, stored, torn, overlap>>

-----------------------------------------------------------------------------
(* The single exit path, one store at a time.                              *)
EndsDiversion(r) ==
    /\ job[r].pc = "end"
    /\ calActive' = FALSE
    /\ Goto(r, "tell")
    /\ UNCHANGED <<plan, calState, calCancel, calHandle, calRing, stored, queued, torn, overlap>>

\* COMPLETE when the snapshot is queued; a cancelled run says nothing.
Verdict_Fitted(r) ==
    IF \E t \in Targets : stored[t].b = r THEN "COMPLETE" ELSE IF calCancel THEN "silent" ELSE "FAILED"
Verdict(r) ==
    IF r \in queued THEN "COMPLETE" ELSE IF calCancel THEN "silent" ELSE "FAILED"

Tells(r) ==
    /\ job[r].pc = "tell"
    /\ job' = [job EXCEPT ![r].told = Verdict(r), ![r].pc = "standby"]
    /\ UNCHANGED <<plan, calState, calActive, calCancel, calHandle, calRing, stored, queued, torn, overlap>>

\* Every state of this module may be set to STANDBY.
ReturnsToStandby(r) ==
    /\ job[r].pc = "standby"
    /\ calState' = "STANDBY"
    /\ Goto(r, "clear")
    /\ UNCHANGED <<plan, calActive, calCancel, calHandle, calRing, stored, queued, torn, overlap>>

Exits(r) ==
    /\ job[r].pc = "clear"
    /\ calCancel' = FALSE
    /\ job' = [job EXCEPT ![r] = [Fresh EXCEPT !.pc = "gone", !.told = job[r].told, !.asked = job[r].asked]]
    /\ UNCHANGED <<plan, calState, calActive, calHandle, calRing, stored, queued, torn, overlap>>

CalibrationTask(r) ==
    \/ TaskStarts(r) \/ TaskEnters(r) \/ TaskDiverts(r)
    \/ CaptureCancelled(r) \/ Poll(r) \/ Fit(r) \/ Commit(r) \/ Persist(r)
    \/ EndsDiversion(r) \/ Tells(r) \/ ReturnsToStandby(r) \/ Exits(r)

CalNext ==
    \/ CalibrateStart
    \/ CalibrateCancel
    \/ StateMoves
    \/ \E o \in Orientations \union {"moving"} : ProcessSample(o)
    \/ \E r \in Runs : CalibrationTask(r)

\* The calibration task is scheduled whenever the others sleep.
CalFairness == \A r \in Runs : WF_calVars(CalibrationTask(r))

-----------------------------------------------------------------------------
\* The estimator never gets a sample converted with a half-written
\* calibration: bmx160_process_data diverts by _calib_active, whatever the RC
\* watchdog does to the flight state, until the commit is whole.  (A second
\* task, started during the teardown of a cancelled one, loses that shield.)
EstimatorNeverTorn == overlap \/ torn \subseteq {"level"}

\* When no calibration task is left the estimator has its samples back,
\* however the tasks ended and overlapped.
DiversionEnds == calActive => \E r \in Runs : Alive(r)

\* An accelerometer fit is only attempted on holds of every side, each once:
\* the coverage gate refuses a side it already has (calibration_task).
SidesDistinct ==
    \A r \in Runs : job[r].pc = "fit" /\ plan[r] = "acc"
        => EverySide(job[r].banked)

\* The wizard hears COMPLETE exactly of a run whose snapshot was queued, and
\* is only left without an answer by a run it asked to stop.
OutcomeHonest ==
    \A r \in Runs : job[r].pc = "gone" =>
        /\ job[r].told = "COMPLETE" <=> r \in queued
        /\ job[r].told \in {"COMPLETE", "FAILED"} \/ job[r].asked

\* A capture with a tick budget ends even if the sample stream has died.
CaptureBounded ==
    \A r \in Runs : job[r].pc = "capture" /\ plan[r] # "acc" ~> job[r].pc = "gone"
=============================================================================
