---------------------------- MODULE VerticalLoop ----------------------------
(***************************************************************************)
(* The collective of the aircraft, as two periodic tasks decide it         *)
(* together.  The vertical task estimates height and hover collective and  *)
(* detects takeoff and landing (est/vertical_task.c, flight_phase.c,       *)
(* hover_estimate.c); the angle task flies the pilot's stick, the height   *)
(* mode or the upset recovery (control/angle_controller.c,                 *)
(* height_controller.c, throttle_curve.c).  Each reads what the other      *)
(* published last: the vertical task the commanded collective, the angle   *)
(* task the vertical state.                                                *)
(*                                                                         *)
(* Heights and collectives are small integers in the order of the code's   *)
(* constants.  The pilot, the air and the sensors are free within Faults.  *)
(***************************************************************************)
EXTENDS Integers, FiniteSets

CONSTANTS
    MaxHeight,     \* the highest the aircraft flies
    Target,        \* HEIGHT_TARGET_M
    Runaway,       \* HEIGHT_RUNAWAY_M
    RunawaySteps,  \* HEIGHT_RUNAWAY_S in angle ticks
    RecoverySteps, \* RECOVERY_TIMEOUT_MS in angle ticks
    Debounce,      \* both debounce times of the phase detector, in its steps
    TofBand,       \* the height above which the rangefinder has no reading
    MaxFaults,     \* upsets, sensor losses, drifts and refused saves together
    Modes,         \* the positions of the mode switch that are exercised
    Sticks,        \* the positions of the throttle stick that are exercised
    PiOutputs      \* the answers of climb_rate_pi that are exercised

ASSUME HeightAssumption ==
    /\ MaxHeight \in Nat \ {0} /\ Target \in 1..MaxHeight
    /\ Runaway \in Nat /\ RunawaySteps \in Nat \ {0}
    /\ RecoverySteps \in Nat \ {0} /\ Debounce \in Nat \ {0}
    /\ TofBand \in Nat /\ MaxFaults \in Nat
    /\ Modes \subseteq {"OFF", "HOLD", "LAND"} /\ "OFF" \in Modes
    /\ Sticks \subseteq {"low", "mid", "high"} /\ "low" \in Sticks
    /\ PiOutputs \subseteq 1..4 /\ 1 \in PiOutputs  \* HEIGHT_THR_MIN..HEIGHT_THR_MAX

\* Collectives, in the order of the compiled limits: 0, below 0.30, 0.38,
\* 0.75, and 0.85 with all that lies above it.
Idle == 0
ThrMin == 1        \* HEIGHT_THR_MIN, below the throttle gates of both phases
HoverGuess == 2    \* HEIGHT_HOVER_GUESS, just above HEIGHT_BASE_MIN
BaseMax == 3       \* HEIGHT_BASE_MAX
ThrMax == 4        \* HEIGHT_THR_MAX
None == -1         \* no collective is held for the pilot

VARIABLES
    sys,      \* the flight state, of which STANDBY stands for every disarmed one
    due,      \* loops that have not run since the RC task last acted
    height,   \* where the aircraft really is
    drift,    \* what the barometer reads on the ground
    faults,   \* faults injected so far
    fp,       \* flight_phase_t
    hov,      \* hover_est_t with hov_saved and hov_was_armed
    vs,       \* vertical.state, as last published
    hc,       \* height_ctrl_t
    rec,      \* 0 when not recovering, else one more than s_recovery_ticks
    centre,   \* s_mode_seen_centre
    thr,      \* _last_throttle
    passed,   \* history: a centred switch was read since the RC task armed
    refused   \* history: the last save of the hover collective was refused

vars == <<sys, due, height, drift, faults, fp, hov, vs, hc, rec, centre, thr,
          passed, refused>>

Loops == {"angle", "vertical"}
Armed(s) == s \in {"ARMED", "IN_AIR"}
Clamp(v, lo, hi) == IF v < lo THEN lo ELSE IF v > hi THEN hi ELSE v
Least(a, b) == IF a < b THEN a ELSE b
Spend(n) == faults + n <= MaxFaults /\ faults' = faults + n
Cost(b) == IF b THEN 1 ELSE 0

Init ==
    /\ sys = "STANDBY" /\ due = {} /\ height = 0 /\ drift = 0 /\ faults = 0
    /\ fp = [ref |-> 0, haveRef |-> FALSE, tofRef |-> 0, haveTof |-> FALSE,
             agl |-> 0, tof |-> FALSE, powered |-> FALSE, up |-> 0, down |-> 0]
    /\ hov = [est |-> HoverGuess, measured |-> FALSE,
              saved |-> HoverGuess, wasArmed |-> FALSE]
    /\ vs = [valid |-> FALSE, agl |-> 0, range |-> 0, tof |-> FALSE,
             hover |-> HoverGuess, measured |-> FALSE, unhealthy |-> FALSE]
    /\ hc = [mode |-> "OFF", tof |-> FALSE, landed |-> FALSE, run |-> 0,
             held |-> None, sp |-> 0, base |-> 0]
    /\ rec = 0
    /\ centre = FALSE /\ thr = Idle
    /\ passed = FALSE /\ refused = FALSE
-----------------------------------------------------------------------------
(* The height controller: pure steps [hc, out] on its record.  Its mode says  *)
(* whether it is off, engaged (LIFTING to the target or FLYING) or has given  *)
(* up; last_out is thr, since an engaged controller's collective is published.*)

Engaged(h) == h.mode \in {"LIFTING", "FLYING"}

\* throttle_curve: zero at the bottom, hover at mid-stick, full at the top.
Curve(pos, hover) ==
    CASE pos = "low" -> Idle [] pos = "mid" -> hover [] pos = "high" -> ThrMax

Result(h, out) == [hc |-> h, out |-> out]

SafeHold_Last(h) == thr
\* handback_arm: what may be held for the pilot, never above the baseline.
SafeHold(h) == Least(thr, h.base)

\* handback_step: hold it until the stick meets it, or the aircraft is down.
HandbackStep(h, pilot, air) ==
    IF h.held # None /\ air /\ pilot < h.held THEN Result(h, h.held)
    ELSE Result([h EXCEPT !.held = None], pilot)

\* mode == OFF: drop the mode's state, keep the hand-back.
OffStep(h, pilot, air) ==
    HandbackStep([h EXCEPT !.mode = "OFF", !.tof = FALSE, !.landed = FALSE,
                           !.sp = 0, !.base = 0, !.run = 0,
                           !.held = IF Engaged(h) /\ air THEN SafeHold(h)
                                    ELSE @],
                 pilot, air)

\* The first step of an engagement: hold here, or lift off from hover.
Engage(h, pilot, air, alt, tof, hover) ==
    [h EXCEPT !.mode = IF air THEN "FLYING" ELSE "LIFTING", !.tof = tof,
              !.landed = FALSE, !.run = 0,
              !.sp = IF air THEN alt ELSE Target,
              !.base = IF air THEN Clamp(pilot, HoverGuess, BaseMax) ELSE hover]

\* Lift-off ends at the target; a change of source re-anchors a held height.
Reanchored(h, mode, alt, tof) ==
    LET lifting == h.mode = "LIFTING" /\ alt < h.sp
    IN  [h EXCEPT !.mode = IF lifting THEN "LIFTING" ELSE "FLYING", !.tof = tof,
                  !.sp = IF tof # h.tof /\ mode = "HOLD" /\ ~lifting THEN alt ELSE @]

\* The engaged controller: runaway guard, then LAND or HOLD.  climb_rate_pi may
\* answer pi, any collective within its clamp.
Drive(h, mode, pilot, air, alt, pi) ==
    LET above == air /\ alt > h.sp + Runaway
        r == [h EXCEPT !.run = IF above THEN @ + 1 ELSE 0]
    IN  IF above /\ r.run >= RunawaySteps
        THEN HandbackStep([r EXCEPT !.mode = "FAILED", !.held = SafeHold(h)], pilot, air)
        ELSE IF mode = "LAND" /\ (r.landed \/ alt <= 0 \/ ~air)
        THEN Result([r EXCEPT !.landed = TRUE], Idle)
        ELSE Result(r, pi)

\* height_ctrl_update.
HeightUpdate(h, mode, pilot, air, alt, tof, hover, pi) ==
    IF mode = "OFF" THEN OffStep(h, pilot, air)
    ELSE IF h.mode = "FAILED" THEN HandbackStep(h, pilot, air)
    ELSE LET ref == IF hover >= HoverGuess /\ hover < BaseMax THEN hover ELSE HoverGuess
             e == IF Engaged(h) THEN h ELSE Engage(h, pilot, air, alt, tof, ref)
         IN  Drive(Reanchored(e, mode, alt, tof), mode, pilot, air, alt, pi)
-----------------------------------------------------------------------------
(* The angle task. *)

RecoveryTimedOut(tilt) == rec > RecoverySteps /\ tilt # "level"

\* Bank-angle upset handling, angle mode only.
Recovery(tilt, acro, air) ==
    CASE acro \/ ~air -> 0
      [] air /\ rec = 0 /\ ~acro -> Cost(tilt = "upset")
      [] OTHER -> IF tilt = "level" \/ RecoveryTimedOut(tilt) THEN 0
                  ELSE rec + 1

SeenCentre_Sticky(s, mode) == centre \/ (Armed(s) /\ mode = "OFF")
\* The interlock memory: cleared while disarmed, set by a centred switch.
SeenCentre(s, mode) == Armed(s) /\ (centre \/ mode = "OFF")

\* What leaves the loop: recovery is applied after the height controller.
Collective(r, hover, out) == IF r > 0 THEN hover ELSE out

HoverNow == IF vs.valid /\ vs.measured THEN vs.hover ELSE HoverGuess

\* One tick of angle_controller_task.
AngleStep(mode, pos, tilt, acro, pi) ==
    LET air == sys = "IN_AIR"
        r == Recovery(tilt, acro, air)
        cut == ~acro /\ (IF air THEN RecoveryTimedOut(tilt) ELSE tilt = "upset")
        pilot == IF r > 0 THEN HoverNow ELSE Curve(pos, HoverNow)
        vetoed == acro \/ r > 0 \/ ~centre' \/ ~vs.valid \/ vs.unhealthy
        alt == IF vs.tof THEN vs.range ELSE vs.agl
        res == HeightUpdate(hc, IF vetoed THEN "OFF" ELSE mode, pilot, air, alt,
                            vs.tof, HoverNow, pi)
    IN  /\ tilt = "banked" => rec > 0
        /\ Spend(Cost(acro \/ (tilt = "upset" /\ rec = 0)))
        /\ sys' = IF cut THEN "FAILSAFE" ELSE sys
        /\ centre' = SeenCentre(sys', mode)
        /\ rec' = r /\ hc' = res.hc /\ thr' = Collective(r, HoverNow, res.out)
        /\ due' = due \ {"angle"}
        /\ passed' = (passed \/ (Armed(sys') /\ mode = "OFF"))
        /\ UNCHANGED <<height, drift, fp, hov, vs, refused>>
-----------------------------------------------------------------------------
(* The vertical task. *)

\* hover_est_update: learn the collective of flight whose gates (climb,
\* acceleration, tilt) have held for HOVER_EST_SETTLE_S.
HoverUpdate(climb, steady) ==
    IF sys = "IN_AIR" /\ climb = 0 /\ steady /\ thr > Idle /\ thr < ThrMax
    THEN [hov EXCEPT !.est = @ + Clamp(thr - @, -1, 1), !.measured = TRUE]
    ELSE hov

\* The disarm edge stores the flight's value, when it moved.
SaveDue(h) == h.wasArmed /\ ~Armed(sys) /\ h.measured /\ h.est # h.saved

HoverSaved(h, ok) ==
    [h EXCEPT !.saved = IF SaveDue(h) /\ ok THEN h.est ELSE @, !.wasArmed = Armed(sys)]

GroundRef_Frozen(useTof, alt) == fp.ref
\* Where the baro reference lies when the rangefinder stops supplying height.
GroundRef(useTof, alt) == IF fp.tof /\ ~useTof /\ fp.haveRef THEN alt - fp.agl ELSE fp.ref

\* flight_phase_update while disarmed: refine the references at rest.
Grounded(alt, range, tof, climb) ==
    [fp EXCEPT !.ref = IF ~fp.haveRef \/ climb = 0 THEN alt ELSE @, !.haveRef = TRUE,
               !.tofRef = IF tof /\ (~fp.haveTof \/ climb = 0) THEN range ELSE @,
               !.haveTof = @ \/ tof, !.tof = FALSE, !.agl = 0, !.powered = FALSE,
               !.up = 0, !.down = 0]

\* ... and while armed: height above ground and the two debounced gates.
Committed(alt, range, tof, climb) ==
    LET useTof == tof /\ fp.haveTof
        ref == GroundRef(useTof, alt)
        agl == IF useTof THEN range - fp.tofRef ELSE IF fp.haveRef THEN alt - ref ELSE 0
        powered == fp.powered \/ thr > ThrMin
        up == sys = "ARMED" /\ agl > (IF useTof THEN 0 ELSE 1) /\ climb > 0 /\ powered
        down == sys = "IN_AIR" /\ agl < 1 /\ climb = 0 /\ thr <= ThrMin
    IN  [fp EXCEPT !.ref = ref, !.agl = agl, !.tof = useTof, !.powered = powered,
                   !.up = IF up THEN @ + 1 ELSE 0, !.down = IF down THEN @ + 1 ELSE 0]

PhaseUpdate(alt, range, tof, climb) ==
    IF Armed(sys) THEN Committed(alt, range, tof, climb)
    ELSE Grounded(alt, range, tof, climb)

\* What one step of the vertical task may meet besides the aircraft's motion.
Events == {"none", "steady", "tof lost", "drift", "unhealthy", "refused"}
EventCost(e) ==
    Cost(\/ e \in {"steady", "drift"}
         \/ e = "tof lost" /\ vs.tof
         \/ e = "unhealthy" /\ ~vs.unhealthy)

\* One step of vertical_estimator_task, after the aircraft moved by dh.
VerticalStep(dh, e) ==
    LET h == height + dh
        alt == h + drift'
        tof == e # "tof lost" /\ height <= TofBand
        p == PhaseUpdate(alt, h, tof, dh)
        learnt == HoverUpdate(dh, e = "steady")
    IN  /\ h \in 0..MaxHeight /\ (Armed(sys) => dh >= -1)
        /\ Armed(sys) /\ fp.tof /\ ~tof => dh = 0  \* one step is below the unit
        /\ ~Armed(sys) => h = 0                     \* without thrust it falls
        /\ Spend(EventCost(e))
        /\ e = "refused" => SaveDue(learnt)
        /\ height' = h
        /\ drift' = IF e = "drift" THEN 1 - drift ELSE drift
        /\ hov' = HoverSaved(learnt, e # "refused")
        /\ fp' = [p EXCEPT !.up = @ % Debounce, !.down = @ % Debounce]
        /\ sys' = CASE p.up = Debounce -> "IN_AIR"
                    [] p.down = Debounce -> "ARMED"
                    [] OTHER -> sys
        /\ vs' = [valid |-> TRUE, agl |-> fp'.agl, range |-> h, tof |-> tof,
                  hover |-> hov'.est, measured |-> hov'.measured, unhealthy |-> e = "unhealthy"]
        /\ due' = due \ {"vertical"}
        /\ refused' = (IF SaveDue(learnt) THEN e = "refused" ELSE refused /\ ~Armed(sys))
        /\ UNCHANGED <<hc, rec, centre, thr, passed>>
-----------------------------------------------------------------------------
\* The RC task arms, and disarms or finds the link lost; its frames are longer apart than the loops'
\* periods, so both loops run between two of its decisions.
RcArm ==
    /\ sys = "STANDBY" /\ due = {}
    /\ sys' = "ARMED" /\ due' = Loops /\ passed' = FALSE
    /\ UNCHANGED <<height, drift, faults, fp, hov, vs, hc, rec, centre, thr, refused>>

RcDisarm ==
    /\ sys # "STANDBY" /\ due = {}
    /\ sys' \in {"STANDBY", "FAILSAFE"} /\ due' = Loops
    /\ UNCHANGED <<height, drift, faults, fp, hov, vs, hc, rec, centre, thr,
                   passed, refused>>

Angle ==
    \E mode \in Modes, pos \in Sticks, acro \in BOOLEAN,
       tilt \in {"level", "banked", "upset"}, pi \in PiOutputs :
        /\ pi # ThrMin => mode # "OFF" /\ pos = "low" /\ ~acro
        /\ AngleStep(mode, pos, tilt, acro, pi)

Vertical == \E dh \in -MaxHeight..1, e \in Events : VerticalStep(dh, e)

Next == Angle \/ Vertical \/ RcArm \/ RcDisarm

Spec == Init /\ [][Next]_vars
-----------------------------------------------------------------------------
Thr == Idle..ThrMax
Alt == -(MaxHeight + 1)..(MaxHeight + 1)

\* Every variable holds a value of its kind, and each counter of the two
\* controllers stays below the limit at which the code acts on it.
TypeOK ==
    /\ sys \in {"STANDBY", "ARMED", "IN_AIR", "FAILSAFE"} /\ due \subseteq Loops
    /\ height \in 0..MaxHeight /\ drift \in 0..1 /\ faults \in 0..MaxFaults
    /\ fp \in [ref : Alt, haveRef : BOOLEAN, tofRef : 0..MaxHeight, haveTof : BOOLEAN,
               agl : Alt, tof : BOOLEAN, powered : BOOLEAN,
               up : 0..(Debounce - 1), down : 0..(Debounce - 1)]
    /\ hov \in [est : 1..BaseMax, measured : BOOLEAN,
                saved : 1..BaseMax, wasArmed : BOOLEAN]
    /\ vs \in [valid : BOOLEAN, agl : Alt, range : 0..MaxHeight, tof : BOOLEAN,
               hover : 1..BaseMax, measured : BOOLEAN, unhealthy : BOOLEAN]
    /\ hc \in [mode : {"OFF", "LIFTING", "FLYING", "FAILED"}, tof : BOOLEAN,
               landed : BOOLEAN, run : 0..RunawaySteps, held : Thr \cup {None},
               sp : Alt, base : Thr]
    /\ Engaged(hc) => hc.run < RunawaySteps
    /\ rec \in 0..(RecoverySteps + 1)
    /\ centre \in BOOLEAN /\ thr \in Thr
    /\ passed \in BOOLEAN /\ refused \in BOOLEAN

\* The height mode never flies the aircraft before the loop has read a centred
\* switch in the present arming: arming with the switch already up must not
\* lift off (angle_controller.c, s_mode_seen_centre).
CentredBeforeAutoFlight == Engaged(hc) /\ Armed(sys) => passed

\* When the mode stops flying an airborne aircraft (switch centred, veto, lost
\* estimate or runaway guard) the collective neither drops below what was
\* commanded nor stays above the baseline, unless the pilot's stick is there.
HandbackNearHover ==
    [][Engaged(hc) /\ ~Engaged(hc') /\ sys = "IN_AIR" /\ rec' = 0 =>
         /\ thr' >= Least(thr, hc.base)
         /\ thr' <= hc.base \/ hc'.held = None]_vars

\* While the recovery flies, hover collective is what leaves the loop, whatever
\* the height controller still holds for the pilot.
RecoveryFinal ==
    [][rec' # rec /\ rec' > 0 => thr' = HoverNow /\ ~Engaged(hc')]_vars

\* Height above ground moves with the aircraft and the barometer: when the
\* rangefinder drops out in flight it does not step by the accumulated drift.
\* Only taking the rangefinder up again may step it.
AglContinuous ==
    [][hov.wasArmed /\ Armed(sys) /\ ~(fp'.tof /\ ~fp.tof) =>
         LET step == fp'.agl - fp.agl
             most == (IF height' = height THEN 0 ELSE 1) + (IF drift' = drift THEN 0 ELSE 1)
         IN  step \in -most..most]_vars

\* Once the vertical task has seen the disarm, the hover it learnt in flight is
\* the one handed to storage, unless storage refused it.
HoverKept ==
    ~Armed(sys) /\ ~hov.wasArmed /\ hov.measured /\ ~refused => hov.saved = hov.est

\* What outlives one flight does no harm in the next: a mode switch left up
\* starts nothing, and the learnt hover is stored at disarm.
VerticalSafe == TypeOK /\ CentredBeforeAutoFlight /\ HoverKept

\* Whoever takes the collective over takes it over safely: the stick near hover,
\* the recovery whatever the height mode wants.
CollectiveHandled == HandbackNearHover /\ RecoveryFinal
=============================================================================
