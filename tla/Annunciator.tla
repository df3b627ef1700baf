---------------------------- MODULE Annunciator -----------------------------
(***************************************************************************)
(* The heartbeat task: it renders the flight state on three LEDs and a     *)
(* buzzer, and lets link activity, which the command router reports, take  *)
(* over the blue LED for a while.  The router may report between any two   *)
(* of the task's steps.                                                    *)
(*                                                                         *)
(* One clock unit is one pass of the task's loop; the tick counter wraps   *)
(* at ClockMod, and deadlines are compared by their signed difference.     *)
(***************************************************************************)
EXTENDS Naturals, FiniteSets

CONSTANTS
    ClockMod,       \* 2^32 ticks
    BeatPeriod,     \* period of heartbeat_task
    ActivityTicks,  \* HEARTBEAT_ACTIVITY_MS
    HalfTicks,      \* HEARTBEAT_ACTIVITY_HALF_MS
    BootFaults,     \* bound: the boot check failures that occur
    ShownStates     \* bound: the flight states that occur

ASSUME AnnunciatorAssumption ==
    /\ {ClockMod, BeatPeriod, ActivityTicks, HalfTicks} \subseteq Nat \ {0}
    /\ 2 * (ActivityTicks + 2) <= ClockMod /\ BeatPeriod < ClockMod
    /\ BootFaults \subseteq {"clock", "card"}

VARIABLES
    shown,      \* the flight state the task reads
    lastShown,  \* last_state
    lit,        \* the outputs that are on
    buzz,       \* buzz_cnt, mod 2
    firstBeat,  \* _first_time
    faults,     \* boot check flags: "clock", "card"
    now,        \* v_get_ticks
    lastBeat,   \* last_time
    until,      \* _activity_until, 0 when idle
    wasActive,  \* was_active
    toggled,    \* _activity_toggled
    lightsPc,   \* beat, activity, expire
    quiet       \* history: passes since the last report, up to ActivityTicks + 2

lightsVars == <<shown, lastShown, lit, buzz, firstBeat, faults, now, lastBeat,
                until, wasActive, toggled, lightsPc, quiet>>

Outputs == {"blue", "green", "red", "buzzer"}
Unseen == ActivityTicks + 2

LightsTypeOK ==
    /\ {shown, lastShown} \subseteq ShownStates \union {"UNINITIALIZED"}
    /\ lit \subseteq Outputs /\ buzz \in 0..1 /\ firstBeat \in BOOLEAN
    /\ {now, lastBeat, until, toggled} \subseteq 0..(ClockMod - 1)
    /\ wasActive \in BOOLEAN
    /\ lightsPc \in {"beat", "activity", "expire"}
    /\ quiet \in 0..Unseen

LightsInit ==
    /\ shown \in ShownStates /\ lastShown = "UNINITIALIZED"
    /\ lit = {} /\ buzz = 0 /\ firstBeat = TRUE
    /\ faults \in SUBSET BootFaults
    /\ now = 0 /\ lastBeat = 0 /\ until = 0 /\ wasActive = FALSE /\ toggled = 0
    /\ lightsPc = "beat" /\ quiet = Unseen

-----------------------------------------------------------------------------
Since(t) == (now + ClockMod - t) % ClockMod

\* (int32_t)(now - deadline) >= 0
Passed(deadline) == 2 * Since(deadline) < ClockMod

Flip(on, outs) == (on \ outs) \union (outs \ on)

\* indicator_set and indicator_toggle, as one pattern: what it toggles, what
\* it forces on and what it forces off.
Toggles(s) ==
    CASE s = "INIT"        -> {"blue"}
      [] s = "STANDBY"     -> {"green"}
      [] s = "PREARM"      -> {"green", "blue"}
      [] s = "ARMED"       -> {"green"}
      [] s = "IN_AIR"      -> {"green", "red"}
      [] s = "CALIBRATING" -> {"blue", "green"}
      [] s = "ESC_CALIB"   -> {"blue", "green", "red"}
      [] s = "FAILSAFE"    -> {"red"} \union (IF buzz = 1 THEN {"buzzer"} ELSE {})
      [] OTHER             -> {}

SetsOn(s) ==
    CASE s = "ARMED"      -> {"red"}
      [] s = "TERMINATED" -> {"red", "buzzer"}
      [] s = "FAILSAFE"   -> {o \in {"blue", "green"} :
                                IF o = "blue" THEN "clock" \in faults ELSE "card" \in faults}
      [] OTHER            -> {}

SetsOff(s) ==
    CASE s = "FAILSAFE"           -> {"blue", "green"} \ SetsOn(s)
      [] s = "INIT" /\ firstBeat  -> {"buzzer"}
      [] OTHER                    -> {}

Rendered(s, on) == (Flip(on, Toggles(s)) \union SetsOn(s)) \ SetsOff(s)

\* A new state starts from dark LEDs; the buzzer is left as it was.
Cleared(on) == IF shown # lastShown THEN on \ {"blue", "green", "red"} ELSE on

\* _run_heartbeat, every BeatPeriod.
Beat ==
    /\ lightsPc = "beat" /\ lightsPc' = "activity"
    /\ \/ Since(lastBeat) < BeatPeriod
          /\ UNCHANGED <<lit, lastShown, lastBeat, buzz, firstBeat>>
       \/ /\ Since(lastBeat) >= BeatPeriod
          /\ lastBeat' = now /\ lastShown' = shown
          /\ lit' = Rendered(shown, Cleared(lit))
          /\ buzz' = IF shown = "FAILSAFE" THEN 1 - buzz ELSE buzz
          /\ firstBeat' = (firstBeat /\ shown # "INIT")
    /\ UNCHANGED <<shown, faults, now, until, wasActive, toggled, quiet>>

\* The loop sleeps, and the clock moves on.
PassEnds ==
    /\ now' = (now + 1) % ClockMod
    /\ quiet' = IF quiet < Unseen THEN quiet + 1 ELSE quiet
    /\ lightsPc' = "beat"

\* The override has ended, or not begun.
Release ==
    /\ wasActive' = FALSE
    /\ lit' = IF wasActive THEN lit \ {"blue"} ELSE lit
    /\ UNCHANGED toggled

\* The override shows: blue comes on, then blinks at its half-period.
Override ==
    /\ wasActive' = TRUE
    /\ toggled' = IF ~wasActive \/ Since(toggled) >= HalfTicks THEN now ELSE toggled
    /\ lit' = CASE ~wasActive                                -> lit \union {"blue"}
                [] wasActive /\ Since(toggled) >= HalfTicks  -> Flip(lit, {"blue"})
                [] OTHER                                     -> lit

\* _service_activity.  An expired deadline is cleared in a step of its own: a
\* report in between is overwritten.
ServiceActivity ==
    /\ lightsPc = "activity"
    /\ \/ until = 0 /\ Release /\ PassEnds
       \/ until # 0 /\ ~Passed(until) /\ Override /\ PassEnds
       \/ /\ until # 0 /\ Passed(until) /\ lightsPc' = "expire"
          /\ UNCHANGED <<lit, wasActive, toggled, now, quiet>>
    /\ UNCHANGED <<shown, lastShown, buzz, firstBeat, faults, lastBeat, until>>

Expire ==
    /\ lightsPc = "expire"
    /\ until' = 0 /\ Release /\ PassEnds
    /\ UNCHANGED <<shown, lastShown, buzz, firstBeat, faults, lastBeat>>

\* heartbeat_note_link_activity: zero stays the idle mark.
Deadline == LET d == (now + ActivityTicks) % ClockMod IN IF d = 0 THEN 1 ELSE d

NoteLinkActivity ==
    /\ until' = Deadline
    /\ quiet' = IF lightsPc = "expire" THEN Unseen ELSE 0
    /\ UNCHANGED <<shown, lastShown, lit, buzz, firstBeat, faults, now, lastBeat,
                   wasActive, toggled, lightsPc>>

StateChanges ==
    /\ shown' \in ShownStates \ {shown}
    /\ UNCHANGED <<lastShown, lit, buzz, firstBeat, faults, now, lastBeat, until,
                   wasActive, toggled, lightsPc, quiet>>

LightsNext == Beat \/ ServiceActivity \/ Expire \/ NoteLinkActivity \/ StateChanges

-----------------------------------------------------------------------------
\* The LEDs a state may light.
Palette(s) == (Toggles(s) \union SetsOn(s)) \ {"buzzer"}

\* No LED of an earlier state stays lit under a later one, and blue, when the
\* pattern has none, only during the activity override (_run_heartbeat and
\* _service_activity write the same pin).
PatternOfState ==
    (lit \ {"buzzer"}) \ (IF wasActive THEN {"blue"} ELSE {}) \subseteq Palette(lastShown)

\* Across wraps of the tick counter the override shows for as long as the link
\* was active within the window, to a pass, and no longer (a report that meets
\* the expiry of the previous one is lost).
ActivityHonest ==
    lightsPc = "beat" => /\ wasActive => quiet <= ActivityTicks + 1
                         /\ quiet \in 1..(ActivityTicks) => wasActive
=============================================================================
