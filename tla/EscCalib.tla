------------------------------ MODULE EscCalib ------------------------------
(***************************************************************************)
(* The two-boot ESC calibration request (src/actuator/esc_calib.c) on top  *)
(* of the write-at lane, across power cuts.                                *)
(*                                                                         *)
(* A held stick gesture does not calibrate: rc_ibus_task queues a marker   *)
(* for the card and tells the operator to power-cycle once the lane        *)
(* reports the commit.  The next boot reads the marker, clears it, and     *)
(* only then drives every motor to maximum -- whether or not the clearing  *)
(* worked.  The vertical task saves the learned hover throttle through the *)
(* same bookkeeping slot.                                                  *)
(*                                                                         *)
(* A power cut may come between any two steps; it empties the lane and     *)
(* every variable in RAM, and the write in progress may or may not have    *)
(* landed.  What happens between maximum and the end of the calibration    *)
(* is the subject of FlightState.                                          *)
(***************************************************************************)
EXTENDS WriteLane

CONSTANTS
    MaxGestures,    \* how often the operator asks (bound of the model)
    MaxHovers,      \* how often the hover throttle is saved (bound)
    MaxBoots,       \* how often the board is powered (bound)
    CommitTimeout   \* ESC_CALIB_COMMIT_TIMEOUT_MS, in ticks

ASSUME EscAssumption ==
    /\ Slots = {"internal"} /\ Files = {"esc", "hover"}
    /\ MaxOff = 0 /\ Contents = {0, 1}
    /\ MaxGestures \in Nat /\ MaxHovers \in Nat /\ MaxBoots \in Nat
    /\ CommitTimeout \in Nat

VARIABLES
    power,      \* off, the steps of the boot, or on (the scheduler runs)
    phase,      \* s_phase
    awaiting,   \* s_awaiting_commit
    mark,       \* s_commit_mark
    wait,       \* ticks since s_commit_wait_ms
    said,       \* what the operator was last told about the request
    gestures,   \* entry gestures completed
    attempts,   \* boots that went on to drive maximum
    uncleared,  \* boots that took the marker and left it on the card
    hovers, boots

ramVars  == <<phase, awaiting, mark, wait>>
histVars == <<said, gestures, attempts, uncleared, hovers, boots>>
vars == <<card, laneVars, power, ramVars, histVars>>

Answers == {"none", "on_card", "failed", "timed_out", "refused"}

TypeOK ==
    /\ LaneTypeOK
    /\ power \in {"off", "read", "clear", "drive", "on"}
    /\ phase \in {"OFF", "HIGH"}
    /\ awaiting \in BOOLEAN
    /\ mark \in Nat
    /\ wait \in 0 .. CommitTimeout
    /\ said \in Answers
    /\ gestures \in 0 .. MaxGestures
    /\ attempts \in Nat /\ uncleared \in Nat
    /\ hovers \in 0 .. MaxHovers
    /\ boots \in 0 .. MaxBoots

RamInit == /\ LaneInit
           /\ phase = "OFF" /\ awaiting = FALSE /\ mark = 0 /\ wait = 0

Init ==
    /\ card = [f \in Files |-> [o \in 0 .. MaxOff |-> 0]]
    /\ RamInit
    /\ power = "off"
    /\ said = "none"
    /\ gestures = 0 /\ attempts = 0 /\ uncleared = 0 /\ hovers = 0 /\ boots = 0

(***************************************************************************)
(* Power and boot.                                                         *)
(***************************************************************************)
PowerOn ==
    /\ power = "off" /\ boots < MaxBoots
    /\ boots' = boots + 1
    /\ power' = "read"
    /\ UNCHANGED <<card, laneVars, ramVars, said, gestures, attempts, uncleared, hovers>>

PowerCut ==
    /\ power # "off"
    /\ power' = "off"
    /\ \/ UNCHANGED card
       \/ fsReq # NoReq /\ Store(fsReq)
    /\ waQ' = <<>> /\ retryQ' = <<>>
    /\ fsStage' = "poll" /\ fsReq' = NoReq
    /\ pending' = [s \in Slots |-> 0]
    /\ committed' = [s \in Slots |-> 0]
    /\ failed' = [s \in Slots |-> FALSE]
    /\ phase' = "OFF" /\ awaiting' = FALSE /\ mark' = 0 /\ wait' = 0
    /\ UNCHANGED histVars

\* request_take: is there a marker?  One that cannot be read is no request.
BootRead ==
    /\ power = "read"
    /\ power' \in {IF card["esc"][0] = 1 THEN "clear" ELSE "on", "on"}
    /\ UNCHANGED <<card, laneVars, ramVars, histVars>>

\* Mutant of BootClear: the marker is left for the end of the calibration.
BootClear_Later(works) ==
    /\ power = "clear"
    /\ power' = "drive"
    /\ said' = "none"
    /\ UNCHANGED <<card, laneVars, ramVars, gestures, attempts, uncleared, hovers, boots>>

\* request_take: clear the marker before calibrating, which answers the
\* request.  The results of lseek, write and sync are ignored: where one of
\* them fails the marker may stay, and maximum is driven all the same.
BootClear(works) ==
    /\ power = "clear"
    /\ IF works
       THEN card' = [card EXCEPT !["esc"][0] = 0] /\ uncleared' = uncleared
       ELSE card' = card /\ uncleared' = uncleared + 1
    /\ power' = "drive"
    /\ said' = "none"
    /\ UNCHANGED <<laneVars, ramVars, gestures, attempts, hovers, boots>>

\* esc_calib_boot_init after a request was taken; then the scheduler starts.
BootDrive ==
    /\ power = "drive"
    /\ phase' = "HIGH"
    /\ attempts' = attempts + 1
    /\ power' = "on"
    /\ UNCHANGED <<card, laneVars, awaiting, mark, wait, said, gestures, uncleared, hovers, boots>>

(***************************************************************************)
(* rc_ibus_task: esc_calib_rc_step on a frame that is not a failsafe one.  *)
(***************************************************************************)

\* The lane committed something of the internal slot since the mark.
CommitSeen == committed["internal"] # mark

\* The request is resolved before anything else is looked at.
RcResolve ==
    /\ power = "on" /\ awaiting
    /\ \/ failed["internal"] /\ said' = "failed"
       \/ ~failed["internal"] /\ CommitSeen /\ said' = "on_card"
       \/ /\ ~failed["internal"] /\ ~CommitSeen /\ wait >= CommitTimeout
          /\ said' = "timed_out"
    /\ awaiting' = FALSE /\ wait' = 0
    /\ UNCHANGED <<card, laneVars, power, phase, mark, gestures, attempts, uncleared, hovers, boots>>

\* The entry gesture, held in STANDBY: request_write, then the commit mark.
RcGesture ==
    /\ power = "on" /\ ~awaiting /\ phase = "OFF"
    /\ gestures < MaxGestures
    /\ gestures' = gestures + 1
    /\ \/ /\ Enqueue("internal", "esc", 0, 1)
          /\ awaiting' = TRUE /\ mark' = committed["internal"] /\ wait' = 0
          /\ said' = "none"
       \/ /\ LaneFull /\ said' = "refused"
          /\ UNCHANGED <<laneVars, awaiting, mark, wait>>
    /\ UNCHANGED <<card, power, phase, attempts, uncleared, hovers, boots>>

\* Settled, timed out or aborted (see FlightState): maximum is over.
RcCalibEnds ==
    /\ power = "on" /\ ~awaiting /\ phase = "HIGH"
    /\ phase' = "OFF"
    /\ UNCHANGED <<card, laneVars, power, awaiting, mark, wait, histVars>>

Tick ==
    /\ power = "on" /\ awaiting
    /\ wait < CommitTimeout
    /\ wait' = wait + 1
    /\ UNCHANGED <<card, laneVars, power, phase, awaiting, mark, histVars>>

\* vertical_estimator_task on the disarm edge: hover_store_save.
HoverSave ==
    /\ power = "on"
    /\ hovers < MaxHovers
    /\ hovers' = hovers + 1
    /\ Enqueue("internal", "hover", 0, 1)
    /\ UNCHANGED <<card, power, ramVars, said, gestures, attempts, uncleared, boots>>

FsLane == /\ power = "on"
          /\ FsDrain \/ FsWake
          /\ UNCHANGED <<power, ramVars, histVars>>

----------------------------------------------------------------------------
Boot == \/ PowerOn \/ BootRead \/ BootDrive
        \/ \E works \in BOOLEAN : BootClear(works)

Next == \/ PowerCut \/ Boot
        \/ RcResolve \/ RcGesture \/ RcCalibEnds \/ Tick \/ HoverSave \/ FsLane

Spec == Init /\ [][Next]_vars

(***************************************************************************)
(* Properties.                                                             *)
(***************************************************************************)

\* esc_calib.c:112, "A power cut while maximum is being driven must not leave
\* the aircraft doing that on every future boot -- one attempt per request":
\* boots that drive maximum never outnumber the gestures, wherever the power
\* was cut and whichever retried write landed late -- but for those that could
\* not clear the marker: each of them leaves one attempt to a later boot, and
\* no more than one.
OneAttemptPerRequest == attempts <= gestures + uncleared

\* esc_calib.c, "Waiting for the request to become DURABLE, not merely
\* queued": once the operator is told ON CARD, the marker is there until a
\* boot takes it, as long as nothing else was saved through the internal slot
\* (the counter does not say whose write was committed).
ToldOnCardIsStored == said = "on_card" /\ hovers = 0 => card["esc"][0] = 1
============================================================================
