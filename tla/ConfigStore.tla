---------------------------- MODULE ConfigStore ----------------------------
(***************************************************************************)
(* The persisted tune and calibration (pid_config.c, fs_owner.c).  A       *)
(* command changes the live store and queues a snapshot of the whole       *)
(* store; the filesystem task replaces the file with it.  A snapshot is    *)
(* the number of changes it contains.                                      *)
(***************************************************************************)
EXTENDS FsFunnel

CONSTANTS
    SaveCap,        \* FS_SAVE_QUEUE_CAP
    SaveTries,      \* FS_SAVE_MAX_TRIES
    MaxChanges      \* [store |-> bound: changes of it]

Stores == {"pid", "cal"}
ASSUME CfgAssumption ==
    /\ SaveCap \in Nat /\ SaveTries \in Nat \ {0}
    /\ MaxChanges \in [Stores -> Nat]

VARIABLES
    live,           \* [store |-> the version in force]
    saveQ,          \* s_save_q
    saving,         \* the snapshot being written
    disk,           \* [store |-> version on the card; 0 absent, -1 torn]
    lostSaves,      \* s_dropped_saves
    tried           \* an attempt to save has failed, or was cut off

cfgVars == <<live, saveQ, saving, disk, lostSaves, tried>>

NoSave == [store |-> "none"]

CfgInit ==
    /\ live = [s \in Stores |-> 0]
    /\ saveQ = <<>> /\ saving = NoSave
    /\ disk = [s \in Stores |-> 0]
    /\ lostSaves = 0 /\ tried = FALSE

CfgTypeOK ==
    /\ \A s \in Stores : live[s] \in -1..MaxChanges[s] /\ disk[s] \in -1..MaxChanges[s]
    /\ Len(saveQ) <= SaveCap
    /\ \A i \in 1..Len(saveQ) : saveQ[i].tries < SaveTries

\* fs_owner_enqueue_pid_save, _calib_save: a snapshot, if there is room.
Enqueue(s, version) ==
    IF Len(saveQ) < SaveCap
    THEN /\ saveQ' = Append(saveQ, [store |-> s, version |-> version,
                                   tries |-> 0, stage |-> "queued"])
         /\ lostSaves' = lostSaves
    ELSE saveQ' = saveQ /\ lostSaves' = lostSaves + 1

\* pid_config_apply_command and its siblings, a finished calibration: applied
\* live, stored, and a snapshot queued.
Change(s) ==
    /\ s \in offered /\ Up /\ live[s] < MaxChanges[s]
    /\ live' = [live EXCEPT ![s] = @ + 1]
    /\ Enqueue(s, live[s] + 1)
    /\ UNCHANGED <<loopVars, logVars, svcVars, saving, disk, tried>>

SvcRest == <<offered, boots, suppressed, logVars, funnelVars, rfd, wfd, lane, writes, queryVars>>

\* Mutant of SavePop: the newest request first.
SavePop_Newest ==
    /\ turn = "saves" /\ Up /\ saving = NoSave
    /\ IF saveQ = <<>>
       THEN turn' = After("saves") /\ UNCHANGED <<saving, saveQ>>
       ELSE /\ saving' = [saveQ[Len(saveQ)] EXCEPT !.stage = "popped"]
            /\ saveQ' = SubSeq(saveQ, 1, Len(saveQ) - 1) /\ turn' = turn
    /\ UNCHANGED <<SvcRest, fails, replaced, live, disk, lostSaves, tried>>

\* fs_drain_saves pops a request, or goes on to the next lane.
SavePop ==
    /\ turn = "saves" /\ Up /\ saving = NoSave
    /\ IF saveQ = <<>>
       THEN turn' = After("saves") /\ UNCHANGED <<saving, saveQ>>
       ELSE /\ saving' = [Head(saveQ) EXCEPT !.stage = "popped"]
            /\ saveQ' = Tail(saveQ) /\ turn' = turn
    /\ UNCHANGED <<SvcRest, fails, replaced, live, disk, lostSaves, tried>>

\* A failed attempt goes to the back of the queue and the loop ends, until
\* its tries are spent or producers have filled the queue meanwhile.
Retry ==
    /\ tried' = TRUE /\ saving' = NoSave
    /\ IF saving.tries + 1 < SaveTries /\ Len(saveQ) < SaveCap
       THEN /\ saveQ' = Append(saveQ, [saving EXCEPT !.tries = @ + 1, !.stage = "queued"])
            /\ turn' = After("saves") /\ lostSaves' = lostSaves
       ELSE /\ lostSaves' = lostSaves + 1
            /\ UNCHANGED <<saveQ, turn>>

\* fs_do_save opens the file, which empties it ...
SaveOpen ==
    /\ saving # NoSave /\ saving.stage = "popped"
    /\ \/ /\ CardWorks
          /\ saving' = [saving EXCEPT !.stage = "open"]
          /\ disk' = [disk EXCEPT ![saving.store] = -1]
          /\ replaced' = [p \in Paths |-> replaced[p] + IF p = saving.store THEN 1 ELSE 0]
          /\ UNCHANGED <<turn, saveQ, lostSaves, tried>>
       \/ /\ CardFails /\ Retry
          /\ UNCHANGED <<disk, replaced>>
    /\ UNCHANGED <<SvcRest, live>>

\* ... and writes the snapshot; a failed write leaves a torn file.
SaveWrite ==
    /\ saving # NoSave /\ saving.stage = "open"
    /\ \/ /\ CardWorks
          /\ disk' = [disk EXCEPT ![saving.store] = saving.version]
          /\ saving' = NoSave
          /\ UNCHANGED <<turn, saveQ, lostSaves, tried>>
       \/ CardFails /\ Retry /\ disk' = disk
    /\ UNCHANGED <<SvcRest, replaced, live>>

\* A power cut loses the queue; pid_config_init and the IMU's own load accept
\* a file of the right size and magic only, else the defaults stand.
Restored(s) == IF disk[s] = -1 THEN 0 ELSE disk[s]

CfgReset ==
    /\ live' = [s \in Stores |-> Restored(s)]
    /\ tried' = (tried \/ saving # NoSave)
    /\ saveQ' = <<>> /\ saving' = NoSave /\ lostSaves' = 0
    /\ disk' = disk

-----------------------------------------------------------------------------
(* Properties                                                              *)

\* Once the save lane is idle, a reboot restores exactly what is in force,
\* whatever came in while an earlier snapshot was being written, unless an
\* attempt failed or was cut off (a retried snapshot may replace a newer one,
\* and the file is empty while it is written) or a save was counted as
\* dropped.  A torn file never becomes a tune.
ConfigKept ==
    /\ \A s \in Stores : live[s] >= 0
    /\ saveQ = <<>> /\ saving = NoSave /\ ~tried /\ lostSaves = 0 =>
         \A s \in Stores : Restored(s) = live[s]

\* The filesystem task gets round to everything: no call blocks for ever on
\* the token, the request queue or its result, no browsing request stays
\* unanswered and no snapshot stays queued.
EverythingServed ==
    (Waiters \union Asked # {} \/ saveQ # <<>>) ~> (Waiters \union Asked = {} /\ saveQ = <<>>)

\* The saved tune on the card is the one the vehicle was told.
TuneSound == CfgTypeOK /\ ConfigKept
=============================================================================
