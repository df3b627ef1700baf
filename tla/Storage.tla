------------------------------ MODULE Storage ------------------------------
(***************************************************************************)
(* The filesystem task with everything it serves: the save lane            *)
(* (ConfigStore), the write lane's handle and the calls of other tasks     *)
(* (FsFunnel), and the flight recorder (BlackBox), on one card and through *)
(* one loop.  The recorder, the handles and the queries meet in the file   *)
(* table, in the deletion of the recorder's file and in every power cut.   *)
(***************************************************************************)
EXTENDS ConfigStore

vars == <<loopVars, logVars, svcVars, cfgVars>>

Init == LoopInit /\ LogInit /\ SvcInit /\ CfgInit

\* Power is lost and comes back: boot_task restores the recorder's cursor
\* (BootInit) and the tune before the tasks exist.
Crash ==
    /\ "crash" \in offered /\ boots < MaxBoots
    /\ boots' = boots + 1
    /\ turn' = "saves" /\ suppressed' = FALSE
    /\ LogReset /\ SvcReset /\ CfgReset
    /\ UNCHANGED <<offered, fails, flips, xfers, cardVars>>

\* fs_owner_task.
FsTask ==
    \/ Recorder /\ UNCHANGED <<svcVars, cfgVars>>
    \/ (Writes \/ SyncPop \/ SyncExec \/ SyncIdle) /\ UNCHANGED cfgVars
    \/ SavePop \/ SaveOpen \/ SaveWrite
    \/ BootInit /\ UNCHANGED <<svcVars, cfgVars>>

Caller(c) == CallStep(c) \/ ClientDone(c)

Progress == StepQuery \/ (\E k \in Kinds : StartQuery(k)) \/ \E c \in Callers : Caller(c)

\* Downloads and loads read any file; an upload truncates its target first.  An
\* upload over the recorder's own file is left out.
Ops(c, p) == IF c = "xfer" /\ p # "hsl" THEN {"read", "truncate"} ELSE {"read"}

Clients ==
    \/ Progress
    \/ \E c \in Callers, p \in Paths : \E o \in Ops(c, p) : Client(c, o, p)
    \/ \E k \in Kinds : Ask(k)
    \/ \E p \in Paths : EnqueueWrite(p)

Producers == Sample \/ Text \/ Quiet \/ HoldEnds \/ Fly \/ Transfer

Next ==
    \/ FsTask
    \/ Clients /\ UNCHANGED cfgVars
    \/ Producers /\ UNCHANGED <<svcVars, cfgVars>>
    \/ \E s \in Stores : Change(s)
    \/ Crash

\* The scheduler runs every task, and time passes.  A transfer need not end.
Spec ==
    /\ Init /\ [][Next]_vars
    /\ WF_vars(FsTask)
    /\ WF_vars(Progress /\ UNCHANGED cfgVars)
    /\ WF_vars(Quiet /\ UNCHANGED <<svcVars, cfgVars>>)

\* fs_owner_task gets round to everyone: text reaches the card, the file is
\* released for a transfer, and whatever was queued is served.
StorageServes == TextReachesCard /\ FileReleased /\ EverythingServed
=============================================================================
