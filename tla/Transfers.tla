----------------------------- MODULE Transfers -----------------------------
(***************************************************************************)
(* The session table of navlink_xfer.c as a whole: a behaviour exercises   *)
(* its upload direction (Upload, over the write lane of fs_owner.c) or its *)
(* download direction (Download, over the serial link).  The two share     *)
(* xfer_service_task and the table and nothing else, a session having one  *)
(* direction for as long as it lives.                                      *)
(***************************************************************************)
EXTENDS Upload, Download

CONSTANT Directions
ASSUME TransfersAssumption == Directions \subseteq {"up", "down"}

VARIABLE direction

xferVars == <<vars, dlVars, direction>>

XferTypeOK ==
    /\ direction = "up" => TypeOK
    /\ direction = "down" => DlTypeOK

\* No session is open at first but the download's, which xfer_on_open has
\* just filled in.
XferInit ==
    /\ direction \in Directions
    /\ Init
    /\ IF direction = "down" THEN DlInit ELSE DlInitAt("FREE", TRUE)

XferNext ==
    /\ UNCHANGED direction
    /\ \/ direction = "up"   /\ Next   /\ UNCHANGED dlVars
       \/ direction = "down" /\ DlNext /\ UNCHANGED vars

\* The fairness of Upload, owed only by behaviours that upload: fs_owner_task
\* polls its lanes for ever and would otherwise be owed steps that a download
\* leaves out.  Of Download, nothing is enabled in a session that is free.
XferFairness ==
    /\ \A s \in Sessions : WF_vars(direction = "up" /\ Tick(s))
    /\ WF_vars(direction = "up" /\ (FsLane \/ FsTruncate))
    /\ DlFairness

XferSpec == XferInit /\ [][XferNext]_xferVars /\ XferFairness

\* An upload that was told DONE is on the card, and the count of its chunks on
\* their way, which decides that, is exact.
UploadExact == XferTypeOK /\ DoneMeansOnDisk /\ PendingExact

\* No session outlives its ground station: the idle timeout, the flush and the
\* linger all end, whatever the card does; also when the channel refuses every
\* further frame or the card every read, and when a read in progress put a
\* download back into DONE_LINGER after it was freed.
SessionsReclaimed ==
    (IF direction = "up" THEN gone ELSE dlGone)
        ~> dlSt = "FREE" /\ \A s \in Sessions : st[s] = "FREE"
=============================================================================
