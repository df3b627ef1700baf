----------------------------- MODULE WriteLane -----------------------------
(***************************************************************************)
(* The write-at lane of the filesystem owner (src/storage/fs_owner.c).     *)
(*                                                                         *)
(* Producers snapshot a positioned write into a short queue and return;    *)
(* fs_owner_task is the only task that touches the card.  Each pass of its *)
(* loop drains every fresh request, then one failed request waiting for a  *)
(* retry, then polls for synchronous requests.  A write blocks on the      *)
(* card, so producers run while one is in progress.  Per session the lane  *)
(* counts what is pending and committed and flags a permanent failure:     *)
(* that is all a producer ever learns about its writes.                    *)
(*                                                                         *)
(* This module has the lane's state and the steps of fs_owner_task that    *)
(* work on it; the modules that extend it (Upload, EscCalib) are the       *)
(* producers.                                                              *)
(***************************************************************************)
EXTENDS Naturals, Sequences

CONSTANTS
    Slots,      \* the per-session bookkeeping slots (FS_WA_SESSIONS)
    Files,      \* the files written through the lane
    MaxOff,     \* their offsets are 0 .. MaxOff, in chunks
    Contents,   \* what a chunk may be
    LaneCap,    \* FS_WRITEAT_QUEUE_CAP
    RetryCap,   \* FS_WRITEAT_RETRY_CAP
    MaxTries    \* FS_WRITEAT_MAX_TRIES

ASSUME LaneAssumption == MaxOff \in Nat /\ LaneCap \in Nat /\ RetryCap \in Nat /\ MaxTries \in Nat

VARIABLES
    card,       \* what is on the card
    waQ,        \* s_writeat_q
    retryQ,     \* s_retry_q
    fsStage,    \* where fs_owner_task is in its loop
    fsReq,      \* the request it is writing, or NoReq
    pending,    \* s_wa_pending
    committed,  \* s_wa_committed, in requests rather than bytes
    failed      \* s_wa_failed

laneVars == <<waQ, retryQ, fsStage, fsReq, pending, committed, failed>>

Requests == [slot : Slots, file : Files, off : 0 .. MaxOff, data : Contents,
             tries : 0 .. MaxTries]
NoReq == [tries |-> MaxTries + 1]

LaneTypeOK ==
    /\ card \in [Files -> [0 .. MaxOff -> Contents]]
    /\ waQ \in Seq(Requests) /\ Len(waQ) <= LaneCap
    /\ retryQ \in Seq(Requests) /\ Len(retryQ) <= RetryCap
    /\ fsStage \in {"poll", "fresh", "retry"}
    /\ fsReq \in Requests \union {NoReq}
    /\ pending \in [Slots -> Nat]
    /\ committed \in [Slots -> Nat]
    /\ failed \in [Slots -> BOOLEAN]

LaneInit ==
    /\ waQ = <<>> /\ retryQ = <<>>
    /\ fsStage = "poll" /\ fsReq = NoReq
    /\ pending = [s \in Slots |-> 0]
    /\ committed = [s \in Slots |-> 0]
    /\ failed = [s \in Slots |-> FALSE]

(***************************************************************************)
(* Producers.                                                              *)
(***************************************************************************)

\* mpmc_try_push under MPMC_POLICY_DROP fails.
LaneFull == Len(waQ) >= LaneCap

\* fs_owner_enqueue_write_at: the lane takes the request and counts it, here in
\* one step (the code counts after the push).
Enqueue(s, f, o, d) ==
    /\ ~LaneFull
    /\ waQ' = Append(waQ, [slot |-> s, file |-> f, off |-> o, data |-> d, tries |-> 0])
    /\ pending' = [pending EXCEPT ![s] = @ + 1]
    /\ UNCHANGED <<retryQ, fsStage, fsReq, committed, failed>>

\* fs_owner_writeat_reset
Reset(s) ==
    /\ pending' = [pending EXCEPT ![s] = 0]
    /\ committed' = [committed EXCEPT ![s] = 0]
    /\ failed' = [failed EXCEPT ![s] = FALSE]
    /\ UNCHANGED <<waQ, retryQ, fsStage, fsReq>>

(***************************************************************************)
(* fs_owner_task.                                                          *)
(***************************************************************************)

\* The poll for a synchronous request times out; a new pass begins.
FsWake ==
    /\ fsStage = "poll"
    /\ fsStage' = "fresh"
    /\ UNCHANGED <<card, waQ, retryQ, fsReq, pending, committed, failed>>

FsTakeFresh ==
    /\ fsStage = "fresh" /\ fsReq = NoReq
    /\ waQ # <<>>
    /\ fsReq' = Head(waQ)
    /\ waQ' = Tail(waQ)
    /\ UNCHANGED <<card, retryQ, fsStage, pending, committed, failed>>

\* No fresh request is left: retry one failed write, if there is one.
FsTakeRetry ==
    /\ fsStage = "fresh" /\ fsReq = NoReq
    /\ waQ = <<>>
    /\ IF retryQ = <<>>
       THEN fsStage' = "poll" /\ UNCHANGED <<fsReq, retryQ>>
       ELSE fsStage' = "retry" /\ fsReq' = Head(retryQ) /\ retryQ' = Tail(retryQ)
    /\ UNCHANGED <<card, waQ, pending, committed, failed>>

\* One retry per pass; fresh requests are drained until none is left.
AfterWrite == fsStage' = IF fsStage = "retry" THEN "poll" ELSE "fresh"

Settle(s) == pending' = [pending EXCEPT ![s] = IF @ > 0 THEN @ - 1 ELSE 0]

Store(req) == card' = [card EXCEPT ![req.file][req.off] = req.data]

FsWriteOk ==
    /\ fsReq # NoReq
    /\ Store(fsReq)
    /\ committed' = [committed EXCEPT ![fsReq.slot] = @ + 1]
    /\ Settle(fsReq.slot)
    /\ fsReq' = NoReq
    /\ AfterWrite
    /\ UNCHANGED <<waQ, retryQ, failed>>

\* Open, write or sync failed; the bytes may have landed all the same.  The
\* request goes to the back of the retry lane, still counted as pending, until
\* its budget is spent or the lane is full: then the session is failed.
FsWriteFail(landed) ==
    /\ fsReq # NoReq
    /\ IF landed THEN Store(fsReq) ELSE UNCHANGED card
    /\ LET req == [fsReq EXCEPT !.tries = @ + 1] IN
         \/ /\ req.tries < MaxTries /\ Len(retryQ) < RetryCap
            /\ retryQ' = Append(retryQ, req)
            /\ UNCHANGED <<pending, failed>>
         \/ /\ ~(req.tries < MaxTries /\ Len(retryQ) < RetryCap)
            /\ failed' = [failed EXCEPT ![req.slot] = TRUE]
            /\ Settle(req.slot)
            /\ UNCHANGED retryQ
    /\ fsReq' = NoReq
    /\ AfterWrite
    /\ UNCHANGED <<waQ, committed>>

FsDrain == \/ FsTakeFresh \/ FsTakeRetry \/ FsWriteOk
           \/ \E landed \in BOOLEAN : FsWriteFail(landed)
============================================================================
