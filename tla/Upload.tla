------------------------------- MODULE Upload -------------------------------
(***************************************************************************)
(* File uploads: the transfer state machine (src/comm/xfer/navlink_xfer.c) *)
(* with its FILE provider on top of the write-at lane.                     *)
(*                                                                         *)
(* Three tasks meet on a session: comm_processor_task runs the handlers    *)
(* (open, data, close), xfer_service_task runs xfer_tick, fs_owner_task    *)
(* writes.  The handlers only touch session state; the provider's open     *)
(* runs in the tick, where it blocks on a truncate done by fs_owner_task.  *)
(*                                                                         *)
(* The ground station may send any chunk of its current file at any time,  *)
(* so lost, duplicated and reordered frames need no state of their own.    *)
(* The data of the n-th file sent is the number n; 0 is "not written".     *)
(* Session s writes the file named s.                                      *)
(***************************************************************************)
EXTENDS WriteLane, FiniteSets

CONSTANTS
    Sessions,       \* xfer sessions; each has a slot and a file
    Starts,         \* the offsets the ground station opens uploads at, per session
    MaxOpens,       \* how often a session is opened (bound of the model)
    IdleTicks,      \* XFER_IDLE_MS, in ticks
    LingerTicks,    \* XFER_DONE_LINGER_MS, in ticks
    SyncMayTimeOut  \* whether fs_sync_call may give up on fs_owner_task

ASSUME UploadAssumption ==
    /\ Slots = Sessions /\ Files = Sessions /\ "none" \notin Sessions
    /\ MaxOpens \in Nat /\ Contents = 0 .. MaxOpens
    /\ Starts \in [Sessions -> SUBSET (0 .. MaxOff)]
    /\ IdleTicks \in Nat /\ LingerTicks \in Nat
    /\ SyncMayTimeOut \in BOOLEAN

VARIABLES
    st,         \* per session: its state
    cursor,     \* next offset expected
    start,      \* offset_start of the upload
    eof,        \* upload_eof
    rx,         \* rx_activity
    closing,    \* close_pending
    idle,       \* ticks since last_rx_ms
    linger,     \* ticks since the terminal ack
    told,       \* the terminal ack of the latest upload
    content,    \* the file the ground station is sending
    origin,     \* the offset it asked for, kept after the session is freed
    opening,    \* the session whose provider->open blocks xfer_service_task
    syncReq,    \* s_sync_req_q: the file to truncate, or "none"
    syncRes,    \* s_sync_res_q holds a result
    gone,       \* the ground station has left
    clean       \* history: its counters were last reset under nothing of an earlier upload

sessVars == <<st, cursor, start, eof, rx, closing, idle, linger>>
syncVars == <<opening, syncReq, syncRes>>
gcsVars  == <<content, origin, gone>>
ackVars  == <<told, clean>>
vars == <<card, laneVars, sessVars, syncVars, gcsVars, ackVars>>

TypeOK ==
    /\ LaneTypeOK
    /\ st \in [Sessions -> {"FREE", "PENDING_OPEN", "ACTIVE", "DONE_LINGER"}]
    /\ cursor \in [Sessions -> 0 .. MaxOff + 1]
    /\ start \in [Sessions -> 0 .. MaxOff]
    /\ eof \in [Sessions -> BOOLEAN]
    /\ rx \in [Sessions -> BOOLEAN]
    /\ closing \in [Sessions -> BOOLEAN]
    /\ idle \in [Sessions -> 0 .. IdleTicks]
    /\ linger \in [Sessions -> 0 .. LingerTicks]
    /\ told \in [Sessions -> {"none", "done", "failed"}]
    /\ content \in [Sessions -> Contents]
    /\ origin \in [Sessions -> 0 .. MaxOff]
    /\ opening \in Sessions \union {"none"}
    /\ syncReq \in Files \union {"none"}
    /\ syncRes \in BOOLEAN
    /\ gone \in BOOLEAN
    /\ clean \in [Sessions -> BOOLEAN]

Init ==
    /\ card = [f \in Files |-> [o \in 0 .. MaxOff |-> 0]]
    /\ LaneInit
    /\ st = [s \in Sessions |-> "FREE"]
    /\ cursor = [s \in Sessions |-> 0]
    /\ start = [s \in Sessions |-> 0]
    /\ eof = [s \in Sessions |-> FALSE]
    /\ rx = [s \in Sessions |-> FALSE]
    /\ closing = [s \in Sessions |-> FALSE]
    /\ idle = [s \in Sessions |-> 0]
    /\ linger = [s \in Sessions |-> 0]
    /\ told = [s \in Sessions |-> "none"]
    /\ content = [s \in Sessions |-> 0]
    /\ origin = [s \in Sessions |-> 0]
    /\ opening = "none" /\ syncReq = "none" /\ syncRes = FALSE
    /\ gone = FALSE
    /\ clean = [s \in Sessions |-> TRUE]

\* session_free: everything of the session is zeroed.
Free(s) ==
    /\ st' = [st EXCEPT ![s] = "FREE"]
    /\ cursor' = [cursor EXCEPT ![s] = 0]
    /\ start' = [start EXCEPT ![s] = 0]
    /\ eof' = [eof EXCEPT ![s] = FALSE]
    /\ rx' = [rx EXCEPT ![s] = FALSE]
    /\ closing' = [closing EXCEPT ![s] = FALSE]
    /\ idle' = [idle EXCEPT ![s] = 0]
    /\ linger' = [linger EXCEPT ![s] = 0]

(***************************************************************************)
(* comm_processor_task: the handlers.                                      *)
(***************************************************************************)

\* xfer_on_open stashes the request (a busy slot rejects it: no step).
OnOpen(s, from) ==
    /\ ~gone
    /\ st[s] = "FREE"
    /\ content[s] < MaxOpens
    /\ content' = [content EXCEPT ![s] = @ + 1]
    /\ origin' = [origin EXCEPT ![s] = from]
    /\ told' = [told EXCEPT ![s] = "none"]
    /\ st' = [st EXCEPT ![s] = "PENDING_OPEN"]
    /\ cursor' = [cursor EXCEPT ![s] = from]
    /\ start' = [start EXCEPT ![s] = from]
    /\ UNCHANGED <<card, laneVars, eof, rx, closing, idle, linger, syncVars, gone, clean>>

\* A chunk is taken if it is the next one and the lane has room for it.
Accepts(s, o) == o = cursor[s] /\ ~LaneFull

\* xfer_on_data -> file_write: chunk o of the file, the last one flagged EOF.
OnData(s, o) ==
    /\ ~gone
    /\ st[s] = "ACTIVE"
    /\ rx' = [rx EXCEPT ![s] = TRUE]
    /\ IF Accepts(s, o)
       THEN Enqueue(s, s, o, content[s]) /\ cursor' = [cursor EXCEPT ![s] = o + 1]
       ELSE UNCHANGED <<laneVars, cursor>>
    /\ eof' = [eof EXCEPT ![s] = IF o = MaxOff /\ o + 1 <= cursor'[s] THEN TRUE ELSE @]
    /\ UNCHANGED <<card, st, start, closing, idle, linger, syncVars, gcsVars, ackVars>>

\* A data frame flagged ABORT.
OnAbort(s) ==
    /\ ~gone
    /\ st[s] = "ACTIVE"
    /\ Free(s)
    /\ UNCHANGED <<card, laneVars, syncVars, gcsVars, ackVars>>

\* xfer_on_close: torn down by the next tick.
OnClose(s) ==
    /\ ~gone
    /\ st[s] # "FREE" /\ ~closing[s]
    /\ closing' = [closing EXCEPT ![s] = TRUE]
    /\ UNCHANGED <<card, laneVars, st, cursor, start, eof, rx, idle, linger, syncVars,
                   gcsVars, ackVars>>

(***************************************************************************)
(* xfer_service_task: xfer_tick, one session at a time.                    *)
(***************************************************************************)
Running(s) == opening = "none" /\ ~closing[s]

TickClose(s) ==
    /\ opening = "none" /\ closing[s]
    /\ Free(s)
    /\ UNCHANGED <<card, laneVars, syncVars, gcsVars, ackVars>>

\* tick_pending_open -> file_open: no path fails; a fresh upload asks
\* fs_owner_task to truncate (when the request queue has room); a resumed one
\* needs no card access.
TickOpen(s) ==
    /\ Running(s)
    /\ st[s] = "PENDING_OPEN"
    /\ \/ Free(s) /\ UNCHANGED syncVars
       \/ /\ opening' = s
          /\ IF start[s] = 0 /\ syncReq = "none"
             THEN syncReq' = s /\ UNCHANGED syncRes
             ELSE UNCHANGED <<syncReq, syncRes>>
          /\ UNCHANGED sessVars
    /\ UNCHANGED <<card, laneVars, gcsVars, ackVars>>

\* How many requests of session s are queued in q, or on their way in all.
Queued(q, s) == Cardinality({i \in DOMAIN q : q[i].slot = s})
InLane(s) == Queued(waQ, s) + Queued(retryQ, s)
             + (IF fsReq # NoReq /\ fsReq.slot = s THEN 1 ELSE 0)

\* The open returns: fs_sync_call has a result, found the request queue full,
\* or gave up; its status is discarded.  The session's counters restart.
OpenReturns(s) ==
    /\ opening = s
    /\ \/ start[s] # 0 /\ UNCHANGED syncRes
       \/ start[s] = 0 /\ syncRes /\ syncRes' = FALSE
       \/ start[s] = 0 /\ ~syncRes /\ SyncMayTimeOut /\ UNCHANGED syncRes
    /\ opening' = "none"
    /\ Reset(s)
    /\ st' = [st EXCEPT ![s] = "ACTIVE"]
    /\ clean' = [clean EXCEPT ![s] = IF InLane(s) = 0 /\ syncReq # s THEN TRUE ELSE FALSE]
    /\ UNCHANGED <<card, cursor, start, eof, rx, closing, idle, linger, syncReq,
                   gcsVars, told>>

\* Mutant of FileFlush: the terminal ack does not wait for the lane.
FileFlush_Enqueued(s) == IF failed[s] THEN "failed" ELSE "done"

\* file_flush: what the lane says of the session's writes.
FileFlush(s) == IF failed[s] THEN "failed"
                ELSE IF pending[s] = 0 THEN "done" ELSE "flushing"

\* Ticks without a sign of life; a flush in progress counts as one.
IdleNow(s) == IF rx[s] \/ (eof[s] /\ FileFlush(s) = "flushing") THEN 0 ELSE idle[s] + 1

\* tick_upload, then the idle timeout of xfer_tick.
TickActive(s) ==
    /\ Running(s)
    /\ st[s] = "ACTIVE"
    /\ IF eof[s] /\ FileFlush(s) # "flushing"
       THEN told' = [told EXCEPT ![s] = FileFlush(s)]
       ELSE UNCHANGED told
    /\ UNCHANGED clean
    /\ IF IdleNow(s) >= IdleTicks
       THEN Free(s)
       ELSE /\ idle' = [idle EXCEPT ![s] = IdleNow(s)]
            /\ rx' = [rx EXCEPT ![s] = FALSE]
            /\ st' = [st EXCEPT ![s] = IF eof[s] /\ FileFlush(s) # "flushing"
                                       THEN "DONE_LINGER" ELSE "ACTIVE"]
            /\ UNCHANGED <<cursor, start, eof, closing, linger>>
    /\ UNCHANGED <<card, laneVars, syncVars, gcsVars>>

TickLinger(s) ==
    /\ Running(s)
    /\ st[s] = "DONE_LINGER"
    /\ LET now == IF rx[s] THEN 0 ELSE linger[s] + 1 IN
         IF now >= LingerTicks
         THEN Free(s)
         ELSE /\ linger' = [linger EXCEPT ![s] = now]
              /\ rx' = [rx EXCEPT ![s] = FALSE]
              /\ UNCHANGED <<st, cursor, start, eof, closing, idle>>
    /\ UNCHANGED <<card, laneVars, syncVars, gcsVars, ackVars>>

(***************************************************************************)
(* fs_owner_task: the lane, and the synchronous request at the end of each *)
(* pass of its loop.                                                       *)
(***************************************************************************)
FsLane == /\ FsDrain \/ (syncReq = "none" /\ FsWake)
          /\ UNCHANGED <<sessVars, syncVars, gcsVars, ackVars>>

\* The truncate succeeds or fails: either way there is a result.
FsTruncate ==
    /\ fsStage = "poll"
    /\ syncReq # "none"
    /\ \/ card' = [card EXCEPT ![syncReq] = [o \in 0 .. MaxOff |-> 0]]
       \/ UNCHANGED card
    /\ syncReq' = "none"
    /\ syncRes' = TRUE
    /\ fsStage' = "fresh"
    /\ UNCHANGED <<waQ, retryQ, fsReq, pending, committed, failed, sessVars, opening,
                   gcsVars, ackVars>>

\* The ground station leaves for good.
GcsLeaves ==
    /\ ~gone
    /\ gone' = TRUE
    /\ UNCHANGED <<card, laneVars, sessVars, syncVars, content, origin, ackVars>>

----------------------------------------------------------------------------
Handlers(s) == \/ \E from \in Starts[s] : OnOpen(s, from)
               \/ \E o \in 0 .. MaxOff : OnData(s, o)
               \/ OnAbort(s) \/ OnClose(s)
Tick(s) == TickClose(s) \/ TickOpen(s) \/ OpenReturns(s) \/ TickActive(s) \/ TickLinger(s)

Next == \/ \E s \in Sessions : Handlers(s) \/ Tick(s)
        \/ FsLane \/ FsTruncate \/ GcsLeaves

Spec == Init /\ [][Next]_vars

\* xfer_service_task and fs_owner_task are periodic and the card answers.
Fairness == /\ \A s \in Sessions : WF_vars(Tick(s))
            /\ WF_vars(FsLane \/ FsTruncate)

FairSpec == Spec /\ Fairness

(***************************************************************************)
(* Properties.                                                             *)
(***************************************************************************)

\* COMM-XFER-001, "only reports completion once bytes are durably persisted":
\* after the ack DONE/ACCEPTED every chunk of the upload is on the card, and
\* stays there.  (Of an upload that was opened while writes or a truncate of an
\* earlier one were still on their way nothing is promised.)
DoneMeansOnDisk ==
    \A s \in Sessions : told[s] = "done" /\ clean[s] =>
      \A o \in origin[s] .. MaxOff : card[s][o] = content[s]

\* fs_owner.h, "pending() = chunks queued or retrying but not yet durably
\* written": the counter agrees with the three places a request may be in.
PendingExact == \A s \in Sessions : clean[s] => pending[s] = InLane(s)
============================================================================
