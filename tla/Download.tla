------------------------------ MODULE Download ------------------------------
(***************************************************************************)
(* File downloads: one session of src/comm/xfer/navlink_xfer.c, its        *)
(* ground station and the lossy link between them.                         *)
(*                                                                         *)
(* xfer_service_task streams chunks from a cursor and repairs the holes    *)
(* the receiver names.  provider->read blocks on fs_owner_task, so a read  *)
(* is several steps: the offset is taken and the request queued, the       *)
(* filesystem task reads into the caller's buffer, its result is taken,    *)
(* and the chunk is emitted.  In between comm_processor_task may move the  *)
(* cursor (NAK), rebuild the repair backlog (SACK) or free the session     *)
(* (DONE, ABORT), and the caller may give up (fs_sync_call): its request   *)
(* stays queued or is still being read, and the result that comes in late  *)
(* answers the next caller, whose own result answers the one after it.     *)
(*                                                                         *)
(* Frames may be lost and overtake each other; a report that is lost was   *)
(* never sent, as far as the firmware can tell.  A frame on the link is    *)
(* the offset it is labelled with; what bytes it carries is compared with  *)
(* that when it is emitted (mixed).                                        *)
(***************************************************************************)
EXTENDS Naturals, Sequences, FiniteSets

CONSTANTS
    Chunks,         \* the length of the file, in chunks
    Ranges,         \* XFER_SACK_MAX_RANGES
    RepeatReports,  \* XFER_SACK_REPEAT_REPORTS
    RepeatIdle,     \* XFER_SACK_REPEAT_REPORTS_IDLE
    Budget,         \* XFER_CHUNK_BUDGET
    DlIdleTicks,      \* XFER_IDLE_MS, in ticks
    DlLingerTicks,    \* XFER_DONE_LINGER_MS, in ticks
    DlMaxLate,      \* bound: calls given up while there is a receiver (FS_SYNC_TIMEOUT_TICKS)
    Recovery        \* how the receiver asks for what it misses

ASSUME DownloadAssumption ==
    /\ Chunks \in Nat \ {0} /\ Ranges \in Nat \ {0}
    /\ RepeatReports \in Nat /\ RepeatIdle \in 0 .. RepeatReports
    /\ Budget \in Nat \ {0}
    /\ DlMaxLate \in Nat \ {0}
    /\ DlIdleTicks \in Nat \ {0} /\ DlLingerTicks \in Nat \ {0}
    /\ Recovery \subseteq {"sack", "nak"}

VARIABLES
    dlSt, dlCursor, dlClosing,  \* the session
    total,      \* total_size, in chunks; 0 in a session that was freed
    repair,     \* the repair backlog
    dlIdle,     \* ticks since last_rx_ms
    dlLinger,   \* ticks since last_emit_ms
    tick,       \* where xfer_tick is, what it reads, what is left of its budget
    net,        \* XFER_DATA frames on the link
    mixed,      \* history: a chunk went out with other bytes, and no call had been given up
    up,         \* the report on the link, or NoReport
    dlReq,      \* s_sync_req_q: the offset asked for, or NoRead
    dlExec,     \* what fs_owner_task is reading, or NoRead
    dlRes,      \* s_sync_res_q: the result, which carries no name
    dlBuf,      \* the chunk whose bytes came into the buffer during this read, or NoRead
    dlLate,     \* calls given up while their request was pending
    copy,       \* the offsets at which the receiver has something
    known,      \* it knows of the chunks below this one: its reports cover them
    dlGone      \* the ground station has finished, given up or vanished

dlSessVars == <<dlSt, dlCursor, dlClosing, total, repair, dlIdle, dlLinger>>
dlGcsVars  == <<copy, known, dlGone>>
dlCallVars == <<dlReq, dlExec, dlRes, dlLate, mixed>>
dlFsVars   == <<dlCallVars, dlBuf>>
dlVars == <<dlSessVars, tick, net, up, dlFsVars, dlGcsVars>>

Offsets == 0 .. Chunks - 1
NoRead  == Chunks
Entries == [off : Offsets, sent : BOOLEAN, reports : 0 .. RepeatReports]
Reports == [kind : {"sack", "nak", "done", "abort"}, next : 0 .. Chunks, holes : SUBSET Offsets]
NoReport == [kind |-> "none"]

DlTypeOK ==
    /\ dlSt \in {"FREE", "PENDING_OPEN", "ACTIVE", "DONE_LINGER"}
    /\ dlCursor \in 0 .. Chunks
    /\ dlClosing \in BOOLEAN
    /\ total \in {0, Chunks}
    /\ repair \in Seq(Entries) /\ Len(repair) <= Ranges
    /\ dlIdle \in 0 .. DlIdleTicks /\ dlLinger \in 0 .. DlLingerTicks
    /\ tick \in [at : {"idle", "repairs", "repairWait", "repairRead",
                       "stream", "streamWait", "streamRead"},
                off : Offsets, rix : 0 .. Ranges, left : 0 .. Budget]
    /\ net \subseteq Offsets /\ mixed \in BOOLEAN
    /\ up \in Reports \union {NoReport}
    /\ dlReq \in 0 .. Chunks /\ dlExec \in 0 .. Chunks
    /\ dlRes \in {"none", "ok", "short"}
    /\ dlBuf \in 0 .. Chunks /\ dlLate \in 0 .. DlMaxLate
    /\ copy \subseteq Offsets /\ known \in 0 .. Chunks
    /\ dlGone \in BOOLEAN

\* A session in state s, with (or without) a receiver that waits for the file.
DlInitAt(s, without) ==
    /\ dlSt = s /\ dlCursor = 0 /\ dlClosing = FALSE
    /\ total = 0 /\ repair = <<>> /\ dlIdle = 0 /\ dlLinger = 0
    /\ tick = [at |-> "idle", off |-> 0, rix |-> 0, left |-> 0]
    /\ net = {} /\ up = NoReport /\ mixed = FALSE
    /\ dlReq = NoRead /\ dlExec = NoRead /\ dlRes = "none" /\ dlBuf = NoRead /\ dlLate = 0
    /\ copy = {} /\ known = 0
    /\ dlGone = without

\* xfer_on_open has stashed a download from offset 0.
DlInit == DlInitAt("PENDING_OPEN", FALSE)

\* Nobody is there any more: what he has got, and what is still on its way to
\* him, no longer matters.
Gone == dlGone' = TRUE /\ copy' = {} /\ known' = 0 /\ net' = {}

\* session_free
DlFree ==
    /\ dlSt' = "FREE" /\ dlCursor' = 0 /\ dlClosing' = FALSE
    /\ total' = 0 /\ repair' = <<>> /\ dlIdle' = 0 /\ dlLinger' = 0

(***************************************************************************)
(* comm_processor_task: the handlers, each fed by the report on the link.  *)
(***************************************************************************)
Listening == dlSt \in {"ACTIVE", "DONE_LINGER"}

Take(kinds) == /\ up.kind \in kinds
               /\ up' = NoReport
               /\ UNCHANGED <<tick, net, dlFsVars, dlGcsVars>>

\* xfer_on_ack flagged DONE or ABORT: the session is freed on the spot, also
\* under a read that is in progress.
OnEnd ==
    /\ Take({"done", "abort"})
    /\ IF Listening THEN DlFree ELSE UNCHANGED dlSessVars

\* xfer_on_ack flagged NAK: go back to the first missing chunk.
OnNak ==
    /\ Take({"nak"})
    /\ IF Listening
       THEN /\ dlCursor' = up.next
            /\ dlSt' = "ACTIVE"
            /\ dlIdle' = 0 /\ dlLinger' = 0
            /\ UNCHANGED <<dlClosing, total, repair>>
       ELSE UNCHANGED dlSessVars

\* A repair is presumed lost after this many further reports of its hole.
Limit == IF dlCursor >= total THEN RepeatIdle ELSE RepeatReports

Fresh(o) == [off |-> o, sent |-> FALSE, reports |-> 0]

\* The entry of a hole that was queued before: a repair that is still asked
\* for comes closer to being presumed lost.
ReportedAgain(e) ==
    IF ~e.sent THEN e
    ELSE IF e.reports + 1 >= Limit THEN Fresh(e.off) ELSE [e EXCEPT !.reports = @ + 1]

\* Mutant of EntryOf: what was sent once is never presumed lost.
EntryOf_NoRetry(o) ==
    LET old == {i \in 1 .. Len(repair) : repair[i].off = o} IN
    IF old = {} THEN Fresh(o) ELSE repair[CHOOSE i \in old : TRUE]

\* The backlog entry of a hole that is named now.
EntryOf(o) ==
    LET old == {i \in 1 .. Len(repair) : repair[i].off = o} IN
    IF old = {} THEN Fresh(o) ELSE ReportedAgain(repair[CHOOSE i \in old : TRUE])

\* What fits into the backlog of the holes hs: the first of them, in order.
Fitting(hs) ==
    {q \in UNION {[1 .. n -> hs] : n \in 0 .. Ranges} :
        /\ \A i, j \in DOMAIN q : i < j => q[i] < q[j]
        /\ \A o \in hs : \/ \E i \in DOMAIN q : q[i] = o
                         \/ Len(q) = Ranges /\ \A i \in DOMAIN q : q[i] < o}

\* xfer_on_sack: the backlog becomes what this report names, as far as it
\* fits; a finished stream is reopened if a repair is owed.
OnSack ==
    /\ Take({"sack"})
    /\ IF Listening
       THEN \E named \in Fitting({o \in up.holes : o >= up.next /\ o < total}) :
               /\ repair' = [i \in 1 .. Len(named) |-> EntryOf(named[i])]
               /\ dlIdle' = 0 /\ dlLinger' = 0
               /\ dlSt' = IF \E i \in 1 .. Len(named) : ~EntryOf(named[i]).sent
                          THEN "ACTIVE" ELSE dlSt
               /\ UNCHANGED <<dlCursor, dlClosing, total>>
       ELSE UNCHANGED dlSessVars

\* xfer_on_close, for a ground station that gives up.
DlOnClose ==
    /\ ~dlGone
    /\ Gone
    /\ dlClosing' = (dlSt # "FREE")
    /\ UNCHANGED <<dlSt, dlCursor, total, repair, dlIdle, dlLinger, tick, up, dlFsVars>>

(***************************************************************************)
(* xfer_service_task: xfer_tick.  Timers run only while the ground station *)
(* is silent for good: one that is there reports faster than they expire.  *)
(***************************************************************************)
Older(t, max) == IF dlGone /\ t < max THEN t + 1 ELSE t

\* Mutant of IdleOver: a session that owes repairs is not reaped.
IdleOver_Owing ==
    /\ Older(dlIdle, DlIdleTicks) = DlIdleTicks
    /\ \A i \in 1 .. Len(repair) : repair[i].sent

IdleOver == Older(dlIdle, DlIdleTicks) = DlIdleTicks

LingerOver == Older(dlLinger, DlLingerTicks) = DlLingerTicks

\* Nothing is being read at place p, with n chunks of the budget left.
At(p, n) == [at |-> p, off |-> 0, rix |-> 0, left |-> n]

DlTickClose ==
    /\ tick.at = "idle" /\ dlClosing
    /\ DlFree
    /\ UNCHANGED <<tick, net, up, dlFsVars, dlGcsVars>>

\* tick_pending_open: the file is not there, or the emission starts.
DlTickOpen ==
    /\ tick.at = "idle" /\ ~dlClosing /\ dlSt = "PENDING_OPEN"
    /\ \/ DlFree /\ Gone /\ UNCHANGED <<tick, dlFsVars>>
       \/ /\ dlSt' = "ACTIVE" /\ total' = Chunks /\ dlIdle' = 0
          /\ tick' = At("repairs", Budget)
          /\ UNCHANGED <<dlCursor, dlClosing, repair, dlLinger, net, dlFsVars, dlGcsVars>>
    /\ UNCHANGED up

DlTickActive ==
    /\ tick.at = "idle" /\ ~dlClosing /\ dlSt = "ACTIVE"
    /\ tick' = At("repairs", Budget)
    /\ UNCHANGED <<dlSessVars, net, up, dlFsVars, dlGcsVars>>

DlTickLinger ==
    /\ tick.at = "idle" /\ ~dlClosing /\ dlSt = "DONE_LINGER"
    /\ IF LingerOver
       THEN DlFree
       ELSE /\ dlLinger' = Older(dlLinger, DlLingerTicks)
            /\ UNCHANGED <<dlSt, dlCursor, dlClosing, total, repair, dlIdle>>
    /\ UNCHANGED <<tick, net, up, dlFsVars, dlGcsVars>>

\* The end of the ACTIVE case, left in state s: the idle timeout.
EndTick(s) ==
    /\ tick' = At("idle", 0) /\ dlBuf' = NoRead
    /\ IF IdleOver
       THEN DlFree
       ELSE /\ dlSt' = s
            /\ dlIdle' = Older(dlIdle, DlIdleTicks)
            /\ dlLinger' = IF s = dlSt THEN dlLinger ELSE 0
            /\ UNCHANGED <<dlCursor, dlClosing, total, repair>>
    /\ UNCHANGED <<net, up, dlGcsVars>>

\* Nothing more from this loop in this tick: the repair loop is followed by
\* the stream loop, and that one by the end of the tick.
Break ==
    \/ /\ tick.at \in {"repairs", "repairWait", "repairRead"}
       /\ tick' = At("stream", tick.left) /\ dlBuf' = NoRead
       /\ UNCHANGED <<dlSessVars, net, up, dlGcsVars>>
    \/ /\ tick.at \in {"stream", "streamWait", "streamRead"}
       /\ EndTick(dlSt)

\* fs_owner_read_at: the request goes into the queue of one.  Where that still
\* holds the request of a call that was given up, the read has failed.
Ask(p, o, r) ==
    IF dlReq = NoRead
    THEN /\ dlReq' = o
         /\ tick' = [at |-> p, off |-> o, rix |-> r, left |-> tick.left]
         /\ UNCHANGED <<dlSessVars, net, up, dlBuf, dlGcsVars>>
    ELSE dlReq' = dlReq /\ Break

Owed == {i \in 1 .. Len(repair) : ~repair[i].sent}

\* tick_download: the repair loop takes the first entry that is owed.
TakeRepair ==
    /\ tick.at = "repairs"
    /\ IF tick.left > 0 /\ dlSt = "ACTIVE" /\ Owed # {}
       THEN \E r \in Owed : /\ \A i \in Owed : r <= i
                            /\ Ask("repairWait", repair[r].off, r)
       ELSE dlReq' = dlReq /\ Break
    /\ UNCHANGED <<dlExec, dlRes, dlLate, mixed>>

Waiting == tick.at \in {"repairWait", "streamWait"}
Reading == Waiting \/ tick.at \in {"repairRead", "streamRead"}

\* fs_sync_call returns with the result it finds: whose it is, it does not say.
ReadReturns ==
    /\ Waiting /\ dlRes # "none"
    /\ dlRes' = "none"
    /\ IF dlRes = "ok"
       THEN /\ tick' = [tick EXCEPT !.at = IF @ = "repairWait" THEN "repairRead" ELSE "streamRead"]
            /\ UNCHANGED <<dlSessVars, net, up, dlBuf, dlGcsVars>>
       ELSE Break
    /\ UNCHANGED <<dlReq, dlExec, dlLate, mixed>>

\* FS_SYNC_TIMEOUT_TICKS: what was queued stays queued.  Once nobody is there
\* the filesystem task may be stuck for ever, and every call is given up.
ReadGivenUp ==
    /\ Waiting /\ dlRes = "none"
    /\ \/ dlLate < DlMaxLate /\ dlLate' = dlLate + 1
       \/ dlLate = DlMaxLate /\ dlGone /\ dlLate' = dlLate
    /\ Break
    /\ UNCHANGED <<dlReq, dlExec, dlRes, mixed>>

\* The channel's ring is full.
RingFull == /\ tick.at \in {"repairRead", "streamRead"}
            /\ Break
            /\ UNCHANGED dlCallVars

\* The channel takes a frame labelled with offset o, with the bytes that are in
\* the buffer; it reaches the ground, or is lost.
Emit(o, lost) ==
    /\ net' = IF lost \/ dlGone THEN net ELSE net \union {o}
    /\ mixed' = (mixed \/ (dlLate = 0 /\ dlBuf # o))
    /\ dlBuf' = NoRead
    /\ UNCHANGED <<dlReq, dlExec, dlRes, dlLate>>

\* The repair went out; the entry that is now at its index is marked as sent.
RepairSent(lost) ==
    /\ tick.at = "repairRead"
    /\ Emit(tick.off, lost)
    /\ repair' = [i \in 1 .. Len(repair) |->
                   IF i = tick.rix THEN [repair[i] EXCEPT !.sent = TRUE, !.reports = 0]
                   ELSE repair[i]]
    /\ dlIdle' = 0
    /\ tick' = At("repairs", tick.left - 1)
    /\ UNCHANGED <<dlSt, dlCursor, dlClosing, total, dlLinger, up, dlGcsVars>>

\* The stream loop is over: no budget, or no session to stream for.
StreamEnds ==
    /\ tick.at = "stream" /\ (tick.left = 0 \/ dlSt # "ACTIVE")
    /\ EndTick(dlSt) /\ UNCHANGED dlCallVars

\* The EOF marker is accepted by the channel, or tried again in the next tick.
StreamEof(accepted) ==
    /\ tick.at = "stream" /\ tick.left > 0 /\ dlSt = "ACTIVE" /\ dlCursor >= total
    /\ EndTick(IF accepted THEN "DONE_LINGER" ELSE dlSt) /\ UNCHANGED dlCallVars

StreamTake ==
    /\ tick.at = "stream" /\ tick.left > 0 /\ dlSt = "ACTIVE" /\ dlCursor < total
    /\ Ask("streamWait", dlCursor, 0)
    /\ UNCHANGED <<dlExec, dlRes, dlLate, mixed>>

\* Mutant of Label: the frame is labelled with the live cursor.
Label_Live(o) == dlCursor

\* The offset a streamed chunk goes out with.
Label(o) == o

\* The cursor advances unless it was moved during the read.
StreamSent(lost) ==
    /\ tick.at = "streamRead"
    /\ Emit(Label(tick.off), lost)
    /\ dlCursor' = IF dlCursor = tick.off THEN tick.off + 1 ELSE dlCursor
    /\ dlIdle' = 0
    /\ IF tick.off + 1 >= total
       THEN /\ dlSt' = "DONE_LINGER" /\ dlLinger' = 0
            /\ tick' = At("idle", 0)
       ELSE tick' = At("stream", tick.left - 1) /\ UNCHANGED <<dlSt, dlLinger>>
    /\ UNCHANGED <<dlClosing, total, repair, up, dlGcsVars>>

(***************************************************************************)
(* fs_owner_task, as far as it serves these reads, and the other tasks     *)
(* that call it.                                                           *)
(***************************************************************************)
FsTakes ==
    /\ dlReq # NoRead /\ dlExec = NoRead
    /\ dlExec' = dlReq /\ dlReq' = NoRead
    /\ UNCHANGED <<dlSessVars, tick, net, up, dlRes, dlBuf, dlLate, mixed, dlGcsVars>>

\* fs_exec_sync and the end of the loop: the bytes go to where the caller's
\* buffer was when it asked (on the stack of tick_download, which may be reading
\* something else by now), and the result into its queue, unless an older one is
\* still there.
FsReads(r) ==
    /\ dlExec # NoRead
    /\ dlExec' = NoRead
    /\ dlBuf' = IF r = "ok" /\ Reading THEN dlExec ELSE dlBuf
    /\ dlRes' = IF dlRes = "none" THEN r ELSE dlRes
    /\ UNCHANGED <<dlSessVars, tick, net, up, dlReq, dlLate, mixed, dlGcsVars>>

\* The first call that is given up is another task's, and its late result has
\* come in: the token was with that task meanwhile.
OthersLate ==
    /\ dlLate = 0 /\ dlLate < DlMaxLate /\ ~Waiting
    /\ dlLate' = dlLate + 1
    /\ dlRes' \in {"ok", "short"}
    /\ UNCHANGED <<dlSessVars, tick, net, up, dlReq, dlExec, dlBuf, mixed, dlGcsVars>>

(***************************************************************************)
(* The ground station and the link.                                        *)
(***************************************************************************)
Missing == Offsets \ copy
Complete == Missing = {}
FirstMissing == Cardinality({o \in Offsets : \A p \in Missing : o < p})

GcsReceive(f) ==
    /\ f \in net /\ ~dlGone
    /\ net' = net \ {f}
    /\ copy' = copy \union {f}
    /\ known' = IF known > f THEN known ELSE f + 1
    /\ UNCHANGED <<dlSessVars, tick, up, dlFsVars, dlGone>>

\* A SACK names every hole the receiver knows of: below a chunk that arrived,
\* or, once it has the EOF or is tired of waiting, in the whole file.
GcsReport(kind, k) ==
    /\ ~dlGone /\ ~Complete /\ up = NoReport
    /\ up' = [kind |-> kind, next |-> FirstMissing,
              holes |-> IF kind = "sack" THEN {o \in Missing : o < k} ELSE {}]
    /\ known' = k
    /\ UNCHANGED <<dlSessVars, tick, net, dlFsVars, copy, dlGone>>

\* The last word of the ground station: DONE, or ABORT.
GcsEnds(kind) ==
    /\ ~dlGone /\ up = NoReport
    /\ kind = "done" => Complete
    /\ up' = [kind |-> kind, next |-> 0, holes |-> {}]
    /\ Gone
    /\ UNCHANGED <<dlSessVars, tick, dlFsVars>>

\* It is switched off: what is on the link no longer matters to anyone.
GcsVanishes ==
    /\ ~dlGone
    /\ Gone
    /\ up' = NoReport
    /\ UNCHANGED <<dlSessVars, tick, dlFsVars>>

----------------------------------------------------------------------------
DlHandlers == OnEnd \/ OnNak \/ OnSack \/ DlOnClose

XferTick == \/ DlTickClose \/ DlTickOpen \/ DlTickActive \/ DlTickLinger
            \/ TakeRepair \/ StreamTake \/ StreamEnds
            \/ ReadReturns \/ ReadGivenUp \/ RingFull
            \/ \E lost \in BOOLEAN : RepairSent(lost) \/ StreamSent(lost)
            \/ \E accepted \in BOOLEAN : StreamEof(accepted)

Gcs == \/ \E f \in net : GcsReceive(f)
       \/ \E kind \in Recovery : \E k \in {known, Chunks} : GcsReport(kind, k)
       \/ \E kind \in {"done", "abort"} : GcsEnds(kind)
       \/ GcsVanishes

FsTask == FsTakes \/ \E r \in {"ok", "short"} : FsReads(r)

DlNext == DlHandlers \/ XferTick \/ FsTask \/ OthersLate \/ Gcs

DlSpec == DlInit /\ [][DlNext]_dlVars

\* xfer_service_task and comm_processor_task are periodic.  While the ground
\* station is there, a chunk that is read again and again is at last read in
\* time, accepted by the channel and not lost, and a receiver that misses
\* chunks goes on reporting all of them.  Once it is gone, nothing is assumed
\* of the channel, the card or the filesystem task.
DlFairness ==
    /\ WF_dlVars(XferTick) /\ WF_dlVars(OnNak \/ OnSack)
    /\ WF_dlVars(~dlGone /\ FsTask)
    /\ \A o \in Offsets :
          /\ SF_dlVars(~dlGone /\ dlExec = o /\ dlRes = "none" /\ FsReads("ok"))
          /\ SF_dlVars(~dlGone /\ tick.off = o /\ (RepairSent(FALSE) \/ StreamSent(FALSE)))
    /\ \A f \in Offsets : WF_dlVars(GcsReceive(f))
    /\ SF_dlVars(\E kind \in Recovery : GcsReport(kind, Chunks))

DlFairSpec == DlSpec /\ DlFairness

(***************************************************************************)
(* Properties.                                                             *)
(***************************************************************************)

\* navlink_xfer.c:510, "One snapshot makes each emitted frame self-consistent":
\* a rewind, a rebuilt backlog or a freed session during the blocking read
\* never sends a chunk under another chunk's offset -- until any task's call is
\* given up while its request is pending.  From then on a reader may take the
\* result of the call before it and emit what the buffer happens to hold.
CopyIsFaithful == ~mixed

\* COMM-XFER-001, "survives dropped/duplicated/reordered chunks": a ground
\* station that stays gets the whole file, through lost frames, lost, late and
\* truncated reports, a backlog smaller than its holes and repairs marked as
\* sent under a concurrent report.
DownloadCompletes == dlSt = "ACTIVE" ~> Complete \/ dlGone
============================================================================
