------------------------------ MODULE Channel ------------------------------
(***************************************************************************)
(* The telemetry downlink: src/comm/channel.c and the tasks that write to  *)
(* it.                                                                     *)
(*                                                                         *)
(* A serial channel is two ping-pong buffers.  Every writer appends one    *)
(* whole frame to the active buffer inside a critical section, or is       *)
(* refused when the frame would pass the writer's cap: the telemetry,      *)
(* command and performance tasks stop Reserve short of the end, the        *)
(* transfer task may use it all.  flush_task swaps the buffers and starts  *)
(* a DMA of the full one, which puts it on the wire frame by frame; the    *)
(* DMA completion interrupt releases the channel.  A refused write is counted OUTSIDE the critical section, by a *)
(* load and a store that equal-priority tasks may separate.                *)
(*                                                                         *)
(* A writer is a task: what it has decided to send in this iteration is    *)
(* its todo sequence, written one frame at a time.  The IMU stream is the  *)
(* one whose frames depend on each other: a full frame re-anchors the      *)
(* reader, a delta frame carries binary16 differences to the frame before. *)
(***************************************************************************)
EXTENDS Integers, Sequences

CONSTANTS
    BufSize,    \* CHANNEL_TX_BUF_SIZE, in frame units
    Reserve,    \* CHANNEL_TX_XFER_RESERVE
    DataLen,    \* length of an XFER_DATA frame; every other frame is 1
    FullEvery,  \* telemetry iterations from one full IMU frame to the next
    Values,     \* IMU readings
    PerfRows,   \* frames of one performance report
    MaxDrops,   \* bound: refused writes
    Offers      \* the sets of traffic sources that may be alive together

ASSUME ChannelAssumption ==
    /\ BufSize \in Nat /\ Reserve \in 1 .. BufSize - 1
    /\ DataLen \in 1 .. Reserve
    /\ FullEvery \in Nat \ {0} /\ PerfRows \in Nat /\ MaxDrops \in Nat
    /\ Values \subseteq Int

Writers == {"telem", "perf", "xfer", "comm"}

VARIABLES
    offered,    \* the traffic sources alive in this behaviour
    active,     \* active_idx
    buf,        \* buffers[], as sequences of frames
    buf_lens,   \* buf_lens[]
    busy,       \* busy: a DMA transfer is in progress
    dma,        \* the buffer the DMA reads from
    sent,       \* the frames of it that are on the wire
    handed,     \* ghost: what that buffer held when it was handed over
    todo,       \* per writer: the frames it has still to write
    loaded,     \* per writer: _tx_overflow_count as it loaded it, or -1
    overflow,   \* _tx_overflow_count
    refused,    \* ghost: writes refused
    pending,    \* ghost: the frames accepted and not yet on the wire, in order
    cur,        \* current_floats of imu_telemetry_task
    prev,       \* previous_floats
    first,      \* first_packet
    counter,    \* packet_counter, modulo FullEvery
    missing,    \* ghost: an IMU frame was refused since the last accepted one
    download,   \* xfer_download_active()
    gcs         \* the reader's reconstruction of the IMU stream

bufVars   == <<active, buf, buf_lens, busy, dma, sent, handed, pending>>
dropVars  == <<loaded, overflow, refused, missing>>
telemVars == <<cur, prev, first, counter>>
chVars    == <<offered, bufVars, dropVars, todo, telemVars, download, gcs>>

\* d is what the frame carries; v (the reading it was built from) and lost
\* (an IMU frame is missing before it) are ghosts.
Frame(kind, d, v) == [kind |-> kind, d |-> d, v |-> v, lost |-> FALSE]
Plain(kind) == Frame(kind, 0, 0)
IsImu(f) == f.kind \in {"full", "delta"}
Len1(f) == IF f.kind = "data" THEN DataLen ELSE 1

ChannelTypeOK ==
    /\ offered \in Offers
    /\ active \in {0, 1} /\ dma \in {0, 1} /\ busy \in BOOLEAN
    /\ \A i \in {0, 1} : buf_lens[i] \in 0 .. BufSize
    /\ sent \in 0 .. Len(buf[dma])
    /\ overflow \in 0 .. MaxDrops /\ refused \in 0 .. MaxDrops
    /\ \A w \in Writers : loaded[w] \in -1 .. MaxDrops
    /\ missing \in BOOLEAN

ChannelInit ==
    /\ offered \in Offers
    /\ active = 0 /\ dma = 1 /\ busy = FALSE
    /\ buf = [i \in {0, 1} |-> <<>>] /\ buf_lens = [i \in {0, 1} |-> 0]
    /\ sent = 0 /\ handed = <<>>
    /\ todo = [w \in Writers |-> <<>>] /\ loaded = [w \in Writers |-> -1]
    /\ overflow = 0 /\ refused = 0 /\ pending = <<>>
    /\ cur = 0 /\ prev = 0 /\ first = TRUE /\ counter = 0 /\ missing = FALSE
    /\ download = FALSE
    /\ gcs = [have |-> FALSE, vec |-> 0, gap |-> FALSE, deltas |-> 0, err |-> 0]

(***************************************************************************)
(* The channel                                                             *)
(***************************************************************************)

\* The fill level writer w may reach.
Cap(w) == IF w = "xfer" THEN BufSize ELSE BufSize - Reserve

Idle(w) == todo[w] = <<>> /\ loaded[w] = -1
Fits(w) == buf_lens[active] + Len1(Head(todo[w])) <= Cap(w)

\* _write_channel accepts the frame: one critical section.
Write(w) ==
    /\ loaded[w] = -1 /\ todo[w] # <<>> /\ Fits(w)
    /\ LET f == [Head(todo[w]) EXCEPT !.lost = IsImu(Head(todo[w])) /\ missing]
       IN  /\ buf' = [buf EXCEPT ![active] = Append(@, f)]
           /\ buf_lens' = [buf_lens EXCEPT ![active] = @ + Len1(f)]
           /\ pending' = Append(pending, f)
           /\ missing' = (missing /\ ~IsImu(f))
    /\ todo' = [todo EXCEPT ![w] = Tail(@)]
    /\ UNCHANGED <<offered, active, busy, dma, sent, handed, loaded, overflow, refused, telemVars,
                   download, gcs>>

\* _write_channel refuses it and loads the counter; the transfer task keeps
\* the frame and tries again at its next tick, the others lose it.
Refuse(w) ==
    /\ loaded[w] = -1 /\ todo[w] # <<>> /\ ~Fits(w)
    /\ refused < MaxDrops
    /\ refused' = refused + 1
    /\ loaded' = [loaded EXCEPT ![w] = overflow]
    /\ missing' = (missing \/ IsImu(Head(todo[w])))
    /\ todo' = IF w = "xfer" THEN todo ELSE [todo EXCEPT ![w] = Tail(@)]
    /\ UNCHANGED <<offered, bufVars, overflow, telemVars, download, gcs>>

\* The store of _tx_overflow_count++.
Count(w) ==
    /\ loaded[w] # -1
    /\ overflow' = loaded[w] + 1
    /\ loaded' = [loaded EXCEPT ![w] = -1]
    /\ UNCHANGED <<offered, bufVars, refused, missing, todo, telemVars, download, gcs>>

\* Mutant of Flush: a transfer in progress is not waited for.
Flush_NoBusy ==
    /\ buf[active] # <<>>
    /\ active' = 1 - active /\ dma' = active
    /\ buf' = [buf EXCEPT ![1 - active] = <<>>]
    /\ buf_lens' = [buf_lens EXCEPT ![1 - active] = 0]
    /\ busy' = TRUE /\ sent' = 0 /\ handed' = buf[active]
    /\ UNCHANGED <<offered, pending, dropVars, todo, telemVars, download, gcs>>

\* flush_channel, from flush_task's millisecond loop: swap, clear the new
\* active buffer, mark busy, start the DMA.
Flush ==
    /\ ~busy
    /\ buf[active] # <<>>
    /\ active' = 1 - active /\ dma' = active
    /\ buf' = [buf EXCEPT ![1 - active] = <<>>]
    /\ buf_lens' = [buf_lens EXCEPT ![1 - active] = 0]
    /\ busy' = TRUE /\ sent' = 0 /\ handed' = buf[active]
    /\ UNCHANGED <<offered, pending, dropVars, todo, telemVars, download, gcs>>

(***************************************************************************)
(* The reader of the IMU stream (udp_telem_sniff.py): a full frame         *)
(* re-anchors the vector, a delta is added to it.  gap and err are         *)
(* ghosts: whether a frame is missing since the last full one, and how far *)
(* the vector is from the reading the frame was built from.  While a frame *)
(* is missing the vector is wrong until the next full frame, and is not    *)
(* followed.                                                               *)
(***************************************************************************)

Record(g, f) ==
    IF ~IsImu(f) \/ (f.kind = "delta" /\ ~g.have) THEN g
    ELSE LET gap == f.kind = "delta" /\ (g.gap \/ f.lost)
             vec == IF gap THEN f.v ELSE IF f.kind = "full" THEN f.d ELSE g.vec + f.d
         IN  [have |-> TRUE, vec |-> vec, gap |-> gap, err |-> vec - f.v,
              deltas |-> IF f.kind = "full" \/ gap THEN 0 ELSE g.deltas + 1]

Received == buf[dma]

\* The DMA puts the next frame on the wire, and the reader takes it.
DmaFrame ==
    /\ busy /\ sent < Len(Received)
    /\ sent' = sent + 1
    /\ pending' = Tail(pending)
    /\ gcs' = Record(gcs, Received[sent + 1])
    /\ UNCHANGED <<offered, active, buf, buf_lens, busy, dma, handed, dropVars, todo, telemVars,
                   download>>

\* The DMA completion interrupt: the buffer is on the wire, busy is cleared.
DmaDone ==
    /\ busy /\ sent = Len(Received)
    /\ busy' = FALSE /\ sent' = 0 /\ handed' = <<>>
    /\ UNCHANGED <<offered, active, buf, buf_lens, dma, pending, dropVars, todo, telemVars,
                   download, gcs>>

(***************************************************************************)
(* The writers                                                             *)
(***************************************************************************)
Abs(x) == IF x < 0 THEN -x ELSE x

\* float32_to_float16, with a mantissa of one bit: above 2 only even values.
Float16(x) == IF Abs(x) <= 2 THEN x ELSE IF x > 0 THEN 2 * (x \div 2) ELSE -(2 * (-x \div 2))

\* The frames that do not depend on each other: navlink_tx_heartbeat,
\* _flight_mode, _health and the rest, one of them standing for all.
Status == Plain("status")
\* The streams whose gate opens in this iteration.
Statuses == IF counter = 1 THEN <<Status>> ELSE <<>>

\* One iteration of imu_telemetry_task: take a reading if there is one, then
\* the full frame or the delta frame the gates select, and a status frame on
\* the iteration its gate opens.  previous_floats moves whether or not the
\* channel will accept the frame.
TelemetryTick ==
    /\ "telem" \in offered
    /\ Idle("telem")
    /\ \E v \in Values \union {cur} :
         LET full  == counter = 0 /\ ~download
             delta == ~full /\ ~first /\ ~download
             imu   == IF full THEN <<Frame("full", v, v)>>
                      ELSE IF delta THEN <<Frame("delta", Float16(v - prev), v)>>
                      ELSE <<>>
         IN  /\ cur' = v
             /\ prev'  = IF full \/ delta THEN v ELSE prev
             /\ first' = (first /\ ~full)
             /\ todo' = [todo EXCEPT !["telem"] = Statuses \o imu]
    /\ counter' = (counter + 1) % FullEvery
    /\ UNCHANGED <<offered, bufVars, dropVars, download, gcs>>

\* The frames of navlink_tx_perf_global, _task and _fifo.
PerfFrames == [i \in 1 .. PerfRows |-> Plain("perf")]

\* One report of perf_telemetry_task: PERF_GLOBAL and a frame per row.
PerfReport ==
    /\ "perf" \in offered
    /\ Idle("perf")
    /\ todo' = [todo EXCEPT !["perf"] = PerfFrames]
    /\ UNCHANGED <<offered, bufVars, dropVars, telemVars, download, gcs>>

\* The transfer task of a download: one XFER_DATA chunk, or the end of it.
XferChunk ==
    /\ "xfer" \in offered
    /\ Idle("xfer")
    /\ \/ download' = TRUE /\ todo' = [todo EXCEPT !["xfer"] = <<Plain("data")>>]
       \/ download /\ download' = FALSE /\ UNCHANGED todo
    /\ UNCHANGED <<offered, bufVars, dropVars, telemVars, gcs>>

ChannelNext ==
    \/ \E w \in Writers : Write(w) \/ Refuse(w) \/ Count(w)
    \/ Flush \/ DmaFrame \/ DmaDone
    \/ TelemetryTick \/ PerfReport \/ XferChunk

\* flush_task runs every millisecond and a started DMA completes.
ChannelFairness == WF_chVars(Flush) /\ WF_chVars(DmaFrame \/ DmaDone)
ChannelSpec == ChannelInit /\ [][ChannelNext]_chVars /\ ChannelFairness

(***************************************************************************)
(* Properties                                                              *)
(***************************************************************************)
\* No frame the channel accepted is lost, repeated, reordered or cut: the
\* buffer under the DMA still holds what was handed over, and it and the
\* active buffer hold exactly the frames accepted and not yet on the wire, in
\* the order of acceptance.  (channel.c: the swap and the copy are critical
\* sections "or flush can transmit a buffer this writer is still filling".)
AcceptedExact ==
    /\ busy => handed = buf[dma] /\ dma # active
    /\ pending = (IF busy THEN SubSeq(buf[dma], sent + 1, Len(buf[dma])) ELSE <<>>) \o buf[active]

\* A download makes progress however much telemetry there is: the transfer
\* task is refused only behind a chunk of its own.
HasData(s) == \E i \in DOMAIN s : s[i].kind = "data"
XferHeadroom == todo["xfer"] # <<>> /\ ~Fits("xfer") => HasData(buf[active])

\* The drop counter of the health frame never claims more drops than there
\* were, and once a drop has been counted it never reads zero again, although
\* increments of equal-priority writers may overwrite each other.
DropsReported ==
    /\ overflow <= refused
    /\ refused > 0 /\ (\A w \in Writers : loaded[w] = -1) => overflow > 0

\* The reader's IMU vector is off only by the binary16 rounding of the deltas
\* since the last full frame, unless a frame of the stream was dropped since;
\* a full frame always puts it right.
MaxRound == 1
ReconstructionBounded == gcs.have /\ ~gcs.gap => Abs(gcs.err) <= MaxRound * gcs.deltas

\* Every accepted frame reaches the wire: a buffer that holds a frame is
\* swapped out and its transfer completes.
Drains == \A i \in {0, 1} : (active = i /\ buf[i] # <<>>) ~> (active # i /\ ~busy)

\* The downlink delivers exactly what it accepted, keeps room for transfers and
\* admits what it dropped, so that the reader of the deltas stays close.
DownlinkExact ==
    /\ ChannelTypeOK
    /\ AcceptedExact
    /\ XferHeadroom
    /\ DropsReported
    /\ ReconstructionBounded
=============================================================================
