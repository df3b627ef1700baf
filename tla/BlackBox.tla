------------------------------ MODULE BlackBox ------------------------------
(***************************************************************************)
(* The flight recorder (imu_hs_log.c): records are packed into sectors in  *)
(* RAM by the tasks that produce them, and the filesystem task writes the  *)
(* sectors into a ring of one-sector frames in a preallocated file.        *)
(*                                                                         *)
(* Two of the nine streams stand for the two kinds there are: "imu" is     *)
(* gated on an armed vehicle and an open session, "txt" is a byte stream   *)
(* that records from boot.  A stream has Bufs sector buffers used as a     *)
(* ring: the producer fills the one at head, the filesystem task writes    *)
(* those from tail.  A record is a number; a text line is one record.      *)
(* Decimation by the cycle counter only thins a stream and is left out.    *)
(*                                                                         *)
(* The task's walk through imu_hs_log_drain is one action per write to the *)
(* card and per step a producer may come between (pc); the producers run   *)
(* at a higher priority and are atomic with respect to it.                 *)
(*                                                                         *)
(* The card keeps the ring (card) and the header in the preamble (hdr),    *)
(* which is rewritten every SyncFrames frames only.  A power cut loses the *)
(* rest.  boot, life, no and ses of a frame are not on the card: they say  *)
(* what the frame really is, for the properties about the reader           *)
(* (tools/telemetry/hslog.py).                                             *)
(***************************************************************************)
EXTENDS FsLoop, FiniteSets, FiniteSetsExt, Functions

CONSTANTS
    Cap,            \* records per sector
    Bufs,           \* HSL_*_BUFFERS
    Ring,           \* HSL_RING_SECTORS
    SyncFrames,     \* HSL_HDR_SYNC_FRAMES
    Margin,         \* HSL_SEQ_RESUME_MARGIN
    StartGens,      \* generations the cycle counter may give a new file
    MaxRecs,        \* [stream |-> bound: records made, less text after each power cut]
    Burst,          \* bound: more text where it is offered in bursts
    MaxFlips,       \* bound: changes of the flight state
    MaxXfers        \* bound: bulk transfers

ASSUME LogAssumption ==
    /\ Cap \in Nat \ {0} /\ Bufs \in Nat \ {0, 1} /\ Ring \in Nat \ {0}
    /\ SyncFrames \in Nat \ {0} /\ Margin = 2 * SyncFrames
    /\ StartGens \subseteq Nat

Streams == {"imu", "txt"}
Order == <<"imu", "txt">>
ArmedOnly(s) == s = "imu"

None == [kind |-> "none"]

VARIABLES
    flight,         \* system_state_get(): "standby" or "armed"
    flips,          \* changes of it so far
    xfers,          \* bulk transfers so far
    st,             \* the streams: head, tail, fill and the buffers
    idle,           \* the text stream saw no byte for HSL_WIRE_IDLE_FLUSH_MS
    made,           \* [stream |-> records accepted since boot]
    stored,         \* [stream |-> records written to the card since boot]
    dropped,        \* s_dropped
    raced,          \* a producer came between two steps of a flush
    pc,             \* where the filesystem task is in imu_hs_log_drain
    at,             \* the stream a loop of session_stop has reached
    sArmed,         \* s_armed
    wasArmed,       \* s_was_armed
    held,           \* less than HSL_SESSION_HOLD_MS since s_want_ms
    ev,             \* s_ev_state
    open,           \* s_fd >= 0
    active,         \* s_active
    cursor,         \* s_slot, s_seq, s_session, s_gen, s_since_hdr
    card,           \* the ring on the card
    hdr,            \* the header on the card
    exists,         \* the file has its full size
    life,           \* times the ring was started over
    frames,         \* frames written, ever
    amnesia         \* a boot did not learn the generation of the file

streamVars == <<st, idle, made, raced, dropped>>
cardVars == <<card, hdr, exists, life, frames, amnesia>>
taskVars == <<pc, at, sArmed, wasArmed, held, ev, open, active, cursor, stored>>
logVars == <<flight, flips, xfers, streamVars, cardVars, taskVars>>

-----------------------------------------------------------------------------
(* Streams                                                                 *)

EmptyStream ==
    [head |-> 0, tail |-> 0, fill |-> 0,
     buf |-> [i \in 0..(Bufs - 1) |-> [stamped |-> FALSE, data |-> <<>>]]]

Next1(i) == (i + 1) % Bufs
Published(s) == st[s].tail # st[s].head
AtHead(s) == st[s].buf[st[s].head]

\* stream_claim and stream_commit for record r: a fresh sector gets its block
\* header, the record lands behind fill others (0 is whatever the buffer held
\* before), and a full sector is published, or refilled and counted when the
\* ring of buffers is full.
Committed(str, r) ==
    LET b == str.buf[str.head]
        filled == [stamped |-> b.stamped \/ str.fill = 0,
                   data |-> [i \in 1..(str.fill + 1) |->
                               IF i = str.fill + 1 THEN r
                               ELSE IF i <= Len(b.data) THEN b.data[i] ELSE 0]]
        full == str.fill + 1 >= Cap
    IN  [str EXCEPT !.buf[str.head] = filled,
                    !.fill = IF full THEN 0 ELSE @ + 1,
                    !.head = IF full /\ Next1(@) # str.tail THEN Next1(@) ELSE @]

Overrun(str) == str.fill + 1 >= Cap /\ Next1(str.head) = str.tail

\* stream_claim: a gated stream is closed unless a session is open and the
\* vehicle armed.
Gate(s) == ArmedOnly(s) => active /\ sArmed

\* What every producer does once it is let in: claim, pack, commit.
Append1(s) ==
    LET r == Cardinality(made[s]) + 1
    IN  /\ st' = [st EXCEPT ![s] = Committed(@, r)]
        /\ made' = [made EXCEPT ![s] = @ \union {r}]
        /\ dropped' = dropped + (IF Overrun(st[s]) THEN 1 ELSE 0)

\* imu_hs_log_sample and the other sampled streams.
Sample ==
    /\ "imu" \in offered /\ pc # "boot"
    /\ Gate("imu") /\ Cardinality(made["imu"]) < MaxRecs["imu"]
    /\ Append1("imu")
    /\ UNCHANGED <<loopVars, flight, flips, xfers, idle, raced, cardVars, taskVars>>

\* Where the filesystem task works on fill and head of the text stream, which
\* its producers own.
InFlush == pc \in {"flush", "stopP", "clear"}

\* imu_hs_log_wire_txt: a log line of any task, in a critical section.
Text ==
    /\ "text" \in offered /\ pc # "boot" /\ Gate("txt")
    /\ Cardinality(made["txt"]) < MaxRecs["txt"] - boots + (IF "burst" \in offered THEN Burst ELSE 0)
    /\ Append1("txt")
    /\ idle' = FALSE
    /\ raced' = (raced \/ InFlush)
    /\ UNCHANGED <<loopVars, flight, flips, xfers, cardVars, taskVars>>

\* Time: the text stream has been quiet, or nothing wanted the session, for
\* long enough.
Quiet ==
    /\ ~idle /\ st["txt"].fill > 0 /\ pc # "boot" /\ idle' = TRUE
    /\ UNCHANGED <<loopVars, flight, flips, xfers, st, made, raced, dropped, cardVars, taskVars>>

HoldEnds ==
    /\ held /\ open /\ held' = FALSE
    /\ UNCHANGED <<loopVars, flight, flips, xfers, streamVars, cardVars,
                   pc, at, sArmed, wasArmed, ev, open, active, cursor, stored>>

\* The vehicle is armed and disarmed.
Fly ==
    /\ "imu" \in offered /\ flips < MaxFlips
    /\ flips' = flips + 1
    /\ flight' = IF flight = "armed" THEN "standby" ELSE "armed"
    /\ UNCHANGED <<loopVars, xfers, streamVars, cardVars, taskVars>>

\* xfer_service_task: fs_owner_suppress_logs(xfer_active()).
Transfer ==
    /\ "xfer" \in offered /\ pc # "boot"
    /\ suppressed \/ xfers < MaxXfers
    /\ suppressed' = ~suppressed
    /\ xfers' = IF suppressed THEN xfers ELSE xfers + 1
    /\ UNCHANGED <<offered, turn, fails, boots, flight, flips, streamVars, cardVars, taskVars>>

-----------------------------------------------------------------------------
(* The ring                                                                *)

\* HSL_SENTINEL_FOR, on the low byte of the generation.
Sentinel(g) == IF g % 256 \in {0, 255, 170} THEN 165 ELSE g % 256

Header(c) == [slot |-> c.slot, seq |-> c.seq, gen |-> c.gen]

SessionTag(c) == c.session % 256

\* ring_write and the flush_preamble it ends with when the header is due.
\* How it goes is "ok", "fail" (nothing written) or "nohdr" (the frame is on
\* the card, the header is not).
Outcomes == {"ok", "fail", "nohdr"}

Due == cursor.since + 1 >= SyncFrames

RingWrite(c, how, str, kind, data, force) ==
    LET f == [kind |-> kind, str |-> str, sent |-> Sentinel(c.gen),
              tag |-> SessionTag(c), seq |-> c.seq, data |-> data,
              boot |-> boots, ses |-> c.session, life |-> life, no |-> frames]
        moved == [c EXCEPT !.slot = (@ + 1) % Ring, !.seq = @ + 1, !.since = @ + 1]
    IN  /\ how = "nohdr" => Due \/ force
        /\ IF how = "ok" THEN CardWorks ELSE CardFails
        /\ IF how = "fail"
           THEN cursor' = c /\ UNCHANGED <<card, hdr, frames>>
           ELSE /\ card' = [card EXCEPT ![c.slot] = f]
                /\ frames' = frames + 1
                /\ IF how = "ok" /\ (Due \/ force)
                   THEN hdr' = Header(moved) /\ cursor' = [moved EXCEPT !.since = 0]
                   ELSE hdr' = hdr /\ cursor' = moved

\* ring_write of a stream's buffer b; a sector whose block header was never
\* stamped has no valid length and the reader skips it.
WriteSector(how, s, b) ==
    /\ RingWrite(cursor, how, s, IF b.stamped THEN "block" ELSE "junk",
                 IF b.data = <<>> THEN <<0>> ELSE b.data, FALSE)
    /\ stored' = IF how = "fail" THEN stored
                 ELSE [stored EXCEPT ![s] = @ \union Range(b.data)]

-----------------------------------------------------------------------------
(* imu_hs_log_drain                                                        *)

Done == pc' = "idle" /\ turn' = After("log")
Stay == turn' = turn

Rest == <<offered, boots, suppressed, flight, flips, xfers, exists, life, amnesia>>

\* Mutant of Tick: no idle flush.
Tick_NoFlush ==
    /\ turn = "log" /\ pc = "idle"
    /\ sArmed' = (flight = "armed")
    /\ pc' = "decide" /\ Stay
    /\ UNCHANGED <<Rest, fails, streamVars, card, hdr, frames,
                   at, wasArmed, held, ev, open, active, cursor, stored>>

\* The armed state is sampled, and a text sector that has been quiet for long
\* enough is taken from its producer: first fill, then head (wire_idle_flush).
Tick ==
    /\ turn = "log" /\ pc = "idle"
    /\ sArmed' = (flight = "armed")
    /\ IF idle /\ st["txt"].fill > 0
       THEN st' = [st EXCEPT !["txt"].fill = 0] /\ pc' = "flush"
       ELSE st' = st /\ pc' = "decide"
    /\ Stay
    /\ UNCHANGED <<Rest, fails, idle, made, raced, dropped, card, hdr, frames,
                   at, wasArmed, held, ev, open, active, cursor, stored>>

FlushHead ==
    /\ turn = "log" /\ pc = "flush"
    /\ IF Next1(st["txt"].head) = st["txt"].tail
       THEN st' = st /\ dropped' = dropped + 1
       ELSE st' = [st EXCEPT !["txt"].head = Next1(@)] /\ dropped' = dropped
    /\ pc' = "decide" /\ Stay
    /\ UNCHANGED <<Rest, fails, idle, made, raced, card, hdr, frames,
                   at, sArmed, wasArmed, held, ev, open, active, cursor, stored>>

EndWanted(want) == ~want \/ suppressed

\* A disarm ends the session; otherwise an armed vehicle or a published text
\* sector wants one, and it is held open for a while after that.
Decide ==
    LET wantNow == sArmed \/ Published("txt")
        disarm  == wasArmed /\ ~sArmed /\ open
        want    == wantNow \/ (open /\ held)
        stop    == EndWanted(want)
    IN  /\ turn = "log" /\ pc = "decide"
        /\ wasArmed' = sArmed
        /\ held' = (held \/ (~disarm /\ wantNow))
        /\ IF disarm \/ (stop /\ open) THEN pc' = "endEvents" /\ Stay
           ELSE IF stop THEN Done
           ELSE pc' = (IF open THEN "events" ELSE "start") /\ Stay
        /\ UNCHANGED <<Rest, fails, streamVars, card, hdr, frames,
                       at, sArmed, ev, open, active, cursor, stored>>

\* session_start: the SESSION frame and the header, then what the gated
\* producers left queued is discarded.
SessionStart ==
    /\ turn = "log" /\ pc = "start"
    /\ \/ /\ IF exists THEN CardFails ELSE CardWorks
          /\ Done
          /\ UNCHANGED <<st, card, hdr, frames, open, active, cursor>>
       \/ /\ exists
          /\ \E how \in Outcomes :
                /\ RingWrite([cursor EXCEPT !.session = @ + 1], how, "ctl", "session", <<>>, TRUE)
                /\ IF how = "ok"
                   THEN /\ open' = TRUE /\ active' = TRUE
                        /\ st' = [st EXCEPT !["imu"].tail = st["imu"].head]
                        /\ pc' = "events" /\ Stay
                   ELSE Done /\ UNCHANGED <<open, active, st>>
    /\ UNCHANGED <<Rest, idle, made, raced, dropped, at, sArmed, wasArmed, held, ev, stored>>

\* emit_changes, before the sectors of this turn or before the session ends.
Events ==
    /\ turn = "log" /\ pc \in {"events", "endEvents"}
    /\ IF flight = ev
       THEN UNCHANGED <<fails, card, hdr, frames, cursor, ev>>
       ELSE \E how \in Outcomes :
               /\ RingWrite(cursor, how, "ctl", "event", <<>>, FALSE)
               /\ ev' = IF how = "ok" THEN flight ELSE ev
    /\ pc' = (IF pc = "events" THEN "drain" ELSE "stop") /\ Stay
    /\ UNCHANGED <<Rest, streamVars, at, sArmed, wasArmed, held, open, active, stored>>

\* The streams from i on that have a published sector, or a partial one.
Waiting(i) == {j \in i..Len(Order) : Published(Order[j])}
Partial(i) == {j \in i..Len(Order) : st[Order[j]].fill > 0}

Take(s) == [st EXCEPT ![s].tail = Next1(@),
                      ![s].buf[st[s].tail].data = <<>>]

Drain ==
    /\ turn = "log" /\ pc = "drain"
    /\ IF Waiting(1) = {}
       THEN Done /\ UNCHANGED <<fails, st, card, hdr, frames, cursor, stored>>
       ELSE LET s == Order[Min(Waiting(1))]
            IN \E how \in Outcomes :
                  /\ WriteSector(how, s, st[s].buf[st[s].tail])
                  /\ st' = IF how = "ok" THEN Take(s) ELSE st
                  /\ pc' = (IF how = "ok" THEN pc ELSE "stop") /\ Stay
    /\ UNCHANGED <<Rest, idle, made, raced, dropped, at, sArmed, wasArmed, held, ev, open, active>>

\* session_stop: no more sampled records, and a line that says how it went.
SessionStop ==
    /\ turn = "log" /\ pc = "stop"
    /\ active' = FALSE
    /\ Append1("txt") /\ idle' = FALSE
    /\ pc' = "stopQ" /\ at' = 1 /\ Stay
    /\ UNCHANGED <<Rest, fails, raced, card, hdr, frames, sArmed, wasArmed, held, ev, open, cursor, stored>>

\* The published sectors; a stream whose write fails is left.
StopQueue ==
    /\ turn = "log" /\ pc = "stopQ"
    /\ IF Waiting(at) = {}
       THEN /\ pc' = "stopP" /\ at' = 1
            /\ UNCHANGED <<fails, st, card, hdr, frames, cursor, stored>>
       ELSE LET i == Min(Waiting(at))
                s == Order[i]
            IN \E how \in Outcomes :
                  /\ WriteSector(how, s, st[s].buf[st[s].tail])
                  /\ st' = IF how = "ok" THEN Take(s) ELSE st
                  /\ at' = (IF how = "ok" THEN i ELSE i + 1)
                  /\ pc' = pc
    /\ Stay
    /\ UNCHANGED <<Rest, idle, made, raced, dropped, sArmed, wasArmed, held, ev, open, active>>

\* The partly filled sectors: written, then (StopClear) taken from fill.
StopPartial ==
    /\ turn = "log" /\ pc = "stopP" /\ Partial(at) # {}
    /\ LET i == Min(Partial(at))
           s == Order[i]
       IN  /\ \E how \in Outcomes : WriteSector(how, s, AtHead(s))
           /\ at' = i
    /\ pc' = "clear" /\ Stay
    /\ UNCHANGED <<Rest, streamVars, sArmed, wasArmed, held, ev, open, active>>

StopClear ==
    /\ turn = "log" /\ pc = "clear"
    /\ st' = [st EXCEPT ![Order[at]].fill = 0,
                        ![Order[at]].buf[st[Order[at]].head].data = <<>>]
    /\ at' = at + 1 /\ pc' = "stopP" /\ Stay
    /\ UNCHANGED <<Rest, fails, idle, made, raced, dropped, card, hdr, frames,
                   sArmed, wasArmed, held, ev, open, active, cursor, stored>>

\* The header once more, and the file is closed whatever came of it.
StopClose ==
    /\ turn = "log" /\ pc = "stopP" /\ Partial(at) = {}
    /\ \/ CardWorks /\ hdr' = Header(cursor) /\ cursor' = [cursor EXCEPT !.since = 0]
       \/ CardFails /\ UNCHANGED <<hdr, cursor>>
    /\ open' = FALSE /\ at' = 1 /\ Done
    /\ UNCHANGED <<Rest, streamVars, card, frames, sArmed, wasArmed, held, ev, active, stored>>

Recorder ==
    \/ Tick \/ FlushHead \/ Decide \/ SessionStart \/ Events \/ Drain
    \/ SessionStop \/ StopQueue \/ StopPartial \/ StopClear \/ StopClose

-----------------------------------------------------------------------------
(* Power cuts and boot                                                     *)

LogReset ==
    /\ st' = [s \in Streams |-> EmptyStream]
    /\ idle' = FALSE
    /\ made' = [s \in Streams |-> {}]
    /\ stored' = [s \in Streams |-> {}]
    /\ dropped' = 0 /\ raced' = FALSE
    /\ pc' = "boot" /\ at' = 1
    /\ sArmed' = FALSE /\ wasArmed' = FALSE /\ held' = FALSE
    /\ ev' = "none" /\ open' = FALSE /\ active' = FALSE
    /\ cursor' = [slot |-> 0, seq |-> 1, session |-> 0, gen |-> 0, since |-> 0]
    /\ flight' = "standby"

\* The generation of a new ring, from the cycle counter or from the one after
\* the last: the reader must not take the frames of the last for its own.
FreshGen(g) == IF Sentinel(g) = Sentinel(g + 1) THEN (g + 1) % 256 ELSE g % 256
NextGen(g) == FreshGen(g + 1)

\* Mutant of ResumeSeq: exactly where the header says.
ResumeSeq_Exact(h) == h.seq

ResumeSeq(h) == h.seq + Margin

\* imu_hs_log_boot_init.  The file is resumed where its header says, or it is
\* started over: it has been deleted since, or the header could not be read.
\* A file created anew may lie on the clusters of the old one.
BootInit ==
    /\ pc = "boot"
    /\ pc' = "idle"
    /\ \/ /\ CardFails /\ amnesia' = TRUE          \* vfs_open failed
          /\ UNCHANGED <<cursor, hdr, card, exists, life>>
       \/ /\ exists
          /\ cursor' = [cursor EXCEPT !.slot = hdr.slot, !.seq = ResumeSeq(hdr), !.gen = hdr.gen]
          /\ \/ CardWorks /\ hdr' = Header(cursor')
             \/ CardFails /\ hdr' = hdr
          /\ UNCHANGED <<card, exists, life, amnesia>>
       \/ /\ IF exists THEN CardFails ELSE CardWorks
          /\ life' = life + 1 /\ exists' = TRUE
          /\ \/ /\ cursor' = [cursor EXCEPT !.gen = NextGen(hdr.gen)]
                /\ UNCHANGED <<card, amnesia>>
             \/ \E g \in StartGens :
                   /\ cursor' = [cursor EXCEPT !.gen = FreshGen(g)]
                   /\ card' = IF exists THEN card ELSE [i \in 0..(Ring - 1) |-> None]
                   /\ amnesia' = (amnesia \/ exists)
          /\ hdr' = Header(cursor')
    /\ UNCHANGED <<offered, turn, boots, suppressed, flight, flips, xfers, streamVars, frames,
                   at, sArmed, wasArmed, held, ev, open, active, stored>>

LogInit ==
    /\ flight = "standby" /\ flips = 0 /\ xfers = 0
    /\ st = [s \in Streams |-> EmptyStream]
    /\ idle = FALSE
    /\ made = [s \in Streams |-> {}]
    /\ stored = [s \in Streams |-> {}]
    /\ dropped = 0 /\ raced = FALSE
    /\ pc = "idle" /\ at = 1
    /\ sArmed = FALSE /\ wasArmed = FALSE /\ held = FALSE
    /\ ev = "none" /\ open = FALSE /\ active = FALSE
    /\ \E g \in StartGens :
          cursor = [slot |-> 0, seq |-> 1, session |-> 0, gen |-> FreshGen(g), since |-> 0]
    /\ hdr = Header(cursor)
    /\ card = [i \in 0..(Ring - 1) |-> None]
    /\ exists = TRUE /\ life = 0 /\ frames = 0 /\ amnesia = FALSE

LogTypeOK ==
    /\ flight \in {"standby", "armed"}
    /\ \A s \in Streams :
          /\ st[s].head \in 0..(Bufs - 1) /\ st[s].tail \in 0..(Bufs - 1)
          /\ st[s].fill \in 0..(Cap - 1)
          /\ \A i \in 0..(Bufs - 1) : Len(st[s].buf[i].data) <= Cap
    /\ cursor.slot \in 0..(Ring - 1) /\ hdr.slot \in 0..(Ring - 1)
    /\ pc \in {"boot", "idle", "flush", "decide", "start", "events", "endEvents",
               "drain", "stop", "stopQ", "stopP", "clear"}
    /\ pc # "idle" /\ pc # "boot" => turn = "log"
    /\ active => open

-----------------------------------------------------------------------------
(* The reader (hslog.py) and the properties                                *)

\* decode: every slot that carries the sentinel the header names and a valid
\* length.
Decoded == {f \in {card[i] : i \in 0..(Ring - 1)} :
              /\ f # None
              /\ f.kind # "junk" /\ f.sent = Sentinel(hdr.gen)}

\* sessions: b continues the period of a, the frame before it in seq order.
Joined(a, b) == b.seq = a.seq + 1 /\ b.kind # "session" /\ b.tag = a.tag

\* The order of seq is the order of writing, for all frames the reader
\* accepts, across laps of the ring and power cuts that left the header behind
\* (imu_hs_log_boot_init resumes HSL_SEQ_RESUME_MARGIN further on).
SeqExact ==
    ~amnesia =>
      \A a, b \in Decoded : a.no < b.no => a.seq < b.seq

\* The reader never puts frames of two recording periods into one, though the
\* session counter restarts at every boot and the ring overwrites SESSION
\* frames.
SessionsApart ==
    ~amnesia =>
      \A a, b \in Decoded : Joined(a, b) => a.boot = b.boot /\ a.ses = b.ses

\* The reader rejects the frames of an earlier generation that still lie in
\* the clusters of a file created anew.
NoForeign == ~amnesia => \A f \in Decoded : f.life = life

\* What the reader gets of a stream is what was recorded: no record that
\* nobody made, and, while the card works, none twice and none out of place.
RecordsExact ==
    ~raced =>
      \A a, b \in {f \in Decoded : f.boot = boots /\ f.kind = "block"} :
        /\ \A i \in 1..Len(a.data) : a.data[i] \in made[a.str]
        /\ fails = 0 /\ a.str = b.str /\ a.no < b.no => a.data[Len(a.data)] < b.data[1]

\* Records still in RAM.
Buffered(s) ==
    UNION {Range(st[s].buf[i].data) : i \in 0..(Bufs - 1)}

\* A text record that is neither on the card nor in RAM was in a sector the
\* drop counter counts.
LossCounted ==
    ~raced /\ fails = 0 /\ pc # "boot" =>
      Cardinality(made["txt"] \ (stored["txt"] \union Buffered("txt"))) <= Cap * dropped

\* Every log line reaches the card, or the vehicle lost power, the card failed,
\* or a drop was counted, or a transfer has the card; a line nobody follows
\* does not wait in RAM.
Excused == fails > 0 \/ raced \/ dropped > 0 \/ ~exists \/ suppressed \/ pc = "boot"

TextReachesCard ==
    ~(made["txt"] \subseteq stored["txt"])
      ~> (made["txt"] \subseteq stored["txt"] \/ Excused)

\* A bulk transfer gets the file table slot of the recorder.
FileReleased == suppressed ~> (~open \/ ~suppressed)

\* A reader of the card can order and separate everything that was recorded,
\* through laps, faults and power cuts, and knows what was lost.
RecordingSound ==
    /\ LoopTypeOK
    /\ LogTypeOK
    /\ SeqExact
    /\ SessionsApart
    /\ NoForeign
    /\ RecordsExact
    /\ LossCounted
=============================================================================
