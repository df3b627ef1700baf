------------------------------- MODULE Uplink -------------------------------
(***************************************************************************)
(* The uplink: src/comm/serializer.c (the receive ring), navlink_router.c  *)
(* and comm_processor.c (parse, gate, execute, acknowledge) and the clock  *)
(* the ground station disciplines, src/sys/sys_utils.c.                    *)
(*                                                                         *)
(* A frame on the wire is two chunks, so that the ring may lose a part of  *)
(* it and one drain of the ring may end inside it.  The receive interrupt  *)
(* pushes a chunk or drops it when the ring is full; the command task      *)
(* polls: it drains at most DrainMax chunks, publishes the tail, parses,   *)
(* runs each complete command, and then serves the arm acknowledgement it  *)
(* deferred.  Answers leave through the Channel.                           *)
(***************************************************************************)
EXTENDS Channel

CONSTANTS
    RingSize,   \* RX_RAW_RING_SZ, in chunks
    DrainMax,   \* sizeof(buf) of navlink_router_poll
    MaxCmds,    \* bound: commands the ground station sends
    Commands,   \* the commands it sends
    AckTicks,   \* ARM_ACK_TIMEOUT_MS
    StepMs,     \* TIME_SYNC_STEP_MS: a larger correction steps the clock
    Offsets,    \* the clock offsets the ground station may ask for
    MaxJumps,   \* bound: changes of that offset
    MaxRaces    \* bound: corrections that meet a discipline tick half done

ASSUME UplinkAssumption ==
    /\ RingSize \in Nat \ {0, 1} /\ DrainMax \in Nat \ {0}
    /\ MaxCmds \in Nat /\ AckTicks \in Nat
    /\ Commands \subseteq {"sync", "arm", "disarm", "calibrate"}
    /\ StepMs \in Nat /\ Offsets \subseteq Int /\ MaxJumps \in Nat /\ MaxRaces \in Nat

VARIABLES
    air,        \* chunks sent by the ground station and not yet received
    ring,       \* the unread part of _rx_raw_buf, from _rx_raw_tail to _rx_raw_head
    pollPc,     \* where navlink_router_poll is
    got,        \* the chunks it has drained or has still to parse
    part,       \* the parser's partial frame
    numCmds,    \* ghost: commands sent
    exec,       \* ghost: the number of the last command run, -1 after a repetition
    veh,        \* the flight state
    latch,      \* g_sw_arm_request
    ackPending, ackSeq, ackAge, \* s_arm_ack_pending, _req_seq and _deadline
    answers,    \* ghost: arm acknowledgements sent, per command
    synced,     \* _clock_synced
    applied,    \* _offset_applied
    target,     \* _offset_target
    tick,       \* the value a discipline tick is about to store, or NoValue
    truth,      \* the offset at which the clock agrees with the ground station
    meas,       \* the error the ground station last measured, or NoValue
    jumps, races

rxVars    == <<air, ring>>
pollVars  == <<pollPc, got, part>>
cmdVars   == <<numCmds, exec, veh, latch, ackPending, ackSeq, ackAge, answers>>
clockVars == <<synced, applied, target, tick, truth, meas, jumps, races>>
upVars == <<rxVars, pollVars, cmdVars, clockVars>>
linkVars == <<chVars, upVars>>

\* INT32_MIN in the payload: no correction.
NoValue == 1000
NoChunk == [n |-> 0, kind |-> "none", half |-> 0, c |-> NoValue]
Frames(n, kind, c) == << [n |-> n, kind |-> kind, half |-> 1, c |-> c],
                         [n |-> n, kind |-> kind, half |-> 2, c |-> c] >>

UplinkTypeOK ==
    /\ Len(ring) < RingSize
    /\ pollPc \in {"wait", "drain", "parse", "ack"}
    /\ Len(got) <= DrainMax
    /\ veh \in {"STANDBY", "ARMED", "IN_AIR", "FAILSAFE"}
    /\ {latch, ackPending, synced} \subseteq BOOLEAN
    /\ ackAge \in 0 .. AckTicks /\ ackSeq \in 0 .. MaxCmds
    /\ answers \in [1 .. MaxCmds -> 0 .. 2]

UplinkInit ==
    /\ air = <<>> /\ ring = <<>>
    /\ pollPc = "wait" /\ got = <<>> /\ part = NoChunk
    /\ numCmds = 0 /\ exec = 0 /\ veh = "STANDBY" /\ latch = FALSE
    /\ ackPending = FALSE /\ ackSeq = 0 /\ ackAge = 0
    /\ answers = [n \in 1 .. MaxCmds |-> 0]
    /\ synced \in (IF "cmd" \in offered THEN BOOLEAN ELSE {FALSE}) /\ applied = 0 /\ target = 0 /\ tick = NoValue
    /\ truth \in (IF "sync" \in offered THEN Offsets ELSE {0}) /\ meas = NoValue /\ jumps = 0 /\ races = 0

(***************************************************************************)
(* The ground station                                                      *)
(***************************************************************************)
GcsSend ==
    /\ "cmd" \in offered
    /\ air = <<>> /\ numCmds < MaxCmds
    /\ \E k \in Commands : air' = Frames(numCmds + 1, k, 0)
    /\ numCmds' = numCmds + 1
    /\ UNCHANGED <<chVars, ring, pollVars, exec, veh, latch, ackPending, ackSeq,
                   ackAge, answers, clockVars>>

\* One time-sync exchange when the one before is over: the correction for the
\* error last measured, or none (INT32_MIN).
GcsSync ==
    /\ "sync" \in offered
    /\ air = <<>> /\ ring = <<>> /\ pollPc = "wait" /\ part = NoChunk
    /\ Idle("comm") /\ pending = <<>>
    /\ air' = Frames(0, "sync", IF meas = NoValue THEN NoValue ELSE -meas)
    /\ meas' = NoValue
    /\ UNCHANGED <<chVars, ring, pollVars, cmdVars, synced, applied, target, tick,
                   truth, jumps, races>>

\* The ground station's clock is set to another time.
GcsJump ==
    /\ "sync" \in offered
    /\ jumps < MaxJumps /\ jumps' = jumps + 1
    /\ truth' \in Offsets \ {truth}
    /\ meas' = NoValue
    /\ UNCHANGED <<chVars, rxVars, pollVars, cmdVars, synced, applied, target, tick, races>>

(***************************************************************************)
(* The receive ring                                                        *)
(***************************************************************************)

\* uart2_packet_recv_callback and rx_raw_push: drop on full.
RxIsr ==
    /\ air # <<>>
    /\ air' = Tail(air)
    /\ ring' = IF Len(ring) + 1 < RingSize THEN Append(ring, Head(air)) ELSE ring
    /\ UNCHANGED <<chVars, pollVars, cmdVars, clockVars>>

PollStart ==
    /\ pollPc = "wait" /\ Idle("comm")
    /\ ("cmd" \in offered /\ ackPending) \/ ring # <<>>
    /\ pollPc' = "drain" /\ got' = <<>>
    /\ UNCHANGED <<chVars, rxVars, part, cmdVars, clockVars>>

More == Len(got) < DrainMax /\ Len(got) < Len(ring)

\* comm_rx_raw_drain: one chunk; the head is read again each time, the tail is
\* a local copy until the end, so the interrupt still sees the ring as full.
DrainOne ==
    /\ pollPc = "drain" /\ More
    /\ got' = Append(got, ring[Len(got) + 1])
    /\ UNCHANGED <<chVars, rxVars, pollPc, part, cmdVars, clockVars>>

\* Mutant of DrainEnd: the tail is not published.
DrainEnd_NoTail ==
    /\ pollPc = "drain" /\ ~More
    /\ pollPc' = "parse" /\ UNCHANGED ring
    /\ UNCHANGED <<chVars, air, got, part, cmdVars, clockVars>>

\* The end of the drain: the tail is published, the bytes go to the parser.
DrainEnd ==
    /\ pollPc = "drain" /\ ~More
    /\ pollPc' = "parse"
    /\ ring' = SubSeq(ring, Len(got) + 1, Len(ring))
    /\ UNCHANGED <<chVars, air, got, part, cmdVars, clockVars>>

(***************************************************************************)
(* The commands                                                            *)
(***************************************************************************)
Say(f) == todo' = [todo EXCEPT !["comm"] = <<f>>]
\* ghost: -1 once a command has run twice or out of order; 0 is a time sync.
Ran(n) == IF n = 0 THEN exec ELSE IF n <= exec \/ exec = -1 THEN -1 ELSE n
OnlyTodo == UNCHANGED <<offered, bufVars, dropVars, telemVars, download, gcs>>

\* time_sync_set_offset64.
SetOffset(c) ==
    IF Abs(c) > StepMs THEN applied' = applied + c /\ target' = applied + c
                       ELSE target' = applied + c /\ UNCHANGED applied

\* navlink_tx_time_sync_response: stamped from the corrected clock.
SyncResponse(offset) == Frame("sync", offset, 0)

\* on_time_sync: apply the correction first, then stamp and answer.
DoSync(m) ==
    /\ IF m.c = NoValue THEN UNCHANGED <<synced, applied, target, races>>
       ELSE /\ synced' = TRUE
            /\ SetOffset(m.c)
            /\ races' = IF tick # NoValue /\ races < MaxRaces THEN races + 1 ELSE races
    /\ Say(SyncResponse(applied'))
    /\ exec' = Ran(m.n)
    /\ UNCHANGED <<tick, truth, meas, jumps, numCmds, veh, latch, ackPending, ackSeq, ackAge, answers>>

\* on_cmd_arm: set the latch, defer the acknowledgement.
DoArm(m) ==
    /\ latch' = TRUE
    /\ ackPending' = TRUE /\ ackSeq' = m.n /\ ackAge' = 0
    /\ exec' = Ran(m.n)
    /\ UNCHANGED <<todo, clockVars, numCmds, veh, answers>>

DoDisarm(m) ==
    /\ latch' = FALSE
    /\ Say(Plain("ack"))
    /\ exec' = Ran(m.n)
    /\ UNCHANGED <<clockVars, numCmds, veh, ackPending, ackSeq, ackAge, answers>>

\* on_cmd_calibrate_imu: the state machine it starts is FlightState's.
DoCalibrate(m) ==
    /\ Say(Plain(IF veh \in {"STANDBY", "FAILSAFE"} THEN "ack" ELSE "nack"))
    /\ exec' = Ran(m.n)
    /\ UNCHANGED <<clockVars, numCmds, veh, latch, ackPending, ackSeq, ackAge, answers>>

\* router_command_gate: an unsynchronised vehicle rejects every command.
Gated(m) ==
    /\ Say(Plain("nack"))
    /\ UNCHANGED <<clockVars, cmdVars>>

Execute(m) ==
    \/ m.kind = "sync" /\ DoSync(m)
    \/ m.kind # "sync" /\ ~synced /\ Gated(m)
    \/ m.kind = "arm" /\ synced /\ DoArm(m)
    \/ m.kind = "disarm" /\ synced /\ DoDisarm(m)
    \/ m.kind = "calibrate" /\ synced /\ DoCalibrate(m)

\* The generated parser: the checksum accepts only the halves of one frame.
Whole(ch) == part # NoChunk /\ ch.half = 2 /\ part.n = ch.n /\ part.kind = ch.kind

\* navlink_parser_push on the next chunk; the command task then writes the
\* answer before it goes on.
ParseOne ==
    /\ pollPc = "parse" /\ got # <<>> /\ Idle("comm")
    /\ got' = Tail(got)
    /\ LET ch == Head(got)
       IN  IF Whole(ch) THEN Execute(part) /\ part' = NoChunk
           ELSE /\ part' = IF ch.half = 1 THEN ch ELSE NoChunk
                /\ UNCHANGED <<todo, cmdVars, clockVars>>
    /\ OnlyTodo
    /\ UNCHANGED <<rxVars, pollPc>>

ParseEnd ==
    /\ pollPc = "parse" /\ got = <<>> /\ Idle("comm")
    /\ pollPc' = "ack"
    /\ UNCHANGED <<chVars, rxVars, got, part, cmdVars, clockVars>>

\* Mutant of Resolved: no deadline.
Resolved_NoDeadline == ackPending /\ veh = "ARMED"
Resolved == ackPending /\ (veh = "ARMED" \/ ackAge = AckTicks)

\* arm_ack_service.
ArmAckService ==
    /\ pollPc = "ack" /\ pollPc' = "wait"
    /\ IF Resolved
       THEN /\ Say(Plain(IF veh = "ARMED" THEN "ack" ELSE "nack"))
            /\ ackPending' = FALSE
            /\ answers' = [answers EXCEPT ![ackSeq] = IF @ < 2 THEN @ + 1 ELSE 2]
       ELSE UNCHANGED <<todo, ackPending, answers>>
    /\ OnlyTodo
    /\ UNCHANGED <<rxVars, got, part, numCmds, exec, veh, latch, ackSeq, ackAge, clockVars>>

\* Time passes for the deferred acknowledgement.
AckTick ==
    /\ ackPending /\ ackAge < AckTicks
    /\ ackAge' = ackAge + 1
    /\ UNCHANGED <<chVars, rxVars, pollVars, numCmds, exec, veh, latch, ackPending, ackSeq,
                   answers, clockVars>>

\* The flight state as the RC task and the flight phase move it: the arm
\* gates may refuse, and a cleared latch disarms.
VehicleStep ==
    /\ "cmd" \in offered
    /\ \/ veh = "STANDBY" /\ latch /\ veh' \in {"ARMED", "FAILSAFE"}
       \/ veh = "ARMED" /\ latch /\ veh' \in {"IN_AIR", "FAILSAFE"}
       \/ veh # "STANDBY" /\ ~latch /\ veh' = "STANDBY"
    /\ UNCHANGED <<chVars, rxVars, pollVars, numCmds, exec, latch, ackPending, ackSeq, ackAge,
                   answers, clockVars>>

(***************************************************************************)
(* The discipline tick of the telemetry task: load, then store.            *)
(***************************************************************************)
Toward(a, t) == IF a < t THEN a + 1 ELSE IF a > t THEN a - 1 ELSE a

TickLoad ==
    /\ tick = NoValue /\ applied # target /\ races < MaxRaces
    /\ tick' = Toward(applied, target)
    /\ UNCHANGED <<chVars, rxVars, pollVars, cmdVars, synced, applied, target, truth, meas, jumps, races>>

\* Both at once: no preemption in between.
TickWhole ==
    /\ tick = NoValue /\ applied # target
    /\ applied' = Toward(applied, target)
    /\ UNCHANGED <<chVars, rxVars, pollVars, cmdVars, synced, target, tick, truth, meas, jumps, races>>

TickStore ==
    /\ tick # NoValue
    /\ applied' = tick /\ tick' = NoValue
    /\ UNCHANGED <<chVars, rxVars, pollVars, cmdVars, synced, target, truth, meas, jumps, races>>

(***************************************************************************)
(* Composition with the channel                                            *)
(***************************************************************************)
\* The ground station reads the time stamp of a response.
LinkFrame ==
    /\ DmaFrame
    /\ meas' = IF Received[sent + 1].kind = "sync" THEN Received[sent + 1].d - truth ELSE meas
    /\ UNCHANGED <<rxVars, pollVars, cmdVars, synced, applied, target, tick, truth, jumps, races>>

LinkDone == DmaDone /\ UNCHANGED upVars

ChannelStep ==
    /\ \/ \E w \in Writers : Write(w) \/ Refuse(w) \/ Count(w)
       \/ Flush \/ TelemetryTick \/ PerfReport \/ XferChunk
    /\ UNCHANGED upVars

Poll == PollStart \/ DrainOne \/ DrainEnd \/ ParseOne \/ ParseEnd \/ ArmAckService

LinkInit == ChannelInit /\ UplinkInit
LinkNext ==
    \/ ChannelStep \/ LinkFrame \/ LinkDone
    \/ GcsSend \/ GcsSync \/ GcsJump \/ RxIsr
    \/ Poll \/ AckTick \/ VehicleStep
    \/ TickLoad \/ TickWhole \/ TickStore

\* The command task, the flush task and the telemetry task all sleep in
\* v_delay and are woken; interrupts are served; time passes; the ground
\* station repeats its exchange.
LinkFairness ==
    /\ WF_linkVars(Poll) /\ WF_linkVars(RxIsr)
    /\ WF_linkVars(Flush /\ UNCHANGED upVars) /\ WF_linkVars(LinkFrame \/ LinkDone)
    /\ WF_linkVars((Write("comm") \/ Count("comm")) /\ UNCHANGED upVars)
    /\ WF_linkVars(AckTick) /\ WF_linkVars(TickWhole \/ TickStore) /\ WF_linkVars(GcsSync)

LinkSpec == LinkInit /\ [][LinkNext]_linkVars /\ LinkFairness

(***************************************************************************)
(* Properties                                                              *)
(***************************************************************************)
\* A command runs at most once and in the order sent, whatever the ring drops
\* and wherever a drain ends (rx_raw_push, comm_rx_raw_drain).
CommandsOnce == exec >= 0

\* The acknowledgement on_cmd_arm defers is sent once: ACCEPTED or
\* TEMPORARILY_REJECTED, never both (arm_ack_service).
AnsweredOnce == \A n \in 1 .. MaxCmds : answers[n] <= 1

\* It is sent: every CMD_ARM that ran is answered, or a later one took its
\* place.
ArmAnswered == \A n \in 1 .. MaxCmds :
                  (ackPending /\ ackSeq = n) ~> (answers[n] = 1 \/ ackSeq > n)

\* The clock comes to agree with the ground station's and stays there, even
\* when a step of set_offset64 is overwritten by a discipline tick that had
\* loaded the old offset (sys_utils.c).
ClockConverges == "sync" \in offered => <>[](Abs(applied - truth) <= StepMs)

\* A command runs at most once and in order, and is answered at most once.
CommandsExact == UplinkTypeOK /\ CommandsOnce /\ AnsweredOnce

\* The links make progress: accepted frames leave, an arm request is answered,
\* the clock converges.
LinkServes == Drains /\ ArmAnswered /\ ClockConverges
=============================================================================
