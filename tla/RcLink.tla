------------------------------- MODULE RcLink -------------------------------
(***************************************************************************)
(* The radio-control receiver link: the DMA ring and rc_ibus_task          *)
(* (src/comm/rc_task.c), the iBus parser (src/comm/ibus.c), the throttle   *)
(* failsafe detector (src/comm/rc_safety.c).                               *)
(*                                                                         *)
(* A receiver frame is three tokens: the start and command bytes, the      *)
(* channels, and the checksum over them.  The DMA writes tokens round the  *)
(* ring whether or not the task has read them; the task, woken at the idle *)
(* gap, reads up to the write index it sampled.  The checksum is taken to  *)
(* catch every frame put together from tokens of different values, and the *)
(* channels not to contain the start and command bytes (they are 12 bits). *)
(* When the radio link is lost the receiver repeats a preset: throttle at  *)
(* the top.                                                                *)
(***************************************************************************)
EXTENDS Integers, Sequences

CONSTANTS
    DmaSize,    \* IBUS_DMA_BUF_SIZE, in tokens
    High,       \* throttle above High - 1 counts as high; also the preset
    JumpDelta,  \* RC_FAILSAFE_JUMP_DELTA: a rise no stick makes in one frame
    HoldFrames, \* RC_FAILSAFE_HOLD_FRAMES
    MaxRcFrames,\* bound: frames the receiver sends
    MaxNoise    \* bound: tokens corrupted on the wire

ASSUME RcAssumption ==
    /\ DmaSize \in Nat \ {0} /\ High \in Nat
    \* 1900 is more than a jump above the idle throttle the receiver starts with
    /\ JumpDelta \in 2 .. High - 1
    /\ HoldFrames \in Nat \ {0}
    /\ MaxRcFrames \in Nat /\ MaxNoise \in Nat

VARIABLES
    rx,         \* the transmitter's stick (thr) and the frames sent (n)
    out,        \* tokens of the frame being sent
    noise,      \* tokens corrupted so far
    dmaBuf, wr, \* ibus_dma_buf and the DMA's write index
    rd, lim,    \* read_ptr, and write_ptr as sampled (= rd: asleep)
    unread,     \* ghost: tokens written and not read, while not lapped
    lapped,     \* ghost: the DMA has overwritten an unread token
    parse,      \* state and buffer of ibus_parse_byte
    prevThr, highFrames, failsafe,  \* s_prev_throttle, s_throttle_high_frames, s_throttle_failsafe
    seen        \* ghosts about the frames applied

rcVars == <<rx, out, noise, dmaBuf, wr, rd, lim, unread, lapped, parse, prevThr, highFrames,
            failsafe, seen>>

Token(t, f) == [t |-> t, v |-> f.v, n |-> f.n, lost |-> f.lost]
Nothing == [v |-> 0, n |-> 0, lost |-> FALSE]
Blank == Token("none", Nothing)
Garbled == Token("garbled", Nothing)
Waiting == [st |-> "start", tok |-> Blank]

RcTypeOK ==
    /\ rx.thr \in 0 .. High /\ rx.n \in 0 .. MaxRcFrames
    /\ wr \in 0 .. DmaSize - 1 /\ rd \in 0 .. DmaSize - 1 /\ lim \in 0 .. DmaSize - 1
    /\ parse.st \in {"start", "data", "check"}
    /\ prevThr \in 0 .. High /\ highFrames \in 0 .. HoldFrames /\ failsafe \in BOOLEAN

RcInit ==
    /\ rx = [thr |-> 1, n |-> 0] /\ out = <<>> /\ noise = 0
    /\ dmaBuf = [i \in 0 .. DmaSize - 1 |-> Blank] /\ wr = 0 /\ rd = 0 /\ lim = 0
    /\ unread = 0 /\ lapped = FALSE /\ parse = Waiting
    /\ prevThr = 0 /\ highFrames = 0 /\ failsafe = FALSE
    /\ seen = [last |-> 0, exposed |-> 0, jump |-> FALSE, excused |-> FALSE,
               missed |-> 0, cut |-> FALSE]

(***************************************************************************)
(* The receiver and the DMA                                                *)
(***************************************************************************)
\* A pilot's stick moves less than JumpDelta from one frame to the next.
RxFrame ==
    /\ out = <<>> /\ rx.n < MaxRcFrames
    /\ \E thr \in 0 .. High, lost \in BOOLEAN :
         /\ lost => thr = High
         /\ ~lost => /\ thr - rx.thr < JumpDelta /\ rx.thr - thr < JumpDelta
         /\ rx' = [thr |-> IF lost THEN rx.thr ELSE thr, n |-> rx.n + 1]
         /\ LET f == [v |-> thr, n |-> rx.n + 1, lost |-> lost]
            IN  out' = <<Token("S", Nothing), Token("D", [Nothing EXCEPT !.v = thr]), Token("K", f)>>
    /\ UNCHANGED <<noise, dmaBuf, wr, rd, lim, unread, lapped, parse, prevThr, highFrames,
                   failsafe, seen>>

DmaByte ==
    /\ out # <<>>
    /\ \E bad \in BOOLEAN :
         /\ bad => noise < MaxNoise
         /\ noise' = IF bad THEN noise + 1 ELSE noise
         /\ dmaBuf' = [dmaBuf EXCEPT ![wr] = IF bad THEN Garbled ELSE Head(out)]
    /\ wr' = (wr + 1) % DmaSize
    /\ lapped' = (lapped \/ unread = DmaSize - 1)
    /\ unread' = IF lapped' THEN 0 ELSE unread + 1
    /\ out' = Tail(out)
    /\ UNCHANGED <<rx, rd, lim, parse, prevThr, highFrames, failsafe, seen>>

(***************************************************************************)
(* The task                                                                *)
(***************************************************************************)
\* The idle interrupt or the watchdog tick wakes it; it samples the index.
RcWake ==
    /\ lim = rd /\ wr # rd
    /\ lim' = wr
    /\ UNCHANGED <<rx, out, noise, dmaBuf, wr, rd, unread, lapped, parse, prevThr, highFrames,
                   failsafe, seen>>

\* ibus_parse_byte: whether token k completes a frame, and the state after it.
Complete(k) == parse.st = "check" /\ k.t = "K" /\ parse.tok.t = "D" /\ k.v = parse.tok.v

ParseStep(k) ==
    CASE parse.st = "start" -> IF k.t = "S" THEN [st |-> "data", tok |-> k] ELSE Waiting
      [] parse.st = "data"  -> [st |-> "check", tok |-> k]
      [] parse.st = "check" -> Waiting

\* Mutant of HighCount: a high throttle arms the window without a jump.
HighCount_NoJump(thr) ==
    IF thr < High THEN 0 ELSE IF highFrames < HoldFrames THEN highFrames + 1 ELSE highFrames

\* rc_throttle_failsafe_step: the confirmation window, armed by a jump into
\* the high range and counted while the throttle stays there.
HighCount(thr) ==
    LET jumped == thr - prevThr >= JumpDelta
    IN  IF thr < High \/ (highFrames = 0 /\ ~jumped) THEN 0
        ELSE IF highFrames < HoldFrames THEN highFrames + 1 ELSE highFrames

\* rc_apply_frame on a complete frame: the detector.  A confirmed
\* failsafe clamps the throttle of the frame handed on.
\* The arm logic it also runs is FlightState's RcFrame.
Apply(f) ==
    LET hc == HighCount(f.v)
        fs == IF hc = 0 THEN FALSE ELSE failsafe \/ hc >= HoldFrames
        gap == f.n # seen.last + 1
        jump == f.lost /\ (seen.jump \/ f.v - prevThr >= JumpDelta)
    IN  /\ prevThr' = f.v /\ highFrames' = hc /\ failsafe' = fs
        /\ seen' = [last |-> f.n, jump |-> jump,
                    exposed |-> IF jump /\ ~fs THEN seen.exposed + 1 ELSE 0,
                    excused |-> f.v = High /\ (seen.excused \/ f.lost \/ gap),
                    missed |-> IF f.n <= seen.last THEN -1 ELSE IF seen.missed < 0 THEN -1
                               ELSE seen.missed + f.n - seen.last - 1,
                    cut |-> fs /\ ~f.lost]

RcByte ==
    /\ lim # rd
    /\ LET k == dmaBuf[rd]
       IN  /\ parse' = ParseStep(k)
           /\ IF Complete(k) THEN Apply(k)
              ELSE UNCHANGED <<prevThr, highFrames, failsafe, seen>>
    /\ dmaBuf' = [dmaBuf EXCEPT ![rd] = Blank]   \* never read again before it is rewritten
    /\ rd' = (rd + 1) % DmaSize
    /\ unread' = IF unread = 0 THEN 0 ELSE unread - 1
    /\ UNCHANGED <<rx, out, noise, wr, lim, lapped>>

RcNext == RxFrame \/ DmaByte \/ RcWake \/ RcByte
RcSpec == RcInit /\ [][RcNext]_rcVars

(***************************************************************************)
(* Properties                                                              *)
(***************************************************************************)
\* When the receiver loses the radio link and its throttle jumps to the
\* preset, the controllers see at most HoldFrames - 1 frames of it before the
\* throttle is cut (rc_throttle_failsafe_step, rc_apply_frame).
PresetExposure == seen.exposed < HoldFrames

\* A pilot is cut off only after the preset or a hole in the frames: "a
\* continuous full-throttle push" never is (rc_safety.c).
PilotNeverCut == seen.cut => seen.excused

\* While the task keeps ahead of the DMA, frames are applied in the order the
\* receiver sent them, none twice, and a corrupted byte costs one frame: the
\* parser finds the next start (ibus_parse_byte).
FramesKept == ~lapped => seen.missed \in 0 .. noise

\* A receiver that lost the radio is cut off in time, a pilot never is, and
\* frames are applied in order.
RcSound == RcTypeOK /\ PresetExposure /\ PilotNeverCut /\ FramesKept
=============================================================================
