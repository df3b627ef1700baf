--------------------------- MODULE CommLinkProofs ---------------------------
(***************************************************************************)
(* The vehicle's links to the ground for every size of the DMA ring, the   *)
(* receive ring and the transmit buffers, and every number of frames,      *)
(* commands and faults.                                                    *)
(*                                                                         *)
(* Section 1 is the radio-control receiver, section 2 the command uplink,  *)
(* section 3 the downlink, section 4 their composition.                    *)
(***************************************************************************)
EXTENDS CommLink, FiniteSetTheorems, SequenceTheorems, TLAPS

(***************************************************************************)
(* 1. RcLink.                                                              *)
(*                                                                         *)
(* RcSound is about three different things.  The preset's window needs     *)
(* only that a counted frame is one after a jump.  That a pilot is never   *)
(* cut needs the sticks: no two checksums of neighbouring frames, wherever *)
(* they are, are a jump apart.  That a garbled byte costs one frame needs  *)
(* the whole stream from the reader to the end of the frame being sent: a  *)
(* token is the one the receiver sent in that place or garbled, and every  *)
(* frame missed so far, or still to be missed, is paid for by a token      *)
(* garbled.                                                                *)
(***************************************************************************)

\* The tokens of a frame, in order: "S", "D", "K".  A place in the stream is
\* counted from the end of the frames sent so far.
KindAt(e) == IF e % 3 = 0 THEN "S" ELSE IF e % 3 = 2 THEN "D" ELSE "K"
\* The frames the last e tokens belong to.
FramesIn(e) == (e + 2) \div 3

\* The token i places behind the reader: in the ring, or not yet on the wire.
Cells == 0 .. DmaSize - 1
Slot(a, i) == IF a + i < DmaSize THEN a + i ELSE a + i - DmaSize
Flow(cells, a, n, o, i) == IF i < n THEN cells[Slot(a, i)] ELSE o[i - n + 1]

\* A token e places before the end is the one the receiver sent there, or
\* garbled.
Proper(k, e, last) ==
    \/ k.t = "garbled"
    \/ k.t = KindAt(e) /\ (k.t = "K" => k.n = last + 1 - FramesIn(e))

\* Channels and checksum of one frame.
Agree(a, b) == a.t = "D" /\ b.t = "K" => a.v = b.v

\* The parser's state where e tokens are left, and whether it has met a
\* garbled token of the frame it is in.
ParserAt(p, e) ==
    \/ p.st = "start"
    \/ p.st = "data" /\ e % 3 = 2
    \/ p.st = "check" /\ e % 3 = 1 /\ p.tok.t \in {"D", "garbled"}
Spoilt(p, e) == IF e % 3 = 0 THEN FALSE
                ELSE p.st = "start" \/ (p.st = "check" /\ p.tok.t # "D")

GarbledIn(cells) == {j \in Cells : cells[j].t = "garbled"}

Tokens == [t : {"none", "garbled", "S", "D", "K"}, v : 0 .. High, n : 0 .. MaxRcFrames,
           lost : BOOLEAN]

RcTypes ==
    /\ rx \in [thr : 0 .. High, n : 0 .. MaxRcFrames]
    /\ out \in Seq(Tokens)
    /\ noise \in Nat
    /\ dmaBuf \in [Cells -> Tokens]
    /\ wr \in Cells /\ rd \in Cells /\ lim \in Cells
    /\ unread \in Cells /\ lapped \in BOOLEAN
    /\ parse \in [st : {"start", "data", "check"}, tok : Tokens]
    /\ prevThr \in 0 .. High /\ highFrames \in 0 .. HoldFrames /\ failsafe \in BOOLEAN
    /\ seen \in [last : 0 .. MaxRcFrames, exposed : Nat, jump : BOOLEAN, excused : BOOLEAN,
                 missed : Int, cut : BOOLEAN]

\* The confirmation window counts at least the frames of the preset since its
\* jump, and only opens for a reason.
WindowInv ==
    /\ seen.exposed <= highFrames /\ seen.exposed < HoldFrames
    /\ seen.jump => highFrames > 0
    /\ highFrames > 0 => seen.excused
    /\ seen.cut => seen.excused

\* The checksums on their way.
Checksum(cells, o, k) ==
    /\ k.t = "K"
    /\ (\E i \in Cells : k = cells[i]) \/ (\E i \in 1 .. Len(o) : k = o[i])

\* What a checksum of frame n says when stick and frame number are r and the
\* last frame applied had number m and throttle p.
Timely(k, r, m, p) ==
    /\ k.n \in 1 .. r.n
    /\ k.lost => k.v = High
    /\ k.n = r.n => r.thr <= k.v
    /\ k.n = m + 1 /\ ~k.lost /\ k.v = High => k.v - p < JumpDelta
Near(a, b) == b.n = a.n + 1 /\ ~b.lost => b.v - a.v < JumpDelta

StickInv ==
    /\ seen.last <= rx.n
    /\ seen.last = rx.n => rx.thr <= prevThr \/ rx.thr <= 1
    /\ \A k \in Tokens : Checksum(dmaBuf, out, k) => Timely(k, rx, seen.last, prevThr)
    /\ \A a, b \in Tokens : Checksum(dmaBuf, out, a) /\ Checksum(dmaBuf, out, b) => Near(a, b)

\* The tokens that are still to be parsed.
Left == unread + Len(out)

\* Frames before the one e tokens before the end that were not applied.
Gone(last, e) == rx.n - FramesIn(e) - last

FlowInv ==
    /\ wr = Slot(rd, unread)
    /\ (IF lim < rd THEN lim - rd + DmaSize ELSE lim - rd) <= unread
    /\ \A i \in 1 .. Len(out) : out[i].t # "garbled"
    /\ \A i \in 0 .. Left - 1 : Proper(Flow(dmaBuf, rd, unread, out, i), Left - i, rx.n)
    /\ \A i \in 0 .. Left - 2 : Agree(Flow(dmaBuf, rd, unread, out, i),
                                      Flow(dmaBuf, rd, unread, out, i + 1))
    /\ ParserAt(parse, Left)
    /\ parse.st = "check" => Agree(parse.tok, Flow(dmaBuf, rd, unread, out, 0))
    /\ seen.missed >= 0 /\ Gone(seen.last, Left) >= 0
    /\ noise >= seen.missed + Gone(seen.last, Left) + (IF Spoilt(parse, Left) THEN 1 ELSE 0)
                + Cardinality(GarbledIn(dmaBuf))

RcInv == RcTypes /\ WindowInv /\ StickInv /\ (~lapped => FlowInv)

----------------------------------------------------------------------------
LEMMA RcNumbers ==
    /\ DmaSize \in Nat /\ DmaSize >= 1 /\ High \in Nat /\ JumpDelta \in Nat
    /\ JumpDelta >= 2 /\ JumpDelta < High /\ HoldFrames \in Nat /\ HoldFrames >= 1
    /\ MaxRcFrames \in Nat /\ MaxNoise \in Nat
  BY RcAssumption

LEMMA ThreeMore ==
    ASSUME NEW e \in Nat
    PROVE  (e + 3) % 3 = e % 3 /\ FramesIn(e + 3) = FramesIn(e) + 1
  BY DEF FramesIn

LEMMA OneLess ==
    ASSUME NEW e \in Nat, e > 0
    PROVE  /\ e % 3 = 0 => (e - 1) % 3 = 2 /\ FramesIn(e - 1) = FramesIn(e)
           /\ e % 3 = 1 => (e - 1) % 3 = 0 /\ FramesIn(e - 1) = FramesIn(e) - 1
           /\ e % 3 = 2 => (e - 1) % 3 = 1 /\ FramesIn(e - 1) = FramesIn(e)
           /\ e % 3 \in {0, 1, 2} /\ FramesIn(e) \in Nat
  BY DEF FramesIn

\* The write and read indexes go round.
LEMMA NextCell ==
    ASSUME NEW a \in Cells
    PROVE  (a + 1) % DmaSize = Slot(a, 1)
<1>1. a \in Nat /\ a < DmaSize /\ DmaSize \in Nat /\ DmaSize >= 1
  BY RcNumbers DEF Cells
<1>2. CASE a + 1 < DmaSize
  <2>1. (a + 1) % DmaSize = a + 1
    BY <1>1, <1>2
  <2> QED
    BY <1>1, <1>2, <2>1 DEF Slot
<1>3. CASE a + 1 = DmaSize
  <2>1. DmaSize % DmaSize = 0
    BY <1>1
  <2>2. (a + 1) % DmaSize = 0
    BY <1>3, <2>1
  <2> QED
    BY <1>1, <1>3, <2>2 DEF Slot
<1> QED
  BY <1>1, <1>2, <1>3

LEMMA SlotIsCell ==
    ASSUME NEW a \in Cells, NEW i \in 0 .. DmaSize
    PROVE  Slot(a, i) \in Cells
  BY RcNumbers DEF Slot, Cells

\* Different places are different cells.
LEMMA SlotsDiffer ==
    ASSUME NEW a \in Cells, NEW i \in Cells, NEW j \in Cells, i # j
    PROVE  Slot(a, i) # Slot(a, j)
  BY RcNumbers DEF Slot, Cells

LEMMA SlotOn ==
    ASSUME NEW a \in Cells, NEW i \in Nat, i + 1 < DmaSize
    PROVE  Slot(Slot(a, 1), i) = Slot(a, i + 1)
  BY RcNumbers DEF Slot, Cells

LEMMA TokenKinds ==
    /\ Blank \in Tokens /\ Garbled \in Tokens
    /\ Blank.t = "none" /\ Garbled.t = "garbled"
  BY RcNumbers DEF Blank, Garbled, Nothing, Token, Tokens

----------------------------------------------------------------------------
LEMMA RcStart == RcInit => RcInv
<1> SUFFICES ASSUME RcInit PROVE RcInv
  OBVIOUS
<1>0. 0 \in Cells
  BY RcNumbers DEF Cells
<1>1. RcTypes
  <2>1. dmaBuf \in [Cells -> Tokens]
    BY TokenKinds DEF RcInit, Cells
  <2>2. parse \in [st : {"start", "data", "check"}, tok : Tokens]
    BY TokenKinds DEF RcInit, Waiting
  <2>3. rx \in [thr : 0 .. High, n : 0 .. MaxRcFrames] /\ out \in Seq(Tokens)
    BY RcNumbers DEF RcInit
  <2>4. seen \in [last : 0 .. MaxRcFrames, exposed : Nat, jump : BOOLEAN, excused : BOOLEAN,
                  missed : Int, cut : BOOLEAN]
    BY RcNumbers DEF RcInit
  <2>5. lapped \in BOOLEAN /\ failsafe \in BOOLEAN
    BY Zenon DEF RcInit
  <2> QED
    BY <1>0, <2>1, <2>2, <2>3, <2>4, <2>5, RcNumbers DEF RcInit, RcTypes
<1>2. WindowInv
  BY RcNumbers DEF RcInit, WindowInv
<1>3. StickInv
  <2>1. ASSUME NEW k \in Tokens
        PROVE  ~Checksum(dmaBuf, out, k)
    BY TokenKinds DEF RcInit, Checksum, Cells
  <2>2. seen.last = 0 /\ rx.n = 0 /\ rx.thr = 1
    BY DEF RcInit
  <2> QED
    BY <2>1, <2>2 DEF StickInv
<1>4. FlowInv
  <2>1. Cardinality(GarbledIn(dmaBuf)) = 0
    <3>1. GarbledIn(dmaBuf) = {}
      BY TokenKinds DEF RcInit, GarbledIn, Cells
    <3> QED
      BY <3>1, FS_EmptySet
  <2>2. unread = 0 /\ Len(out) = 0 /\ rd = 0 /\ lim = 0 /\ wr = 0 /\ parse.st = "start"
        /\ seen.missed = 0 /\ seen.last = 0 /\ rx.n = 0 /\ noise = 0
    BY DEF RcInit, Waiting
  <2>3. Left = 0 /\ FramesIn(0) = 0 /\ 0 % 3 = 0
    BY <2>2 DEF Left, FramesIn
  <2> QED
    BY <2>1, <2>2, <2>3, RcNumbers DEF FlowInv, Gone, Spoilt, ParserAt, Slot
<1> QED
  BY <1>1, <1>2, <1>3, <1>4 DEF RcInv

----------------------------------------------------------------------------
\* The task samples the DMA's index: it reads no further than was written.
LEMMA WakeKeeps ==
    ASSUME RcInv, RcWake
    PROVE  RcInv'
<1>1. RcTypes'
  BY DEF RcInv, RcWake, RcTypes
<1>2. WindowInv' /\ StickInv'
  <2>1. UNCHANGED <<seen, highFrames, rx, prevThr, dmaBuf, out>>
    BY DEF RcWake
  <2> QED
    BY <2>1 DEF RcInv, WindowInv, StickInv
<1>3. ASSUME ~lapped'
      PROVE  FlowInv'
  <2>1. FlowInv /\ UNCHANGED <<wr, rd, unread, out, dmaBuf, rx, parse, seen, noise>> /\ lim' = wr
    BY <1>3 DEF RcInv, RcWake
  <2>2. (IF wr < rd THEN wr - rd + DmaSize ELSE wr - rd) <= unread
    <3>1. /\ wr \in Nat /\ rd \in Nat /\ unread \in Nat /\ DmaSize \in Nat
          /\ rd < DmaSize /\ unread < DmaSize
      BY RcNumbers DEF RcInv, RcTypes, Cells
    <3>2. wr = IF rd + unread < DmaSize THEN rd + unread ELSE rd + unread - DmaSize
      BY <2>1 DEF FlowInv, Slot
    <3> QED
      BY <3>1, <3>2
  <2> QED
    BY <2>1, <2>2 DEF FlowInv, Left, Gone
<1> QED
  BY <1>1, <1>2, <1>3 DEF RcInv

\* The receiver sends a frame: a stick of the pilot's, or the preset.
LEMMA FrameKeeps ==
    ASSUME RcInv, RxFrame
    PROVE  RcInv'
<1>0. RcTypes /\ WindowInv /\ StickInv
  BY DEF RcInv
<1>1. PICK thr \in 0 .. High, lost \in BOOLEAN :
        /\ lost => thr = High
        /\ ~lost => thr - rx.thr < JumpDelta /\ rx.thr - thr < JumpDelta
        /\ rx' = [thr |-> IF lost THEN rx.thr ELSE thr, n |-> rx.n + 1]
        /\ out' = <<Token("S", Nothing), Token("D", [Nothing EXCEPT !.v = thr]),
                    Token("K", [v |-> thr, n |-> rx.n + 1, lost |-> lost])>>
  BY DEF RxFrame
<1> DEFINE S == [t |-> "S", v |-> 0, n |-> 0, lost |-> FALSE]
           D == [t |-> "D", v |-> thr, n |-> 0, lost |-> FALSE]
           K == [t |-> "K", v |-> thr, n |-> rx.n + 1, lost |-> lost]
<1>2. rx.n \in 0 .. MaxRcFrames /\ rx.n < MaxRcFrames /\ rx.thr \in 0 .. High /\ out = <<>>
  BY <1>0 DEF RxFrame, RcTypes
<1>3. UNCHANGED <<noise, dmaBuf, wr, rd, lim, unread, lapped, parse, prevThr, highFrames,
                  failsafe, seen>>
  BY DEF RxFrame
<1>4. Token("S", Nothing) = S /\ Token("D", [Nothing EXCEPT !.v = thr]) = D
      /\ Token("K", [v |-> thr, n |-> rx.n + 1, lost |-> lost]) = K
  BY DEF Token, Nothing
<1>5. S \in Tokens /\ D \in Tokens /\ K \in Tokens
  BY <1>2, RcNumbers DEF Tokens
<1>6. S.t = "S" /\ D.t = "D" /\ K.t = "K" /\ D.v = thr /\ K.v = thr /\ K.n = rx.n + 1
      /\ K.lost = lost
  OBVIOUS
<1> HIDE DEF S, D, K
<1>7. /\ out' \in Seq(Tokens) /\ Len(out') = 3
      /\ out'[1] = S /\ out'[2] = D /\ out'[3] = K
  BY <1>1, <1>4, <1>5
<1>8. rx'.n = rx.n + 1 /\ (lost => rx'.thr = rx.thr) /\ (~lost => rx'.thr = thr)
      /\ rx' \in [thr : 0 .. High, n : 0 .. MaxRcFrames]
  <2>1. rx.n + 1 \in 0 .. MaxRcFrames
    BY <1>2, RcNumbers
  <2>2. (IF lost THEN rx.thr ELSE thr) \in 0 .. High
    BY <1>2
  <2> QED
    BY <1>1, <2>1, <2>2
<1>9. RcTypes'
  BY <1>0, <1>3, <1>7, <1>8 DEF RcTypes
<1>10. WindowInv'
  BY <1>0, <1>3 DEF WindowInv
<1>11. StickInv'
  <2>0. /\ seen.last \in Nat /\ seen.last <= rx.n
        /\ prevThr \in Nat /\ (seen.last = rx.n => rx.thr <= prevThr \/ rx.thr <= 1)
    BY <1>0 DEF RcTypes, StickInv
  <2>1. ASSUME NEW k \in Tokens, Checksum(dmaBuf', out', k)
        PROVE  Checksum(dmaBuf, out, k) \/ k = K
    BY <2>1, <1>3, <1>6, <1>7 DEF Checksum
  <2>2. ASSUME NEW k \in Tokens, Checksum(dmaBuf, out, k)
        PROVE  Timely(k, rx, seen.last, prevThr) /\ k.n <= rx.n /\ k.n \in Nat /\ k.v \in 0 .. High
    BY <2>2, <1>0, <1>2 DEF StickInv, Timely, Tokens
  <2>3. ASSUME NEW k \in Tokens, Checksum(dmaBuf, out, k)
        PROVE  Timely(k, rx', seen.last, prevThr)
    BY <2>2, <2>3, <1>2, <1>8 DEF Timely
  <2>4. Timely(K, rx', seen.last, prevThr)
    <3>1. lost => K.v = High
      BY <1>1, <1>6
    <3>2. rx'.thr <= K.v
      BY <1>1, <1>2, <1>6, <1>8
    <3>3. rx.n + 1 = seen.last + 1 /\ ~lost /\ thr = High => thr - prevThr < JumpDelta
      <4>1. ASSUME seen.last = rx.n, ~lost, thr = High
            PROVE  thr - prevThr < JumpDelta
        <5>1. rx.thr \in Nat /\ thr \in Nat /\ thr - rx.thr < JumpDelta
          BY <1>1, <1>2, <4>1
        <5>2. rx.thr <= prevThr \/ rx.thr <= 1
          BY <2>0, <4>1
        <5> QED
          BY <2>0, <4>1, <5>1, <5>2, RcNumbers
      <4>2. rx.n + 1 = seen.last + 1 => seen.last = rx.n
        BY <1>2, <2>0
      <4> QED
        BY <4>1, <4>2
    <3> QED
      BY <3>1, <3>2, <3>3, <1>2, <1>6, <1>8 DEF Timely
  <2>5. ASSUME NEW a \in Tokens, Checksum(dmaBuf, out, a)
        PROVE  Near(a, K) /\ Near(K, a)
    <3>1. a.n \in Nat /\ a.v \in Nat /\ a.n <= rx.n /\ (a.n = rx.n => rx.thr <= a.v)
      BY <2>2, <2>5 DEF Timely
    <3>2. a.n = rx.n /\ ~lost => thr - a.v < JumpDelta
      BY <3>1, <1>1, <1>2, RcNumbers
    <3> QED
      BY <3>1, <3>2, <1>2, <1>6 DEF Near
  <2>6. Near(K, K)
    BY <1>2, <1>6 DEF Near
  <2>7. ASSUME NEW a \in Tokens, NEW b \in Tokens,
               Checksum(dmaBuf', out', a), Checksum(dmaBuf', out', b)
        PROVE  Near(a, b)
    <3>1. Checksum(dmaBuf, out, a) /\ Checksum(dmaBuf, out, b) => Near(a, b)
      BY <1>0 DEF StickInv
    <3> QED
      BY <2>1, <2>5, <2>6, <2>7, <3>1
  <2>8. seen'.last <= rx'.n /\ (seen'.last = rx'.n => rx'.thr <= prevThr' \/ rx'.thr <= 1)
    BY <1>2, <1>3, <1>8, <2>0
  <2> QED
    BY <1>3, <2>1, <2>3, <2>4, <2>7, <2>8 DEF StickInv
<1>12. ASSUME ~lapped'
       PROVE  FlowInv'
  <2>0. FlowInv
    BY <1>3, <1>12 DEF RcInv
  <2>1. unread \in Nat /\ unread < DmaSize /\ Left = unread /\ Left' = unread + 3
    BY <1>0, <1>2, <1>3, <1>7, RcNumbers DEF RcTypes, Cells, Left
  <2>2. /\ (unread + 3) % 3 = unread % 3 /\ FramesIn(unread + 3) = FramesIn(unread) + 1
        /\ rx'.n - FramesIn(unread + 3) = rx.n - FramesIn(unread)
    BY <1>2, <1>8, <2>1, ThreeMore DEF FramesIn
  <2>3. ASSUME NEW i \in 0 .. unread - 1
        PROVE  Flow(dmaBuf', rd', unread', out', i) = Flow(dmaBuf, rd, unread, out, i)
    BY <1>3, <2>1 DEF Flow
  <2>4. /\ Flow(dmaBuf', rd', unread', out', unread) = S
        /\ Flow(dmaBuf', rd', unread', out', unread + 1) = D
        /\ Flow(dmaBuf', rd', unread', out', unread + 2) = K
    BY <1>3, <1>7, <2>1 DEF Flow
  <2>5. ASSUME NEW k, NEW e \in Nat
        PROVE  Proper(k, e, rx.n) => Proper(k, e + 3, rx'.n)
    <3>1. (e + 3) % 3 = e % 3 /\ FramesIn(e + 3) = FramesIn(e) + 1 /\ FramesIn(e) \in Nat
      BY ThreeMore DEF FramesIn
    <3>2. rx'.n + 1 - FramesIn(e + 3) = rx.n + 1 - FramesIn(e)
      BY <1>2, <1>8, <3>1
    <3> QED
      BY <3>1, <3>2 DEF Proper, KindAt
  <2>6. Proper(S, 3, rx'.n) /\ Proper(D, 2, rx'.n) /\ Proper(K, 1, rx'.n)
    BY <1>2, <1>6, <1>8 DEF Proper, KindAt, FramesIn
  <2>7. ASSUME NEW i \in 0 .. Left' - 1
        PROVE  Proper(Flow(dmaBuf', rd', unread', out', i), Left' - i, rx'.n)
    <3>1. CASE i < unread
      <4>1. Proper(Flow(dmaBuf, rd, unread, out, i), unread - i, rx.n)
        BY <2>0, <2>1, <2>7, <3>1 DEF FlowInv
      <4>2. unread - i \in Nat /\ (unread - i) + 3 = Left' - i /\ i \in 0 .. unread - 1
        BY <2>1, <2>7, <3>1
      <4> QED
        BY <2>3, <2>5, <4>1, <4>2
    <3>2. CASE i >= unread
      <4>1. i = unread \/ i = unread + 1 \/ i = unread + 2
        BY <2>1, <2>7, <3>2
      <4>2. /\ i = unread => Left' - i = 3
            /\ i = unread + 1 => Left' - i = 2
            /\ i = unread + 2 => Left' - i = 1
        BY <2>1
      <4> QED
        BY <2>4, <2>6, <4>1, <4>2
    <3> QED
      BY <2>1, <2>7, <3>1, <3>2
  <2>8. ASSUME NEW i \in 0 .. Left' - 2
        PROVE  Agree(Flow(dmaBuf', rd', unread', out', i), Flow(dmaBuf', rd', unread', out', i + 1))
    <3>1. CASE i + 1 < unread
      <4>1. Agree(Flow(dmaBuf, rd, unread, out, i), Flow(dmaBuf, rd, unread, out, i + 1))
        <5>1. i \in 0 .. Left - 2
          BY <2>1, <2>8, <3>1
        <5> QED
          BY <2>0, <5>1 DEF FlowInv
      <4>2. i \in 0 .. unread - 1 /\ i + 1 \in 0 .. unread - 1
        BY <2>1, <2>8, <3>1
      <4> QED
        BY <2>3, <4>1, <4>2
    <3>2. CASE i + 1 = unread
      BY <1>6, <2>4, <3>2 DEF Agree
    <3>3. CASE i = unread
      BY <1>6, <2>4, <3>3 DEF Agree
    <3>4. CASE i = unread + 1
      <4>1. i + 1 = unread + 2
        BY <2>1, <3>4
      <4> QED
        BY <1>6, <2>4, <3>4, <4>1 DEF Agree
    <3> QED
      BY <2>1, <2>8, <3>1, <3>2, <3>3, <3>4
  <2>9. ParserAt(parse', Left') /\ (Spoilt(parse', Left') <=> Spoilt(parse, Left))
    BY <1>3, <2>0, <2>1, <2>2 DEF FlowInv, ParserAt, Spoilt
  <2>10. parse'.st = "check" => Agree(parse'.tok, Flow(dmaBuf', rd', unread', out', 0))
    <3>1. ASSUME parse.st = "check"
          PROVE  unread > 0
      <4>1. unread % 3 = 1
        BY <2>0, <2>1, <3>1 DEF FlowInv, ParserAt
      <4> QED
        BY <2>1, <4>1
    <3>2. parse.st = "check" => Agree(parse.tok, Flow(dmaBuf, rd, unread, out, 0))
      BY <2>0 DEF FlowInv
    <3> QED
      BY <1>3, <2>1, <2>3, <3>1, <3>2
  <2>11. \A i \in 1 .. Len(out') : out'[i].t # "garbled"
    BY <1>6, <1>7
  <2>12. Gone(seen.last, Left)' = Gone(seen.last, Left)
    BY <1>3, <2>1, <2>2 DEF Gone
  <2>13. /\ wr' = Slot(rd', unread')
         /\ (IF lim' < rd' THEN lim' - rd' + DmaSize ELSE lim' - rd') <= unread'
    BY <1>3, <2>0 DEF FlowInv
  <2>14. /\ seen'.missed >= 0 /\ Gone(seen.last, Left)' >= 0
         /\ noise' >= seen'.missed + Gone(seen.last, Left)' + (IF Spoilt(parse', Left') THEN 1 ELSE 0)
                      + Cardinality(GarbledIn(dmaBuf'))
    BY <1>3, <2>0, <2>9, <2>12, Zenon DEF FlowInv
  <2> QED
    BY <2>7, <2>8, <2>9, <2>10, <2>11, <2>13, <2>14 DEF FlowInv
<1> QED
  BY <1>9, <1>10, <1>11, <1>12 DEF RcInv

\* The elements of a sequence without its first.
LEMMA TailElements ==
    ASSUME NEW T, NEW q \in Seq(T), q # <<>>
    PROVE  /\ Tail(q) \in Seq(T) /\ Len(q) \in Nat /\ Len(q) >= 1
           /\ Len(Tail(q)) = Len(q) - 1
           /\ \A i \in 1 .. Len(q) - 1 : Tail(q)[i] = q[i + 1]
           /\ Head(q) = q[1] /\ q[1] \in T
  BY HeadTailProperties, LenProperties, EmptySeq

\* The DMA puts one token in its place, as it was sent or garbled.
LEMMA DmaKeeps ==
    ASSUME RcInv, DmaByte
    PROVE  RcInv'
<1>0. RcTypes /\ WindowInv /\ StickInv
  BY DEF RcInv
<1>1. PICK bad \in BOOLEAN :
        /\ noise' = IF bad THEN noise + 1 ELSE noise
        /\ dmaBuf' = [dmaBuf EXCEPT ![wr] = IF bad THEN Garbled ELSE Head(out)]
  BY DEF DmaByte
<1>2. /\ out # <<>> /\ wr' = (wr + 1) % DmaSize
      /\ lapped' = (lapped \/ unread = DmaSize - 1)
      /\ unread' = IF lapped' THEN 0 ELSE unread + 1
      /\ out' = Tail(out)
      /\ UNCHANGED <<rx, rd, lim, parse, prevThr, highFrames, failsafe, seen>>
  BY DEF DmaByte
<1>3. /\ out' \in Seq(Tokens) /\ Len(out) \in Nat /\ Len(out) >= 1 /\ Len(out') = Len(out) - 1
      /\ \A i \in 1 .. Len(out) - 1 : out'[i] = out[i + 1]
      /\ Head(out) = out[1] /\ out[1] \in Tokens
  BY <1>0, <1>2, TailElements DEF RcTypes
<1>4. wr \in Cells /\ dmaBuf \in [Cells -> Tokens] /\ wr' = Slot(wr, 1) /\ wr' \in Cells
  <2>1. wr \in Cells /\ dmaBuf \in [Cells -> Tokens]
    BY <1>0 DEF RcTypes
  <2>2. 1 \in 0 .. DmaSize
    BY RcNumbers
  <2> QED
    BY <1>2, <2>1, <2>2, NextCell, SlotIsCell
<1>5. /\ dmaBuf' \in [Cells -> Tokens]
      /\ \A j \in Cells : j # wr => dmaBuf'[j] = dmaBuf[j]
      /\ bad => dmaBuf'[wr] = Garbled
      /\ ~bad => dmaBuf'[wr] = out[1]
  <2> DEFINE new == IF bad THEN Garbled ELSE Head(out)
  <2>1. new \in Tokens /\ (bad => new = Garbled) /\ (~bad => new = out[1])
    BY <1>3, TokenKinds
  <2>2. dmaBuf' = [dmaBuf EXCEPT ![wr] = new]
    BY <1>1
  <2> HIDE DEF new
  <2> QED
    BY <1>4, <2>1, <2>2
<1>6. RcTypes'
  <2>1. noise' \in Nat
    BY <1>0, <1>1 DEF RcTypes
  <2>2. lapped' \in BOOLEAN
    BY <1>2, Zenon
  <2>3. unread' \in Cells
    <3>1. unread \in Nat /\ unread < DmaSize
      BY <1>0, RcNumbers DEF RcTypes, Cells
    <3>2. CASE lapped'
      BY <1>2, <3>2, RcNumbers DEF Cells
    <3>3. CASE ~lapped'
      <4>1. unread # DmaSize - 1
        BY <1>2, <3>3, Zenon
      <4> QED
        BY <1>2, <3>1, <3>3, <4>1, RcNumbers DEF Cells
    <3> QED
      BY <3>2, <3>3
  <2> QED
    BY <1>0, <1>2, <1>3, <1>4, <1>5, <2>1, <2>2, <2>3 DEF RcTypes
<1>7. WindowInv'
  BY <1>0, <1>2 DEF WindowInv
<1>8. StickInv'
  <2>1. ASSUME NEW k \in Tokens, Checksum(dmaBuf', out', k)
        PROVE  Checksum(dmaBuf, out, k)
    <3>1. k.t = "K"
      BY <2>1 DEF Checksum
    <3>2. CASE \E i \in Cells : k = dmaBuf'[i]
      <4>1. PICK i \in Cells : k = dmaBuf'[i]
        BY <3>2
      <4>2. CASE i # wr
        BY <1>5, <3>1, <4>1, <4>2 DEF Checksum
      <4>3. CASE i = wr
        <5>1. k = out[1]
          BY <1>5, <3>1, <4>1, <4>3, TokenKinds
        <5>2. 1 \in 1 .. Len(out)
          BY <1>3
        <5> QED
          BY <3>1, <5>1, <5>2 DEF Checksum
      <4> QED
        BY <4>2, <4>3
    <3>3. CASE \E i \in 1 .. Len(out') : k = out'[i]
      <4>1. PICK i \in 1 .. Len(out') : k = out'[i]
        BY <3>3
      <4>2. i + 1 \in 1 .. Len(out) /\ k = out[i + 1]
        BY <1>3, <4>1
      <4> QED
        BY <3>1, <4>2 DEF Checksum
    <3> QED
      BY <2>1, <3>2, <3>3 DEF Checksum
  <2> QED
    BY <1>0, <1>2, <2>1 DEF StickInv
<1>9. ASSUME ~lapped'
      PROVE  FlowInv'
  <2>0. FlowInv /\ unread # DmaSize - 1 /\ unread' = unread + 1
    BY <1>2, <1>9 DEF RcInv
  <2>1. unread \in Nat /\ unread + 1 < DmaSize /\ rd \in Cells /\ lim \in Cells
        /\ DmaSize \in Nat /\ DmaSize >= 1
    BY <1>0, <2>0, RcNumbers DEF RcTypes, Cells
  <2>2. Left' = Left /\ Left \in Nat /\ Left = unread + Len(out)
    BY <1>3, <2>0, <2>1 DEF Left
  <2>3. wr = Slot(rd, unread) /\ wr' = Slot(rd, unread')
    <3>1. wr = Slot(rd, unread)
      BY <2>0 DEF FlowInv
    <3>2. Slot(Slot(rd, unread), 1) = Slot(rd, unread + 1)
      BY <2>1 DEF Slot, Cells
    <3> QED
      BY <1>4, <2>0, <3>1, <3>2
  <2>4. ASSUME NEW i \in 0 .. Left - 1
        PROVE  \/ Flow(dmaBuf', rd', unread', out', i) = Flow(dmaBuf, rd, unread, out, i)
               \/ Flow(dmaBuf', rd', unread', out', i) = Garbled
    <3>1. CASE i < unread
      <4>1. Slot(rd, i) \in Cells /\ Slot(rd, i) # Slot(rd, unread)
        <5>1. i \in Cells /\ unread \in Cells /\ i # unread /\ i \in 0 .. DmaSize
          BY <2>1, <2>2, <3>1 DEF Cells
        <5> QED
          BY <2>1, <5>1, SlotIsCell, SlotsDiffer
      <4> QED
        BY <1>2, <1>5, <2>0, <2>1, <2>3, <3>1, <4>1 DEF Flow
    <3>2. CASE i = unread
      <4>1. Flow(dmaBuf', rd', unread', out', i) = dmaBuf'[wr]
        BY <1>2, <2>0, <2>1, <2>3, <3>2 DEF Flow
      <4>2. Flow(dmaBuf, rd, unread, out, i) = out[1]
        BY <2>1, <3>2 DEF Flow
      <4> QED
        BY <1>5, <4>1, <4>2
    <3>3. CASE i > unread
      <4>1. i - unread' + 1 \in 1 .. Len(out) - 1 /\ (i - unread' + 1) + 1 = i - unread + 1
        BY <1>3, <2>0, <2>1, <2>2, <2>4, <3>3
      <4>2. Flow(dmaBuf', rd', unread', out', i) = out'[i - unread' + 1]
        BY <2>0, <2>1, <2>2, <3>3 DEF Flow
      <4>3. Flow(dmaBuf, rd, unread, out, i) = out[i - unread + 1]
        BY <2>1, <2>2, <3>3 DEF Flow
      <4> QED
        BY <1>3, <4>1, <4>2, <4>3
    <3> QED
      BY <2>1, <2>2, <2>4, <3>1, <3>2, <3>3
  <2>5. ASSUME NEW i \in 0 .. Left' - 1
        PROVE  Proper(Flow(dmaBuf', rd', unread', out', i), Left' - i, rx'.n)
    <3>1. Proper(Flow(dmaBuf, rd, unread, out, i), Left - i, rx.n)
      BY <2>0, <2>2 DEF FlowInv
    <3> QED
      BY <1>2, <2>2, <2>4, <3>1, TokenKinds DEF Proper
  <2>6. ASSUME NEW i \in 0 .. Left' - 2
        PROVE  Agree(Flow(dmaBuf', rd', unread', out', i), Flow(dmaBuf', rd', unread', out', i + 1))
    <3>1. Agree(Flow(dmaBuf, rd, unread, out, i), Flow(dmaBuf, rd, unread, out, i + 1))
      BY <2>0, <2>2 DEF FlowInv
    <3>2. i \in 0 .. Left - 1 /\ i + 1 \in 0 .. Left - 1
      BY <2>2
    <3> QED
      BY <2>4, <3>1, <3>2, TokenKinds DEF Agree
  <2>7. parse'.st = "check" => Agree(parse'.tok, Flow(dmaBuf', rd', unread', out', 0))
    <3>1. parse.st = "check" => Agree(parse.tok, Flow(dmaBuf, rd, unread, out, 0))
      BY <2>0 DEF FlowInv
    <3>2. 0 \in 0 .. Left - 1
      BY <1>3, <2>1, <2>2
    <3> QED
      BY <1>2, <2>4, <3>1, <3>2, TokenKinds DEF Agree
  <2>8. \A i \in 1 .. Len(out') : out'[i].t # "garbled"
    BY <1>3, <2>0 DEF FlowInv
  <2>9. (IF lim' < rd' THEN lim' - rd' + DmaSize ELSE lim' - rd') <= unread'
    <3>1. (IF lim < rd THEN lim - rd + DmaSize ELSE lim - rd) <= unread
      BY <2>0 DEF FlowInv
    <3> QED
      BY <1>2, <2>0, <2>1, <3>1 DEF Cells
  <2>10. noise' >= noise + (Cardinality(GarbledIn(dmaBuf')) - Cardinality(GarbledIn(dmaBuf)))
         /\ Cardinality(GarbledIn(dmaBuf')) \in Nat /\ Cardinality(GarbledIn(dmaBuf)) \in Nat
    <3>1. IsFiniteSet(GarbledIn(dmaBuf)) /\ Cardinality(GarbledIn(dmaBuf)) \in Nat
      <4>1. IsFiniteSet(Cells)
        BY RcNumbers, FS_Interval DEF Cells
      <4>2. GarbledIn(dmaBuf) \subseteq Cells
        BY DEF GarbledIn
      <4> QED
        BY <4>1, <4>2, FS_Subset, FS_CardinalityType
    <3>2. CASE bad
      <4>1. GarbledIn(dmaBuf') \subseteq GarbledIn(dmaBuf) \union {wr}
        BY <1>5 DEF GarbledIn
      <4>2. /\ IsFiniteSet(GarbledIn(dmaBuf) \union {wr})
            /\ Cardinality(GarbledIn(dmaBuf) \union {wr}) <= Cardinality(GarbledIn(dmaBuf)) + 1
        <5>1. /\ IsFiniteSet(GarbledIn(dmaBuf) \union {wr})
              /\ \/ Cardinality(GarbledIn(dmaBuf) \union {wr}) = Cardinality(GarbledIn(dmaBuf))
                 \/ Cardinality(GarbledIn(dmaBuf) \union {wr}) = Cardinality(GarbledIn(dmaBuf)) + 1
          BY <3>1, FS_AddElement, Zenon
        <5> QED
          BY <3>1, <5>1
      <4>3. /\ Cardinality(GarbledIn(dmaBuf')) <= Cardinality(GarbledIn(dmaBuf) \union {wr})
            /\ IsFiniteSet(GarbledIn(dmaBuf'))
        BY <4>1, <4>2, FS_Subset
      <4>4. /\ Cardinality(GarbledIn(dmaBuf')) \in Nat
            /\ Cardinality(GarbledIn(dmaBuf) \union {wr}) \in Nat
        BY <4>2, <4>3, FS_CardinalityType
      <4>5. noise' = noise + 1 /\ noise \in Nat
        BY <1>0, <1>1, <3>2 DEF RcTypes
      <4> QED
        BY <3>1, <4>2, <4>3, <4>4, <4>5
    <3>3. CASE ~bad
      <4>1. out[1].t # "garbled"
        BY <1>3, <2>0 DEF FlowInv
      <4>2. GarbledIn(dmaBuf') \subseteq GarbledIn(dmaBuf)
        BY <1>5, <3>3, <4>1 DEF GarbledIn
      <4>3. /\ Cardinality(GarbledIn(dmaBuf')) <= Cardinality(GarbledIn(dmaBuf))
            /\ IsFiniteSet(GarbledIn(dmaBuf'))
        BY <3>1, <4>2, FS_Subset
      <4>4. Cardinality(GarbledIn(dmaBuf')) \in Nat
        BY <4>3, FS_CardinalityType
      <4>5. noise' = noise /\ noise \in Nat
        BY <1>0, <1>1, <3>3 DEF RcTypes
      <4> QED
        BY <3>1, <4>3, <4>4, <4>5
    <3> QED
      BY <3>2, <3>3
  <2>11. /\ ParserAt(parse', Left') /\ (Spoilt(parse', Left') <=> Spoilt(parse, Left))
         /\ Gone(seen'.last, Left') = Gone(seen.last, Left)
    BY <1>2, <2>0, <2>2 DEF FlowInv, Gone
  <2>12. Gone(seen.last, Left)' = Gone(seen.last, Left)
    BY <1>2, <2>2 DEF Gone
  <2>13. /\ seen'.missed >= 0 /\ Gone(seen.last, Left)' >= 0
         /\ noise' >= seen'.missed + Gone(seen.last, Left)' + (IF Spoilt(parse', Left') THEN 1 ELSE 0)
                      + Cardinality(GarbledIn(dmaBuf'))
    <3>1. /\ seen.missed >= 0 /\ Gone(seen.last, Left) >= 0
          /\ noise >= seen.missed + Gone(seen.last, Left) + (IF Spoilt(parse, Left) THEN 1 ELSE 0)
                + Cardinality(GarbledIn(dmaBuf))
      BY <2>0 DEF FlowInv
    <3>2. seen.missed \in Int /\ noise \in Nat /\ noise' \in Nat
      BY <1>0, <1>6 DEF RcTypes
    <3>3. Gone(seen.last, Left) \in Int
      BY <1>0, <2>2, OneLess DEF Gone, RcTypes, FramesIn
    <3>4. (IF Spoilt(parse', Left') THEN 1 ELSE 0) = (IF Spoilt(parse, Left) THEN 1 ELSE 0)
      BY <2>11
    <3>5. (IF Spoilt(parse, Left) THEN 1 ELSE 0) \in {0, 1}
      BY Zenon
    <3>6. seen' = seen
      BY <1>2
    <3> QED
      BY <2>10, <2>12, <3>1, <3>2, <3>3, <3>4, <3>5, <3>6
  <2> QED
    BY <1>2, <2>3, <2>5, <2>6, <2>7, <2>8, <2>9, <2>11, <2>13 DEF FlowInv
<1> QED
  BY <1>6, <1>7, <1>8, <1>9 DEF RcInv

\* rc_throttle_failsafe_step: the count of the confirmation window.
LEMMA CountOfWindow ==
    ASSUME RcTypes, NEW v \in 0 .. High
    PROVE  /\ HighCount(v) \in 0 .. HoldFrames
           /\ HighCount(v) > 0 => v = High /\ (highFrames > 0 \/ v - prevThr >= JumpDelta)
           /\ v = High /\ (highFrames > 0 \/ v - prevThr >= JumpDelta) =>
                \/ HighCount(v) = HoldFrames
                \/ HighCount(v) = highFrames + 1
<1>1. /\ highFrames \in 0 .. HoldFrames /\ prevThr \in 0 .. High
      /\ High \in Nat /\ JumpDelta \in Nat /\ HoldFrames \in Nat /\ HoldFrames >= 1
  BY RcNumbers DEF RcTypes
<1>2. CASE v < High
  BY <1>1, <1>2 DEF HighCount
<1>3. CASE v = High /\ highFrames = 0 /\ ~(v - prevThr >= JumpDelta)
  BY <1>1, <1>3 DEF HighCount
<1>4. CASE v = High /\ (highFrames # 0 \/ v - prevThr >= JumpDelta)
  <2>1. HighCount(v) = IF highFrames < HoldFrames THEN highFrames + 1 ELSE highFrames
    BY <1>1, <1>4 DEF HighCount
  <2> QED
    BY <1>1, <1>4, <2>1
<1> QED
  BY <1>1, <1>2, <1>3, <1>4

\* rc_apply_frame on the checksum f.
LEMMA ApplyKeeps ==
    ASSUME RcTypes, WindowInv, StickInv, NEW f \in Tokens, Checksum(dmaBuf, out, f), Apply(f)
    PROVE  /\ prevThr' = f.v /\ seen'.last = f.n
           /\ prevThr' \in 0 .. High /\ highFrames' \in 0 .. HoldFrames /\ failsafe' \in BOOLEAN
           /\ seen' \in [last : 0 .. MaxRcFrames, exposed : Nat, jump : BOOLEAN,
                         excused : BOOLEAN, missed : Int, cut : BOOLEAN]
           /\ seen.missed >= 0 /\ f.n > seen.last => seen'.missed = seen.missed + f.n - seen.last - 1
           /\ WindowInv'
<1> DEFINE hc == HighCount(f.v)
           fs == IF hc = 0 THEN FALSE ELSE failsafe \/ hc >= HoldFrames
           gap == f.n # seen.last + 1
           jump == f.lost /\ (seen.jump \/ f.v - prevThr >= JumpDelta)
           missed == IF f.n <= seen.last THEN -1 ELSE IF seen.missed < 0 THEN -1
                     ELSE seen.missed + f.n - seen.last - 1
           exposed == IF jump /\ ~fs THEN seen.exposed + 1 ELSE 0
           excused == f.v = High /\ (seen.excused \/ f.lost \/ gap)
           cut == fs /\ ~f.lost
<1>1. /\ prevThr' = f.v /\ highFrames' = hc /\ failsafe' = fs
      /\ seen' = [last |-> f.n, jump |-> jump, exposed |-> exposed, excused |-> excused,
                  missed |-> missed, cut |-> cut]
  BY DEF Apply
<1>2. /\ f.v \in 0 .. High /\ f.n \in 0 .. MaxRcFrames /\ f.lost \in BOOLEAN
      /\ Timely(f, rx, seen.last, prevThr)
  BY DEF Tokens, StickInv
<1>3. /\ seen.last \in 0 .. MaxRcFrames /\ seen.exposed \in Nat /\ seen.missed \in Int
      /\ highFrames \in 0 .. HoldFrames /\ prevThr \in 0 .. High
  BY DEF RcTypes
<1>4. /\ hc \in 0 .. HoldFrames
      /\ hc > 0 => f.v = High /\ (highFrames > 0 \/ f.v - prevThr >= JumpDelta)
      /\ f.v = High /\ (highFrames > 0 \/ f.v - prevThr >= JumpDelta) =>
           hc = HoldFrames \/ hc = highFrames + 1
  BY <1>2, CountOfWindow
<1>5. fs => hc > 0
  BY <1>4, RcNumbers
<1>6. hc >= HoldFrames => fs
  BY <1>4, RcNumbers
<1> HIDE DEF hc, fs
<1>7. fs \in BOOLEAN /\ jump \in BOOLEAN /\ excused \in BOOLEAN /\ cut \in BOOLEAN
  <2>1. fs \in BOOLEAN
    BY <1>5, Zenon DEF fs
  <2> QED
    BY <2>1, Zenon
<1>8. exposed \in Nat /\ missed \in Int
  BY <1>2, <1>3
<1>9. jump => hc = HoldFrames \/ (hc = highFrames + 1)
  <2>1. f.lost => f.v = High
    BY <1>2 DEF Timely
  <2>2. seen.jump => highFrames > 0
    BY DEF WindowInv
  <2> QED
    BY <1>4, <2>1, <2>2
<1>10. jump => hc > 0
  BY <1>3, <1>9, RcNumbers
<1>11. exposed <= hc /\ exposed < HoldFrames
  <2>1. CASE jump /\ ~fs
    <3>1. hc # HoldFrames
      BY <1>4, <1>6, <2>1, RcNumbers
    <3>2. hc = highFrames + 1
      BY <1>9, <2>1, <3>1
    <3>3. seen.exposed <= highFrames
      BY DEF WindowInv
    <3> QED
      BY <1>3, <1>4, <2>1, <3>1, <3>2, <3>3, RcNumbers
  <2>2. CASE ~(jump /\ ~fs)
    BY <1>4, <2>2, RcNumbers
  <2> QED
    BY <2>1, <2>2
<1>12. hc > 0 => excused
  <2>1. highFrames > 0 => seen.excused
    BY DEF WindowInv
  <2>2. ~f.lost /\ ~gap /\ f.v = High => f.v - prevThr < JumpDelta
    BY <1>2 DEF Timely
  <2>3. ~(f.v - prevThr < JumpDelta /\ f.v - prevThr >= JumpDelta)
    BY <1>2, <1>3, RcNumbers
  <2> QED
    BY <1>4, <2>1, <2>2, <2>3
<1>13. cut => excused
  BY <1>5, <1>12
<1> HIDE DEF jump, exposed, excused, cut
<1>14. /\ seen'.last = f.n /\ seen'.jump = jump /\ seen'.exposed = exposed
       /\ seen'.excused = excused /\ seen'.cut = cut /\ seen'.missed = missed
  BY <1>1
<1>15. WindowInv'
  BY <1>1, <1>10, <1>11, <1>12, <1>13, <1>14 DEF WindowInv
<1>16. seen.missed >= 0 /\ f.n > seen.last => missed = seen.missed + f.n - seen.last - 1
  BY <1>2, <1>3
<1> HIDE DEF missed
<1>17. seen' \in [last : 0 .. MaxRcFrames, exposed : Nat, jump : BOOLEAN,
                  excused : BOOLEAN, missed : Int, cut : BOOLEAN]
  BY <1>1, <1>2, <1>7, <1>8
<1> QED
  BY <1>1, <1>2, <1>4, <1>7, <1>14, <1>15, <1>16, <1>17

\* ibus_parse_byte on the token that stands e places before the end: what
\* state the parser goes to, and when it has a frame.
LEMMA ParserGoesOn ==
    ASSUME NEW e \in Nat, e > 0, NEW k \in Tokens, NEW r \in Nat, parse.st \in {"start", "data", "check"},
           ParserAt(parse, e), Proper(k, e, r)
    PROVE  /\ ParserAt(ParseStep(k), e - 1)
           /\ Complete(k) => e % 3 = 1 /\ k.n = r + 1 - FramesIn(e) /\ ~Spoilt(parse, e)
           /\ ParseStep(k).st = "check" => ParseStep(k).tok = k /\ e % 3 = 2
           /\ Spoilt(ParseStep(k), e - 1) => e % 3 # 1 /\ (Spoilt(parse, e) \/ k.t = "garbled")
           /\ e % 3 = 1 /\ ~Spoilt(parse, e) /\ k.t # "garbled" =>
                parse.st = "check" /\ parse.tok.t = "D" /\ k.t = "K" /\ (k.v = parse.tok.v => Complete(k))
<1> DEFINE d == [st |-> "data", tok |-> k]
           c == [st |-> "check", tok |-> k]
<1>1. ParseStep(k) = IF parse.st = "start" THEN (IF k.t = "S" THEN d ELSE Waiting)
                     ELSE IF parse.st = "data" THEN c ELSE Waiting
  BY DEF ParseStep
<1>2. d.st = "data" /\ c.st = "check" /\ c.tok = k /\ Waiting.st = "start"
  BY DEF Waiting
<1>3. /\ e % 3 = 0 => (e - 1) % 3 = 2
      /\ e % 3 = 1 => (e - 1) % 3 = 0
      /\ e % 3 = 2 => (e - 1) % 3 = 1
      /\ e % 3 \in {0, 1, 2}
  BY OneLess
<1> HIDE DEF d, c
<1>4. CASE e % 3 = 0
  <2>1. parse.st = "start" /\ (k.t = "garbled" \/ k.t = "S")
    BY <1>4 DEF ParserAt, Proper, KindAt
  <2> QED
    BY <1>1, <1>2, <1>3, <1>4, <2>1 DEF ParserAt, Spoilt, Complete
<1>5. CASE e % 3 = 2
  <2>1. (parse.st = "start" \/ parse.st = "data") /\ (k.t = "garbled" \/ k.t = "D")
    BY <1>5 DEF ParserAt, Proper, KindAt
  <2> QED
    BY <1>1, <1>2, <1>3, <1>5, <2>1 DEF ParserAt, Spoilt, Complete
<1>6. CASE e % 3 = 1
  <2>1. /\ parse.st = "start" \/ (parse.st = "check" /\ parse.tok.t \in {"D", "garbled"})
        /\ k.t = "garbled" \/ (k.t = "K" /\ k.n = r + 1 - FramesIn(e))
    BY <1>6 DEF ParserAt, Proper, KindAt
  <2> QED
    BY <1>1, <1>2, <1>3, <1>6, <2>1 DEF ParserAt, Spoilt, Complete
<1> QED
  BY <1>3, <1>4, <1>5, <1>6

\* rc_ibus_task parses the next token.
LEMMA ReadKeeps ==
    ASSUME RcInv, RcByte
    PROVE  RcInv'
<1> DEFINE k == dmaBuf[rd]
<1>0. RcTypes /\ WindowInv /\ StickInv
  BY DEF RcInv
<1>1. /\ lim # rd
      /\ parse' = ParseStep(k)
      /\ Complete(k) => Apply(k)
      /\ ~Complete(k) => UNCHANGED <<prevThr, highFrames, failsafe, seen>>
      /\ dmaBuf' = [dmaBuf EXCEPT ![rd] = Blank]
      /\ rd' = (rd + 1) % DmaSize
      /\ unread' = IF unread = 0 THEN 0 ELSE unread - 1
      /\ UNCHANGED <<rx, out, noise, wr, lim, lapped>>
  BY DEF RcByte
<1>2. rd \in Cells /\ dmaBuf \in [Cells -> Tokens] /\ rd' = Slot(rd, 1) /\ rd' \in Cells
  <2>1. rd \in Cells /\ dmaBuf \in [Cells -> Tokens]
    BY <1>0 DEF RcTypes
  <2>2. 1 \in 0 .. DmaSize
    BY RcNumbers
  <2> QED
    BY <1>1, <2>1, <2>2, NextCell, SlotIsCell
<1>3. /\ k \in Tokens
      /\ dmaBuf' \in [Cells -> Tokens]
      /\ \A j \in Cells : j # rd => dmaBuf'[j] = dmaBuf[j]
      /\ dmaBuf'[rd] = Blank
  BY <1>1, <1>2, TokenKinds
<1> HIDE DEF k
<1>4. Complete(k) => Checksum(dmaBuf, out, k)
  BY <1>2 DEF Complete, Checksum, k
<1>5. /\ prevThr' \in 0 .. High /\ highFrames' \in 0 .. HoldFrames /\ failsafe' \in BOOLEAN
      /\ seen' \in [last : 0 .. MaxRcFrames, exposed : Nat, jump : BOOLEAN,
                    excused : BOOLEAN, missed : Int, cut : BOOLEAN]
      /\ WindowInv'
  <2>1. CASE Complete(k)
    BY <1>0, <1>1, <1>3, <1>4, <2>1, ApplyKeeps
  <2>2. CASE ~Complete(k)
    BY <1>0, <1>1, <2>2 DEF RcTypes, WindowInv
  <2> QED
    BY <2>1, <2>2
<1>6. RcTypes'
  <2>1. parse' \in [st : {"start", "data", "check"}, tok : Tokens]
    <3>1. parse.st \in {"start", "data", "check"}
      BY <1>0 DEF RcTypes
    <3> QED
      BY <1>1, <1>3, <3>1, TokenKinds DEF ParseStep, Waiting
  <2>2. unread' \in Cells
    BY <1>0, <1>1, RcNumbers DEF RcTypes, Cells
  <2> QED
    BY <1>0, <1>1, <1>2, <1>3, <1>5, <2>1, <2>2 DEF RcTypes
<1>7. StickInv'
  <2>1. ASSUME NEW b \in Tokens, Checksum(dmaBuf', out', b)
        PROVE  Checksum(dmaBuf, out, b)
    BY <1>1, <1>3, <2>1, TokenKinds DEF Checksum
  <2>2. CASE ~Complete(k)
    BY <1>0, <1>1, <2>1, <2>2 DEF StickInv
  <2>3. CASE Complete(k)
    <3>1. prevThr' = k.v /\ seen'.last = k.n
      BY <1>0, <1>1, <1>3, <1>4, <2>3, ApplyKeeps
    <3>2. Timely(k, rx, seen.last, prevThr) /\ rx' = rx
      BY <1>0, <1>1, <1>3, <1>4, <2>3 DEF StickInv
    <3>3. k.n \in 0 .. MaxRcFrames /\ k.v \in 0 .. High /\ rx.n \in 0 .. MaxRcFrames
      BY <1>0, <1>3 DEF Tokens, RcTypes
    <3>4. seen'.last <= rx'.n /\ (seen'.last = rx'.n => rx'.thr <= prevThr' \/ rx'.thr <= 1)
      BY <3>1, <3>2, <3>3 DEF Timely
    <3>5. ASSUME NEW b \in Tokens, Checksum(dmaBuf', out', b)
          PROVE  Timely(b, rx', seen'.last, prevThr')
      <4>1. Timely(b, rx, seen.last, prevThr) /\ Near(k, b)
        BY <1>0, <1>3, <1>4, <2>1, <2>3, <3>5 DEF StickInv
      <4> QED
        BY <3>1, <3>2, <4>1 DEF Timely, Near
    <3>6. ASSUME NEW a \in Tokens, NEW b \in Tokens,
                 Checksum(dmaBuf', out', a), Checksum(dmaBuf', out', b)
          PROVE  Near(a, b)
      BY <1>0, <2>1, <3>6 DEF StickInv
    <3> QED
      BY <3>4, <3>5, <3>6 DEF StickInv
  <2> QED
    BY <2>2, <2>3
<1>8. ASSUME ~lapped'
      PROVE  FlowInv'
  <2>0. FlowInv
    BY <1>1, <1>8 DEF RcInv
  <2>1. /\ unread \in Nat /\ unread < DmaSize /\ DmaSize \in Nat /\ DmaSize >= 1
        /\ lim \in Cells /\ Len(out) \in Nat
    BY <1>0, RcNumbers, LenProperties DEF RcTypes, Cells
  <2>2. (IF lim < rd THEN lim - rd + DmaSize ELSE lim - rd) <= unread
    BY <2>0 DEF FlowInv
  <2>3. unread > 0 /\ unread' = unread - 1
    <3>1. unread # 0
      BY <1>1, <1>2, <2>1, <2>2 DEF Cells
    <3> QED
      BY <1>1, <2>1, <3>1
  <2>4. Left = unread + Len(out) /\ Left \in Nat /\ Left > 0 /\ Left' = Left - 1
    BY <1>1, <2>1, <2>3 DEF Left
  <2>5. wr' = Slot(rd', unread')
    <3>1. wr = Slot(rd, unread)
      BY <2>0 DEF FlowInv
    <3>2. Slot(Slot(rd, 1), unread - 1) = Slot(rd, unread)
      <4>1. unread - 1 \in Nat /\ (unread - 1) + 1 < DmaSize /\ (unread - 1) + 1 = unread
        BY <2>1, <2>3
      <4> QED
        BY <1>2, <4>1, SlotOn
    <3> QED
      BY <1>1, <1>2, <2>3, <3>1, <3>2
  <2>6. (IF lim' < rd' THEN lim' - rd' + DmaSize ELSE lim' - rd') <= unread'
    BY <1>1, <1>2, <2>1, <2>2, <2>3 DEF Slot, Cells
  <2>7. ASSUME NEW i \in 0 .. Left' - 1
        PROVE  Flow(dmaBuf', rd', unread', out', i) = Flow(dmaBuf, rd, unread, out, i + 1)
    <3>1. CASE i < unread'
      <4>1. i \in Nat /\ i + 1 < DmaSize /\ i + 1 \in Cells /\ 0 \in Cells /\ i + 1 \in 0 .. DmaSize
            /\ i + 1 # 0 /\ i + 1 < unread
        BY <2>1, <2>3, <2>4, <2>7, <3>1 DEF Cells
      <4>2. Slot(rd', i) = Slot(rd, i + 1) /\ Slot(rd, i + 1) # Slot(rd, 0) /\ Slot(rd, i + 1) \in Cells
        BY <1>2, <4>1, SlotOn, SlotsDiffer, SlotIsCell
      <4>3. Slot(rd, 0) = rd
        BY <1>2, <2>1 DEF Slot, Cells
      <4> QED
        BY <1>3, <3>1, <4>1, <4>2, <4>3 DEF Flow
    <3>2. CASE ~(i < unread')
      <4>1. ~(i + 1 < unread) /\ i - unread' + 1 = (i + 1) - unread + 1
        BY <2>1, <2>3, <2>4, <2>7, <3>2
      <4> QED
        BY <1>1, <3>2, <4>1 DEF Flow
    <3> QED
      BY <3>1, <3>2
  <2>8. Flow(dmaBuf, rd, unread, out, 0) = k
    BY <1>2, <2>1, <2>3 DEF Flow, Slot, Cells, k
  <2>9. Proper(k, Left, rx.n) /\ ParserAt(parse, Left) /\ rx.n \in Nat
        /\ parse.st \in {"start", "data", "check"}
    <3>1. 0 \in 0 .. Left - 1 /\ Left - 0 = Left
      BY <2>4
    <3> QED
      BY <1>0, <2>0, <2>8, <3>1 DEF FlowInv, RcTypes
  <2>10. /\ ParserAt(ParseStep(k), Left - 1)
         /\ Complete(k) => Left % 3 = 1 /\ k.n = rx.n + 1 - FramesIn(Left) /\ ~Spoilt(parse, Left)
         /\ ParseStep(k).st = "check" => ParseStep(k).tok = k /\ Left % 3 = 2
         /\ Spoilt(ParseStep(k), Left - 1) => Left % 3 # 1 /\ (Spoilt(parse, Left) \/ k.t = "garbled")
         /\ Left % 3 = 1 /\ ~Spoilt(parse, Left) /\ k.t # "garbled" =>
              parse.st = "check" /\ parse.tok.t = "D" /\ k.t = "K" /\ (k.v = parse.tok.v => Complete(k))
    BY <1>3, <2>4, <2>9, ParserGoesOn
  <2>11. Left % 3 = 1 /\ ~Spoilt(parse, Left) /\ k.t # "garbled" => Complete(k)
    <3>1. parse.st = "check" => Agree(parse.tok, k)
      BY <2>0, <2>8 DEF FlowInv
    <3> QED
      BY <2>10, <3>1 DEF Agree
  <2>12. ASSUME NEW i \in 0 .. Left' - 1
         PROVE  Proper(Flow(dmaBuf', rd', unread', out', i), Left' - i, rx'.n)
    <3>1. i + 1 \in 0 .. Left - 1 /\ Left - (i + 1) = Left' - i
      BY <2>4, <2>12
    <3>2. Proper(Flow(dmaBuf, rd, unread, out, i + 1), Left - (i + 1), rx.n)
      BY <2>0, <3>1 DEF FlowInv
    <3> QED
      BY <1>1, <2>7, <3>1, <3>2
  <2>13. ASSUME NEW i \in 0 .. Left' - 2
         PROVE  Agree(Flow(dmaBuf', rd', unread', out', i), Flow(dmaBuf', rd', unread', out', i + 1))
    <3>1. i + 1 \in 0 .. Left - 2 /\ i \in 0 .. Left' - 1 /\ i + 1 \in 0 .. Left' - 1
      BY <2>4, <2>13
    <3>2. Agree(Flow(dmaBuf, rd, unread, out, i + 1), Flow(dmaBuf, rd, unread, out, (i + 1) + 1))
      BY <2>0, <3>1 DEF FlowInv
    <3> QED
      BY <2>7, <3>1, <3>2
  <2>14. parse'.st = "check" => Agree(parse'.tok, Flow(dmaBuf', rd', unread', out', 0))
    <3>1. ASSUME parse'.st = "check"
          PROVE  Agree(parse'.tok, Flow(dmaBuf', rd', unread', out', 0))
      <4>1. parse'.tok = k /\ Left % 3 = 2
        BY <1>1, <2>10, <3>1
      <4>2. Left >= 2
        BY <2>4, <4>1
      <4>3. 0 \in 0 .. Left - 2 /\ 0 \in 0 .. Left' - 1 /\ 0 + 1 = 1
        BY <2>4, <4>2
      <4>4. Agree(Flow(dmaBuf, rd, unread, out, 0), Flow(dmaBuf, rd, unread, out, 0 + 1))
        BY <2>0, <4>3 DEF FlowInv
      <4> QED
        BY <2>7, <2>8, <4>1, <4>3, <4>4
    <3> QED
      BY <3>1
  <2>15. /\ Cardinality(GarbledIn(dmaBuf)) \in Nat /\ Cardinality(GarbledIn(dmaBuf')) \in Nat
         /\ Cardinality(GarbledIn(dmaBuf')) <= Cardinality(GarbledIn(dmaBuf))
         /\ k.t = "garbled" => Cardinality(GarbledIn(dmaBuf')) = Cardinality(GarbledIn(dmaBuf)) - 1
    <3>1. IsFiniteSet(GarbledIn(dmaBuf)) /\ Cardinality(GarbledIn(dmaBuf)) \in Nat
      <4>1. IsFiniteSet(Cells)
        BY RcNumbers, FS_Interval DEF Cells
      <4>2. GarbledIn(dmaBuf) \subseteq Cells
        BY DEF GarbledIn
      <4> QED
        BY <4>1, <4>2, FS_Subset, FS_CardinalityType
    <3>2. GarbledIn(dmaBuf') = GarbledIn(dmaBuf) \ {rd}
      BY <1>3, TokenKinds DEF GarbledIn
    <3>3. CASE k.t = "garbled"
      <4>1. rd \in GarbledIn(dmaBuf)
        BY <1>2, <3>3 DEF GarbledIn, k
      <4>2. Cardinality(GarbledIn(dmaBuf')) = Cardinality(GarbledIn(dmaBuf)) - 1
            /\ IsFiniteSet(GarbledIn(dmaBuf'))
        BY <3>1, <3>2, <4>1, FS_RemoveElement
      <4>3. Cardinality(GarbledIn(dmaBuf')) \in Nat
        BY <4>2, FS_CardinalityType
      <4> QED
        BY <3>1, <4>2, <4>3
    <3>4. CASE k.t # "garbled"
      <4>1. rd \notin GarbledIn(dmaBuf)
        BY <3>4 DEF GarbledIn, k
      <4>2. GarbledIn(dmaBuf') = GarbledIn(dmaBuf)
        BY <3>2, <4>1
      <4> QED
        BY <3>1, <3>4, <4>2
    <3> QED
      BY <3>3, <3>4
  <2>16. /\ seen'.missed >= 0 /\ Gone(seen.last, Left)' >= 0
         /\ noise' >= seen'.missed + Gone(seen.last, Left)' + (IF Spoilt(parse', Left') THEN 1 ELSE 0)
                      + Cardinality(GarbledIn(dmaBuf'))
    <3>1. /\ seen.missed >= 0 /\ Gone(seen.last, Left) >= 0
          /\ noise >= seen.missed + Gone(seen.last, Left) + (IF Spoilt(parse, Left) THEN 1 ELSE 0)
                + Cardinality(GarbledIn(dmaBuf))
      BY <2>0 DEF FlowInv
    <3>2. seen.missed \in Int /\ noise \in Nat /\ noise' = noise /\ rx.n \in Nat /\ seen.last \in Nat
          /\ rx' = rx
      BY <1>0, <1>1 DEF RcTypes
    <3>3. /\ Gone(seen.last, Left) = rx.n - FramesIn(Left) - seen.last
          /\ Gone(seen.last, Left)' = rx.n - FramesIn(Left - 1) - seen'.last
      BY <2>4, <3>2 DEF Gone
    <3>4. /\ Left % 3 = 1 => FramesIn(Left - 1) = FramesIn(Left) - 1
          /\ Left % 3 # 1 => FramesIn(Left - 1) = FramesIn(Left)
          /\ FramesIn(Left) \in Nat
      BY <2>4, OneLess
    <3>5. Spoilt(parse', Left') => Left % 3 # 1 /\ (Spoilt(parse, Left) \/ k.t = "garbled")
      BY <1>1, <2>4, <2>10
    <3>6. CASE Complete(k)
      <4>1. Left % 3 = 1 /\ k.n = rx.n + 1 - FramesIn(Left) /\ ~Spoilt(parse', Left')
        BY <2>10, <3>5, <3>6
      <4>2. seen'.last = k.n
        BY <1>0, <1>1, <1>3, <1>4, <3>6, ApplyKeeps
      <4>3. k.n > seen.last
        BY <3>1, <3>2, <3>3, <3>4, <4>1
      <4>4. seen'.missed = seen.missed + k.n - seen.last - 1
        BY <1>0, <1>1, <1>3, <1>4, <3>1, <3>6, <4>3, ApplyKeeps
      <4>5. (IF Spoilt(parse', Left') THEN 1 ELSE 0) = 0 /\ (IF Spoilt(parse, Left) THEN 1 ELSE 0) \in {0, 1}
        BY <4>1
      <4> QED
        BY <2>15, <3>1, <3>2, <3>3, <3>4, <4>1, <4>2, <4>4, <4>5
    <3>7. CASE ~Complete(k) /\ Left % 3 = 1
      <4>1. ~Spoilt(parse', Left') /\ (Spoilt(parse, Left) \/ k.t = "garbled") /\ seen' = seen
        BY <1>1, <2>11, <3>5, <3>7
      <4>2. Gone(seen.last, Left)' = Gone(seen.last, Left) + 1
        BY <3>2, <3>3, <3>4, <3>7, <4>1
      <4>3. CASE Spoilt(parse, Left)
        BY <2>15, <3>1, <3>2, <3>3, <3>4, <4>1, <4>2, <4>3
      <4>4. CASE ~Spoilt(parse, Left)
        BY <2>15, <3>1, <3>2, <3>3, <3>4, <4>1, <4>2, <4>4
      <4> QED
        BY <4>3, <4>4
    <3>8. CASE ~Complete(k) /\ Left % 3 # 1
      <4>1. seen' = seen
        BY <1>1, <3>8
      <4>2. Gone(seen.last, Left)' = Gone(seen.last, Left)
        BY <3>2, <3>3, <3>4, <3>8, <4>1
      <4>3. CASE Spoilt(parse, Left)
        BY <2>15, <3>1, <3>2, <3>3, <3>4, <4>1, <4>2, <4>3
      <4>4. CASE ~Spoilt(parse, Left) /\ k.t = "garbled"
        BY <2>15, <3>1, <3>2, <3>3, <3>4, <4>1, <4>2, <4>4
      <4>5. CASE ~Spoilt(parse, Left) /\ k.t # "garbled"
        BY <2>15, <3>1, <3>2, <3>3, <3>4, <3>5, <4>1, <4>2, <4>5
      <4> QED
        BY <4>3, <4>4, <4>5
    <3> QED
      BY <3>6, <3>7, <3>8
  <2>17. \A i \in 1 .. Len(out') : out'[i].t # "garbled"
    BY <1>1, <2>0 DEF FlowInv
  <2>18. ParserAt(parse', Left')
    BY <1>1, <2>4, <2>10
  <2> QED
    BY <2>5, <2>6, <2>12, <2>13, <2>14, <2>16, <2>17, <2>18 DEF FlowInv
<1> QED
  BY <1>5, <1>6, <1>7, <1>8 DEF RcInv

LEMMA RcStep ==
    ASSUME RcInv, RcNext \/ UNCHANGED rcVars
    PROVE  RcInv'
<1>1. CASE UNCHANGED rcVars
  BY <1>1 DEF rcVars, RcInv, RcTypes, WindowInv, StickInv, FlowInv, Left, Gone
<1> QED
  BY <1>1, FrameKeeps, DmaKeeps, WakeKeeps, ReadKeeps DEF RcNext

LEMMA RcImplies == RcInv => RcSound
<1> SUFFICES ASSUME RcInv PROVE RcSound
  OBVIOUS
<1>1. RcTypeOK
  BY RcNumbers DEF RcInv, RcTypes, RcTypeOK, Cells
<1>2. PresetExposure /\ PilotNeverCut
  BY DEF RcInv, WindowInv, PresetExposure, PilotNeverCut
<1>3. FramesKept
  <2>1. ASSUME ~lapped
        PROVE  seen.missed \in 0 .. noise
    <3>1. /\ seen.missed >= 0 /\ Gone(seen.last, Left) >= 0
          /\ noise >= seen.missed + Gone(seen.last, Left) + (IF Spoilt(parse, Left) THEN 1 ELSE 0)
                + Cardinality(GarbledIn(dmaBuf))
      BY <2>1 DEF RcInv, FlowInv
    <3>2. seen.missed \in Int /\ noise \in Nat
      BY DEF RcInv, RcTypes
    <3>3. Gone(seen.last, Left) \in Int
      <4>1. rx.n \in Nat /\ seen.last \in Nat /\ Left \in Nat
        BY LenProperties DEF RcInv, RcTypes, Left, Cells
      <4> QED
        BY <4>1 DEF Gone, FramesIn
    <3>4. Cardinality(GarbledIn(dmaBuf)) \in Nat
      <4>1. IsFiniteSet(Cells) /\ GarbledIn(dmaBuf) \subseteq Cells
        BY RcNumbers, FS_Interval DEF Cells, GarbledIn
      <4> QED
        BY <4>1, FS_Subset, FS_CardinalityType
    <3> QED
      BY <3>1, <3>2, <3>3, <3>4
  <2> QED
    BY <2>1 DEF FramesKept
<1> QED
  BY <1>1, <1>2, <1>3 DEF RcSound

(***************************************************************************)
(* Types of the downlink and the uplink, which share the command task's    *)
(* answers: an answer carries the clock, and the ground station's          *)
(* correction what it read in one.                                         *)
(***************************************************************************)
FrameSet == [kind : {"status", "full", "delta", "perf", "data", "ack", "nack", "sync"},
             d : Int, v : Int, lost : BOOLEAN]

DownTypes ==
    /\ offered \in Offers
    /\ active \in {0, 1} /\ dma \in {0, 1} /\ busy \in BOOLEAN
    /\ buf \in [{0, 1} -> Seq(FrameSet)] /\ buf_lens \in [{0, 1} -> Int]
    /\ sent \in 0 .. Len(buf[dma])
    /\ handed \in Seq(FrameSet) /\ pending \in Seq(FrameSet)
    /\ todo \in [Writers -> Seq(FrameSet)]
    /\ loaded \in [Writers -> -1 .. MaxDrops]
    /\ overflow \in 0 .. MaxDrops /\ refused \in 0 .. MaxDrops /\ missing \in BOOLEAN
    /\ cur \in Int /\ prev \in Int /\ first \in BOOLEAN /\ counter \in 0 .. FullEvery - 1
    /\ download \in BOOLEAN
    /\ gcs \in [have : BOOLEAN, vec : Int, gap : BOOLEAN, deltas : Nat, err : Int]

Chunks == [n : 0 .. MaxCmds, kind : {"sync", "arm", "disarm", "calibrate"}, half : {1, 2}, c : Int]

UpTypes ==
    /\ air \in Seq(Chunks) /\ ring \in Seq(Chunks) /\ got \in Seq(Chunks)
    /\ Len(ring) < RingSize /\ Len(got) <= DrainMax
    /\ part \in Chunks \union {NoChunk}
    /\ pollPc \in {"wait", "drain", "parse", "ack"}
    /\ numCmds \in 0 .. MaxCmds /\ exec \in Int
    /\ veh \in {"STANDBY", "ARMED", "IN_AIR", "FAILSAFE"}
    /\ latch \in BOOLEAN /\ ackPending \in BOOLEAN /\ synced \in BOOLEAN
    /\ ackAge \in 0 .. AckTicks /\ ackSeq \in 0 .. MaxCmds
    /\ answers \in [1 .. MaxCmds -> 0 .. 2]
    /\ applied \in Int /\ target \in Int /\ tick \in Int /\ truth \in Int /\ meas \in Int

(***************************************************************************)
(* 2. Uplink.                                                              *)
(*                                                                         *)
(* A chunk that is dropped leaves the order of the others alone.  So from  *)
(* the parser to the wire the chunks come in the order of their commands,  *)
(* the first half of each before its second, each once, and none belongs   *)
(* to a command that has run; an acknowledgement is owed to a command that *)
(* ran and was not answered.                                               *)
(***************************************************************************)

\* The i-th chunk behind the parser: drained (g), in the ring (r), on the air.
At(g, r, a, i) == IF i <= Len(g) THEN g[i]
                  ELSE IF i <= Len(g) + Len(r) THEN r[i - Len(g)]
                  ELSE a[i - Len(g) - Len(r)]
\* While the ring is being drained, what was drained is still in it.
Drained(pc, g) == IF pc = "parse" THEN g ELSE <<>>
Total(g, r, a) == Len(g) + Len(r) + Len(a)

Key(ch) == 2 * ch.n + ch.half
\* A chunk of a command sent and not run.
Fresh(ch, num, ran) ==
    /\ ch.n <= num
    /\ ch.n >= 1 => ch.n > ran
    /\ ch.kind # "sync" => ch.n >= 1

InOrder(g, r, a) == \A i, j \in 1 .. Total(g, r, a) : i < j => Key(At(g, r, a, i)) < Key(At(g, r, a, j))
AllFresh(g, r, a, num, ran) == \A i \in 1 .. Total(g, r, a) : Fresh(At(g, r, a, i), num, ran)
PartFirst(p, g, r, a, num, ran) ==
    p # NoChunk => /\ p.half = 1 /\ Fresh(p, num, ran)
                   /\ \A i \in 1 .. Total(g, r, a) : Key(p) < Key(At(g, r, a, i))

OrderInv ==
    /\ exec \in 0 .. numCmds
    /\ InOrder(Drained(pollPc, got), ring, air)
    /\ AllFresh(Drained(pollPc, got), ring, air, numCmds, exec)
    /\ PartFirst(part, Drained(pollPc, got), ring, air, numCmds, exec)
    /\ pollPc = "drain" => Len(got) <= Len(ring) /\ \A i \in 1 .. Len(got) : got[i] = ring[i]

AnswerInv ==
    /\ \A n \in 1 .. MaxCmds : answers[n] <= 1 /\ (n > exec => answers[n] = 0)
    /\ ackPending => ackSeq \in 1 .. exec /\ answers[ackSeq] = 0

UpInv == UpTypes /\ OrderInv /\ AnswerInv

----------------------------------------------------------------------------
LEMMA UpNumbers ==
    /\ RingSize \in Nat /\ RingSize >= 2 /\ DrainMax \in Nat /\ DrainMax >= 1
    /\ MaxCmds \in Nat /\ AckTicks \in Nat /\ StepMs \in Nat
    /\ Commands \subseteq {"sync", "arm", "disarm", "calibrate"} /\ Offsets \subseteq Int
  BY UplinkAssumption

LEMMA EmptySequence == ASSUME NEW T PROVE <<>> \in Seq(T) /\ Len(<<>>) = 0
  BY EmptySeq

\* Where the chunks are makes no difference to what order they are in.
LEMMA SameOrder ==
    ASSUME NEW g, NEW r, NEW a, NEW h, NEW q, NEW b, NEW num, NEW ran, NEW p,
           Total(h, q, b) = Total(g, r, a),
           \A i \in 1 .. Total(g, r, a) : At(h, q, b, i) = At(g, r, a, i)
    PROVE  /\ InOrder(g, r, a) => InOrder(h, q, b)
           /\ AllFresh(g, r, a, num, ran) => AllFresh(h, q, b, num, ran)
           /\ PartFirst(p, g, r, a, num, ran) => PartFirst(p, h, q, b, num, ran)
  BY DEF InOrder, AllFresh, PartFirst

\* Nor does the loss of one of them, the m-th.
LEMMA LossKeepsOrder ==
    ASSUME NEW g, NEW r, NEW a, NEW h, NEW q, NEW b, NEW num, NEW ran, NEW p, NEW m \in Nat,
           Total(g, r, a) \in Nat, Total(h, q, b) = Total(g, r, a) - 1,
           \A i \in 1 .. Total(h, q, b) :
             At(h, q, b, i) = At(g, r, a, IF i < m THEN i ELSE i + 1)
    PROVE  /\ InOrder(g, r, a) => InOrder(h, q, b)
           /\ AllFresh(g, r, a, num, ran) => AllFresh(h, q, b, num, ran)
           /\ PartFirst(p, g, r, a, num, ran) => PartFirst(p, h, q, b, num, ran)
<1> DEFINE s(i) == IF i < m THEN i ELSE i + 1
<1>1. \A i \in 1 .. Total(h, q, b) : s(i) \in 1 .. Total(g, r, a) /\ At(h, q, b, i) = At(g, r, a, s(i))
  OBVIOUS
<1>2. \A i, j \in 1 .. Total(h, q, b) : i < j => s(i) < s(j)
  OBVIOUS
<1> HIDE DEF s
<1> QED
  BY <1>1, <1>2 DEF InOrder, AllFresh, PartFirst

----------------------------------------------------------------------------
LEMMA UplinkStart == UplinkInit => UpInv
<1> SUFFICES ASSUME UplinkInit PROVE UpInv
  OBVIOUS
<1>1. UpTypes
  <2>1. NoValue \in Int
    BY DEF NoValue
  <2>2. answers \in [1 .. MaxCmds -> 0 .. 2]
    BY DEF UplinkInit
  <2>3. latch \in BOOLEAN /\ ackPending \in BOOLEAN /\ synced \in BOOLEAN
    BY Zenon DEF UplinkInit
  <2>4. truth \in Int
    BY UpNumbers DEF UplinkInit
  <2> QED
    BY <2>1, <2>2, <2>3, <2>4, UpNumbers, EmptySequence DEF UplinkInit, UpTypes
<1>2. OrderInv
  <2>1. Total(Drained(pollPc, got), ring, air) = 0
    BY EmptySequence DEF UplinkInit, Total, Drained
  <2>2. exec = 0 /\ numCmds = 0 /\ part = NoChunk /\ pollPc = "wait"
    BY DEF UplinkInit
  <2> QED
    BY <2>1, <2>2 DEF OrderInv, InOrder, AllFresh, PartFirst
<1>3. AnswerInv
  BY UpNumbers DEF UplinkInit, AnswerInv
<1> QED
  BY <1>1, <1>2, <1>3 DEF UpInv

\* The ground station sends a frame of two chunks on an idle air: behind all
\* others, or where there are none.
LEMMA FrameSent ==
    ASSUME NEW g \in Seq(Chunks), NEW r \in Seq(Chunks), NEW n \in 0 .. MaxCmds, NEW c \in Int,
           NEW kind \in {"sync", "arm", "disarm", "calibrate"}, NEW num \in Nat, NEW ran \in Nat,
           NEW p, NEW up \in Nat, num <= up,
           n >= 1 => n > num /\ n > ran, n <= up, kind # "sync" => n >= 1,
           n = 0 => Total(g, r, <<>>) = 0 /\ p = NoChunk,
           p # NoChunk => p.half = 1 /\ p.n \in Nat,
           InOrder(g, r, <<>>), AllFresh(g, r, <<>>, num, ran), PartFirst(p, g, r, <<>>, num, ran)
    PROVE  /\ Frames(n, kind, c) \in Seq(Chunks)
           /\ InOrder(g, r, Frames(n, kind, c))
           /\ AllFresh(g, r, Frames(n, kind, c), up, ran)
           /\ PartFirst(p, g, r, Frames(n, kind, c), up, ran)
<1> DEFINE a == Frames(n, kind, c)
           one == [n |-> n, kind |-> kind, half |-> 1, c |-> c]
           two == [n |-> n, kind |-> kind, half |-> 2, c |-> c]
           t == Len(g) + Len(r)
<1>1. one \in Chunks /\ two \in Chunks
  BY DEF Chunks
<1>2. a \in Seq(Chunks) /\ Len(a) = 2 /\ a[1] = one /\ a[2] = two
  BY <1>1 DEF Frames
<1>3. Len(g) \in Nat /\ Len(r) \in Nat /\ Len(<<>>) = 0
  BY LenProperties, EmptySequence
<1>4. Total(g, r, <<>>) = t /\ Total(g, r, a) = t + 2 /\ t \in Nat
  BY <1>2, <1>3 DEF Total
<1>5. Key(one) = 2 * n + 1 /\ Key(two) = 2 * n + 2 /\ n \in Nat
  BY DEF Key
<1>6. Fresh(one, up, ran) /\ Fresh(two, up, ran)
  BY DEF Fresh
<1> HIDE DEF one, two, a
<1>7. ASSUME NEW i \in 1 .. t
      PROVE  /\ At(g, r, a, i) = At(g, r, <<>>, i)
             /\ At(g, r, <<>>, i) \in Chunks
  <2>1. CASE i <= Len(g)
    BY <1>3, <1>7, <2>1, ElementOfSeq DEF At
  <2>2. CASE i > Len(g)
    <3>1. i - Len(g) \in 1 .. Len(r) /\ i <= Len(g) + Len(r) /\ ~(i <= Len(g))
      BY <1>3, <1>7, <2>2
    <3> QED
      BY <1>3, <3>1, ElementOfSeq DEF At
  <2> QED
    BY <1>3, <1>7, <2>1, <2>2
<1>8. At(g, r, a, t + 1) = one /\ At(g, r, a, t + 2) = two
  <2>1. /\ ~(t + 1 <= Len(g)) /\ ~(t + 1 <= Len(g) + Len(r)) /\ (t + 1) - Len(g) - Len(r) = 1
        /\ ~(t + 2 <= Len(g)) /\ ~(t + 2 <= Len(g) + Len(r)) /\ (t + 2) - Len(g) - Len(r) = 2
    BY <1>3
  <2> QED
    BY <1>2, <2>1 DEF At
<1>9. ASSUME NEW i \in 1 .. t
      PROVE  /\ Fresh(At(g, r, a, i), up, ran) /\ n >= 1
             /\ Key(At(g, r, a, i)) <= 2 * num + 2
  <2>1. At(g, r, <<>>, i) \in Chunks /\ Fresh(At(g, r, <<>>, i), num, ran) /\ n # 0
    BY <1>4, <1>7, <1>9 DEF AllFresh
  <2> DEFINE ch == At(g, r, <<>>, i)
  <2>2. ch \in Chunks /\ Fresh(ch, num, ran) /\ n # 0 /\ At(g, r, a, i) = ch
    BY <1>7, <1>9, <2>1
  <2> HIDE DEF ch
  <2>3. ch.n \in Nat /\ ch.half \in {1, 2} /\ ch.n <= num
    BY <2>2 DEF Chunks, Fresh
  <2>4. Key(ch) <= 2 * num + 2 /\ n >= 1
    BY <2>2, <2>3, <1>5 DEF Key
  <2>5. Fresh(ch, up, ran)
    BY <2>2, <2>3 DEF Fresh
  <2> QED
    BY <2>2, <2>4, <2>5
<1>10. InOrder(g, r, a)
  <2>1. ASSUME NEW i \in 1 .. t + 2, NEW j \in 1 .. t + 2, i < j
        PROVE  Key(At(g, r, a, i)) < Key(At(g, r, a, j))
    <3>1. CASE j <= t
      <4>1. i \in 1 .. t /\ j \in 1 .. t
        BY <1>4, <2>1, <3>1
      <4>2. Key(At(g, r, <<>>, i)) < Key(At(g, r, <<>>, j))
        BY <1>4, <2>1, <4>1 DEF InOrder
      <4> QED
        BY <1>7, <4>1, <4>2
    <3>2. CASE i <= t /\ j > t
      <4>1. i \in 1 .. t /\ (j = t + 1 \/ j = t + 2)
        BY <1>4, <2>1, <3>2
      <4>2. Key(At(g, r, a, i)) <= 2 * num + 2 /\ n > num /\ Key(At(g, r, a, i)) \in Int
        <5>1. At(g, r, a, i) \in Chunks
          BY <1>7, <4>1
        <5>2. Key(At(g, r, a, i)) \in Int
          BY <5>1 DEF Key, Chunks
        <5> QED
          BY <1>9, <4>1, <5>2
      <4> QED
        BY <1>5, <1>8, <4>1, <4>2
    <3>3. CASE i > t
      <4>1. i = t + 1 /\ j = t + 2
        BY <1>4, <2>1, <3>3
      <4> QED
        BY <1>5, <1>8, <4>1
    <3> QED
      BY <1>4, <2>1, <3>1, <3>2, <3>3
  <2> QED
    BY <1>4, <2>1 DEF InOrder
<1>11. AllFresh(g, r, a, up, ran)
  <2>1. ASSUME NEW i \in 1 .. t + 2
        PROVE  Fresh(At(g, r, a, i), up, ran)
    <3>1. i \in 1 .. t \/ i = t + 1 \/ i = t + 2
      BY <1>4, <2>1
    <3> QED
      BY <1>6, <1>8, <1>9, <3>1
  <2> QED
    BY <1>4, <2>1 DEF AllFresh
<1>12. PartFirst(p, g, r, a, up, ran)
  <2>1. ASSUME p # NoChunk
        PROVE  /\ p.half = 1 /\ Fresh(p, up, ran)
               /\ \A i \in 1 .. Total(g, r, a) : Key(p) < Key(At(g, r, a, i))
    <3>1. /\ p.half = 1 /\ Fresh(p, num, ran) /\ n >= 1 /\ p.n \in Nat
          /\ \A i \in 1 .. t : Key(p) < Key(At(g, r, <<>>, i))
      BY <1>4, <1>5, <2>1 DEF PartFirst
    <3>2. Key(p) < 2 * n + 1
      BY <1>5, <3>1 DEF Key, Fresh
    <3>3. Fresh(p, up, ran)
      BY <3>1 DEF Fresh
    <3>4. ASSUME NEW i \in 1 .. t + 2
          PROVE  Key(p) < Key(At(g, r, a, i))
      <4>1. i \in 1 .. t \/ i = t + 1 \/ i = t + 2
        BY <1>4, <3>4
      <4>2. Key(p) \in Int
        BY <3>1 DEF Key
      <4> QED
        BY <1>5, <1>7, <1>8, <3>1, <3>2, <4>1, <4>2
    <3> QED
      BY <1>4, <3>1, <3>3, <3>4
  <2> QED
    BY <2>1 DEF PartFirst
<1> QED
  BY <1>2, <1>10, <1>11, <1>12 DEF a

----------------------------------------------------------------------------
\* The chunks, the commands run and the answers are all the order is about.
LEMMA SameOrderInv ==
    ASSUME OrderInv, UNCHANGED <<air, ring, pollPc, got, part, numCmds, exec>>
    PROVE  OrderInv'
  BY DEF OrderInv

LEMMA SameAnswers ==
    ASSUME AnswerInv, UNCHANGED <<exec, ackPending, ackSeq, answers>>
    PROVE  AnswerInv'
  BY DEF AnswerInv

LEMMA DrainedType ==
    ASSUME UpTypes
    PROVE  Drained(pollPc, got) \in Seq(Chunks)
  BY EmptySequence DEF Drained, UpTypes

LEMMA PartIsFirstHalf ==
    ASSUME UpTypes, OrderInv, part # NoChunk
    PROVE  part \in Chunks /\ part.half = 1 /\ part.n \in Nat /\ Fresh(part, numCmds, exec)
<1>1. part \in Chunks
  BY DEF UpTypes
<1>2. part.half = 1 /\ Fresh(part, numCmds, exec)
  BY DEF OrderInv, PartFirst
<1> QED
  BY <1>1, <1>2 DEF Chunks

LEMMA SendKeeps ==
    ASSUME UpInv, GcsSend
    PROVE  UpInv'
<1>1. UpTypes /\ OrderInv /\ AnswerInv
  BY DEF UpInv
<1>2. PICK k \in Commands : air' = Frames(numCmds + 1, k, 0)
  BY DEF GcsSend
<1>3. /\ air = <<>> /\ numCmds < MaxCmds /\ numCmds' = numCmds + 1
      /\ UNCHANGED <<ring, pollPc, got, part, exec, veh, latch, ackPending, ackSeq, ackAge, answers>>
      /\ UNCHANGED clockVars
  BY DEF GcsSend, pollVars
<1>4. /\ numCmds \in Nat /\ exec \in Nat /\ exec <= numCmds /\ numCmds + 1 \in 0 .. MaxCmds
      /\ k \in {"sync", "arm", "disarm", "calibrate"}
      /\ numCmds + 1 \in Nat /\ numCmds <= numCmds + 1
      /\ numCmds + 1 >= 1 /\ numCmds + 1 > numCmds /\ numCmds + 1 > exec /\ numCmds + 1 # 0
  <2>1. exec \in 0 .. numCmds /\ numCmds \in 0 .. MaxCmds
    BY <1>1 DEF UpTypes, OrderInv
  <2>2. k \in {"sync", "arm", "disarm", "calibrate"}
    BY UpNumbers
  <2> QED
    BY <1>3, <2>1, <2>2, UpNumbers
<1>5. ring \in Seq(Chunks) /\ Drained(pollPc, got) \in Seq(Chunks)
      /\ InOrder(Drained(pollPc, got), ring, <<>>)
      /\ AllFresh(Drained(pollPc, got), ring, <<>>, numCmds, exec)
      /\ PartFirst(part, Drained(pollPc, got), ring, <<>>, numCmds, exec)
  BY <1>1, <1>3, DrainedType DEF UpTypes, OrderInv
<1>6. part # NoChunk => part.half = 1 /\ part.n \in Nat
  BY <1>1, PartIsFirstHalf
<1>7. /\ Frames(numCmds + 1, k, 0) \in Seq(Chunks)
      /\ InOrder(Drained(pollPc, got), ring, Frames(numCmds + 1, k, 0))
      /\ AllFresh(Drained(pollPc, got), ring, Frames(numCmds + 1, k, 0), numCmds + 1, exec)
      /\ PartFirst(part, Drained(pollPc, got), ring, Frames(numCmds + 1, k, 0), numCmds + 1, exec)
  <2> DEFINE n == numCmds + 1
             g == Drained(pollPc, got)
  <2>1. /\ n \in 0 .. MaxCmds /\ n >= 1 /\ n > numCmds /\ n > exec /\ n # 0
        /\ numCmds \in Nat /\ exec \in Nat /\ n \in Nat /\ numCmds <= n /\ n <= n /\ 0 \in Int
    BY <1>4
  <2>2. g \in Seq(Chunks) /\ InOrder(g, ring, <<>>) /\ AllFresh(g, ring, <<>>, numCmds, exec)
        /\ PartFirst(part, g, ring, <<>>, numCmds, exec)
    BY <1>5
  <2> HIDE DEF n, g
  <2>3. /\ Frames(n, k, 0) \in Seq(Chunks)
        /\ InOrder(g, ring, Frames(n, k, 0))
        /\ AllFresh(g, ring, Frames(n, k, 0), n, exec)
        /\ PartFirst(part, g, ring, Frames(n, k, 0), n, exec)
    BY <1>4, <1>5, <1>6, <2>1, <2>2, FrameSent
  <2> QED
    BY <2>3 DEF n, g
<1>8. UpTypes'
  BY <1>1, <1>2, <1>3, <1>4, <1>7 DEF UpTypes, clockVars
<1>9. OrderInv'
  BY <1>1, <1>2, <1>3, <1>4, <1>7 DEF OrderInv
<1> QED
  BY <1>1, <1>3, <1>8, <1>9, SameAnswers DEF UpInv

LEMMA SyncKeeps ==
    ASSUME UpInv, GcsSync
    PROVE  UpInv'
<1> DEFINE c == IF meas = NoValue THEN NoValue ELSE -meas
<1>1. UpTypes /\ OrderInv /\ AnswerInv
  BY DEF UpInv
<1>2. /\ air = <<>> /\ ring = <<>> /\ pollPc = "wait" /\ part = NoChunk
      /\ air' = Frames(0, "sync", c) /\ meas' = NoValue
      /\ UNCHANGED <<ring, pollPc, got, part, numCmds, exec, veh, latch, ackPending, ackSeq, ackAge,
                     answers, synced, applied, target, tick, truth>>
  BY DEF GcsSync, pollVars, cmdVars
<1>3. c \in Int /\ NoValue \in Int
  <2>1. NoValue \in Int
    BY DEF NoValue
  <2> QED
    BY <1>1, <2>1 DEF UpTypes
<1> HIDE DEF c
<1>4. Drained(pollPc, got) = <<>> /\ <<>> \in Seq(Chunks) /\ Total(<<>>, <<>>, <<>>) = 0
      /\ 0 \in 0 .. MaxCmds /\ "sync" \in {"sync", "arm", "disarm", "calibrate"}
  BY <1>2, EmptySequence, UpNumbers DEF Drained, Total
<1>5. numCmds \in Nat /\ exec \in Nat /\ exec <= numCmds /\ numCmds <= numCmds /\ 0 <= numCmds
  BY <1>1, UpNumbers DEF UpTypes, OrderInv
<1>6. InOrder(<<>>, <<>>, <<>>) /\ AllFresh(<<>>, <<>>, <<>>, numCmds, exec)
      /\ PartFirst(part, <<>>, <<>>, <<>>, numCmds, exec)
  BY <1>1, <1>2, <1>4 DEF OrderInv
<1>7. /\ Frames(0, "sync", c) \in Seq(Chunks)
      /\ InOrder(<<>>, <<>>, Frames(0, "sync", c))
      /\ AllFresh(<<>>, <<>>, Frames(0, "sync", c), numCmds, exec)
      /\ PartFirst(part, <<>>, <<>>, Frames(0, "sync", c), numCmds, exec)
  <2> DEFINE none == <<>>
  <2>1. none \in Seq(Chunks) /\ Total(none, none, <<>>) = 0
        /\ InOrder(none, none, <<>>) /\ AllFresh(none, none, <<>>, numCmds, exec)
        /\ PartFirst(part, none, none, <<>>, numCmds, exec)
    BY <1>4, <1>6
  <2>2. ~(0 >= 1) /\ ~("sync" # "sync")
    OBVIOUS
  <2> HIDE DEF none
  <2>3. /\ Frames(0, "sync", c) \in Seq(Chunks)
        /\ InOrder(none, none, Frames(0, "sync", c))
        /\ AllFresh(none, none, Frames(0, "sync", c), numCmds, exec)
        /\ PartFirst(part, none, none, Frames(0, "sync", c), numCmds, exec)
    BY <1>2, <1>3, <1>4, <1>5, <2>1, <2>2, FrameSent
  <2> QED
    BY <2>3 DEF none
<1>8. UpTypes'
  BY <1>1, <1>2, <1>3, <1>7 DEF UpTypes
<1>9. OrderInv'
  BY <1>1, <1>2, <1>4, <1>7 DEF OrderInv
<1> QED
  BY <1>1, <1>2, <1>8, <1>9, SameAnswers DEF UpInv

\* rx_raw_push: the chunk is the last in the ring, or lost.
LEMMA PushKeeps ==
    ASSUME UpInv, RxIsr
    PROVE  UpInv'
<1> DEFINE g == Drained(pollPc, got)
<1>1. UpTypes /\ OrderInv /\ AnswerInv
  BY DEF UpInv
<1>2. /\ air # <<>> /\ air' = Tail(air)
      /\ ring' = IF Len(ring) + 1 < RingSize THEN Append(ring, Head(air)) ELSE ring
      /\ UNCHANGED <<pollPc, got, part, numCmds, exec, veh, latch, ackPending, ackSeq, ackAge, answers>>
      /\ UNCHANGED clockVars
  BY DEF RxIsr, pollVars, cmdVars
<1>3. air \in Seq(Chunks) /\ ring \in Seq(Chunks) /\ g \in Seq(Chunks) /\ got \in Seq(Chunks)
  BY <1>1, DrainedType DEF UpTypes
<1>4. /\ Tail(air) \in Seq(Chunks) /\ Len(air) \in Nat /\ Len(air) >= 1 /\ Len(Tail(air)) = Len(air) - 1
      /\ \A i \in 1 .. Len(air) - 1 : Tail(air)[i] = air[i + 1]
      /\ Head(air) = air[1] /\ air[1] \in Chunks
  BY <1>2, <1>3, TailElements
<1>5. Len(g) \in Nat /\ Len(ring) \in Nat /\ Len(got) \in Nat
  BY <1>3, LenProperties
<1>6. Drained(pollPc', got') = g
  BY <1>2 DEF Drained
<1> HIDE DEF g
<1>7. CASE Len(ring) + 1 < RingSize
  <2>1. /\ ring' = Append(ring, air[1]) /\ ring' \in Seq(Chunks) /\ Len(ring') = Len(ring) + 1
        /\ \A j \in 1 .. Len(ring) : ring'[j] = ring[j]
        /\ ring'[Len(ring) + 1] = air[1]
    BY <1>2, <1>3, <1>4, <1>7, AppendProperties
  <2>2. Total(g, ring', air') = Total(g, ring, air)
    BY <1>2, <1>4, <1>5, <2>1 DEF Total
  <2>3. ASSUME NEW i \in 1 .. Total(g, ring, air)
        PROVE  At(g, ring', air', i) = At(g, ring, air, i)
    <3>0. i \in Nat /\ i >= 1 /\ i <= Len(g) + Len(ring) + Len(air)
      BY <1>4, <1>5, <2>3 DEF Total
    <3>1. CASE i <= Len(g) + Len(ring)
      BY <1>5, <2>1, <3>0, <3>1 DEF At
    <3>2. CASE i = Len(g) + Len(ring) + 1
      <4>1. /\ ~(i <= Len(g)) /\ ~(i <= Len(g) + Len(ring)) /\ i <= Len(g) + Len(ring')
            /\ i - Len(g) = Len(ring) + 1 /\ i - Len(g) - Len(ring) = 1
        BY <1>5, <2>1, <3>2
      <4> QED
        BY <2>1, <4>1 DEF At
    <3>3. CASE i > Len(g) + Len(ring) + 1
      <4>1. /\ ~(i <= Len(g)) /\ ~(i <= Len(g) + Len(ring)) /\ ~(i <= Len(g) + Len(ring'))
            /\ i - Len(g) - Len(ring') \in 1 .. Len(air) - 1
            /\ (i - Len(g) - Len(ring')) + 1 = i - Len(g) - Len(ring)
        BY <1>4, <1>5, <2>1, <3>0, <3>3
      <4> QED
        BY <1>2, <1>4, <4>1 DEF At
    <3> QED
      BY <1>5, <3>0, <3>1, <3>2, <3>3
  <2>4. /\ InOrder(g, ring, air) => InOrder(g, ring', air')
        /\ AllFresh(g, ring, air, numCmds, exec) => AllFresh(g, ring', air', numCmds, exec)
        /\ PartFirst(part, g, ring, air, numCmds, exec) => PartFirst(part, g, ring', air', numCmds, exec)
    BY <2>2, <2>3, SameOrder
  <2>5. pollPc = "drain" => Len(got) <= Len(ring') /\ \A i \in 1 .. Len(got) : got[i] = ring'[i]
    BY <1>1, <1>5, <2>1 DEF OrderInv
  <2>6. OrderInv'
    BY <1>1, <1>2, <1>6, <2>4, <2>5 DEF OrderInv, g
  <2>7. UpTypes'
    BY <1>1, <1>2, <1>4, <1>7, <2>1 DEF UpTypes, clockVars
  <2> QED
    BY <1>1, <1>2, <2>6, <2>7, SameAnswers DEF UpInv
<1>8. CASE ~(Len(ring) + 1 < RingSize)
  <2>1. ring' = ring
    BY <1>2, <1>8
  <2> DEFINE m == Len(g) + Len(ring) + 1
  <2>2. Total(g, ring, air) \in Nat /\ Total(g, ring', air') = Total(g, ring, air) - 1 /\ m \in Nat
    BY <1>2, <1>4, <1>5, <2>1 DEF Total
  <2>3. ASSUME NEW i \in 1 .. Total(g, ring', air')
        PROVE  At(g, ring', air', i) = At(g, ring, air, IF i < m THEN i ELSE i + 1)
    <3>0. i \in Nat /\ i >= 1 /\ i + 1 <= Len(g) + Len(ring) + Len(air)
      BY <1>2, <1>4, <1>5, <2>1, <2>3 DEF Total
    <3>1. CASE i < m
      BY <1>5, <2>1, <3>0, <3>1 DEF At
    <3>2. CASE ~(i < m)
      <4>1. /\ ~(i <= Len(g)) /\ ~(i <= Len(g) + Len(ring))
            /\ ~(i + 1 <= Len(g)) /\ ~(i + 1 <= Len(g) + Len(ring))
            /\ i - Len(g) - Len(ring) \in 1 .. Len(air) - 1
            /\ (i - Len(g) - Len(ring)) + 1 = (i + 1) - Len(g) - Len(ring)
        BY <1>4, <1>5, <3>0, <3>2
      <4> QED
        BY <1>2, <1>4, <2>1, <3>2, <4>1 DEF At
    <3> QED
      BY <3>1, <3>2
  <2> HIDE DEF m
  <2>4. /\ InOrder(g, ring, air) => InOrder(g, ring', air')
        /\ AllFresh(g, ring, air, numCmds, exec) => AllFresh(g, ring', air', numCmds, exec)
        /\ PartFirst(part, g, ring, air, numCmds, exec) => PartFirst(part, g, ring', air', numCmds, exec)
    BY <2>2, <2>3, LossKeepsOrder
  <2>5. OrderInv'
    BY <1>1, <1>2, <1>6, <2>1, <2>4 DEF OrderInv, g
  <2>6. UpTypes'
    BY <1>1, <1>2, <1>4, <2>1 DEF UpTypes, clockVars
  <2> QED
    BY <1>1, <1>2, <2>5, <2>6, SameAnswers DEF UpInv
<1> QED
  BY <1>7, <1>8

\* comm_rx_raw_drain copies the head of the ring, chunk by chunk.
LEMMA DrainKeeps ==
    ASSUME UpInv, PollStart \/ DrainOne \/ ParseEnd
    PROVE  UpInv'
<1>1. UpTypes /\ OrderInv /\ AnswerInv
  BY DEF UpInv
<1>2. UNCHANGED <<air, ring, part, numCmds, exec, veh, latch, ackPending, ackSeq, ackAge, answers,
                  synced, applied, target, tick, truth, meas>>
  BY DEF PollStart, DrainOne, ParseEnd, rxVars, cmdVars, clockVars
<1>3. Len(got) \in Nat /\ Len(ring) \in Nat
  BY <1>1, LenProperties DEF UpTypes
<1>4. /\ got' \in Seq(Chunks) /\ Len(got') <= DrainMax
      /\ pollPc' \in {"wait", "drain", "parse", "ack"}
      /\ Drained(pollPc', got') = Drained(pollPc, got)
      /\ pollPc' = "drain" => Len(got') <= Len(ring) /\ \A i \in 1 .. Len(got') : got'[i] = ring[i]
  <2>1. CASE PollStart
    <3>1. got' = <<>> /\ pollPc' = "drain" /\ pollPc = "wait"
      BY <2>1 DEF PollStart
    <3> QED
      BY <1>3, <3>1, EmptySequence, UpNumbers DEF Drained
  <2>2. CASE DrainOne
    <3>1. /\ pollPc = "drain" /\ pollPc' = "drain" /\ Len(got) < DrainMax /\ Len(got) < Len(ring)
          /\ got' = Append(got, ring[Len(got) + 1])
      BY <2>2 DEF DrainOne, More
    <3>2. got \in Seq(Chunks) /\ ring[Len(got) + 1] \in Chunks
      <4>1. Len(got) + 1 \in 1 .. Len(ring)
        BY <1>3, <3>1
      <4> QED
        BY <1>1, <4>1, ElementOfSeq DEF UpTypes
    <3>3. /\ got' \in Seq(Chunks) /\ Len(got') = Len(got) + 1
          /\ \A i \in 1 .. Len(got) : got'[i] = got[i]
          /\ got'[Len(got) + 1] = ring[Len(got) + 1]
      BY <3>1, <3>2, AppendProperties
    <3>4. ASSUME NEW i \in 1 .. Len(got')
          PROVE  got'[i] = ring[i]
      <4>1. i \in 1 .. Len(got) \/ i = Len(got) + 1
        BY <1>3, <3>3, <3>4
      <4> QED
        BY <1>1, <3>1, <3>3, <4>1 DEF OrderInv
    <3> QED
      BY <1>3, <3>1, <3>3, <3>4, UpNumbers DEF Drained
  <2>3. CASE ParseEnd
    <3>1. pollPc = "parse" /\ got = <<>> /\ pollPc' = "ack" /\ got' = got
      BY <2>3 DEF ParseEnd
    <3> QED
      BY <1>1, <3>1 DEF Drained, UpTypes
  <2> QED
    BY <2>1, <2>2, <2>3
<1>5. UpTypes'
  BY <1>1, <1>2, <1>4 DEF UpTypes
<1>6. OrderInv'
  BY <1>1, <1>2, <1>4 DEF OrderInv
<1> QED
  BY <1>1, <1>2, <1>5, <1>6, SameAnswers DEF UpInv

\* The end of the drain gives the ring what was copied back.
LEMMA DrainEndKeeps ==
    ASSUME UpInv, DrainEnd
    PROVE  UpInv'
<1>1. UpTypes /\ OrderInv /\ AnswerInv
  BY DEF UpInv
<1>2. /\ pollPc = "drain" /\ pollPc' = "parse"
      /\ ring' = SubSeq(ring, Len(got) + 1, Len(ring))
      /\ UNCHANGED <<air, got, part, numCmds, exec, veh, latch, ackPending, ackSeq, ackAge, answers,
                     synced, applied, target, tick, truth, meas>>
  BY DEF DrainEnd, cmdVars, clockVars
<1>3. /\ ring \in Seq(Chunks) /\ got \in Seq(Chunks) /\ air \in Seq(Chunks)
      /\ Len(got) \in Nat /\ Len(ring) \in Nat /\ Len(air) \in Nat /\ Len(ring) < RingSize
  BY <1>1, LenProperties DEF UpTypes
<1>4. Len(got) <= Len(ring) /\ \A i \in 1 .. Len(got) : got[i] = ring[i]
  BY <1>1, <1>2 DEF OrderInv
<1>5. /\ ring' \in Seq(Chunks) /\ Len(ring') = Len(ring) - Len(got)
      /\ \A i \in 1 .. Len(ring) - Len(got) : ring'[i] = ring[i + Len(got)]
  <2>1. Len(got) + 1 \in 1 .. Len(ring) + 1 /\ Len(ring) \in Len(got) .. Len(ring)
    BY <1>3, <1>4
  <2>2. \A i \in Len(got) + 1 .. Len(ring) : ring[i] \in Chunks
    <3>1. ASSUME NEW i \in Len(got) + 1 .. Len(ring)
          PROVE  i \in 1 .. Len(ring)
      BY <1>3, <3>1
    <3> QED
      BY <1>3, <3>1, ElementOfSeq
  <2> QED
    BY <1>2, <1>3, <1>4, <2>1, <2>2, SubSeqProperties
<1>6. Drained(pollPc, got) = <<>> /\ Drained(pollPc', got') = got /\ Len(<<>>) = 0
  BY <1>2, EmptySequence DEF Drained
<1>7. Total(got, ring', air') = Total(<<>>, ring, air)
  <2>1. Total(got, ring', air') = Len(got) + Len(ring') + Len(air)
    BY <1>2 DEF Total
  <2>2. Total(<<>>, ring, air) = 0 + Len(ring) + Len(air)
    BY <1>6, Zenon DEF Total
  <2> QED
    BY <1>3, <1>5, <2>1, <2>2
<1>8. ASSUME NEW i \in 1 .. Total(<<>>, ring, air)
      PROVE  At(got, ring', air', i) = At(<<>>, ring, air, i)
  <2>0. i \in Nat /\ i >= 1 /\ i <= Len(ring) + Len(air)
    BY <1>3, <1>6, <1>8 DEF Total
  <2>1. CASE i <= Len(got)
    <3>1. ~(i <= 0) /\ i <= 0 + Len(ring) /\ i - 0 = i
      BY <1>3, <1>4, <2>0, <2>1
    <3> QED
      BY <1>4, <1>6, <2>0, <2>1, <3>1 DEF At
  <2>2. CASE i > Len(got) /\ i <= Len(ring)
    <3>1. /\ ~(i <= Len(got)) /\ i <= Len(got) + Len(ring')
          /\ i - Len(got) \in 1 .. Len(ring) - Len(got) /\ (i - Len(got)) + Len(got) = i
          /\ ~(i <= 0) /\ i <= 0 + Len(ring) /\ i - 0 = i
      BY <1>3, <1>4, <1>5, <2>0, <2>2
    <3> QED
      BY <1>5, <1>6, <3>1 DEF At
  <2>3. CASE i > Len(ring)
    <3>1. /\ ~(i <= Len(got)) /\ ~(i <= Len(got) + Len(ring'))
          /\ i - Len(got) - Len(ring') = i - 0 - Len(ring)
          /\ ~(i <= 0) /\ ~(i <= 0 + Len(ring))
      BY <1>3, <1>4, <1>5, <2>0, <2>3
    <3>2. At(got, ring', air', i) = air'[i - Len(got) - Len(ring')]
      BY <3>1 DEF At
    <3>3. At(<<>>, ring, air, i) = air[i - 0 - Len(ring)]
      BY <1>6, <3>1 DEF At
    <3> QED
      BY <1>2, <3>1, <3>2, <3>3, Zenon
  <2> QED
    BY <1>3, <2>0, <2>1, <2>2, <2>3
<1>9. /\ InOrder(<<>>, ring, air) => InOrder(got, ring', air')
      /\ AllFresh(<<>>, ring, air, numCmds, exec) => AllFresh(got, ring', air', numCmds, exec)
      /\ PartFirst(part, <<>>, ring, air, numCmds, exec) => PartFirst(part, got, ring', air', numCmds, exec)
  <2> DEFINE none == <<>>
  <2>1. Total(got, ring', air') = Total(none, ring, air)
        /\ \A i \in 1 .. Total(none, ring, air) : At(got, ring', air', i) = At(none, ring, air, i)
    BY <1>7, <1>8
  <2> HIDE DEF none
  <2>2. /\ InOrder(none, ring, air) => InOrder(got, ring', air')
        /\ AllFresh(none, ring, air, numCmds, exec) => AllFresh(got, ring', air', numCmds, exec)
        /\ PartFirst(part, none, ring, air, numCmds, exec) => PartFirst(part, got, ring', air', numCmds, exec)
    BY <2>1, SameOrder
  <2> QED
    BY <2>2 DEF none
<1>10. OrderInv'
  BY <1>1, <1>2, <1>6, <1>9 DEF OrderInv
<1>11. UpTypes'
  BY <1>1, <1>2, <1>3, <1>5, UpNumbers DEF UpTypes
<1> QED
  BY <1>1, <1>2, <1>10, <1>11, SameAnswers DEF UpInv

\* An answer of the command task: neither of the IMU stream nor of a transfer.
Answers(f) == f \in FrameSet /\ ~IsImu(f) /\ f.kind # "data"
SaidOne == todo' = todo \/ \E f : Answers(f) /\ todo' = [todo EXCEPT !["comm"] = <<f>>]

LEMMA PlainAnswers ==
    ASSUME NEW k \in {"ack", "nack", "sync"}, NEW d \in Int
    PROVE  Answers(Frame(k, d, 0))
<1> DEFINE f == Frame(k, d, 0)
<1>1. f = [kind |-> k, d |-> d, v |-> 0, lost |-> FALSE]
  BY DEF Frame
<1>2. f \in FrameSet
  <2>1. [kind |-> k, d |-> d, v |-> 0, lost |-> FALSE] \in FrameSet
    BY DEF FrameSet
  <2> QED
    BY <1>1, <2>1
<1>3. f.kind = k
  BY <1>1
<1>4. ~IsImu(f) /\ f.kind # "data"
  BY <1>3 DEF IsImu
<1> QED
  BY <1>2, <1>4 DEF Answers

\* A command that runs is the last one run, once; it is owed an answer only if
\* it ran.
LEMMA ExecuteDoes ==
    ASSUME UpTypes, exec \in Nat, NEW m \in Chunks, Execute(m),
           m.n >= 1 => m.n > exec, m.kind # "sync" => m.n >= 1
    PROVE  /\ exec' = exec \/ (m.n >= 1 /\ exec' = m.n)
           /\ UNCHANGED <<numCmds, answers, veh, tick, truth, meas>>
           /\ latch' \in BOOLEAN /\ ackPending' \in BOOLEAN /\ synced' \in BOOLEAN
           /\ ackAge' \in 0 .. AckTicks /\ ackSeq' \in 0 .. MaxCmds
           /\ applied' \in Int /\ target' \in Int
           /\ ackPending' => \/ ackPending /\ ackSeq' = ackSeq
                             \/ m.n >= 1 /\ exec' = m.n /\ ackSeq' = m.n
           /\ SaidOne
<1>1. /\ m.n \in 0 .. MaxCmds /\ m.n \in Nat /\ m.c \in Int /\ applied \in Int /\ target \in Int
      /\ MaxCmds \in Nat /\ AckTicks \in Nat /\ 0 \in 0 .. AckTicks
      /\ ackAge \in 0 .. AckTicks /\ ackSeq \in 0 .. MaxCmds
      /\ latch \in BOOLEAN /\ ackPending \in BOOLEAN /\ synced \in BOOLEAN
  BY UpNumbers DEF UpTypes, Chunks
<1>2. Ran(m.n) = exec \/ (m.n >= 1 /\ Ran(m.n) = m.n)
  BY <1>1 DEF Ran
<1>3. /\ Answers(Plain("ack")) /\ Answers(Plain("nack"))
      /\ \A d \in Int : Answers(SyncResponse(d))
  BY PlainAnswers DEF SyncResponse, Plain
<1>4. CASE m.kind = "sync" /\ DoSync(m)
  <2>1. /\ exec' = Ran(m.n) /\ Say(SyncResponse(applied'))
        /\ UNCHANGED <<tick, truth, meas, numCmds, veh, latch, ackPending, ackSeq, ackAge, answers>>
    BY <1>4 DEF DoSync
  <2>2. applied' \in Int /\ target' \in Int
    BY <1>1, <1>4 DEF DoSync, SetOffset
  <2>3. synced' \in BOOLEAN
    BY <1>1, <1>4, Zenon DEF DoSync
  <2>4. SaidOne
    BY <1>3, <2>1, <2>2 DEF Say, SaidOne
  <2>5. latch' \in BOOLEAN /\ ackPending' \in BOOLEAN
    BY <1>1, <2>1, Zenon
  <2> QED
    BY <1>1, <1>2, <2>1, <2>2, <2>3, <2>4, <2>5
<1>5. CASE Gated(m)
  <2>1. /\ Say(Plain("nack")) /\ UNCHANGED cmdVars /\ UNCHANGED clockVars
    BY <1>5 DEF Gated
  <2>2. SaidOne
    BY <1>3, <2>1 DEF Say, SaidOne
  <2>3. latch' \in BOOLEAN /\ ackPending' \in BOOLEAN /\ synced' \in BOOLEAN
    BY <1>1, <2>1, Zenon DEF cmdVars, clockVars
  <2> QED
    BY <1>1, <2>1, <2>2, <2>3 DEF cmdVars, clockVars
<1>6. CASE m.kind = "arm" /\ DoArm(m)
  <2>1. /\ ackSeq' = m.n /\ ackAge' = 0 /\ exec' = Ran(m.n) /\ todo' = todo
        /\ UNCHANGED clockVars /\ UNCHANGED <<numCmds, veh, answers>>
    BY <1>6 DEF DoArm
  <2>2. latch' \in BOOLEAN /\ ackPending' \in BOOLEAN /\ synced' \in BOOLEAN
    BY <1>1, <1>6, Zenon DEF DoArm, clockVars
  <2>3. m.n >= 1
    BY <1>6
  <2>4. exec' = m.n
    BY <1>1, <2>1, <2>3 DEF Ran
  <2> QED
    BY <1>1, <2>1, <2>2, <2>3, <2>4 DEF SaidOne, clockVars
<1>7. CASE DoDisarm(m)
  <2>1. /\ exec' = Ran(m.n) /\ Say(Plain("ack")) /\ UNCHANGED clockVars
        /\ UNCHANGED <<numCmds, veh, ackPending, ackSeq, ackAge, answers>>
    BY <1>7 DEF DoDisarm
  <2>2. latch' \in BOOLEAN /\ ackPending' \in BOOLEAN /\ synced' \in BOOLEAN
    BY <1>1, <1>7, Zenon DEF DoDisarm, clockVars
  <2>3. SaidOne
    BY <1>3, <2>1 DEF Say, SaidOne
  <2> QED
    BY <1>1, <1>2, <2>1, <2>2, <2>3 DEF clockVars
<1>8. CASE DoCalibrate(m)
  <2>1. /\ exec' = Ran(m.n) /\ UNCHANGED clockVars
        /\ Say(Plain("ack")) \/ Say(Plain("nack"))
        /\ UNCHANGED <<numCmds, veh, latch, ackPending, ackSeq, ackAge, answers>>
    BY <1>8 DEF DoCalibrate
  <2>2. latch' \in BOOLEAN /\ ackPending' \in BOOLEAN /\ synced' \in BOOLEAN
    BY <1>1, <2>1, Zenon DEF clockVars
  <2>3. SaidOne
    BY <1>3, <2>1 DEF Say, SaidOne
  <2> QED
    BY <1>1, <1>2, <2>1, <2>2, <2>3 DEF clockVars
<1> QED
  BY <1>4, <1>5, <1>6, <1>7, <1>8 DEF Execute

\* The parser takes the next chunk: what follows it is as it was, one nearer.
LEMMA NextChunk ==
    ASSUME UpInv, pollPc = "parse", got # <<>>
    PROVE  /\ Head(got) \in Chunks /\ Tail(got) \in Seq(Chunks) /\ Len(Tail(got)) <= DrainMax
           /\ Fresh(Head(got), numCmds, exec)
           /\ InOrder(Tail(got), ring, air) /\ AllFresh(Tail(got), ring, air, numCmds, exec)
           /\ PartFirst(part, Tail(got), ring, air, numCmds, exec)
           /\ \A i \in 1 .. Total(Tail(got), ring, air) :
                /\ At(Tail(got), ring, air, i) \in Chunks
                /\ Key(Head(got)) < Key(At(Tail(got), ring, air, i))
           /\ part # NoChunk => Key(part) < Key(Head(got))
<1>1. UpTypes /\ OrderInv
  BY DEF UpInv
<1>2. /\ got \in Seq(Chunks) /\ ring \in Seq(Chunks) /\ air \in Seq(Chunks)
      /\ Len(ring) \in Nat /\ Len(air) \in Nat /\ Len(got) <= DrainMax
  BY <1>1, LenProperties DEF UpTypes
<1>3. /\ Tail(got) \in Seq(Chunks) /\ Len(got) \in Nat /\ Len(got) >= 1 /\ Len(Tail(got)) = Len(got) - 1
      /\ \A i \in 1 .. Len(got) - 1 : Tail(got)[i] = got[i + 1]
      /\ Head(got) = got[1] /\ got[1] \in Chunks
  BY <1>2, TailElements
<1>4. /\ InOrder(got, ring, air) /\ AllFresh(got, ring, air, numCmds, exec)
      /\ PartFirst(part, got, ring, air, numCmds, exec)
  BY <1>1 DEF OrderInv, Drained
<1> DEFINE t == Tail(got)
           N == Total(t, ring, air)
<1>5. Total(got, ring, air) \in Nat /\ N \in Nat /\ N = Total(got, ring, air) - 1 /\ 1 \in 1 .. Total(got, ring, air)
  BY <1>2, <1>3 DEF Total
<1>6. ASSUME NEW i \in 1 .. N
      PROVE  At(t, ring, air, i) = At(got, ring, air, i + 1)
  <2>0. i \in Nat /\ i >= 1
    BY <1>5, <1>6
  <2>1. CASE i <= Len(t)
    <3>1. i + 1 <= Len(got) /\ i \in 1 .. Len(got) - 1
      BY <1>3, <2>0, <2>1
    <3> QED
      BY <1>3, <2>1, <3>1 DEF At
  <2>2. CASE i > Len(t) /\ i <= Len(t) + Len(ring)
    <3>1. /\ ~(i <= Len(t)) /\ ~(i + 1 <= Len(got)) /\ i + 1 <= Len(got) + Len(ring)
          /\ (i + 1) - Len(got) = i - Len(t)
      BY <1>2, <1>3, <2>0, <2>2
    <3> QED
      BY <2>2, <3>1 DEF At
  <2>3. CASE i > Len(t) + Len(ring)
    <3>1. /\ ~(i <= Len(t)) /\ ~(i <= Len(t) + Len(ring))
          /\ ~(i + 1 <= Len(got)) /\ ~(i + 1 <= Len(got) + Len(ring))
          /\ (i + 1) - Len(got) - Len(ring) = i - Len(t) - Len(ring)
      BY <1>2, <1>3, <2>0, <2>3
    <3> QED
      BY <3>1 DEF At
  <2> QED
    BY <1>2, <1>3, <2>0, <2>1, <2>2, <2>3
<1>7. At(got, ring, air, 1) = Head(got)
  BY <1>3 DEF At
<1>8. ASSUME NEW i \in 1 .. N
      PROVE  /\ At(t, ring, air, i) \in Chunks
             /\ Key(Head(got)) < Key(At(t, ring, air, i))
  <2>1. i \in Nat /\ i >= 1 /\ i <= Len(t) + Len(ring) + Len(air) /\ Len(t) \in Nat
        /\ i + 1 \in 1 .. Total(got, ring, air) /\ 1 < i + 1
    BY <1>2, <1>3, <1>5, <1>8 DEF Total
  <2>2. Key(Head(got)) < Key(At(got, ring, air, i + 1))
    BY <1>4, <1>5, <1>7, <2>1 DEF InOrder
  <2>3. At(t, ring, air, i) \in Chunks
    <3>1. CASE i <= Len(t)
      BY <1>3, <2>1, <3>1, ElementOfSeq DEF At
    <3>2. CASE i > Len(t) /\ i <= Len(t) + Len(ring)
      <4>1. i - Len(t) \in 1 .. Len(ring) /\ ~(i <= Len(t))
        BY <1>2, <2>1, <3>2
      <4> QED
        BY <1>2, <3>2, <4>1, ElementOfSeq DEF At
    <3>3. CASE i > Len(t) + Len(ring)
      <4>1. i - Len(t) - Len(ring) \in 1 .. Len(air) /\ ~(i <= Len(t)) /\ ~(i <= Len(t) + Len(ring))
        BY <1>2, <2>1, <3>3
      <4> QED
        BY <1>2, <4>1, ElementOfSeq DEF At
    <3> QED
      BY <1>2, <2>1, <3>1, <3>2, <3>3
  <2> QED
    BY <1>6, <2>2, <2>3
<1>9. ASSUME NEW i \in 1 .. N
      PROVE  At(t, ring, air, i) = At(got, ring, air, IF i < 1 THEN i ELSE i + 1)
  BY <1>5, <1>6, <1>9
<1>10. /\ InOrder(got, ring, air) => InOrder(t, ring, air)
       /\ AllFresh(got, ring, air, numCmds, exec) => AllFresh(t, ring, air, numCmds, exec)
       /\ PartFirst(part, got, ring, air, numCmds, exec) => PartFirst(part, t, ring, air, numCmds, exec)
  <2> HIDE DEF t
  <2>1. 1 \in Nat
    OBVIOUS
  <2>2. \A i \in 1 .. Total(t, ring, air) :
           At(t, ring, air, i) = At(got, ring, air, IF i < 1 THEN i ELSE i + 1)
    BY <1>9
  <2> QED
    BY <1>5, <2>1, <2>2, LossKeepsOrder
<1>11. Fresh(Head(got), numCmds, exec)
  BY <1>4, <1>5, <1>7 DEF AllFresh
<1>12. part # NoChunk => Key(part) < Key(Head(got))
  BY <1>4, <1>5, <1>7 DEF PartFirst
<1>13. Len(t) <= DrainMax
  BY <1>2, <1>3, UpNumbers
<1> QED
  BY <1>3, <1>4, <1>8, <1>10, <1>11, <1>12, <1>13

\* What is of a later command than n is not run when n is.
LEMMA LaterIsFresh ==
    ASSUME NEW ch \in Chunks, NEW last \in Chunks, last.half = 2, Key(last) < Key(ch),
           NEW num, NEW ran, Fresh(ch, num, ran), NEW now, now = ran \/ now = last.n
    PROVE  Fresh(ch, num, now)
<1>1. ch.n \in Int /\ last.n \in Int /\ ch.half <= 2 /\ ch.half \in Int
  BY UpNumbers DEF Chunks
<1>2. ch.n > last.n
  BY <1>1 DEF Key
<1> QED
  BY <1>2 DEF Fresh

\* navlink_parser_push: the halves of a frame make a command, which runs.
LEMMA ParseKeeps ==
    ASSUME UpInv, ParseOne
    PROVE  UpInv' /\ SaidOne
<1> DEFINE ch == Head(got)
           t == Tail(got)
<1>1. UpTypes /\ OrderInv /\ AnswerInv
  BY DEF UpInv
<1>2. /\ pollPc = "parse" /\ pollPc' = "parse" /\ got # <<>> /\ got' = t
      /\ air' = air /\ ring' = ring
      /\ IF Whole(ch) THEN Execute(part) /\ part' = NoChunk
         ELSE /\ part' = IF ch.half = 1 THEN ch ELSE NoChunk
              /\ UNCHANGED <<todo, cmdVars, clockVars>>
  BY DEF ParseOne, rxVars
<1>3. /\ ch \in Chunks /\ t \in Seq(Chunks) /\ Len(t) <= DrainMax
      /\ Fresh(ch, numCmds, exec)
      /\ InOrder(t, ring, air) /\ AllFresh(t, ring, air, numCmds, exec)
      /\ PartFirst(part, t, ring, air, numCmds, exec)
      /\ \A i \in 1 .. Total(t, ring, air) :
           At(t, ring, air, i) \in Chunks /\ Key(ch) < Key(At(t, ring, air, i))
      /\ part # NoChunk => Key(part) < Key(ch)
  BY <1>1, <1>2, NextChunk DEF UpInv
<1>4. exec \in Nat /\ numCmds \in 0 .. MaxCmds /\ numCmds \in Nat
  BY <1>1, UpNumbers DEF UpTypes, OrderInv
<1>5. Drained(pollPc', got') = t /\ pollPc' # "drain"
  BY <1>2 DEF Drained
<1>6. /\ air \in Seq(Chunks) /\ ring \in Seq(Chunks) /\ Len(ring) < RingSize
      /\ NoChunk \in Chunks \union {NoChunk} /\ "parse" \in {"wait", "drain", "parse", "ack"}
  BY <1>1 DEF UpTypes
<1> HIDE DEF ch, t
<1>7. CASE Whole(ch)
  <2>1. part # NoChunk /\ ch.half = 2 /\ part.n = ch.n /\ Execute(part) /\ part' = NoChunk
    BY <1>2, <1>7 DEF Whole
  <2>2. part \in Chunks /\ part.n \in Nat /\ Fresh(part, numCmds, exec)
    BY <1>1, <2>1, PartIsFirstHalf
  <2>3. (part.n >= 1 => part.n > exec) /\ (part.kind # "sync" => part.n >= 1) /\ part.n <= numCmds
    BY <2>2 DEF Fresh
  <2>4. /\ exec' = exec \/ (part.n >= 1 /\ exec' = part.n)
        /\ UNCHANGED <<numCmds, answers, veh, tick, truth, meas>>
        /\ latch' \in BOOLEAN /\ ackPending' \in BOOLEAN /\ synced' \in BOOLEAN
        /\ ackAge' \in 0 .. AckTicks /\ ackSeq' \in 0 .. MaxCmds
        /\ applied' \in Int /\ target' \in Int
        /\ ackPending' => \/ ackPending /\ ackSeq' = ackSeq
                          \/ part.n >= 1 /\ exec' = part.n /\ ackSeq' = part.n
        /\ SaidOne
    <3>1. UpTypes /\ exec \in Nat /\ part \in Chunks /\ Execute(part)
      BY <1>1, <1>4, <2>1, <2>2
    <3> QED
      BY <2>3, <3>1, ExecuteDoes
  <2>5. exec' \in 0 .. numCmds /\ exec' \in Int /\ (exec' > exec \/ exec' = exec) /\ exec <= exec'
    <3>1. exec <= numCmds
      BY <1>1, <1>4 DEF OrderInv
    <3> QED
      BY <1>4, <2>2, <2>3, <2>4, <3>1
  <2>6. AllFresh(t, ring, air, numCmds, exec')
    <3>1. ASSUME NEW i \in 1 .. Total(t, ring, air)
          PROVE  Fresh(At(t, ring, air, i), numCmds, exec')
      <4>1. /\ At(t, ring, air, i) \in Chunks /\ Key(ch) < Key(At(t, ring, air, i))
            /\ Fresh(At(t, ring, air, i), numCmds, exec)
        BY <1>3 DEF AllFresh
      <4>2. exec' = exec \/ exec' = ch.n
        BY <2>1, <2>4
      <4> DEFINE now == exec'
                 x == At(t, ring, air, i)
      <4>3. now = exec \/ now = ch.n
        BY <4>2
      <4>4. x \in Chunks /\ Key(ch) < Key(x) /\ Fresh(x, numCmds, exec) /\ ch.half = 2 /\ ch \in Chunks
        BY <1>3, <2>1, <4>1
      <4> HIDE DEF now, x
      <4>5. Fresh(x, numCmds, now)
        BY <4>3, <4>4, LaterIsFresh
      <4> QED
        BY <4>5 DEF now, x
    <3> QED
      BY <3>1 DEF AllFresh
  <2>7. PartFirst(part', t, ring, air, numCmds, exec')
    BY <2>1 DEF PartFirst
  <2>8. OrderInv'
    BY <1>2, <1>3, <1>5, <2>4, <2>5, <2>6, <2>7 DEF OrderInv
  <2>9. AnswerInv'
    <3>1. \A n \in 1 .. MaxCmds : answers[n] <= 1 /\ (n > exec => answers[n] = 0)
      BY <1>1 DEF AnswerInv
    <3>2. \A n \in 1 .. MaxCmds : answers'[n] <= 1 /\ (n > exec' => answers'[n] = 0)
      BY <1>4, <2>4, <2>5, <3>1
    <3>3. ASSUME ackPending'
          PROVE  ackSeq' \in 1 .. exec' /\ answers'[ackSeq'] = 0
      <4>1. CASE ackPending /\ ackSeq' = ackSeq
        <5>1. ackSeq \in 1 .. exec /\ answers[ackSeq] = 0
          BY <1>1, <4>1 DEF AnswerInv
        <5> QED
          BY <1>4, <2>4, <2>5, <4>1, <5>1
      <4>2. CASE part.n >= 1 /\ exec' = part.n /\ ackSeq' = part.n
        <5>1. part.n \in 1 .. MaxCmds /\ part.n > exec
          BY <1>4, <2>2, <2>3, <4>2, UpNumbers
        <5>2. answers[part.n] = 0
          BY <3>1, <5>1
        <5> QED
          BY <2>2, <2>4, <4>2, <5>2
      <4> QED
        BY <2>4, <3>3, <4>1, <4>2
    <3> QED
      BY <3>2, <3>3 DEF AnswerInv
  <2>10. UpTypes'
    <3>1. /\ air' \in Seq(Chunks) /\ ring' \in Seq(Chunks) /\ got' \in Seq(Chunks)
          /\ Len(ring') < RingSize /\ Len(got') <= DrainMax
          /\ part' \in Chunks \union {NoChunk}
          /\ pollPc' \in {"wait", "drain", "parse", "ack"}
      BY <1>2, <1>3, <1>6, <2>1
    <3>2. /\ numCmds' \in 0 .. MaxCmds /\ exec' \in Int
          /\ veh' \in {"STANDBY", "ARMED", "IN_AIR", "FAILSAFE"}
          /\ answers' \in [1 .. MaxCmds -> 0 .. 2]
          /\ tick' \in Int /\ truth' \in Int /\ meas' \in Int
      BY <1>1, <2>4, <2>5 DEF UpTypes
    <3> QED
      BY <2>4, <3>1, <3>2 DEF UpTypes
  <2> QED
    BY <2>4, <2>8, <2>9, <2>10 DEF UpInv
<1>8. CASE ~Whole(ch)
  <2>1. /\ part' = (IF ch.half = 1 THEN ch ELSE NoChunk)
        /\ UNCHANGED <<numCmds, exec, veh, latch, ackPending, ackSeq, ackAge, answers>>
        /\ UNCHANGED <<synced, applied, target, tick, truth, meas>>
        /\ todo' = todo
    BY <1>2, <1>8 DEF cmdVars, clockVars
  <2>2. PartFirst(part', t, ring, air, numCmds, exec)
    BY <1>3, <2>1 DEF PartFirst
  <2>3. OrderInv'
    <3>1. exec' \in 0 .. numCmds'
      BY <1>1, <2>1 DEF OrderInv
    <3> QED
      BY <1>2, <1>3, <1>5, <2>1, <2>2, <3>1 DEF OrderInv
  <2>4. UpTypes'
    <3>1. part' \in Chunks \union {NoChunk}
      BY <1>3, <2>1
    <3> QED
      BY <1>1, <1>2, <1>3, <1>6, <2>1, <3>1 DEF UpTypes
  <2>5. AnswerInv'
    BY <1>1, <2>1, SameAnswers
  <2> QED
    BY <2>1, <2>3, <2>4, <2>5 DEF UpInv, SaidOne
<1> QED
  BY <1>7, <1>8

\* arm_ack_service: one answer, to the command that is owed it.
LEMMA AckServiceKeeps ==
    ASSUME UpInv, ArmAckService
    PROVE  UpInv' /\ SaidOne
<1>1. UpTypes /\ OrderInv /\ AnswerInv
  BY DEF UpInv
<1>2. /\ pollPc = "ack" /\ pollPc' = "wait"
      /\ UNCHANGED <<air, ring, got, part, numCmds, exec, veh, latch, ackSeq, ackAge>>
      /\ UNCHANGED <<synced, applied, target, tick, truth, meas>>
  BY DEF ArmAckService, rxVars, clockVars
<1>3. exec \in Nat /\ exec <= numCmds /\ numCmds <= MaxCmds /\ numCmds \in Nat /\ MaxCmds \in Nat
  BY <1>1, UpNumbers DEF UpTypes, OrderInv
<1>4. /\ answers' \in [1 .. MaxCmds -> 0 .. 2] /\ ackPending' \in BOOLEAN
      /\ AnswerInv' /\ SaidOne
  <2>1. CASE Resolved
    <3>1. /\ ackPending /\ ackPending' = FALSE
          /\ answers' = [answers EXCEPT ![ackSeq] = IF @ < 2 THEN @ + 1 ELSE 2]
          /\ Say(Plain("ack")) \/ Say(Plain("nack"))
      BY <2>1 DEF ArmAckService, Resolved
    <3>2. ackSeq \in 1 .. exec /\ answers[ackSeq] = 0 /\ ackSeq \in 1 .. MaxCmds
      BY <1>1, <1>3, <3>1 DEF AnswerInv
    <3>3. answers \in [1 .. MaxCmds -> 0 .. 2] /\ answers' = [answers EXCEPT ![ackSeq] = 1]
      BY <1>1, <3>1, <3>2 DEF UpTypes
    <3>4. \A n \in 1 .. MaxCmds : answers'[n] = IF n = ackSeq THEN 1 ELSE answers[n]
      BY <3>2, <3>3
    <3>5. \A n \in 1 .. MaxCmds : answers'[n] <= 1 /\ (n > exec => answers'[n] = 0)
      BY <1>1, <1>3, <3>2, <3>4 DEF AnswerInv
    <3>6. AnswerInv'
      BY <1>2, <3>1, <3>5 DEF AnswerInv
    <3>7. SaidOne
      BY <3>1, PlainAnswers DEF Say, Plain, SaidOne
    <3>8. answers' \in [1 .. MaxCmds -> 0 .. 2]
      BY <3>2, <3>3
    <3>9. ackPending' \in BOOLEAN
      BY <3>1, Zenon
    <3> QED
      BY <3>6, <3>7, <3>8, <3>9
  <2>2. CASE ~Resolved
    <3>1. todo' = todo /\ ackPending' = ackPending /\ answers' = answers
      BY <2>2 DEF ArmAckService
    <3> QED
      BY <1>1, <1>2, <3>1, SameAnswers DEF UpTypes, SaidOne
  <2> QED
    BY <2>1, <2>2
<1>5. UpTypes'
  BY <1>1, <1>2, <1>4 DEF UpTypes
<1>6. OrderInv'
  BY <1>1, <1>2 DEF OrderInv, Drained
<1> QED
  BY <1>4, <1>5, <1>6 DEF UpInv

\* The wait for an answer, the flight state and the clocks.
LEMMA TimeKeeps ==
    ASSUME UpInv, AckTick \/ VehicleStep \/ GcsJump \/ TickLoad \/ TickWhole \/ TickStore
    PROVE  UpInv'
<1>1. UpTypes /\ OrderInv /\ AnswerInv
  BY DEF UpInv
<1>2. UNCHANGED <<air, ring, pollPc, got, part, numCmds, exec, latch, ackPending, ackSeq, answers>>
  BY DEF AckTick, VehicleStep, GcsJump, TickLoad, TickWhole, TickStore, rxVars, pollVars, cmdVars
<1>3. /\ veh' \in {"STANDBY", "ARMED", "IN_AIR", "FAILSAFE"}
      /\ ackAge' \in 0 .. AckTicks /\ synced' \in BOOLEAN
      /\ applied' \in Int /\ target' \in Int /\ tick' \in Int /\ truth' \in Int /\ meas' \in Int
  <2>1. /\ veh \in {"STANDBY", "ARMED", "IN_AIR", "FAILSAFE"}
        /\ ackAge \in 0 .. AckTicks /\ synced \in BOOLEAN
        /\ applied \in Int /\ target \in Int /\ tick \in Int /\ truth \in Int /\ meas \in Int
        /\ NoValue \in Int /\ Toward(applied, target) \in Int
    BY <1>1 DEF UpTypes, NoValue, Toward
  <2>2. CASE AckTick
    <3>1. ackAge < AckTicks /\ ackAge' = ackAge + 1 /\ veh' = veh /\ UNCHANGED clockVars
      BY <2>2 DEF AckTick
    <3> QED
      BY <2>1, <3>1, UpNumbers DEF clockVars
  <2>3. CASE VehicleStep
    BY <2>1, <2>3 DEF VehicleStep, clockVars
  <2>4. CASE GcsJump
    BY <2>1, <2>4, UpNumbers DEF GcsJump, cmdVars
  <2>5. CASE TickLoad \/ TickWhole \/ TickStore
    BY <2>1, <2>5 DEF TickLoad, TickWhole, TickStore, cmdVars
  <2> QED
    BY <2>2, <2>3, <2>4, <2>5
<1>4. UpTypes'
  BY <1>1, <1>2, <1>3 DEF UpTypes
<1> QED
  BY <1>1, <1>2, <1>4, SameOrderInv, SameAnswers DEF UpInv

\* The ground station reads an answer off the wire.
LEMMA WireKeeps ==
    ASSUME UpInv, DownTypes, LinkFrame
    PROVE  UpInv'
<1>1. UpTypes /\ OrderInv /\ AnswerInv
  BY DEF UpInv
<1>2. /\ UNCHANGED <<air, ring, pollPc, got, part, numCmds, exec, veh, latch, ackPending, ackSeq, ackAge,
                     answers, synced, applied, target, tick, truth>>
      /\ sent < Len(Received)
      /\ meas' = IF Received[sent + 1].kind = "sync" THEN Received[sent + 1].d - truth ELSE meas
  BY DEF LinkFrame, DmaFrame, rxVars, pollVars, cmdVars
<1>3. meas' \in Int
  <2>1. Received \in Seq(FrameSet)
    BY DEF Received, DownTypes
  <2>2. sent + 1 \in 1 .. Len(Received)
    BY <1>2, <2>1, LenProperties DEF DownTypes, Received
  <2>3. Received[sent + 1] \in FrameSet
    BY <2>1, <2>2, ElementOfSeq
  <2>4. Received[sent + 1].d \in Int
    BY <2>3 DEF FrameSet
  <2> QED
    BY <1>1, <1>2, <2>4 DEF UpTypes
<1>4. UpTypes'
  BY <1>1, <1>2, <1>3 DEF UpTypes
<1> QED
  BY <1>1, <1>2, <1>4, SameOrderInv, SameAnswers DEF UpInv

LEMMA SameUpInv ==
    ASSUME UpInv, UNCHANGED upVars
    PROVE  UpInv'
<1>1. UNCHANGED <<air, ring, pollPc, got, part, numCmds, exec, veh, latch, ackPending, ackSeq, ackAge,
                  answers, synced, applied, target, tick, truth, meas>>
  BY DEF upVars, rxVars, pollVars, cmdVars, clockVars
<1>2. UpTypes /\ OrderInv /\ AnswerInv
  BY DEF UpInv
<1>3. UpTypes'
  BY <1>1, <1>2 DEF UpTypes
<1> QED
  BY <1>1, <1>2, <1>3, SameOrderInv, SameAnswers DEF UpInv

LEMMA UpStep ==
    ASSUME UpInv, DownTypes, LinkNext \/ UNCHANGED linkVars
    PROVE  UpInv'
<1>1. CASE UNCHANGED upVars
  BY <1>1, SameUpInv
<1>2. ChannelStep \/ LinkDone \/ UNCHANGED linkVars => UNCHANGED upVars
  BY DEF ChannelStep, LinkDone, linkVars
<1> QED
  BY <1>1, <1>2, WireKeeps, SendKeeps, SyncKeeps, PushKeeps, DrainKeeps, DrainEndKeeps, ParseKeeps,
     AckServiceKeeps, TimeKeeps DEF LinkNext, Poll

LEMMA UpImplies ==
    ASSUME UpInv
    PROVE  CommandsExact
<1>1. UpTypes /\ OrderInv /\ AnswerInv
  BY DEF UpInv
<1>2. {latch, ackPending, synced} \subseteq BOOLEAN
  BY <1>1, Zenon DEF UpTypes
<1>3. UplinkTypeOK
  BY <1>1, <1>2 DEF UpTypes, UplinkTypeOK
<1>4. CommandsOnce
  BY <1>1 DEF OrderInv, UpTypes, CommandsOnce
<1>5. AnsweredOnce
  BY <1>1 DEF AnswerInv, AnsweredOnce
<1> QED
  BY <1>3, <1>4, <1>5 DEF CommandsExact

(***************************************************************************)
(* 3. Channel.                                                             *)
(*                                                                         *)
(* What was accepted is what is left of the buffer under the DMA and then  *)
(* the active one.  A buffer with no transfer chunk in it keeps the        *)
(* reserve free.  A drop not yet counted is loaded.  And a delta frame is  *)
(* close to the difference from the reading of the IMU frame before it, if *)
(* none is missing between them: before it on its way, or in the reader's  *)
(* vector.                                                                 *)
(***************************************************************************)
DropInv ==
    /\ overflow <= refused
    /\ \A w \in Writers : loaded[w] # -1 => loaded[w] < refused
    /\ refused > 0 => overflow > 0 \/ \E w \in Writers : loaded[w] # -1

RoomInv ==
    /\ \A i \in {0, 1} : /\ buf_lens[i] \in 0 .. BufSize
                         /\ ~HasData(buf[i]) => buf_lens[i] <= BufSize - Reserve
    /\ \A i \in 1 .. Len(todo["xfer"]) : todo["xfer"][i].kind = "data"

\* The frames accepted: p, when r frames of d from s on are not on the wire,
\* and a is the active buffer.
Queued(p, r, d, s, a) ==
    /\ Len(p) = r + Len(a)
    /\ \A i \in 1 .. Len(p) : p[i] = IF i <= r THEN d[s + i] ELSE a[i - r]
Rest(b, d, s) == IF b THEN Len(d) - s ELSE 0
AcceptInv ==
    /\ dma = 1 - active
    /\ busy => handed = buf[dma]
    /\ Queued(pending, Rest(busy, buf[dma], sent), buf[dma], sent, buf[active])

Close(d, x) == d - x \in -1 .. 1
\* x is the reading of the last IMU frame before the i-th of p, whose reader is g.
Before(p, i, g, x) ==
    \/ \E j \in 1 .. i - 1 : IsImu(p[j]) /\ (\A m \in j + 1 .. i - 1 : ~IsImu(p[m])) /\ x = p[j].v
    \/ g.have /\ (\A m \in 1 .. i - 1 : ~IsImu(p[m])) /\ x = g.vec - g.err
DeltaFrom(f, p, i, g) == \A x \in Int : Before(p, i, g, x) => Close(f.d, f.v - x)
OnTheWire(p, g) ==
    \A i \in 1 .. Len(p) : /\ p[i].kind = "full" => p[i].d = p[i].v
                           /\ p[i].kind = "delta" /\ ~p[i].lost => DeltaFrom(p[i], p, i, g)
ToWrite(q, p, g, last, miss) ==
    /\ \A i \in 1 .. Len(q) :
         IsImu(q[i]) => /\ i = Len(q) /\ q[i].v = last
                        /\ q[i].kind = "full" => q[i].d = q[i].v
                        /\ q[i].kind = "delta" /\ ~miss => DeltaFrom(q[i], p, Len(p) + 1, g)
    /\ (\A i \in 1 .. Len(q) : ~IsImu(q[i])) /\ ~miss =>
          \A x \in Int : Before(p, Len(p) + 1, g, x) => x = last
Tracked(g) == g.have /\ ~g.gap => g.err <= g.deltas /\ -g.err <= g.deltas
Silent == \A w \in Writers \ {"telem"} : \A i \in 1 .. Len(todo[w]) : ~IsImu(todo[w][i])

StreamInv ==
    /\ OnTheWire(pending, gcs)
    /\ ToWrite(todo["telem"], pending, gcs, prev, missing)
    /\ Silent
    /\ Tracked(gcs)

DownInv == DownTypes /\ DropInv /\ RoomInv /\ AcceptInv /\ StreamInv

----------------------------------------------------------------------------
Readers == [have : BOOLEAN, vec : Int, gap : BOOLEAN, deltas : Nat, err : Int]

LEMMA ChannelNumbers ==
    /\ BufSize \in Nat /\ Reserve \in Nat /\ Reserve >= 1 /\ Reserve <= BufSize - 1
    /\ DataLen \in Nat /\ DataLen >= 1 /\ DataLen <= Reserve
    /\ FullEvery \in Nat /\ FullEvery >= 1 /\ PerfRows \in Nat /\ MaxDrops \in Nat
    /\ \A v \in Values : v \in Int
  BY ChannelAssumption

\* binary16 rounds to the nearest it has: one off at the most.
LEMMA RoundsClose ==
    ASSUME NEW y \in Int
    PROVE  Float16(y) \in Int /\ Close(Float16(y), y)
  BY DEF Float16, Abs, Close

LEMMA FrameFields ==
    ASSUME NEW f \in FrameSet
    PROVE  f.d \in Int /\ f.v \in Int /\ f.lost \in BOOLEAN
  BY DEF FrameSet

\* What was read before the i-th frame is a matter of the frames before it.
LEMMA BeforeSame ==
    ASSUME NEW p, NEW q, NEW i \in Nat, NEW g, NEW x, Before(q, i, g, x),
           \A j \in 1 .. i - 1 : p[j] = q[j]
    PROVE  Before(p, i, g, x)
  BY DEF Before

LEMMA BeforeNext ==
    ASSUME NEW p, NEW n \in Nat, NEW g, NEW x, Before(p, n + 2, g, x)
    PROVE  IF IsImu(p[n + 1]) THEN x = p[n + 1].v ELSE Before(p, n + 1, g, x)
<1>0. n + 1 \in 1 .. (n + 2) - 1 /\ (n + 1) - 1 = n
  OBVIOUS
<1>1. CASE \E j \in 1 .. (n + 2) - 1 : /\ IsImu(p[j]) /\ x = p[j].v
                                       /\ \A m \in j + 1 .. (n + 2) - 1 : ~IsImu(p[m])
  <2>1. PICK j \in 1 .. (n + 2) - 1 : /\ IsImu(p[j]) /\ x = p[j].v
                                      /\ \A m \in j + 1 .. (n + 2) - 1 : ~IsImu(p[m])
    BY <1>1
  <2>2. CASE j = n + 1
    BY <2>1, <2>2
  <2>3. CASE j # n + 1
    <3>1. j \in 1 .. (n + 1) - 1 /\ n + 1 \in j + 1 .. (n + 2) - 1
          /\ \A m \in j + 1 .. (n + 1) - 1 : m \in j + 1 .. (n + 2) - 1
      BY <2>3
    <3> QED
      BY <2>1, <3>1 DEF Before
  <2> QED
    BY <2>2, <2>3
<1>2. CASE g.have /\ (\A m \in 1 .. (n + 2) - 1 : ~IsImu(p[m])) /\ x = g.vec - g.err
  <2>1. ~IsImu(p[n + 1]) /\ \A m \in 1 .. (n + 1) - 1 : m \in 1 .. (n + 2) - 1
    BY <1>0, <1>2
  <2> QED
    BY <1>2, <2>1 DEF Before
<1> QED
  BY <1>1, <1>2 DEF Before

\* A frame is accepted behind the others.
LEMMA AppendKeepsWire ==
    ASSUME NEW p \in Seq(FrameSet), NEW f \in FrameSet, NEW g \in Readers, OnTheWire(p, g),
           f.kind = "full" => f.d = f.v,
           f.kind = "delta" /\ ~f.lost => DeltaFrom(f, p, Len(p) + 1, g)
    PROVE  OnTheWire(Append(p, f), g)
<1> DEFINE q == Append(p, f)
           n == Len(p)
<1>1. /\ n \in Nat /\ Len(q) = n + 1 /\ q[n + 1] = f
      /\ \A i \in 1 .. n : q[i] = p[i]
  BY AppendProperties, LenProperties
<1> HIDE DEF q
<1>2. ASSUME NEW i \in 1 .. n + 1, NEW x, Before(q, i, g, x)
      PROVE  Before(p, i, g, x)
  <2> HIDE DEF n
  <2>1. i \in Nat /\ \A j \in 1 .. i - 1 : j \in 1 .. n
    BY <1>1, <1>2
  <2>2. \A j \in 1 .. i - 1 : p[j] = q[j]
    BY <1>1, <2>1
  <2> QED
    BY <1>2, <2>1, <2>2, BeforeSame
<1>3. ASSUME NEW i \in 1 .. Len(q)
      PROVE  /\ q[i].kind = "full" => q[i].d = q[i].v
             /\ q[i].kind = "delta" /\ ~q[i].lost => DeltaFrom(q[i], q, i, g)
  <2>1. CASE i = n + 1
    BY <1>1, <1>2, <2>1 DEF DeltaFrom
  <2>2. CASE i # n + 1
    <3>1. i \in 1 .. n /\ q[i] = p[i] /\ i \in 1 .. n + 1
      BY <1>1, <1>3, <2>2
    <3> QED
      BY <1>2, <3>1 DEF DeltaFrom, OnTheWire
  <2> QED
    BY <2>1, <2>2
<1>4. OnTheWire(q, g)
  BY <1>3 DEF OnTheWire
<1> QED
  BY <1>4 DEF q

LEMMA AppendIsLast ==
    ASSUME NEW p \in Seq(FrameSet), NEW f \in FrameSet, NEW g, NEW x,
           Before(Append(p, f), Len(Append(p, f)) + 1, g, x)
    PROVE  IF IsImu(f) THEN x = f.v ELSE Before(p, Len(p) + 1, g, x)
<1> DEFINE q == Append(p, f)
           n == Len(p)
<1>1. /\ n \in Nat /\ Len(q) = n + 1 /\ q[n + 1] = f
      /\ \A i \in 1 .. n : q[i] = p[i]
  BY AppendProperties, LenProperties
<1> HIDE DEF q, n
<1>2. Before(q, n + 2, g, x)
  <2>1. (n + 1) + 1 = n + 2
    BY <1>1
  <2> QED
    BY <1>1, <2>1 DEF q, n
<1>3. IF IsImu(q[n + 1]) THEN x = q[n + 1].v ELSE Before(q, n + 1, g, x)
  BY <1>1, <1>2, BeforeNext
<1>4. n + 1 \in Nat /\ \A j \in 1 .. (n + 1) - 1 : p[j] = q[j]
  BY <1>1
<1>5. Before(q, n + 1, g, x) => Before(p, n + 1, g, x)
  BY <1>4, BeforeSame
<1> QED
  BY <1>1, <1>3, <1>5 DEF n

\* The writer's next frame is accepted.
LEMMA AppendKeepsQueue ==
    ASSUME NEW p \in Seq(FrameSet), NEW q \in Seq(FrameSet), q # <<>>, NEW f \in FrameSet,
           NEW g \in Readers, NEW last \in Int, NEW miss \in BOOLEAN, ToWrite(q, p, g, last, miss),
           f.kind = Head(q).kind, f.v = Head(q).v
    PROVE  ToWrite(Tail(q), Append(p, f), g, last, miss /\ ~IsImu(f))
<1> DEFINE t == Tail(q)
           P == Append(p, f)
           now == miss /\ ~IsImu(f)
<1>1. /\ t \in Seq(FrameSet) /\ Len(q) \in Nat /\ Len(q) >= 1 /\ Len(t) = Len(q) - 1
      /\ \A i \in 1 .. Len(q) - 1 : t[i] = q[i + 1]
      /\ Head(q) = q[1] /\ 1 \in 1 .. Len(q)
  BY TailElements
<1>2. IsImu(f) <=> IsImu(q[1])
  BY <1>1 DEF IsImu
<1>3. ASSUME NEW x, Before(P, Len(P) + 1, g, x)
      PROVE  IF IsImu(f) THEN x = f.v ELSE Before(p, Len(p) + 1, g, x)
  BY <1>3, AppendIsLast
<1> HIDE DEF P, t
<1>4. IsImu(q[1]) => Len(t) = 0 /\ f.v = last
  BY <1>1 DEF ToWrite
<1>5. ASSUME NEW i \in 1 .. Len(t), IsImu(t[i])
      PROVE  /\ i = Len(t) /\ t[i].v = last
             /\ t[i].kind = "full" => t[i].d = t[i].v
             /\ t[i].kind = "delta" /\ ~now => DeltaFrom(t[i], P, Len(P) + 1, g)
  <2>1. i + 1 \in 1 .. Len(q) /\ t[i] = q[i + 1] /\ i \in Nat /\ Len(t) # 0
    BY <1>1, <1>5
  <2>2. ~IsImu(f)
    BY <1>2, <1>4, <2>1
  <2>3. /\ i + 1 = Len(q) /\ q[i + 1].v = last
        /\ q[i + 1].kind = "full" => q[i + 1].d = q[i + 1].v
        /\ q[i + 1].kind = "delta" /\ ~miss => DeltaFrom(q[i + 1], p, Len(p) + 1, g)
    BY <1>5, <2>1 DEF ToWrite
  <2>4. i = Len(t)
    BY <1>1, <2>1, <2>3
  <2>5. \A x : Before(P, Len(P) + 1, g, x) => Before(p, Len(p) + 1, g, x)
    BY <1>3, <2>2
  <2>6. ~now => ~miss
    BY <2>2
  <2>7. t[i].kind = "delta" /\ ~now => DeltaFrom(t[i], P, Len(P) + 1, g)
    <3>1. ASSUME t[i].kind = "delta", ~now
          PROVE  DeltaFrom(q[i + 1], p, Len(p) + 1, g)
      BY <2>1, <2>3, <2>6, <3>1
    <3> HIDE DEF now
    <3> QED
      BY <2>1, <2>5, <3>1 DEF DeltaFrom
  <2> QED
    BY <2>1, <2>3, <2>4, <2>7
<1>6. ASSUME \A i \in 1 .. Len(t) : ~IsImu(t[i]), ~now, NEW x \in Int, Before(P, Len(P) + 1, g, x)
      PROVE  x = last
  <2>1. CASE IsImu(f)
    BY <1>2, <1>3, <1>4, <1>6, <2>1
  <2>2. CASE ~IsImu(f)
    <3>1. Before(p, Len(p) + 1, g, x) /\ ~miss
      BY <1>3, <1>6, <2>2
    <3>2. ASSUME NEW i \in 1 .. Len(q)
          PROVE  ~IsImu(q[i])
      <4>1. CASE i = 1
        BY <1>2, <2>2, <4>1
      <4>2. CASE i # 1
        <5>1. i - 1 \in 1 .. Len(t) /\ i - 1 \in 1 .. Len(q) - 1 /\ (i - 1) + 1 = i
          BY <1>1, <3>2, <4>2
        <5>2. t[i - 1] = q[i]
          BY <1>1, <5>1
        <5> QED
          BY <1>6, <5>1, <5>2
      <4> QED
        BY <4>1, <4>2
    <3> QED
      BY <3>1, <3>2 DEF ToWrite
  <2> QED
    BY <2>1, <2>2
<1>7. ToWrite(t, P, g, last, now)
  <2> HIDE DEF now
  <2> QED
    BY <1>5, <1>6 DEF ToWrite
<1> QED
  BY <1>7 DEF P, t

\* The writer's next frame is refused, and is a missing one if it is of the
\* IMU stream.
LEMMA RefuseKeepsQueue ==
    ASSUME NEW p, NEW q \in Seq(FrameSet), q # <<>>, NEW g, NEW last, NEW miss \in BOOLEAN,
           ToWrite(q, p, g, last, miss)
    PROVE  ToWrite(Tail(q), p, g, last, miss \/ IsImu(Head(q)))
<1> DEFINE t == Tail(q)
           now == miss \/ IsImu(q[1])
<1>1. /\ Len(q) \in Nat /\ Len(q) >= 1 /\ Len(t) = Len(q) - 1
      /\ \A i \in 1 .. Len(q) - 1 : t[i] = q[i + 1]
      /\ Head(q) = q[1] /\ 1 \in 1 .. Len(q)
  BY TailElements
<1> HIDE DEF t
<1>2. ~now => ~miss /\ ~IsImu(q[1])
  OBVIOUS
<1> HIDE DEF now
<1>3. ASSUME NEW i \in 1 .. Len(t), IsImu(t[i])
      PROVE  /\ i = Len(t) /\ t[i].v = last
             /\ t[i].kind = "full" => t[i].d = t[i].v
             /\ t[i].kind = "delta" /\ ~now => DeltaFrom(t[i], p, Len(p) + 1, g)
  <2>1. i + 1 \in 1 .. Len(q) /\ t[i] = q[i + 1] /\ i \in Nat
    BY <1>1, <1>3
  <2>2. /\ i + 1 = Len(q) /\ q[i + 1].v = last
        /\ q[i + 1].kind = "full" => q[i + 1].d = q[i + 1].v
        /\ q[i + 1].kind = "delta" /\ ~miss => DeltaFrom(q[i + 1], p, Len(p) + 1, g)
    BY <1>3, <2>1 DEF ToWrite
  <2>3. i = Len(t)
    BY <1>1, <2>1, <2>2
  <2> QED
    BY <1>2, <2>1, <2>2, <2>3
<1>4. ASSUME \A i \in 1 .. Len(t) : ~IsImu(t[i]), ~now, NEW x \in Int, Before(p, Len(p) + 1, g, x)
      PROVE  x = last
  <2>1. ASSUME NEW i \in 1 .. Len(q)
        PROVE  ~IsImu(q[i])
    <3>1. CASE i = 1
      BY <1>2, <1>4, <3>1
    <3>2. CASE i # 1
      <4>1. i - 1 \in 1 .. Len(t) /\ i - 1 \in 1 .. Len(q) - 1 /\ (i - 1) + 1 = i
        BY <1>1, <2>1, <3>2
      <4>2. t[i - 1] = q[i]
        BY <1>1, <4>1
      <4> QED
        BY <1>4, <4>1, <4>2
    <3> QED
      BY <3>1, <3>2
  <2> QED
    BY <1>2, <1>4, <2>1 DEF ToWrite
<1>5. ToWrite(t, p, g, last, now)
  BY <1>3, <1>4 DEF ToWrite
<1> QED
  BY <1>1, <1>5 DEF t, now

\* Record: the vector of the reader is what the frame was built from, but for
\* the error.
LEMMA RecordDoes ==
    ASSUME NEW g \in Readers, NEW f \in FrameSet
    PROVE  /\ Record(g, f) \in Readers
           /\ \/ Record(g, f) = g /\ (IsImu(f) => ~g.have)
              \/ IsImu(f) /\ Record(g, f).vec - Record(g, f).err = f.v
           /\ (/\ f.kind = "full" => f.d = f.v
               /\ f.kind = "delta" /\ ~f.lost /\ g.have => Close(f.d, f.v - (g.vec - g.err))
               /\ Tracked(g)) => Tracked(Record(g, f))
<1>1. /\ g.vec \in Int /\ g.err \in Int /\ g.deltas \in Nat /\ g.have \in BOOLEAN /\ g.gap \in BOOLEAN
      /\ f.d \in Int /\ f.v \in Int
  BY FrameFields DEF Readers
<1> DEFINE gap == f.kind = "delta" /\ (g.gap \/ f.lost)
           vec == IF gap THEN f.v ELSE IF f.kind = "full" THEN f.d ELSE g.vec + f.d
           deltas == IF f.kind = "full" \/ gap THEN 0 ELSE g.deltas + 1
           h == [have |-> TRUE, vec |-> vec, gap |-> gap, err |-> vec - f.v, deltas |-> deltas]
<1>2. gap \in BOOLEAN
  BY Zenon
<1>3. vec \in Int /\ deltas \in Nat
  BY <1>1
<1>4. h.have /\ h.vec = vec /\ h.gap = gap /\ h.err = vec - f.v /\ h.deltas = deltas
  BY Zenon
<1>5. h \in Readers
  <2> HIDE DEF gap, vec, deltas
  <2>1. vec - f.v \in Int /\ TRUE \in BOOLEAN
    BY <1>1, <1>3
  <2>2. h = [have |-> TRUE, vec |-> vec, gap |-> gap, err |-> vec - f.v, deltas |-> deltas]
    OBVIOUS
  <2> QED
    BY <1>2, <1>3, <2>1 DEF Readers
<1>6. Record(g, f) = IF ~IsImu(f) \/ (f.kind = "delta" /\ ~g.have) THEN g ELSE h
  BY Zenon DEF Record
<1>7. CASE ~IsImu(f) \/ (f.kind = "delta" /\ ~g.have)
  <2>1. Record(g, f) = g
    BY <1>6, <1>7
  <2>2. IsImu(f) => ~g.have
    BY <1>7
  <2> QED
    BY <2>1, <2>2
<1>8. CASE IsImu(f) /\ ~(f.kind = "delta" /\ ~g.have)
  <2>1. Record(g, f) = h
    BY <1>6, <1>8, Zenon
  <2>2. h.vec - h.err = f.v
    <3>1. vec - (vec - f.v) = f.v
      <4> HIDE DEF vec
      <4> QED
        BY <1>1, <1>3
    <3> QED
      BY <1>4, <3>1
  <2>3. ASSUME f.kind = "full" => f.d = f.v, Tracked(g),
               f.kind = "delta" /\ ~f.lost /\ g.have => Close(f.d, f.v - (g.vec - g.err)), ~gap
        PROVE  vec - f.v <= deltas /\ -(vec - f.v) <= deltas
    <3>1. CASE f.kind = "full"
      BY <1>1, <2>3, <3>1
    <3>2. CASE f.kind # "full"
      <4>1. f.kind = "delta" /\ g.have /\ ~g.gap /\ ~f.lost
        BY <1>8, <2>3, <3>2 DEF IsImu
      <4>2. g.err <= g.deltas /\ -g.err <= g.deltas /\ f.d - (f.v - (g.vec - g.err)) \in -1 .. 1
        BY <2>3, <4>1 DEF Tracked, Close
      <4>3. vec = g.vec + f.d /\ deltas = g.deltas + 1
        BY <2>3, <4>1
      <4> HIDE DEF vec, deltas
      <4> QED
        BY <1>1, <4>2, <4>3
    <3> QED
      BY <3>1, <3>2
  <2> HIDE DEF gap, vec, deltas, h
  <2>4. ASSUME f.kind = "full" => f.d = f.v, Tracked(g),
               f.kind = "delta" /\ ~f.lost /\ g.have => Close(f.d, f.v - (g.vec - g.err))
        PROVE  Tracked(h)
    BY <1>4, <2>3, <2>4 DEF Tracked
  <2> QED
    BY <1>5, <1>8, <2>1, <2>2, <2>4
<1> QED
  BY <1>7, <1>8

\* The reader takes the first frame off the wire: what was read before the
\* others is the same.
LEMMA ReadNext ==
    ASSUME NEW p \in Seq(FrameSet), p # <<>>, NEW g \in Readers, NEW i \in Nat, i >= 1, NEW x,
           i <= Len(Tail(p)) + 1, Before(Tail(p), i, Record(g, p[1]), x)
    PROVE  Before(p, i + 1, g, x)
<1> DEFINE t == Tail(p)
           f == p[1]
           h == Record(g, f)
<1>1. /\ f \in FrameSet /\ Len(p) \in Nat /\ Len(p) >= 1 /\ Len(t) = Len(p) - 1
      /\ \A k \in 1 .. Len(p) - 1 : t[k] = p[k + 1]
  BY TailElements
<1>2. \/ h = g /\ (IsImu(f) => ~g.have)
      \/ IsImu(f) /\ h.vec - h.err = f.v
  BY <1>1, RecordDoes
<1> HIDE DEF t, f, h
<1>3. \A k \in 1 .. i - 1 : t[k] = p[k + 1]
  BY <1>1 DEF t
<1>4. Before(t, i, h, x)
  BY DEF t, f, h
<1>5. CASE \E j \in 1 .. i - 1 : IsImu(t[j]) /\ (\A m \in j + 1 .. i - 1 : ~IsImu(t[m])) /\ x = t[j].v
  <2>1. PICK j \in 1 .. i - 1 : IsImu(t[j]) /\ (\A m \in j + 1 .. i - 1 : ~IsImu(t[m])) /\ x = t[j].v
    BY <1>5
  <2>2. j + 1 \in 1 .. (i + 1) - 1 /\ IsImu(p[j + 1]) /\ x = p[j + 1].v
    BY <1>3, <2>1
  <2>3. ASSUME NEW m \in (j + 1) + 1 .. (i + 1) - 1
        PROVE  ~IsImu(p[m])
    <3>1. m - 1 \in j + 1 .. i - 1 /\ m - 1 \in 1 .. i - 1 /\ (m - 1) + 1 = m
      BY <2>3
    <3> QED
      BY <1>3, <2>1, <3>1
  <2> QED
    BY <2>2, <2>3 DEF Before
<1>6. CASE h.have /\ (\A m \in 1 .. i - 1 : ~IsImu(t[m])) /\ x = h.vec - h.err
  <2>1. ASSUME NEW m \in 2 .. (i + 1) - 1
        PROVE  ~IsImu(p[m])
    <3>1. m - 1 \in 1 .. i - 1 /\ (m - 1) + 1 = m
      BY <2>1
    <3> QED
      BY <1>3, <1>6, <3>1
  <2>2. CASE IsImu(f) /\ h.vec - h.err = f.v
    <3>1. 1 \in 1 .. (i + 1) - 1 /\ 1 + 1 = 2 /\ IsImu(p[1]) /\ x = p[1].v
      BY <1>6, <2>2 DEF f
    <3> QED
      BY <2>1, <3>1 DEF Before
  <2>3. CASE h = g /\ (IsImu(f) => ~g.have)
    <3>1. g.have /\ x = g.vec - g.err /\ ~IsImu(p[1])
      BY <1>6, <2>3 DEF f
    <3>2. \A m \in 1 .. (i + 1) - 1 : m = 1 \/ m \in 2 .. (i + 1) - 1
      OBVIOUS
    <3>3. \A m \in 1 .. (i + 1) - 1 : ~IsImu(p[m])
      BY <2>1, <3>1, <3>2
    <3> QED
      BY <3>1, <3>3 DEF Before
  <2> QED
    BY <1>2, <2>2, <2>3
<1> QED
  BY <1>4, <1>5, <1>6 DEF Before

LEMMA ReadKeepsStream ==
    ASSUME NEW p \in Seq(FrameSet), p # <<>>, NEW g \in Readers, NEW q, NEW last, NEW miss,
           OnTheWire(p, g), ToWrite(q, p, g, last, miss), Tracked(g)
    PROVE  /\ OnTheWire(Tail(p), Record(g, p[1]))
           /\ ToWrite(q, Tail(p), Record(g, p[1]), last, miss)
           /\ Tracked(Record(g, p[1]))
<1> DEFINE t == Tail(p)
           h == Record(g, p[1])
<1>1. /\ p[1] \in FrameSet /\ Len(p) \in Nat /\ Len(p) >= 1 /\ Len(t) = Len(p) - 1 /\ Len(t) + 1 = Len(p)
      /\ \A k \in 1 .. Len(p) - 1 : t[k] = p[k + 1]
      /\ 1 \in 1 .. Len(p)
  BY TailElements
<1>2. ASSUME NEW i \in Nat, i >= 1, i <= Len(t) + 1, NEW x, Before(t, i, h, x)
      PROVE  Before(p, i + 1, g, x)
  BY <1>2, ReadNext
<1>3. Tracked(h)
  <2>1. /\ p[1].kind = "full" => p[1].d = p[1].v
        /\ p[1].kind = "delta" /\ ~p[1].lost => DeltaFrom(p[1], p, 1, g)
    BY <1>1 DEF OnTheWire
  <2>2. g.vec - g.err \in Int
    BY DEF Readers
  <2>3. g.have => Before(p, 1, g, g.vec - g.err)
    BY DEF Before
  <2>4. p[1].kind = "delta" /\ ~p[1].lost /\ g.have => Close(p[1].d, p[1].v - (g.vec - g.err))
    BY <2>1, <2>2, <2>3 DEF DeltaFrom
  <2> QED
    BY <1>1, <2>1, <2>4, RecordDoes
<1> HIDE DEF t, h
<1>4. ASSUME NEW i \in 1 .. Len(t)
      PROVE  /\ t[i].kind = "full" => t[i].d = t[i].v
             /\ t[i].kind = "delta" /\ ~t[i].lost => DeltaFrom(t[i], t, i, h)
  <2>1. i + 1 \in 1 .. Len(p) /\ t[i] = p[i + 1] /\ i \in Nat /\ i >= 1 /\ i <= Len(t) + 1
    BY <1>1
  <2>2. /\ p[i + 1].kind = "full" => p[i + 1].d = p[i + 1].v
        /\ p[i + 1].kind = "delta" /\ ~p[i + 1].lost => DeltaFrom(p[i + 1], p, i + 1, g)
    BY <2>1 DEF OnTheWire
  <2> QED
    BY <1>2, <2>1, <2>2 DEF DeltaFrom
<1>5. Len(t) + 1 \in Nat /\ Len(t) + 1 >= 1 /\ (Len(t) + 1) + 1 = Len(p) + 1
  BY <1>1
<1>6. \A x : Before(t, Len(t) + 1, h, x) => Before(p, Len(p) + 1, g, x)
  BY <1>2, <1>5
<1>7. ToWrite(q, t, h, last, miss)
  BY <1>6 DEF ToWrite, DeltaFrom
<1>8. OnTheWire(t, h)
  BY <1>4 DEF OnTheWire
<1> QED
  BY <1>3, <1>7, <1>8 DEF t, h

----------------------------------------------------------------------------
\* What is accepted is last in the active buffer, what is put on the wire was
\* first in the other.
LEMMA QueuedAppend ==
    ASSUME NEW p \in Seq(FrameSet), NEW a \in Seq(FrameSet), NEW f \in FrameSet, NEW r \in Nat,
           NEW d, NEW s, Queued(p, r, d, s, a)
    PROVE  Queued(Append(p, f), r, d, s, Append(a, f))
<1> DEFINE P == Append(p, f)
           A == Append(a, f)
<1>1. /\ Len(p) \in Nat /\ Len(P) = Len(p) + 1 /\ P[Len(p) + 1] = f
      /\ \A i \in 1 .. Len(p) : P[i] = p[i]
  BY AppendProperties, LenProperties
<1>2. /\ Len(a) \in Nat /\ Len(A) = Len(a) + 1 /\ A[Len(a) + 1] = f
      /\ \A i \in 1 .. Len(a) : A[i] = a[i]
  BY AppendProperties, LenProperties
<1> HIDE DEF P, A
<1>3. Len(p) = r + Len(a) /\ \A i \in 1 .. Len(p) : p[i] = IF i <= r THEN d[s + i] ELSE a[i - r]
  BY DEF Queued
<1>4. ASSUME NEW i \in 1 .. Len(P)
      PROVE  P[i] = IF i <= r THEN d[s + i] ELSE A[i - r]
  <2>1. CASE i = Len(p) + 1
    <3>1. ~(i <= r) /\ i - r = Len(a) + 1
      BY <1>1, <1>2, <1>3, <2>1
    <3> QED
      BY <1>1, <1>2, <2>1, <3>1
  <2>2. CASE i # Len(p) + 1 /\ i <= r
    <3>1. i \in 1 .. Len(p)
      BY <1>1, <1>4, <2>2
    <3> QED
      BY <1>1, <1>3, <2>2, <3>1
  <2>3. CASE i # Len(p) + 1 /\ ~(i <= r)
    <3>1. i \in 1 .. Len(p) /\ i - r \in 1 .. Len(a)
      BY <1>1, <1>2, <1>3, <1>4, <2>3
    <3> QED
      BY <1>1, <1>2, <1>3, <2>3, <3>1
  <2> QED
    BY <2>1, <2>2, <2>3
<1>5. Len(P) = r + Len(A)
  BY <1>1, <1>2, <1>3
<1>6. Queued(P, r, d, s, A)
  BY <1>4, <1>5 DEF Queued
<1> QED
  BY <1>6 DEF P, A

LEMMA QueuedTail ==
    ASSUME NEW p \in Seq(FrameSet), NEW a \in Seq(FrameSet), NEW r \in Nat, r >= 1,
           NEW d, NEW s \in Nat, Queued(p, r, d, s, a)
    PROVE  p # <<>> /\ p[1] = d[s + 1] /\ Queued(Tail(p), r - 1, d, s + 1, a)
<1>1. Len(p) = r + Len(a) /\ \A i \in 1 .. Len(p) : p[i] = IF i <= r THEN d[s + i] ELSE a[i - r]
  BY DEF Queued
<1>2. Len(p) \in Nat /\ Len(a) \in Nat
  BY LenProperties
<1>3. p # <<>>
  BY <1>1, <1>2, EmptySequence
<1> DEFINE t == Tail(p)
<1>4. Len(t) = Len(p) - 1 /\ \A i \in 1 .. Len(p) - 1 : t[i] = p[i + 1]
  BY <1>3, TailElements
<1> HIDE DEF t
<1>5. ASSUME NEW i \in 1 .. Len(t)
      PROVE  t[i] = IF i <= r - 1 THEN d[(s + 1) + i] ELSE a[i - (r - 1)]
  <2>1. i + 1 \in 1 .. Len(p) /\ i \in 1 .. Len(p) - 1 /\ i \in Nat
    BY <1>2, <1>4, <1>5
  <2>2. t[i] = IF i + 1 <= r THEN d[s + (i + 1)] ELSE a[(i + 1) - r]
    BY <1>1, <1>4, <2>1
  <2>3. (i + 1 <= r <=> i <= r - 1) /\ s + (i + 1) = (s + 1) + i /\ (i + 1) - r = i - (r - 1)
    BY <2>1
  <2> QED
    BY <2>2, <2>3
<1>6. Len(t) = (r - 1) + Len(a)
  BY <1>1, <1>2, <1>4
<1>7. Queued(t, r - 1, d, s + 1, a)
  BY <1>5, <1>6 DEF Queued
<1>8. p[1] = d[s + 1]
  BY <1>1, <1>2
<1> QED
  BY <1>3, <1>7, <1>8 DEF t

LEMMA QueuedSwap ==
    ASSUME NEW p \in Seq(FrameSet), NEW a \in Seq(FrameSet), NEW d, NEW s, Queued(p, 0, d, s, a)
    PROVE  Queued(p, Len(a), a, 0, <<>>)
<1>1. Len(p) = Len(a) /\ Len(a) \in Nat /\ Len(<<>>) = 0
  BY LenProperties, EmptySequence DEF Queued
<1>2. ASSUME NEW i \in 1 .. Len(p)
      PROVE  i <= Len(a) /\ p[i] = a[0 + i]
  <2>1. ~(i <= 0) /\ i - 0 = i /\ 0 + i = i /\ i <= Len(a)
    BY <1>1, <1>2
  <2>2. p[i] = a[i - 0]
    BY <2>1 DEF Queued
  <2> QED
    BY <2>1, <2>2
<1>3. Len(p) = Len(a) + Len(<<>>)
  BY <1>1
<1> QED
  BY <1>2, <1>3 DEF Queued

LEMMA QueuedRest ==
    ASSUME NEW p \in Seq(FrameSet), NEW a \in Seq(FrameSet), NEW d, NEW s, NEW e, NEW t, Queued(p, 0, d, s, a)
    PROVE  Queued(p, 0, e, t, a)
<1>1. \A i \in 1 .. Len(p) : ~(i <= 0)
  BY LenProperties
<1> QED
  BY <1>1 DEF Queued

\* Together they are what was accepted.
LEMMA QueuedIsAll ==
    ASSUME NEW p \in Seq(FrameSet), NEW a \in Seq(FrameSet), NEW d \in Seq(FrameSet), NEW s \in 0 .. Len(d),
           Queued(p, Len(d) - s, d, s, a)
    PROVE  p = SubSeq(d, s + 1, Len(d)) \o a
<1> DEFINE r == Len(d) - s
           b == SubSeq(d, s + 1, Len(d))
           c == b \o a
<1>1. Len(d) \in Nat /\ s \in Nat /\ s <= Len(d) /\ r \in Nat /\ Len(a) \in Nat /\ Len(p) \in Nat
  BY LenProperties
<1>2. b \in Seq(FrameSet) /\ Len(b) = r /\ \A i \in 1 .. r : b[i] = d[s + i]
  <2>1. s + 1 \in 1 .. Len(d) + 1 /\ Len(d) \in (s + 1) - 1 .. Len(d)
    BY <1>1
  <2>2. \A i \in s + 1 .. Len(d) : d[i] \in FrameSet
    <3>1. \A i \in s + 1 .. Len(d) : i \in 1 .. Len(d)
      BY <1>1
    <3> QED
      BY <3>1, ElementOfSeq
  <2>3. b \in Seq(FrameSet) /\ Len(b) = Len(d) - (s + 1) + 1
        /\ \A i \in 1 .. Len(d) - (s + 1) + 1 : b[i] = d[(s + 1) + i - 1]
    BY <1>1, <2>1, <2>2, SubSeqProperties
  <2>4. Len(d) - (s + 1) + 1 = r
    BY <1>1
  <2>5. \A i \in 1 .. r : (s + 1) + i - 1 = s + i
    BY <1>1
  <2> HIDE DEF b, r
  <2> QED
    BY <2>3, <2>4, <2>5
<1> HIDE DEF b, r
<1>3. /\ c \in Seq(FrameSet) /\ Len(c) = r + Len(a)
      /\ \A i \in 1 .. r + Len(a) : c[i] = IF i <= r THEN b[i] ELSE a[i - r]
  BY <1>2, ConcatProperties
<1>4. /\ Len(p) = r + Len(a)
      /\ \A i \in 1 .. Len(p) : p[i] = IF i <= r THEN d[s + i] ELSE a[i - r]
  BY DEF Queued, r
<1> HIDE DEF c
<1>5. \A i \in 1 .. Len(p) : p[i] = c[i]
  <2>1. ASSUME NEW i \in 1 .. Len(p)
        PROVE  p[i] = c[i]
    <3>1. i \in 1 .. r + Len(a) /\ (i <= r => i \in 1 .. r)
      BY <1>1, <1>4, <2>1
    <3> QED
      BY <1>2, <1>3, <1>4, <2>1, <3>1
  <2> QED
    BY <2>1
<1>6. p = c
  BY <1>3, <1>4, <1>5, SeqEqual
<1> QED
  BY <1>6 DEF b, c

----------------------------------------------------------------------------
LEMMA ChannelStart == ChannelInit => DownInv
<1> SUFFICES ASSUME ChannelInit PROVE DownInv
  OBVIOUS
<1> DEFINE none == <<>>
<1>1. none \in Seq(FrameSet) /\ Len(none) = 0
  BY EmptySequence
<1> HIDE DEF none
<1>2. /\ active = 0 /\ dma = 1 /\ busy = FALSE /\ buf = [i \in {0, 1} |-> none]
      /\ buf_lens = [i \in {0, 1} |-> 0] /\ sent = 0 /\ handed = none
      /\ todo = [w \in Writers |-> none] /\ loaded = [w \in Writers |-> -1]
      /\ overflow = 0 /\ refused = 0 /\ pending = none
      /\ cur = 0 /\ prev = 0 /\ counter = 0 /\ offered \in Offers
  BY DEF ChannelInit, none
<1>3. busy \in BOOLEAN /\ first \in BOOLEAN /\ missing \in BOOLEAN /\ download \in BOOLEAN
  BY Zenon DEF ChannelInit
<1>4. /\ gcs = [have |-> FALSE, vec |-> 0, gap |-> FALSE, deltas |-> 0, err |-> 0]
      /\ gcs \in Readers /\ ~gcs.have
  BY DEF ChannelInit, Readers
<1>5. /\ \A i \in {0, 1} : buf[i] = none /\ buf_lens[i] = 0
      /\ \A w \in Writers : todo[w] = none /\ loaded[w] = -1
  BY <1>2
<1>6. "xfer" \in Writers /\ "telem" \in Writers
  BY DEF Writers
<1>7. buf \in [{0, 1} -> Seq(FrameSet)] /\ buf_lens \in [{0, 1} -> Int]
      /\ todo \in [Writers -> Seq(FrameSet)] /\ loaded \in [Writers -> -1 .. MaxDrops]
  <2>1. -1 \in -1 .. MaxDrops
    BY ChannelNumbers
  <2> QED
    BY <1>1, <1>2, <2>1
<1>8. DownTypes
  <2>1. 0 \in 0 .. MaxDrops /\ 0 \in 0 .. FullEvery - 1 /\ sent \in 0 .. Len(buf[dma])
    BY <1>1, <1>2, <1>5, ChannelNumbers
  <2> QED
    BY <1>1, <1>2, <1>3, <1>4, <1>7, <2>1 DEF DownTypes, Readers
<1>9. DropInv
  BY <1>2, <1>5 DEF DropInv
<1>10. RoomInv
  BY <1>1, <1>5, <1>6, ChannelNumbers DEF RoomInv
<1>11. AcceptInv
  <2>1. Rest(busy, buf[dma], sent) = 0 /\ dma = 1 - active /\ ~busy
    BY <1>2 DEF Rest
  <2>2. buf[active] = none
    BY <1>2, <1>5
  <2>3. Queued(none, 0, buf[dma], sent, none)
    BY <1>1 DEF Queued
  <2> QED
    BY <1>2, <2>1, <2>2, <2>3 DEF AcceptInv
<1>12. StreamInv
  <2>1. OnTheWire(none, gcs) /\ Tracked(gcs)
    BY <1>1, <1>4 DEF OnTheWire, Tracked
  <2>2. ToWrite(none, none, gcs, prev, missing)
    <3>1. ASSUME NEW x, Before(none, Len(none) + 1, gcs, x)
          PROVE  FALSE
      BY <1>1, <1>4, <3>1 DEF Before
    <3> QED
      BY <1>1, <3>1 DEF ToWrite
  <2>3. Silent
    BY <1>1, <1>5 DEF Silent
  <2> QED
    BY <1>2, <1>5, <1>6, <2>1, <2>2, <2>3 DEF StreamInv
<1> QED
  BY <1>8, <1>9, <1>10, <1>11, <1>12 DEF DownInv

\* What a writer has to write.
LEMMA TodoOf ==
    ASSUME DownTypes, NEW w \in Writers, NEW q \in Seq(FrameSet), todo' = [todo EXCEPT ![w] = q]
    PROVE  /\ todo' \in [Writers -> Seq(FrameSet)]
           /\ \A u \in Writers : todo'[u] = IF u = w THEN q ELSE todo[u]
  BY DEF DownTypes

\* Who writes what: the transfer task its chunks, the telemetry task alone the
\* IMU stream.
LEMMA NextFrame ==
    ASSUME DownTypes, NEW w \in Writers, todo[w] # <<>>
    PROVE  /\ Head(todo[w]) \in FrameSet /\ Tail(todo[w]) \in Seq(FrameSet)
           /\ Head(todo[w]) = todo[w][1] /\ 1 \in 1 .. Len(todo[w])
           /\ Len(Tail(todo[w])) = Len(todo[w]) - 1 /\ Len(todo[w]) \in Nat
           /\ \A i \in 1 .. Len(Tail(todo[w])) : i + 1 \in 1 .. Len(todo[w]) /\ Tail(todo[w])[i] = todo[w][i + 1]
<1>1. todo[w] \in Seq(FrameSet)
  BY DEF DownTypes
<1> DEFINE q == todo[w]
<1>2. /\ Tail(q) \in Seq(FrameSet) /\ Len(q) \in Nat /\ Len(q) >= 1 /\ Len(Tail(q)) = Len(q) - 1
      /\ \A i \in 1 .. Len(q) - 1 : Tail(q)[i] = q[i + 1]
      /\ Head(q) = q[1] /\ q[1] \in FrameSet
  BY <1>1, TailElements
<1> HIDE DEF q
<1>3. 1 \in 1 .. Len(q) /\ \A i \in 1 .. Len(Tail(q)) : i + 1 \in 1 .. Len(q) /\ Tail(q)[i] = q[i + 1]
  BY <1>2
<1> QED
  BY <1>2, <1>3 DEF q

\* After a writer has dropped its next frame, or has nothing new of a kind it
\* does not write, the others' frames are what they were.
LEMMA StillSilent ==
    ASSUME DownTypes, Silent, NEW w \in Writers, NEW q \in Seq(FrameSet), todo' = [todo EXCEPT ![w] = q],
           w # "telem" => \A i \in 1 .. Len(q) : ~IsImu(q[i])
    PROVE  Silent'
  BY TodoOf DEF Silent

LEMMA StillData ==
    ASSUME DownTypes, NEW w \in Writers, NEW q \in Seq(FrameSet), todo' = [todo EXCEPT ![w] = q],
           \A i \in 1 .. Len(todo["xfer"]) : todo["xfer"][i].kind = "data",
           w = "xfer" => \A i \in 1 .. Len(q) : q[i].kind = "data"
    PROVE  \A i \in 1 .. Len(todo'["xfer"]) : todo'["xfer"][i].kind = "data"
  BY TodoOf DEF Writers

\* A frame written, with the mark of what is missing before it.
Marked(f, miss) == [f EXCEPT !.lost = IsImu(f) /\ miss]

LEMMA MarkedIs ==
    ASSUME NEW f \in FrameSet, NEW miss \in BOOLEAN
    PROVE  /\ Marked(f, miss) \in FrameSet
           /\ Marked(f, miss).kind = f.kind /\ Marked(f, miss).d = f.d /\ Marked(f, miss).v = f.v
           /\ IsImu(Marked(f, miss)) <=> IsImu(f)
           /\ Len1(Marked(f, miss)) = Len1(f)
           /\ Marked(f, miss).kind = "delta" /\ ~Marked(f, miss).lost => ~miss
<1> DEFINE lost == IsImu(f) /\ miss
           h == Marked(f, miss)
<1>1. lost \in BOOLEAN
  BY Zenon
<1>2. h = [f EXCEPT !.lost = lost]
  BY DEF Marked
<1> HIDE DEF lost, h
<1>3. h \in FrameSet /\ h.kind = f.kind /\ h.d = f.d /\ h.v = f.v
  BY <1>1, <1>2 DEF FrameSet
<1>4. h.lost = lost
  BY <1>2 DEF FrameSet
<1>5. (IsImu(h) <=> IsImu(f)) /\ Len1(h) = Len1(f)
  BY <1>3 DEF IsImu, Len1
<1>6. h.kind = "delta" /\ ~h.lost => ~miss
  BY <1>3, <1>4, Zenon DEF lost, IsImu
<1> QED
  BY <1>3, <1>5, <1>6 DEF h

LEMMA LengthOf ==
    ASSUME NEW f
    PROVE  Len1(f) \in Nat /\ Len1(f) >= 1 /\ Len1(f) <= Reserve /\ (f.kind = "data" => Len1(f) = DataLen)
  BY ChannelNumbers DEF Len1

\* _write_channel: the frame is last in the active buffer.
LEMMA WriteKeeps ==
    ASSUME DownInv, NEW w \in Writers, Write(w)
    PROVE  DownInv'
<1> DEFINE q == todo[w]
           f == Marked(Head(q), missing)
           a == Append(buf[active], f)
<1>1. DownTypes /\ DropInv /\ RoomInv /\ AcceptInv /\ StreamInv
  BY DEF DownInv
<1>2. /\ q # <<>> /\ Fits(w)
      /\ buf' = [buf EXCEPT ![active] = a]
      /\ buf_lens' = [buf_lens EXCEPT ![active] = @ + Len1(f)]
      /\ pending' = Append(pending, f)
      /\ missing' = (missing /\ ~IsImu(f))
      /\ todo' = [todo EXCEPT ![w] = Tail(q)]
      /\ UNCHANGED <<offered, active, busy, dma, sent, handed, loaded, overflow, refused, cur, prev,
                     first, counter, download, gcs>>
  BY DEF Write, Marked, telemVars
<1>3. /\ Head(q) \in FrameSet /\ Tail(q) \in Seq(FrameSet)
      /\ Head(q) = q[1] /\ 1 \in 1 .. Len(q) /\ q \in Seq(FrameSet)
      /\ \A i \in 1 .. Len(Tail(q)) : i + 1 \in 1 .. Len(q) /\ Tail(q)[i] = q[i + 1]
  BY <1>1, <1>2, NextFrame DEF DownTypes
<1>4. /\ active \in {0, 1} /\ dma \in {0, 1} /\ buf \in [{0, 1} -> Seq(FrameSet)]
      /\ buf[active] \in Seq(FrameSet) /\ buf[dma] \in Seq(FrameSet)
      /\ buf_lens \in [{0, 1} -> Int] /\ missing \in BOOLEAN /\ pending \in Seq(FrameSet)
      /\ gcs \in Readers /\ prev \in Int /\ dma = 1 - active /\ dma # active
      /\ sent \in 0 .. Len(buf[dma])
  <2>1. /\ active \in {0, 1} /\ dma \in {0, 1} /\ buf \in [{0, 1} -> Seq(FrameSet)]
        /\ buf_lens \in [{0, 1} -> Int] /\ pending \in Seq(FrameSet)
        /\ prev \in Int /\ dma = 1 - active /\ sent \in 0 .. Len(buf[dma])
    BY <1>1 DEF DownTypes, AcceptInv
  <2>2. missing \in BOOLEAN /\ gcs \in Readers
    BY <1>1, Zenon DEF DownTypes, Readers
  <2>3. buf[active] \in Seq(FrameSet) /\ buf[dma] \in Seq(FrameSet) /\ dma # active
    BY <2>1
  <2> QED
    BY <2>1, <2>2, <2>3
<1>5. /\ f \in FrameSet /\ f.kind = Head(q).kind /\ f.d = Head(q).d /\ f.v = Head(q).v
      /\ IsImu(f) <=> IsImu(Head(q))
      /\ Len1(f) = Len1(Head(q))
      /\ f.kind = "delta" /\ ~f.lost => ~missing
  BY <1>3, <1>4, MarkedIs
<1> HIDE DEF q, f
<1>6. /\ a \in Seq(FrameSet) /\ Len(a) = Len(buf[active]) + 1 /\ a[Len(buf[active]) + 1] = f
      /\ \A i \in 1 .. Len(buf[active]) : a[i] = buf[active][i]
      /\ Len(buf[active]) \in Nat
  BY <1>4, <1>5, AppendProperties, LenProperties
<1>7. pending' \in Seq(FrameSet)
  BY <1>2, <1>4, <1>5, AppendProperties
<1> HIDE DEF a
<1>8. /\ buf'[active] = a /\ buf'[dma] = buf[dma] /\ buf' \in [{0, 1} -> Seq(FrameSet)]
      /\ \A i \in {0, 1} : i # active => buf'[i] = buf[i]
  BY <1>2, <1>4, <1>6
<1>9. /\ buf_lens' \in [{0, 1} -> Int] /\ buf_lens'[active] = buf_lens[active] + Len1(f)
      /\ \A i \in {0, 1} : i # active => buf_lens'[i] = buf_lens[i]
  <2>1. Len1(f) \in Nat
    BY LengthOf
  <2>2. buf_lens[active] \in Int
    BY <1>4
  <2>3. buf_lens[active] + Len1(f) \in Int
    BY <2>1, <2>2
  <2> QED
    BY <1>2, <1>4, <2>3
<1>10. /\ todo' \in [Writers -> Seq(FrameSet)]
       /\ \A u \in Writers : todo'[u] = IF u = w THEN Tail(q) ELSE todo[u]
  BY <1>1, <1>2, <1>3, TodoOf
<1>11. missing' \in BOOLEAN
  BY <1>2, <1>4, Zenon
<1>12. DownTypes'
  <2>1. sent' \in 0 .. Len(buf'[dma'])
    BY <1>2, <1>4, <1>8
  <2> QED
    BY <1>1, <1>2, <1>7, <1>8, <1>9, <1>10, <1>11, <2>1 DEF DownTypes
<1>13. DropInv'
  BY <1>1, <1>2 DEF DropInv
<1>14. RoomInv'
  <2>1. "xfer" \in Writers /\ \A i \in 1 .. Len(todo["xfer"]) : todo["xfer"][i].kind = "data"
    BY <1>1 DEF RoomInv, Writers
  <2>2. \A i \in 1 .. Len(todo'["xfer"]) : todo'["xfer"][i].kind = "data"
    <3>1. w = "xfer" => \A i \in 1 .. Len(Tail(q)) : Tail(q)[i].kind = "data"
      BY <1>3, <2>1 DEF q
    <3> QED
      BY <1>1, <1>2, <1>3, <2>1, <3>1, StillData
  <2>3. /\ buf_lens[active] \in 0 .. BufSize
        /\ ~HasData(buf[active]) => buf_lens[active] <= BufSize - Reserve
    BY <1>1, <1>4 DEF RoomInv
  <2>4. buf_lens[active] + Len1(f) <= Cap(w) /\ Len1(f) \in Nat
    <3>1. buf_lens[active] + Len1(Head(q)) <= Cap(w)
      BY <1>2 DEF Fits, q
    <3> QED
      BY <1>5, <3>1, LengthOf
  <2>5. Cap(w) <= BufSize /\ (w # "xfer" => Cap(w) <= BufSize - Reserve) /\ Cap(w) \in Int
    BY ChannelNumbers DEF Cap
  <2>6. buf_lens'[active] \in 0 .. BufSize
    BY <1>9, <2>3, <2>4, <2>5, ChannelNumbers
  <2>7. ~HasData(buf'[active]) => buf_lens'[active] <= BufSize - Reserve
    <3>1. ASSUME ~HasData(a)
          PROVE  w # "xfer"
      <4>1. Len(a) \in DOMAIN a /\ f = a[Len(a)]
        <5>1. DOMAIN a = 1 .. Len(a)
          BY <1>6, LenProperties
        <5> QED
          BY <1>6, <5>1
      <4>2. f.kind # "data"
        BY <3>1, <4>1 DEF HasData
      <4> QED
        BY <1>3, <1>5, <2>1, <4>2 DEF q
    <3> QED
      BY <1>8, <1>9, <2>3, <2>4, <2>5, <3>1, ChannelNumbers
  <2>8. \A i \in {0, 1} : /\ buf_lens'[i] \in 0 .. BufSize
                          /\ ~HasData(buf'[i]) => buf_lens'[i] <= BufSize - Reserve
    <3>1. ASSUME NEW i \in {0, 1}, i # active
          PROVE  /\ buf_lens'[i] \in 0 .. BufSize
                 /\ ~HasData(buf'[i]) => buf_lens'[i] <= BufSize - Reserve
      <4>1. buf_lens'[i] = buf_lens[i] /\ buf'[i] = buf[i]
        BY <1>8, <1>9, <3>1
      <4> QED
        BY <1>1, <3>1, <4>1 DEF RoomInv
    <3> QED
      BY <2>6, <2>7, <3>1
  <2> QED
    BY <2>2, <2>8 DEF RoomInv
<1>15. AcceptInv'
  <2> DEFINE r == Rest(busy, buf[dma], sent)
  <2>1. r \in Nat
    BY <1>4, LenProperties DEF Rest
  <2>2. Queued(pending, r, buf[dma], sent, buf[active])
    BY <1>1 DEF AcceptInv
  <2>3. r = Rest(busy', buf'[dma'], sent')
    BY <1>2, <1>8
  <2> HIDE DEF r
  <2>4. Queued(Append(pending, f), r, buf[dma], sent, Append(buf[active], f))
    BY <1>4, <1>5, <2>1, <2>2, QueuedAppend
  <2> QED
    BY <1>1, <1>2, <1>4, <1>8, <2>3, <2>4 DEF AcceptInv, a
<1>16. StreamInv'
  <2>1. /\ OnTheWire(pending, gcs) /\ ToWrite(todo["telem"], pending, gcs, prev, missing)
        /\ Silent /\ Tracked(gcs) /\ "telem" \in Writers
    BY <1>1 DEF StreamInv, Writers
  <2>2. Silent'
    <3>1. w # "telem" => \A i \in 1 .. Len(Tail(q)) : ~IsImu(Tail(q)[i])
      BY <1>3, <2>1 DEF Silent, q
    <3> QED
      BY <1>1, <1>2, <1>3, <2>1, <3>1, StillSilent
  <2>3. CASE w = "telem"
    <3>1. ToWrite(q, pending, gcs, prev, missing)
      BY <2>1, <2>3 DEF q
    <3>2. f.kind = "full" => f.d = f.v
      BY <1>3, <1>5, <3>1 DEF ToWrite, IsImu
    <3>3. f.kind = "delta" /\ ~f.lost => DeltaFrom(f, pending, Len(pending) + 1, gcs)
      BY <1>3, <1>5, <3>1 DEF ToWrite, IsImu, DeltaFrom
    <3>4. OnTheWire(Append(pending, f), gcs)
      BY <1>4, <1>5, <2>1, <3>2, <3>3, AppendKeepsWire
    <3>5. ToWrite(Tail(q), Append(pending, f), gcs, prev, missing /\ ~IsImu(f))
      BY <1>2, <1>3, <1>4, <1>5, <3>1, AppendKeepsQueue
    <3>6. todo'["telem"] = Tail(q)
      BY <1>10, <2>1, <2>3
    <3> QED
      BY <1>2, <2>1, <2>2, <3>4, <3>5, <3>6 DEF StreamInv
  <2>4. CASE w # "telem"
    <3>1. ~IsImu(f) /\ f.kind # "full" /\ f.kind # "delta"
      BY <1>3, <1>5, <2>1, <2>4 DEF Silent, q, IsImu
    <3>2. OnTheWire(Append(pending, f), gcs)
      BY <1>4, <1>5, <2>1, <3>1, AppendKeepsWire
    <3>3. \A x : Before(Append(pending, f), Len(Append(pending, f)) + 1, gcs, x)
                   => Before(pending, Len(pending) + 1, gcs, x)
      BY <1>4, <1>5, <3>1, AppendIsLast
    <3>4. ToWrite(todo["telem"], Append(pending, f), gcs, prev, missing)
      BY <2>1, <3>3 DEF ToWrite, DeltaFrom
    <3>5. missing' = missing
      BY <1>2, <1>4, <3>1, Zenon
    <3>6. todo'["telem"] = todo["telem"]
      BY <1>10, <2>1, <2>4
    <3> QED
      BY <1>2, <2>1, <2>2, <3>2, <3>4, <3>5, <3>6 DEF StreamInv
  <2> QED
    BY <2>3, <2>4
<1> QED
  BY <1>12, <1>13, <1>14, <1>15, <1>16 DEF DownInv

\* What a step leaves alone stays as it is.
LEMMA SameBuffers ==
    ASSUME DownTypes, AcceptInv, UNCHANGED bufVars
    PROVE  AcceptInv'
  BY DEF AcceptInv, bufVars

LEMMA SameDrops ==
    ASSUME DropInv, UNCHANGED <<loaded, overflow, refused>>
    PROVE  DropInv'
  BY DEF DropInv

LEMMA SameStream ==
    ASSUME StreamInv, Silent', UNCHANGED <<pending, gcs, prev, missing>>, todo'["telem"] = todo["telem"]
    PROVE  StreamInv'
  BY DEF StreamInv

\* The refused write: to be counted, and missing if it was of the stream.
LEMMA RefuseKeeps ==
    ASSUME DownInv, NEW w \in Writers, Refuse(w)
    PROVE  DownInv'
<1> DEFINE q == todo[w]
<1>1. DownTypes /\ DropInv /\ RoomInv /\ AcceptInv /\ StreamInv
  BY DEF DownInv
<1>2. /\ q # <<>> /\ refused < MaxDrops /\ refused' = refused + 1
      /\ loaded' = [loaded EXCEPT ![w] = overflow]
      /\ missing' = (missing \/ IsImu(Head(q)))
      /\ todo' = IF w = "xfer" THEN todo ELSE [todo EXCEPT ![w] = Tail(q)]
      /\ UNCHANGED bufVars
      /\ UNCHANGED <<offered, overflow, cur, prev, first, counter, download, gcs>>
  BY DEF Refuse, telemVars
<1>3. /\ Head(q) \in FrameSet /\ Tail(q) \in Seq(FrameSet)
      /\ Head(q) = q[1] /\ 1 \in 1 .. Len(q) /\ q \in Seq(FrameSet)
      /\ \A i \in 1 .. Len(Tail(q)) : i + 1 \in 1 .. Len(q) /\ Tail(q)[i] = q[i + 1]
  BY <1>1, <1>2, NextFrame DEF DownTypes
<1>4. missing \in BOOLEAN /\ missing' \in BOOLEAN
  BY <1>1, <1>2, Zenon DEF DownTypes
<1>5. UNCHANGED <<active, buf, buf_lens, busy, dma, sent, handed, pending>>
  BY <1>2 DEF bufVars
<1>6. \/ w = "xfer" /\ todo' = todo
      \/ w # "xfer" /\ todo' = [todo EXCEPT ![w] = Tail(q)]
  BY <1>2
<1>7. \/ w = "xfer" /\ todo' = todo
      \/ /\ w # "xfer" /\ todo' \in [Writers -> Seq(FrameSet)]
         /\ \A u \in Writers : todo'[u] = IF u = w THEN Tail(q) ELSE todo[u]
  BY <1>1, <1>3, <1>6, TodoOf
<1> HIDE DEF q
<1>8. /\ loaded \in [Writers -> -1 .. MaxDrops] /\ overflow \in 0 .. MaxDrops /\ refused \in 0 .. MaxDrops
      /\ todo \in [Writers -> Seq(FrameSet)] /\ MaxDrops \in Nat
  BY <1>1, ChannelNumbers DEF DownTypes
<1>9. /\ loaded' \in [Writers -> -1 .. MaxDrops] /\ refused' \in 0 .. MaxDrops
      /\ loaded'[w] = overflow /\ \A u \in Writers : u # w => loaded'[u] = loaded[u]
  BY <1>2, <1>8
<1>10. DownTypes'
  BY <1>1, <1>2, <1>4, <1>5, <1>7, <1>9 DEF DownTypes
<1>11. DropInv'
  <2>1. overflow' <= refused' /\ overflow' < refused'
    BY <1>1, <1>2, <1>8 DEF DropInv
  <2>2. ASSUME NEW u \in Writers, loaded'[u] # -1
        PROVE  loaded'[u] < refused'
    <3>1. CASE u = w
      BY <1>2, <1>9, <2>1, <3>1
    <3>2. CASE u # w
      <4>1. loaded[u] < refused /\ loaded[u] \in Int
        BY <1>1, <1>8, <1>9, <2>2, <3>2 DEF DropInv
      <4> QED
        BY <1>2, <1>8, <1>9, <3>2, <4>1
    <3> QED
      BY <3>1, <3>2
  <2>3. loaded'[w] # -1
    BY <1>8, <1>9
  <2> QED
    BY <2>1, <2>2, <2>3 DEF DropInv
<1>12. RoomInv'
  <2>1. "xfer" \in Writers
    BY DEF Writers
  <2>2. todo'["xfer"] = todo["xfer"]
    BY <1>7, <2>1
  <2> QED
    BY <1>1, <1>5, <2>2 DEF RoomInv
<1>13. AcceptInv'
  BY <1>1, <1>2, SameBuffers
<1>14. StreamInv'
  <2>1. /\ OnTheWire(pending, gcs) /\ ToWrite(todo["telem"], pending, gcs, prev, missing)
        /\ Silent /\ Tracked(gcs) /\ "telem" \in Writers
    BY <1>1 DEF StreamInv, Writers
  <2>2. Silent'
    <3>1. w # "telem" => \A i \in 1 .. Len(Tail(q)) : ~IsImu(Tail(q)[i])
      BY <1>3, <2>1 DEF Silent, q
    <3>2. CASE todo' = todo
      BY <2>1, <3>2 DEF Silent
    <3>3. CASE todo' = [todo EXCEPT ![w] = Tail(q)]
      BY <1>1, <1>3, <2>1, <3>1, <3>3, StillSilent
    <3> QED
      BY <1>6, <3>2, <3>3
  <2>3. CASE w = "telem"
    <3>1. ToWrite(q, pending, gcs, prev, missing)
      BY <2>1, <2>3 DEF q
    <3>2. ToWrite(Tail(q), pending, gcs, prev, missing \/ IsImu(Head(q)))
      BY <1>2, <1>3, <1>4, <3>1, RefuseKeepsQueue
    <3>3. todo'["telem"] = Tail(q)
      BY <1>7, <2>1, <2>3
    <3> QED
      BY <1>2, <1>5, <2>1, <2>2, <3>2, <3>3 DEF StreamInv
  <2>4. CASE w # "telem"
    <3>1. ~IsImu(Head(q))
      BY <1>3, <2>1, <2>4 DEF Silent, q
    <3>2. missing' = missing
      BY <1>2, <1>4, <3>1, Zenon
    <3>3. todo'["telem"] = todo["telem"]
      BY <1>7, <2>1, <2>4
    <3> QED
      BY <1>1, <1>2, <1>5, <2>2, <3>2, <3>3, SameStream
  <2> QED
    BY <2>3, <2>4
<1> QED
  BY <1>10, <1>11, <1>12, <1>13, <1>14 DEF DownInv

\* The store of the counter: what it had loaded was less than the drops.
LEMMA CountKeeps ==
    ASSUME DownInv, NEW w \in Writers, Count(w)
    PROVE  DownInv'
<1>1. DownTypes /\ DropInv /\ RoomInv /\ AcceptInv /\ StreamInv
  BY DEF DownInv
<1>2. /\ loaded[w] # -1 /\ overflow' = loaded[w] + 1 /\ loaded' = [loaded EXCEPT ![w] = -1]
      /\ UNCHANGED bufVars
      /\ UNCHANGED <<offered, refused, missing, todo, cur, prev, first, counter, download, gcs>>
  BY DEF Count, telemVars
<1>3. UNCHANGED <<active, buf, buf_lens, busy, dma, sent, handed, pending>>
  BY <1>2 DEF bufVars
<1>4. /\ loaded \in [Writers -> -1 .. MaxDrops] /\ refused \in 0 .. MaxDrops /\ MaxDrops \in Nat
      /\ loaded[w] < refused /\ loaded[w] \in 0 .. MaxDrops
  <2>1. loaded \in [Writers -> -1 .. MaxDrops] /\ refused \in 0 .. MaxDrops /\ MaxDrops \in Nat
    BY <1>1, ChannelNumbers DEF DownTypes
  <2>2. loaded[w] < refused /\ loaded[w] \in -1 .. MaxDrops
    BY <1>1, <1>2, <2>1 DEF DropInv
  <2> QED
    BY <1>2, <2>1, <2>2
<1>5. /\ overflow' \in 0 .. MaxDrops /\ overflow' <= refused /\ overflow' > 0
      /\ loaded' \in [Writers -> -1 .. MaxDrops]
      /\ loaded'[w] = -1 /\ \A u \in Writers : u # w => loaded'[u] = loaded[u]
  BY <1>2, <1>4
<1>6. DownTypes'
  BY <1>1, <1>2, <1>3, <1>5 DEF DownTypes
<1>7. DropInv'
  BY <1>1, <1>2, <1>5 DEF DropInv
<1>8. RoomInv'
  BY <1>1, <1>2, <1>3 DEF RoomInv
<1>9. StreamInv'
  BY <1>1, <1>2, <1>3 DEF StreamInv, Silent
<1> QED
  BY <1>1, <1>2, <1>6, <1>7, <1>8, <1>9, SameBuffers DEF DownInv

\* flush_channel: the active buffer goes to the DMA, the other is emptied.
LEMMA FlushKeeps ==
    ASSUME DownInv, Flush
    PROVE  DownInv'
<1> DEFINE none == <<>>
<1>1. DownTypes /\ DropInv /\ RoomInv /\ AcceptInv /\ StreamInv
  BY DEF DownInv
<1>2. /\ ~busy /\ active' = 1 - active /\ dma' = active
      /\ buf' = [buf EXCEPT ![1 - active] = none]
      /\ buf_lens' = [buf_lens EXCEPT ![1 - active] = 0]
      /\ busy' = TRUE /\ sent' = 0 /\ handed' = buf[active]
      /\ UNCHANGED <<offered, pending, loaded, overflow, refused, missing, todo, cur, prev, first,
                     counter, download, gcs>>
  BY DEF Flush, dropVars, telemVars
<1>3. none \in Seq(FrameSet) /\ Len(none) = 0
  BY EmptySequence
<1>4. ~HasData(none) /\ DOMAIN none = {}
  <2>1. DOMAIN none = 1 .. 0
    BY <1>3, LenProperties
  <2> QED
    BY <2>1 DEF HasData
<1> HIDE DEF none
<1>5. /\ active \in {0, 1} /\ dma = 1 - active /\ dma \in {0, 1} /\ 1 - active # active
      /\ buf \in [{0, 1} -> Seq(FrameSet)] /\ buf_lens \in [{0, 1} -> Int]
      /\ buf[active] \in Seq(FrameSet) /\ pending \in Seq(FrameSet) /\ Len(buf[active]) \in Nat
  <2>1. /\ active \in {0, 1} /\ dma = 1 - active /\ dma \in {0, 1}
        /\ buf \in [{0, 1} -> Seq(FrameSet)] /\ buf_lens \in [{0, 1} -> Int]
        /\ pending \in Seq(FrameSet)
    BY <1>1 DEF DownTypes, AcceptInv
  <2>2. buf[active] \in Seq(FrameSet) /\ 1 - active # active
    BY <2>1
  <2> QED
    BY <2>1, <2>2, LenProperties
<1>6. /\ buf'[dma'] = buf[active] /\ buf'[active'] = none /\ buf' \in [{0, 1} -> Seq(FrameSet)]
      /\ buf_lens' \in [{0, 1} -> Int] /\ active' \in {0, 1} /\ dma' \in {0, 1}
      /\ \A i \in {0, 1} : \/ i = 1 - active /\ buf'[i] = none /\ buf_lens'[i] = 0
                           \/ buf'[i] = buf[i] /\ buf_lens'[i] = buf_lens[i]
  BY <1>2, <1>3, <1>5
<1>7. busy' \in BOOLEAN
  BY <1>2, Zenon
<1>8. DownTypes'
  <2>1. sent' \in 0 .. Len(buf'[dma'])
    BY <1>2, <1>5, <1>6
  <2> QED
    BY <1>1, <1>2, <1>5, <1>6, <1>7, <2>1 DEF DownTypes
<1>9. RoomInv'
  <2>1. \A i \in {0, 1} : /\ buf_lens'[i] \in 0 .. BufSize
                          /\ ~HasData(buf'[i]) => buf_lens'[i] <= BufSize - Reserve
    <3>1. ASSUME NEW i \in {0, 1}
          PROVE  /\ buf_lens'[i] \in 0 .. BufSize
                 /\ ~HasData(buf'[i]) => buf_lens'[i] <= BufSize - Reserve
      <4>1. CASE buf'[i] = none /\ buf_lens'[i] = 0
        BY <4>1, ChannelNumbers
      <4>2. CASE buf'[i] = buf[i] /\ buf_lens'[i] = buf_lens[i]
        BY <1>1, <4>2 DEF RoomInv
      <4> QED
        BY <1>6, <4>1, <4>2
    <3> QED
      BY <3>1
  <2> QED
    BY <1>1, <1>2, <2>1 DEF RoomInv
<1>10. AcceptInv'
  <2>1. Queued(pending, 0, buf[dma], sent, buf[active])
    BY <1>1, <1>2 DEF AcceptInv, Rest
  <2>2. Queued(pending, Len(buf[active]), buf[active], 0, none)
    BY <1>5, <2>1, QueuedSwap DEF none
  <2>3. Rest(busy', buf'[dma'], sent') = Len(buf[active])
    BY <1>2, <1>5, <1>6 DEF Rest
  <2>4. dma' = 1 - active' /\ handed' = buf'[dma']
    BY <1>2, <1>5, <1>6
  <2> QED
    BY <1>2, <1>6, <2>2, <2>3, <2>4 DEF AcceptInv
<1>11. DropInv'
  BY <1>1, <1>2, SameDrops
<1>12. StreamInv'
  BY <1>1, <1>2 DEF StreamInv, Silent
<1> QED
  BY <1>8, <1>9, <1>10, <1>11, <1>12 DEF DownInv

\* The next frame goes on the wire, and the reader takes it.
LEMMA FrameKeepsDown ==
    ASSUME DownInv, DmaFrame
    PROVE  DownInv'
<1>1. DownTypes /\ DropInv /\ RoomInv /\ AcceptInv /\ StreamInv
  BY DEF DownInv
<1>2. /\ busy /\ sent < Len(buf[dma]) /\ sent' = sent + 1 /\ pending' = Tail(pending)
      /\ gcs' = Record(gcs, buf[dma][sent + 1])
      /\ UNCHANGED <<offered, active, buf, buf_lens, busy, dma, handed, loaded, overflow, refused,
                     missing, todo, cur, prev, first, counter, download>>
  BY DEF DmaFrame, Received, dropVars, telemVars
<1> DEFINE d == buf[dma]
           a == buf[active]
           r == Len(d) - sent
<1>3. /\ d \in Seq(FrameSet) /\ a \in Seq(FrameSet) /\ pending \in Seq(FrameSet)
      /\ sent \in Nat /\ Len(d) \in Nat /\ sent + 1 \in 1 .. Len(d)
      /\ r \in Nat /\ r >= 1 /\ r - 1 = Len(d) - (sent + 1)
  <2>1. d \in Seq(FrameSet) /\ a \in Seq(FrameSet) /\ pending \in Seq(FrameSet) /\ sent \in 0 .. Len(d)
    BY <1>1 DEF DownTypes
  <2> QED
    BY <1>2, <2>1, LenProperties
<1>4. gcs \in Readers
  BY <1>1 DEF DownTypes, Readers
<1>5. Queued(pending, r, d, sent, a)
  BY <1>1, <1>2 DEF AcceptInv, Rest
<1>6. pending # <<>> /\ pending[1] = d[sent + 1] /\ Queued(Tail(pending), r - 1, d, sent + 1, a)
  <2> HIDE DEF d, a, r
  <2> QED
    BY <1>3, <1>5, QueuedTail
<1>7. gcs' = Record(gcs, pending[1])
  BY <1>2, <1>6
<1>8. /\ OnTheWire(Tail(pending), Record(gcs, pending[1]))
      /\ ToWrite(todo["telem"], Tail(pending), Record(gcs, pending[1]), prev, missing)
      /\ Tracked(Record(gcs, pending[1]))
  <2>1. OnTheWire(pending, gcs) /\ ToWrite(todo["telem"], pending, gcs, prev, missing) /\ Tracked(gcs)
    BY <1>1 DEF StreamInv
  <2> QED
    BY <1>3, <1>4, <1>6, <2>1, ReadKeepsStream
<1>9. StreamInv'
  BY <1>1, <1>2, <1>7, <1>8 DEF StreamInv, Silent
<1>10. Tail(pending) \in Seq(FrameSet) /\ pending[1] \in FrameSet
  BY <1>3, <1>6, TailElements
<1>11. gcs' \in Readers
  BY <1>4, <1>7, <1>10, RecordDoes
<1>12. DownTypes'
  <2>1. sent' \in 0 .. Len(buf'[dma'])
    BY <1>2, <1>3
  <2> QED
    BY <1>1, <1>2, <1>10, <1>11, <2>1 DEF DownTypes, Readers
<1>13. AcceptInv'
  <2>1. Rest(busy', buf'[dma'], sent') = r - 1
    BY <1>2, <1>3 DEF Rest
  <2> QED
    BY <1>1, <1>2, <1>6, <2>1 DEF AcceptInv
<1>14. RoomInv'
  BY <1>1, <1>2 DEF RoomInv
<1> QED
  BY <1>1, <1>2, <1>9, <1>12, <1>13, <1>14, SameDrops DEF DownInv

\* The completion interrupt.
LEMMA DoneKeeps ==
    ASSUME DownInv, DmaDone
    PROVE  DownInv'
<1>1. DownTypes /\ DropInv /\ RoomInv /\ AcceptInv /\ StreamInv
  BY DEF DownInv
<1>2. /\ busy /\ sent = Len(buf[dma]) /\ busy' = FALSE /\ sent' = 0 /\ handed' = <<>>
      /\ UNCHANGED <<offered, active, buf, buf_lens, dma, pending, loaded, overflow, refused,
                     missing, todo, cur, prev, first, counter, download, gcs>>
  BY DEF DmaDone, Received, dropVars, telemVars
<1>3. /\ buf[active] \in Seq(FrameSet) /\ pending \in Seq(FrameSet) /\ Len(buf[dma]) \in Nat
      /\ Len(buf[dma]) - sent = 0 /\ buf[dma] \in Seq(FrameSet)
  <2>1. buf[active] \in Seq(FrameSet) /\ pending \in Seq(FrameSet) /\ buf[dma] \in Seq(FrameSet)
    BY <1>1 DEF DownTypes
  <2> QED
    BY <1>2, <2>1, LenProperties
<1>4. busy' \in BOOLEAN
  BY <1>2, Zenon
<1>5. DownTypes'
  <2>1. sent' \in 0 .. Len(buf'[dma']) /\ handed' \in Seq(FrameSet)
    BY <1>2, <1>3, EmptySequence
  <2> QED
    BY <1>1, <1>2, <1>4, <2>1 DEF DownTypes
<1>6. AcceptInv'
  <2>1. Queued(pending, 0, buf[dma], sent, buf[active])
    BY <1>1, <1>2, <1>3 DEF AcceptInv, Rest
  <2>2. Queued(pending, 0, buf[dma], 0, buf[active])
    BY <1>3, <2>1, QueuedRest
  <2>3. Rest(busy', buf'[dma'], sent') = 0 /\ ~busy'
    BY <1>2 DEF Rest
  <2> QED
    BY <1>1, <1>2, <2>2, <2>3 DEF AcceptInv
<1>7. RoomInv'
  BY <1>1, <1>2 DEF RoomInv
<1>8. StreamInv'
  BY <1>1, <1>2 DEF StreamInv, Silent
<1> QED
  BY <1>1, <1>2, <1>5, <1>6, <1>7, <1>8, SameDrops DEF DownInv

\* A task other than the telemetry task decides what to send next.
LEMMA OthersKeep ==
    ASSUME DownInv, UNCHANGED <<offered, bufVars, dropVars, telemVars, gcs>>, download' \in BOOLEAN,
           \/ todo' = todo
           \/ \E w \in Writers \ {"telem"} : \E q \in Seq(FrameSet) :
                /\ todo' = [todo EXCEPT ![w] = q]
                /\ \A i \in 1 .. Len(q) : ~IsImu(q[i]) /\ (w = "xfer" => q[i].kind = "data")
    PROVE  DownInv'
<1>1. DownTypes /\ DropInv /\ RoomInv /\ AcceptInv /\ StreamInv
  BY DEF DownInv
<1>2. UNCHANGED <<offered, active, buf, buf_lens, busy, dma, sent, handed, pending, loaded, overflow,
                  refused, missing, cur, prev, first, counter, gcs>>
  BY DEF bufVars, dropVars, telemVars
<1>3. Silent /\ \A i \in 1 .. Len(todo["xfer"]) : todo["xfer"][i].kind = "data"
  BY <1>1 DEF StreamInv, RoomInv
<1>4. /\ todo' \in [Writers -> Seq(FrameSet)] /\ todo'["telem"] = todo["telem"] /\ Silent'
      /\ \A i \in 1 .. Len(todo'["xfer"]) : todo'["xfer"][i].kind = "data"
  <2>1. CASE todo' = todo
    BY <1>1, <1>3, <2>1 DEF DownTypes, Silent
  <2>2. ASSUME NEW w \in Writers \ {"telem"}, NEW q \in Seq(FrameSet),
               todo' = [todo EXCEPT ![w] = q],
               \A i \in 1 .. Len(q) : ~IsImu(q[i]) /\ (w = "xfer" => q[i].kind = "data")
        PROVE  /\ todo' \in [Writers -> Seq(FrameSet)] /\ todo'["telem"] = todo["telem"] /\ Silent'
               /\ \A i \in 1 .. Len(todo'["xfer"]) : todo'["xfer"][i].kind = "data"
    <3>1. w \in Writers /\ w # "telem" /\ "telem" \in Writers
      BY DEF Writers
    <3>2. todo' \in [Writers -> Seq(FrameSet)] /\ todo'["telem"] = todo["telem"]
      BY <1>1, <2>2, <3>1, TodoOf
    <3>3. Silent'
      BY <1>1, <1>3, <2>2, <3>1, StillSilent
    <3>4. \A i \in 1 .. Len(todo'["xfer"]) : todo'["xfer"][i].kind = "data"
      BY <1>1, <1>3, <2>2, <3>1, StillData
    <3> QED
      BY <3>2, <3>3, <3>4
  <2> QED
    BY <2>1, <2>2
<1>5. DownTypes'
  BY <1>1, <1>2, <1>4 DEF DownTypes
<1>6. DropInv' /\ AcceptInv' /\ StreamInv'
  BY <1>1, <1>2, <1>4, SameDrops, SameBuffers, SameStream
<1>7. RoomInv'
  BY <1>1, <1>2, <1>4 DEF RoomInv
<1> QED
  BY <1>5, <1>6, <1>7 DEF DownInv

LEMMA OneFrame ==
    ASSUME NEW f \in FrameSet
    PROVE  <<f>> \in Seq(FrameSet) /\ Len(<<f>>) = 1 /\ <<f>>[1] = f
  OBVIOUS

LEMMA PlainFrame ==
    ASSUME NEW k \in {"status", "perf", "data"}
    PROVE  Plain(k) \in FrameSet /\ Plain(k).kind = k /\ ~IsImu(Plain(k))
<1>1. Plain(k) = [kind |-> k, d |-> 0, v |-> 0, lost |-> FALSE]
  BY DEF Plain, Frame
<1>2. [kind |-> k, d |-> 0, v |-> 0, lost |-> FALSE] \in FrameSet
  BY DEF FrameSet
<1>3. Plain(k).kind = k
  BY <1>1
<1> QED
  BY <1>1, <1>2, <1>3 DEF IsImu

LEMMA ReportKeeps ==
    ASSUME DownInv, PerfReport
    PROVE  DownInv'
<1>1. /\ todo' = [todo EXCEPT !["perf"] = PerfFrames]
      /\ UNCHANGED <<offered, bufVars, dropVars, telemVars, gcs>> /\ download' = download
  BY DEF PerfReport
<1>2. download' \in BOOLEAN
  BY <1>1, Zenon DEF DownInv, DownTypes
<1>3. /\ PerfFrames \in Seq(FrameSet)
      /\ \A i \in 1 .. Len(PerfFrames) : ~IsImu(PerfFrames[i])
  <2>1. PerfFrames = [i \in 1 .. PerfRows |-> Plain("perf")] /\ PerfRows \in Nat
        /\ Plain("perf") \in FrameSet /\ ~IsImu(Plain("perf"))
    BY PlainFrame, ChannelNumbers DEF PerfFrames
  <2> QED
    BY <2>1
<1>4. "perf" \in Writers \ {"telem"} /\ "perf" # "xfer"
  BY DEF Writers
<1> QED
  BY <1>1, <1>2, <1>3, <1>4, OthersKeep

LEMMA ChunkKeeps ==
    ASSUME DownInv, XferChunk
    PROVE  DownInv'
<1> DEFINE f == Plain("data")
<1>1. /\ todo' = [todo EXCEPT !["xfer"] = <<f>>] \/ todo' = todo
      /\ UNCHANGED <<offered, bufVars, dropVars, telemVars, gcs>>
      /\ download' = TRUE \/ download' = FALSE
  BY DEF XferChunk
<1>2. download' \in BOOLEAN
  BY <1>1, Zenon
<1>3. f \in FrameSet /\ f.kind = "data" /\ ~IsImu(f)
  BY PlainFrame
<1> HIDE DEF f
<1>4. <<f>> \in Seq(FrameSet) /\ \A i \in 1 .. Len(<<f>>) : ~IsImu(<<f>>[i]) /\ <<f>>[i].kind = "data"
  BY <1>3, OneFrame
<1>5. "xfer" \in Writers \ {"telem"}
  BY DEF Writers
<1>6. CASE todo' = todo
  BY <1>1, <1>2, <1>6, OthersKeep
<1>7. CASE todo' = [todo EXCEPT !["xfer"] = <<f>>]
  <2> DEFINE q == <<f>>
  <2>1. /\ q \in Seq(FrameSet) /\ todo' = [todo EXCEPT !["xfer"] = q]
        /\ \A i \in 1 .. Len(q) : ~IsImu(q[i]) /\ q[i].kind = "data"
    BY <1>4, <1>7
  <2> HIDE DEF q
  <2>2. \E w \in Writers \ {"telem"} : \E t \in Seq(FrameSet) :
          /\ todo' = [todo EXCEPT ![w] = t]
          /\ \A i \in 1 .. Len(t) : ~IsImu(t[i]) /\ (w = "xfer" => t[i].kind = "data")
    <3> "xfer" \in Writers \ {"telem"} /\ q \in Seq(FrameSet)
      BY <1>5, <2>1
    <3> WITNESS "xfer" \in Writers \ {"telem"}
    <3> WITNESS q \in Seq(FrameSet)
    <3> QED
      BY <2>1
  <2> QED
    BY <1>1, <1>2, <2>2, OthersKeep
<1> QED
  BY <1>1, <1>6, <1>7

LEMMA AnswerKeeps ==
    ASSUME DownInv, SaidOne, OnlyTodo
    PROVE  DownInv'
<1>1. UNCHANGED <<offered, bufVars, dropVars, telemVars, gcs>> /\ download' = download
  BY DEF OnlyTodo
<1>2. download' \in BOOLEAN
  BY <1>1, Zenon DEF DownInv, DownTypes
<1>3. CASE todo' = todo
  BY <1>1, <1>2, <1>3, OthersKeep
<1>4. ASSUME NEW f, Answers(f), todo' = [todo EXCEPT !["comm"] = <<f>>]
      PROVE  DownInv'
  <2>1. f \in FrameSet /\ ~IsImu(f)
    BY <1>4 DEF Answers
  <2>2. <<f>> \in Seq(FrameSet) /\ \A i \in 1 .. Len(<<f>>) : ~IsImu(<<f>>[i])
    BY <2>1, OneFrame
  <2>3. "comm" \in Writers \ {"telem"} /\ "comm" # "xfer"
    BY DEF Writers
  <2> QED
    BY <1>1, <1>2, <1>4, <2>2, <2>3, OthersKeep
<1> QED
  BY <1>3, <1>4 DEF SaidOne

\* A new full or delta frame starts from the reading of the one before.
LEMMA StreamGoesOn ==
    ASSUME NEW p, NEW g, NEW last \in Int, NEW miss, NEW q \in Seq(FrameSet), NEW f \in FrameSet, NEW v \in Int,
           \A x \in Int : ~miss /\ Before(p, Len(p) + 1, g, x) => x = last,
           Len(q) >= 1, q[Len(q)] = f, \A i \in 1 .. Len(q) - 1 : ~IsImu(q[i]),
           f.v = v, IsImu(f), f.kind = "full" => f.d = v, f.kind = "delta" => f.d = Float16(v - last)
    PROVE  ToWrite(q, p, g, v, miss)
<1>1. Len(q) \in Nat /\ Len(q) \in 1 .. Len(q)
  BY LenProperties
<1>2. ASSUME NEW i \in 1 .. Len(q), IsImu(q[i])
      PROVE  i = Len(q)
  <2>1. i \in 1 .. Len(q) - 1 \/ i = Len(q)
    BY <1>1
  <2> QED
    BY <1>2, <2>1
<1>3. ASSUME f.kind = "delta", ~miss
      PROVE  DeltaFrom(f, p, Len(p) + 1, g)
  <2>1. v - last \in Int
    OBVIOUS
  <2>2. Close(f.d, f.v - last)
    BY <1>3, <2>1, RoundsClose
  <2> QED
    BY <1>3, <2>2 DEF DeltaFrom
<1>4. ~(\A i \in 1 .. Len(q) : ~IsImu(q[i]))
  BY <1>1
<1> QED
  BY <1>2, <1>3, <1>4 DEF ToWrite

LEMMA TelemetryKeeps ==
    ASSUME DownInv, TelemetryTick
    PROVE  DownInv'
<1>1. DownTypes /\ DropInv /\ RoomInv /\ AcceptInv /\ StreamInv
  BY DEF DownInv
<1>2. /\ UNCHANGED <<offered, bufVars, dropVars, download, gcs>> /\ todo["telem"] = <<>>
      /\ counter' = (counter + 1) % FullEvery
  BY DEF TelemetryTick, Idle
<1>3. PICK v \in Values \union {cur} :
        LET full  == counter = 0 /\ ~download
            delta == ~full /\ ~first /\ ~download
            imu   == IF full THEN <<Frame("full", v, v)>>
                     ELSE IF delta THEN <<Frame("delta", Float16(v - prev), v)>>
                     ELSE <<>>
        IN  /\ cur' = v
            /\ prev' = IF full \/ delta THEN v ELSE prev
            /\ first' = (first /\ ~full)
            /\ todo' = [todo EXCEPT !["telem"] = Statuses \o imu]
  BY Zenon DEF TelemetryTick
<1>4. UNCHANGED <<active, buf, buf_lens, busy, dma, sent, handed, pending, loaded, overflow, refused, missing>>
  BY <1>2 DEF bufVars, dropVars
<1>5. /\ v \in Int /\ cur \in Int /\ prev \in Int /\ v - prev \in Int
      /\ counter \in 0 .. FullEvery - 1 /\ "telem" \in Writers
  <2>1. cur \in Int /\ prev \in Int /\ counter \in 0 .. FullEvery - 1 /\ "telem" \in Writers
    BY <1>1 DEF DownTypes, Writers
  <2>2. v \in Values \/ v = cur
    BY <1>3
  <2>3. v \in Int
    BY <2>1, <2>2, ChannelNumbers
  <2> QED
    BY <2>1, <2>3
<1>6. first' \in BOOLEAN /\ download' \in BOOLEAN
  BY <1>1, <1>2, <1>3, Zenon DEF DownTypes
<1>7. counter' \in 0 .. FullEvery - 1
  <2> DEFINE c == counter + 1
  <2>1. c \in Nat /\ FullEvery \in Nat /\ FullEvery >= 1
    BY <1>5, ChannelNumbers
  <2> HIDE DEF c
  <2>2. c % FullEvery \in 0 .. FullEvery - 1
    BY <2>1
  <2> QED
    BY <1>2, <2>2 DEF c
<1> DEFINE s == Statuses
           full == Frame("full", v, v)
           delta == Frame("delta", Float16(v - prev), v)
           none == <<>>
<1>8. \/ cur' = v /\ prev' = v /\ todo' = [todo EXCEPT !["telem"] = s \o <<full>>]
      \/ cur' = v /\ prev' = v /\ todo' = [todo EXCEPT !["telem"] = s \o <<delta>>]
      \/ cur' = v /\ prev' = prev /\ todo' = [todo EXCEPT !["telem"] = s \o none]
  BY <1>3
<1>9. full \in FrameSet /\ full.kind = "full" /\ full.d = v /\ full.v = v
  BY <1>5 DEF Frame, FrameSet
<1>10. delta \in FrameSet /\ delta.kind = "delta" /\ delta.d = Float16(v - prev) /\ delta.v = v
  <2>1. Float16(v - prev) \in Int
    BY <1>5, RoundsClose
  <2> QED
    BY <1>5, <2>1 DEF Frame, FrameSet
<1>11. none \in Seq(FrameSet) /\ Len(none) = 0
  BY EmptySequence
<1>12. s \in Seq(FrameSet) /\ Len(s) \in Nat /\ \A i \in 1 .. Len(s) : ~IsImu(s[i])
  <2> DEFINE f == Plain("status")
  <2>1. f \in FrameSet /\ ~IsImu(f)
    BY PlainFrame
  <2>2. s = IF counter = 1 THEN <<f>> ELSE <<>>
    BY DEF Statuses, Status
  <2> HIDE DEF f, s
  <2>3. <<f>> \in Seq(FrameSet) /\ Len(<<f>>) = 1 /\ <<f>>[1] = f
    BY <2>1, OneFrame
  <2>4. CASE counter = 1
    BY <2>1, <2>2, <2>3, <2>4
  <2>5. CASE counter # 1
    BY <1>11, <2>2, <2>5
  <2> QED
    BY <2>4, <2>5
<1>13. \A x \in Int : ~missing /\ Before(pending, Len(pending) + 1, gcs, x) => x = prev
  <2>1. ToWrite(none, pending, gcs, prev, missing)
    BY <1>1, <1>2 DEF StreamInv
  <2> QED
    BY <1>11, <2>1 DEF ToWrite
<1> HIDE DEF s, full, delta, none
<1>14. ASSUME NEW f \in FrameSet, IsImu(f), f.v = v, f.kind = "full" => f.d = v,
              f.kind = "delta" => f.d = Float16(v - prev)
       PROVE  /\ s \o <<f>> \in Seq(FrameSet)
              /\ ToWrite(s \o <<f>>, pending, gcs, v, missing)
  <2> DEFINE q == s \o <<f>>
             o == <<f>>
  <2>1. o \in Seq(FrameSet) /\ Len(o) = 1 /\ o[1] = f
    BY OneFrame
  <2> HIDE DEF o
  <2>2. s \o o \in Seq(FrameSet) /\ Len(s \o o) = Len(s) + 1
        /\ \A i \in 1 .. Len(s) + 1 : (s \o o)[i] = IF i <= Len(s) THEN s[i] ELSE o[i - Len(s)]
    <3>1. s \o o \in Seq(FrameSet) /\ Len(s \o o) = Len(s) + Len(o)
          /\ \A i \in 1 .. Len(s) + Len(o) : (s \o o)[i] = IF i <= Len(s) THEN s[i] ELSE o[i - Len(s)]
      BY <1>12, <2>1, ConcatProperties
    <3> QED
      BY <2>1, <3>1
  <2>3. q = s \o o
    BY DEF o
  <2> HIDE DEF q
  <2>4. Len(q) >= 1 /\ q[Len(q)] = f
    <3>1. Len(s) + 1 \in 1 .. Len(s) + 1 /\ ~(Len(s) + 1 <= Len(s)) /\ (Len(s) + 1) - Len(s) = 1
      BY <1>12
    <3> QED
      BY <1>12, <2>1, <2>2, <2>3, <3>1
  <2>5. ASSUME NEW i \in 1 .. Len(q) - 1
        PROVE  ~IsImu(q[i])
    <3>1. i \in 1 .. Len(s) /\ i \in 1 .. Len(s) + 1 /\ i <= Len(s)
      BY <1>12, <2>2, <2>3, <2>5
    <3> QED
      BY <1>12, <2>2, <2>3, <3>1
  <2>6. ToWrite(q, pending, gcs, v, missing)
    BY <1>5, <1>13, <1>14, <2>2, <2>3, <2>4, <2>5, StreamGoesOn
  <2> QED
    BY <2>2, <2>3, <2>6 DEF q
<1>15. ASSUME NEW q \in Seq(FrameSet), todo' = [todo EXCEPT !["telem"] = q],
              cur' = v, prev' \in Int, ToWrite(q, pending, gcs, prev', missing)
       PROVE  DownInv'
  <2>1. /\ todo' \in [Writers -> Seq(FrameSet)]
        /\ \A u \in Writers : todo'[u] = IF u = "telem" THEN q ELSE todo[u]
    BY <1>1, <1>5, <1>15, TodoOf
  <2>2. DownTypes'
    BY <1>1, <1>2, <1>4, <1>5, <1>6, <1>7, <1>15, <2>1 DEF DownTypes
  <2>3. RoomInv'
    <3>1. todo'["xfer"] = todo["xfer"]
      BY <2>1 DEF Writers
    <3> QED
      BY <1>1, <1>4, <3>1 DEF RoomInv
  <2>4. Silent'
    BY <1>1, <2>1 DEF StreamInv, Silent
  <2>5. StreamInv'
    BY <1>1, <1>2, <1>4, <1>5, <1>15, <2>1, <2>4 DEF StreamInv
  <2> QED
    BY <1>1, <1>2, <1>4, <2>2, <2>3, <2>5, SameDrops, SameBuffers DEF DownInv
<1>16. CASE cur' = v /\ prev' = v /\ todo' = [todo EXCEPT !["telem"] = s \o <<full>>]
  <2>1. s \o <<full>> \in Seq(FrameSet) /\ ToWrite(s \o <<full>>, pending, gcs, v, missing)
    BY <1>9, <1>14 DEF IsImu
  <2> QED
    BY <1>5, <1>15, <1>16, <2>1
<1>17. CASE cur' = v /\ prev' = v /\ todo' = [todo EXCEPT !["telem"] = s \o <<delta>>]
  <2>1. s \o <<delta>> \in Seq(FrameSet) /\ ToWrite(s \o <<delta>>, pending, gcs, v, missing)
    BY <1>10, <1>14 DEF IsImu
  <2> QED
    BY <1>5, <1>15, <1>17, <2>1
<1>18. CASE cur' = v /\ prev' = prev /\ todo' = [todo EXCEPT !["telem"] = s \o none]
  <2>1. s \o none = s
    BY <1>12, ConcatEmptySeq DEF none
  <2>2. ToWrite(s, pending, gcs, prev, missing)
    BY <1>12, <1>13 DEF ToWrite
  <2> QED
    BY <1>5, <1>12, <1>15, <1>18, <2>1, <2>2
<1> QED
  BY <1>8, <1>16, <1>17, <1>18

LEMMA DownStep ==
    ASSUME DownInv, UpInv, LinkNext \/ UNCHANGED linkVars
    PROVE  DownInv'
<1>1. CASE UNCHANGED chVars
  <2>1. UNCHANGED <<offered, bufVars, dropVars, telemVars, gcs>> /\ todo' = todo /\ download' = download
    BY <1>1 DEF chVars
  <2>2. download' \in BOOLEAN
    BY <2>1, Zenon DEF DownInv, DownTypes
  <2> QED
    BY <2>1, <2>2, OthersKeep
<1>2. CASE ChannelStep
  BY <1>2, WriteKeeps, RefuseKeeps, CountKeeps, FlushKeeps, TelemetryKeeps, ReportKeeps, ChunkKeeps DEF ChannelStep
<1>3. CASE LinkFrame
  BY <1>3, FrameKeepsDown DEF LinkFrame
<1>4. CASE LinkDone
  BY <1>4, DoneKeeps DEF LinkDone
<1>5. CASE ParseOne
  <2>1. SaidOne
    BY <1>5, ParseKeeps
  <2> QED
    BY <1>5, <2>1, AnswerKeeps DEF ParseOne
<1>6. CASE ArmAckService
  <2>1. SaidOne
    BY <1>6, AckServiceKeeps
  <2> QED
    BY <1>6, <2>1, AnswerKeeps DEF ArmAckService
<1>7. CASE \/ GcsSend \/ GcsSync \/ GcsJump \/ RxIsr \/ PollStart \/ DrainOne \/ DrainEnd \/ ParseEnd
           \/ AckTick \/ VehicleStep \/ TickLoad \/ TickWhole \/ TickStore
  <2>1. UNCHANGED chVars
    BY <1>7 DEF GcsSend, GcsSync, GcsJump, RxIsr, PollStart, DrainOne, DrainEnd, ParseEnd, AckTick,
                VehicleStep, TickLoad, TickWhole, TickStore
  <2> QED
    BY <1>1, <2>1
<1>8. CASE UNCHANGED linkVars
  BY <1>1, <1>8 DEF linkVars
<1> QED
  BY <1>2, <1>3, <1>4, <1>5, <1>6, <1>7, <1>8 DEF LinkNext, Poll

LEMMA DownImplies ==
    ASSUME DownInv
    PROVE  DownlinkExact
<1>1. DownTypes /\ DropInv /\ RoomInv /\ AcceptInv /\ StreamInv
  BY DEF DownInv
<1>2. ChannelTypeOK
  <2>1. \A i \in {0, 1} : buf_lens[i] \in 0 .. BufSize
    BY <1>1 DEF RoomInv
  <2>2. \A w \in Writers : loaded[w] \in -1 .. MaxDrops
    BY <1>1 DEF DownTypes
  <2> QED
    BY <1>1, <2>1, <2>2 DEF DownTypes, ChannelTypeOK
<1>3. AcceptedExact
  <2>1. /\ buf[dma] \in Seq(FrameSet) /\ buf[active] \in Seq(FrameSet) /\ pending \in Seq(FrameSet)
        /\ sent \in 0 .. Len(buf[dma]) /\ active \in {0, 1} /\ dma = 1 - active
    BY <1>1 DEF DownTypes, AcceptInv
  <2>2. busy => handed = buf[dma] /\ dma # active
    BY <1>1, <2>1 DEF AcceptInv
  <2>3. CASE busy
    <3>1. Queued(pending, Len(buf[dma]) - sent, buf[dma], sent, buf[active])
      BY <1>1, <2>3 DEF AcceptInv, Rest
    <3>2. pending = SubSeq(buf[dma], sent + 1, Len(buf[dma])) \o buf[active]
      BY <2>1, <3>1, QueuedIsAll
    <3> QED
      BY <2>2, <2>3, <3>2 DEF AcceptedExact
  <2>4. CASE ~busy
    <3>1. Queued(pending, 0, buf[dma], sent, buf[active])
      BY <1>1, <2>4 DEF AcceptInv, Rest
    <3>2. Len(pending) = Len(buf[active]) /\ Len(pending) \in Nat /\ Len(buf[active]) \in Nat
      BY <2>1, <3>1, LenProperties DEF Queued
    <3>3. ASSUME NEW i \in 1 .. Len(pending)
          PROVE  pending[i] = buf[active][i]
      <4>1. ~(i <= 0) /\ i - 0 = i
        BY <3>2, <3>3
      <4>2. pending[i] = buf[active][i - 0]
        BY <3>1, <4>1 DEF Queued
      <4> QED
        BY <4>1, <4>2
    <3>4. pending = buf[active]
      BY <2>1, <3>2, <3>3, SeqEqual
    <3>5. <<>> \o buf[active] = buf[active]
      BY <2>1, ConcatEmptySeq
    <3> QED
      BY <2>2, <2>4, <3>4, <3>5 DEF AcceptedExact
  <2> QED
    BY <2>3, <2>4
<1>4. XferHeadroom
  <2>1. SUFFICES ASSUME todo["xfer"] # <<>>, ~Fits("xfer")
                 PROVE  HasData(buf[active])
    BY DEF XferHeadroom
  <2>2. "xfer" \in Writers /\ active \in {0, 1}
    BY <1>1 DEF Writers, DownTypes
  <2>3. Head(todo["xfer"]) = todo["xfer"][1] /\ 1 \in 1 .. Len(todo["xfer"])
    BY <1>1, <2>1, <2>2, NextFrame
  <2>4. Len1(Head(todo["xfer"])) = DataLen
    BY <1>1, <2>3, LengthOf DEF RoomInv
  <2>5. ~(buf_lens[active] + DataLen <= BufSize) /\ buf_lens[active] \in Int
    BY <1>1, <2>1, <2>2, <2>4 DEF Fits, Cap, DownTypes
  <2>6. ~HasData(buf[active]) => buf_lens[active] <= BufSize - Reserve
    BY <1>1, <2>2 DEF RoomInv
  <2> QED
    BY <2>5, <2>6, ChannelNumbers
<1>5. DropsReported
  BY <1>1 DEF DropInv, DropsReported
<1>6. ReconstructionBounded
  <2>1. gcs.err \in Int /\ gcs.deltas \in Nat
    BY <1>1 DEF DownTypes
  <2>2. gcs.have /\ ~gcs.gap => gcs.err <= gcs.deltas /\ -gcs.err <= gcs.deltas
    BY <1>1 DEF StreamInv, Tracked
  <2> QED
    BY <2>1, <2>2 DEF ReconstructionBounded, MaxRound, Abs
<1> QED
  BY <1>2, <1>3, <1>4, <1>5, <1>6 DEF DownlinkExact

(***************************************************************************)
(* 4. The links together.                                                  *)
(***************************************************************************)
LinkInv == UpInv /\ DownInv

LEMMA Starts == Init => RcInv /\ LinkInv
  BY RcStart, UplinkStart, ChannelStart DEF Init, LinkInit, LinkInv

LEMMA Steps == RcInv /\ LinkInv /\ [Next]_vars => RcInv' /\ LinkInv'
<1> SUFFICES ASSUME RcInv, LinkInv, [Next]_vars
             PROVE  RcInv' /\ LinkInv'
  OBVIOUS
<1>1. UpInv /\ DownInv /\ DownTypes
  BY DEF LinkInv, DownInv
<1>2. LinkNext \/ UNCHANGED linkVars
  BY DEF Next, vars
<1>3. RcNext \/ UNCHANGED rcVars
  BY DEF Next, vars
<1>4. RcInv'
  BY <1>3, RcStep
<1>5. UpInv'
  BY <1>1, <1>2, UpStep
<1>6. DownInv'
  BY <1>1, <1>2, DownStep
<1> QED
  BY <1>4, <1>5, <1>6 DEF LinkInv

LEMMA LinksInvariant == Spec => [](RcInv /\ LinkInv)
  BY Starts, Steps, PTL DEF Spec

\* The pilot's link (ibus.c, rc_safety.c): the controllers see at most
\* HoldFrames - 1 frames of the receiver's preset before the throttle is cut, a
\* pilot who keeps his frames is never cut off, and while the task keeps ahead
\* of the DMA the frames are applied in order, each once, and a garbled byte
\* costs one.
THEOREM RadioIsSound == Spec => []RcSound
<1>1. RcInv /\ LinkInv => RcSound
  BY RcImplies
<1> QED
  BY <1>1, LinksInvariant, PTL

\* The commands (navlink_router.c, comm_processor.c): whatever the receive
\* ring drops and wherever a drain of it ends, a command runs at most once and
\* in the order sent, and an arm command is answered at most once.
THEOREM CommandsAreExact == Spec => []CommandsExact
<1>1. RcInv /\ LinkInv => CommandsExact
  BY UpImplies DEF LinkInv
<1> QED
  BY <1>1, LinksInvariant, PTL

\* The telemetry (channel.c, telemetry.c): the wire carries exactly the frames
\* accepted, in order, a transfer has its headroom, a drop is reported, and
\* the reader of the delta frames is no further off than their rounding.
THEOREM DownlinkIsExact == Spec => []DownlinkExact
<1>1. RcInv /\ LinkInv => DownlinkExact
  BY DownImplies DEF LinkInv
<1> QED
  BY <1>1, LinksInvariant, PTL
=============================================================================
