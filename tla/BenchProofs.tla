----------------------------- MODULE BenchProofs -----------------------------
(***************************************************************************)
(* What the operator meets on the bench, for every capacity of the lane,   *)
(* retry budget, number of boots and gestures, clock width, activity       *)
(* window, settle window, number of sides, capture budget and plan: the    *)
(* ESC calibration request across power cuts, the pack voltage, the lights *)
(* and the IMU calibration.                                                *)
(***************************************************************************)
EXTENDS Bench, FiniteSetTheorems, SequenceTheorems, TLAPS

(***************************************************************************)
(* WriteLane: its steps keep the lane well-formed, and they neither invent a *)
(* request nor change a file no request on its way to the card is for.     *)
(***************************************************************************)
\* A request for file f with data d is queued, waits for a retry, or is being
\* written.
Bringing(f, d) == \/ \E i \in 1 .. Len(waQ) : waQ[i].file = f /\ waQ[i].data = d
                  \/ \E i \in 1 .. Len(retryQ) : retryQ[i].file = f /\ retryQ[i].data = d
                  \/ fsReq # NoReq /\ fsReq.file = f /\ fsReq.data = d

\* ... with whatever data.
OnTheWay(f) == \E d \in Contents : Bringing(f, d)

\* fs_owner_enqueue_write_at keeps the lane well-formed and within its
\* capacity.
LEMMA EnqueueType ==
    ASSUME LaneTypeOK, NEW s \in Slots, NEW f \in Files, NEW o \in 0 .. MaxOff,
           NEW d \in Contents, Enqueue(s, f, o, d), card' = card
    PROVE  LaneTypeOK'
<1> DEFINE req == [slot |-> s, file |-> f, off |-> o, data |-> d, tries |-> 0]
<1>1. req \in Requests
  BY LaneAssumption DEF Requests
<1>2. waQ' \in Seq(Requests) /\ Len(waQ') = Len(waQ) + 1
  BY <1>1 DEF Enqueue, LaneTypeOK
<1>3. Len(waQ') <= LaneCap
  BY <1>2, LaneAssumption DEF Enqueue, LaneFull, LaneTypeOK
<1>4. pending' \in [Slots -> Nat]
  BY DEF Enqueue, LaneTypeOK
<1> QED
  BY <1>2, <1>3, <1>4 DEF Enqueue, LaneTypeOK

\* The tail of a lane is a lane, its head a request.
LEMMA TakeType ==
    ASSUME NEW q \in Seq(Requests), q # <<>>
    PROVE  /\ Head(q) \in Requests
           /\ Tail(q) \in Seq(Requests)
           /\ Len(Tail(q)) = Len(q) - 1
           /\ \A i \in 1 .. Len(Tail(q)) : Tail(q)[i] = q[i + 1]
           /\ Len(q) >= 1 /\ Head(q) = q[1]
  BY HeadTailProperties, LenProperties, EmptySeq

\* The elements of an extended lane are the old ones and the new one.
LEMMA AppendElements ==
    ASSUME NEW q \in Seq(Requests), NEW r \in Requests, NEW i \in 1 .. Len(Append(q, r))
    PROVE  (i \in 1 .. Len(q) /\ Append(q, r)[i] = q[i]) \/ Append(q, r)[i] = r
<1>1. /\ Len(Append(q, r)) = Len(q) + 1
      /\ \A j \in 1 .. Len(q) : Append(q, r)[j] = q[j]
      /\ Append(q, r)[Len(q) + 1] = r
  BY AppendProperties
<1>2. Len(q) \in Nat
  BY LenProperties
<1>3. CASE i \in 1 .. Len(q)
  BY <1>1, <1>3
<1>4. CASE i \notin 1 .. Len(q)
  <2>1. i = Len(q) + 1
    BY <1>1, <1>2, <1>4
  <2> QED
    BY <2>1, <1>1
<1> QED
  BY <1>3, <1>4

\* A failed request goes back with one try more, if it has any left.
LEMMA RetryType ==
    ASSUME NEW r \in Requests, r.tries + 1 < MaxTries
    PROVE  [r EXCEPT !.tries = @ + 1] \in Requests
  BY LaneAssumption DEF Requests

\* Storing a request leaves the card a card.
LEMMA StoreType ==
    ASSUME LaneTypeOK, NEW r \in Requests, Store(r)
    PROVE  card' \in [Files -> [0 .. MaxOff -> Contents]]
  BY DEF Store, LaneTypeOK, Requests

\* A failed write, whether or not its bytes landed.
LEMMA WriteFailType ==
    ASSUME LaneTypeOK, NEW landed \in BOOLEAN, FsWriteFail(landed)
    PROVE  LaneTypeOK'
<1> DEFINE req == [fsReq EXCEPT !.tries = @ + 1]
<1>1. fsReq \in Requests
  BY DEF FsWriteFail, LaneTypeOK
<1>2. card' \in [Files -> [0 .. MaxOff -> Contents]]
  BY <1>1, StoreType DEF FsWriteFail, LaneTypeOK
<1>3. req.tries = fsReq.tries + 1 /\ req.slot = fsReq.slot /\ fsReq.slot \in Slots
  BY <1>1 DEF Requests
<1>4. retryQ' \in Seq(Requests) /\ Len(retryQ') <= RetryCap
  <2>1. CASE req.tries < MaxTries /\ Len(retryQ) < RetryCap
    <3>1. req \in Requests
      BY <1>1, <1>3, <2>1, RetryType
    <3>2. retryQ' = Append(retryQ, req)
      BY <2>1 DEF FsWriteFail
    <3> QED
      BY <3>1, <3>2, <2>1, LaneAssumption DEF LaneTypeOK
  <2>2. CASE ~(req.tries < MaxTries /\ Len(retryQ) < RetryCap)
    BY <2>2 DEF FsWriteFail, LaneTypeOK
  <2> QED
    BY <2>1, <2>2
<1>5. pending' \in [Slots -> Nat]
  <2>1. pending' = pending \/ Settle(fsReq.slot)
    BY <1>3 DEF FsWriteFail
  <2>2. CASE pending' = pending
    BY <2>2 DEF LaneTypeOK
  <2>3. CASE Settle(fsReq.slot)
    BY <2>3, <1>3 DEF Settle, LaneTypeOK
  <2> QED
    BY <2>1, <2>2, <2>3
<1>6. failed' \in [Slots -> BOOLEAN]
  <2>1. failed' = failed \/ failed' = [failed EXCEPT ![fsReq.slot] = TRUE]
    BY <1>3 DEF FsWriteFail
  <2> QED
    BY <2>1, <1>3, Zenon DEF LaneTypeOK
<1>7. fsStage' \in {"poll", "fresh", "retry"}
  BY DEF FsWriteFail, AfterWrite
<1> QED
  BY <1>2, <1>4, <1>5, <1>6, <1>7 DEF FsWriteFail, LaneTypeOK

\* Every step of fs_owner_task keeps the lane well-formed.
LEMMA LaneType ==
    ASSUME LaneTypeOK, FsDrain \/ FsWake
    PROVE  LaneTypeOK'
<1>1. CASE FsTakeFresh
  <2>1. Head(waQ) \in Requests /\ Tail(waQ) \in Seq(Requests) /\ Len(Tail(waQ)) = Len(waQ) - 1
    BY <1>1, TakeType DEF FsTakeFresh, LaneTypeOK
  <2> QED
    BY <1>1, <2>1, LaneAssumption DEF FsTakeFresh, LaneTypeOK
<1>2. CASE FsTakeRetry
  <2>1. CASE retryQ = <<>>
    BY <1>2, <2>1 DEF FsTakeRetry, LaneTypeOK
  <2>2. CASE retryQ # <<>>
    <3>1. /\ Head(retryQ) \in Requests /\ Tail(retryQ) \in Seq(Requests)
          /\ Len(Tail(retryQ)) = Len(retryQ) - 1
      BY <2>2, TakeType DEF LaneTypeOK
    <3>2. /\ retryQ' = Tail(retryQ) /\ fsReq' = Head(retryQ) /\ fsStage' = "retry"
          /\ UNCHANGED <<card, waQ, pending, committed, failed>>
      BY <1>2, <2>2, Zenon DEF FsTakeRetry
    <3>3. Len(retryQ') <= RetryCap
      BY <3>1, <3>2, LaneAssumption, LenProperties DEF LaneTypeOK
    <3> QED
      BY <3>1, <3>2, <3>3 DEF LaneTypeOK
  <2> QED
    BY <2>1, <2>2
<1>3. CASE FsWriteOk
  <2>1. fsReq \in Requests
    BY <1>3 DEF FsWriteOk, LaneTypeOK
  <2>2. card' \in [Files -> [0 .. MaxOff -> Contents]]
    BY <1>3, <2>1, StoreType DEF FsWriteOk
  <2>3. committed' \in [Slots -> Nat] /\ pending' \in [Slots -> Nat]
    BY <1>3, <2>1 DEF FsWriteOk, Settle, LaneTypeOK, Requests
  <2> QED
    BY <1>3, <2>2, <2>3 DEF FsWriteOk, AfterWrite, LaneTypeOK
<1>4. CASE \E landed \in BOOLEAN : FsWriteFail(landed)
  BY <1>4, WriteFailType
<1>5. CASE FsWake
  BY <1>5 DEF FsWake, LaneTypeOK
<1> QED
  BY <1>1, <1>2, <1>3, <1>4, <1>5 DEF FsDrain

\* A chunk of a file only becomes what a request on its way to the card is
\* bringing, and fs_owner_task makes up no request.
LEMMA LaneFrame ==
    ASSUME LaneTypeOK, FsDrain \/ FsWake, NEW f \in Files
    PROVE  /\ \A d \in Contents : Bringing(f, d)' => Bringing(f, d)
           /\ \A o \in 0 .. MaxOff : card'[f][o] # card[f][o] => Bringing(f, card'[f][o])
<1>1. CASE FsTakeFresh
  <2>1. /\ \A i \in 1 .. Len(Tail(waQ)) : Tail(waQ)[i] = waQ[i + 1]
        /\ Len(Tail(waQ)) = Len(waQ) - 1
        /\ Len(waQ) \in Nat /\ Len(waQ) >= 1 /\ Head(waQ) = waQ[1]
    BY <1>1, TakeType, LenProperties DEF FsTakeFresh, LaneTypeOK
  <2>2. /\ \A i \in 1 .. Len(waQ') : waQ'[i] = waQ[i + 1] /\ i + 1 \in 1 .. Len(waQ)
        /\ fsReq' = waQ[1] /\ 1 \in 1 .. Len(waQ)
        /\ retryQ' = retryQ /\ card' = card
    BY <1>1, <2>1 DEF FsTakeFresh
  <2> QED
    BY <2>2 DEF Bringing
<1>2. CASE FsTakeRetry /\ retryQ # <<>>
  <2>1. /\ \A i \in 1 .. Len(Tail(retryQ)) : Tail(retryQ)[i] = retryQ[i + 1]
        /\ Len(Tail(retryQ)) = Len(retryQ) - 1
        /\ Len(retryQ) \in Nat /\ Len(retryQ) >= 1 /\ Head(retryQ) = retryQ[1]
    BY <1>2, TakeType, LenProperties DEF LaneTypeOK
  <2>2. /\ \A i \in 1 .. Len(retryQ') : retryQ'[i] = retryQ[i + 1] /\ i + 1 \in 1 .. Len(retryQ)
        /\ fsReq' = retryQ[1] /\ 1 \in 1 .. Len(retryQ)
        /\ waQ' = waQ /\ card' = card
    BY <1>2, <2>1 DEF FsTakeRetry
  <2> QED
    BY <2>2 DEF Bringing
<1>3. CASE FsTakeRetry /\ retryQ = <<>>
  BY <1>3 DEF FsTakeRetry, Bringing
<1>4. ASSUME fsReq # NoReq, Store(fsReq)
      PROVE  \A o \in 0 .. MaxOff : card'[f][o] # card[f][o] => Bringing(f, card'[f][o])
  BY <1>4 DEF Store, LaneTypeOK, Requests, Bringing
<1>5. CASE FsWriteOk
  BY <1>4, <1>5 DEF FsWriteOk, Bringing
<1>6. CASE \E landed \in BOOLEAN : FsWriteFail(landed)
  <2> PICK landed \in BOOLEAN : FsWriteFail(landed)
    BY <1>6
  <2> DEFINE req == [fsReq EXCEPT !.tries = @ + 1]
  <2>1. fsReq \in Requests /\ fsReq # NoReq /\ fsReq' = NoReq /\ waQ' = waQ
    BY DEF FsWriteFail, LaneTypeOK
  <2>2. \A o \in 0 .. MaxOff : card'[f][o] # card[f][o] => Bringing(f, card'[f][o])
    BY <1>4, <2>1 DEF FsWriteFail
  <2>3. retryQ' = retryQ \/ (req \in Requests /\ retryQ' = Append(retryQ, req))
    <3>1. CASE fsReq.tries + 1 < MaxTries
      <4>1. req \in Requests
        BY <2>1, <3>1, RetryType
      <4> QED
        BY <4>1 DEF FsWriteFail
    <3>2. CASE ~(fsReq.tries + 1 < MaxTries)
      <4>1. req.tries = fsReq.tries + 1
        BY <2>1 DEF Requests
      <4> QED
        BY <3>2, <4>1 DEF FsWriteFail
    <3> QED
      BY <3>1, <3>2
  <2>4. req.file = fsReq.file /\ req.data = fsReq.data
    BY <2>1 DEF Requests
  <2> HIDE DEF req
  <2>5. ASSUME req \in Requests, retryQ' = Append(retryQ, req), NEW i \in 1 .. Len(retryQ')
        PROVE  (i \in 1 .. Len(retryQ) /\ retryQ'[i] = retryQ[i]) \/ retryQ'[i] = req
    <3>1. retryQ \in Seq(Requests) /\ i \in 1 .. Len(Append(retryQ, req))
      BY <2>5 DEF LaneTypeOK
    <3> QED
      BY <2>5, <3>1, AppendElements
  <2> QED
    BY <2>1, <2>2, <2>3, <2>4, <2>5 DEF Bringing
<1>7. CASE FsWake
  BY <1>7 DEF FsWake, Bringing
<1> QED
  BY <1>1, <1>2, <1>3, <1>5, <1>6, <1>7 DEF FsDrain

\* An enqueue puts nothing but its own data for its own file on its way.
LEMMA EnqueueFrame ==
    ASSUME LaneTypeOK, NEW s \in Slots, NEW g \in Files, NEW o \in 0 .. MaxOff,
           NEW e \in Contents, Enqueue(s, g, o, e),
           NEW f \in Files, NEW d \in Contents, f # g \/ d # e
    PROVE  Bringing(f, d)' => Bringing(f, d)
<1> DEFINE req == [slot |-> s, file |-> g, off |-> o, data |-> e, tries |-> 0]
<1>1. waQ' = Append(waQ, req) /\ req.file = g /\ req.data = e /\ req \in Requests
  BY LaneAssumption DEF Enqueue, Requests
<1>2. ASSUME NEW i \in 1 .. Len(waQ')
      PROVE  (i \in 1 .. Len(waQ) /\ waQ'[i] = waQ[i]) \/ waQ'[i] = req
  <2>1. waQ \in Seq(Requests) /\ i \in 1 .. Len(Append(waQ, req))
    BY <1>1, <1>2 DEF LaneTypeOK
  <2> HIDE DEF req
  <2> QED
    BY <1>1, <2>1, AppendElements
<1>3. retryQ' = retryQ /\ fsReq' = fsReq
  BY DEF Enqueue
<1> HIDE DEF req
<1> QED
  BY <1>1, <1>2, <1>3 DEF Bringing

(***************************************************************************)
(* EscCalib.                                                               *)
(*                                                                         *)
(* OneAttemptPerRequest is not inductive: it must be known that whatever   *)
(* can still cause an attempt (the marker on the card, a marker on its way *)
(* to the card, a boot that has read it) is paid for by a gesture that was *)
(* not answered yet, or by a boot that could not clear the marker; that    *)
(* nothing is on its way until the scheduler runs; and that the marker is  *)
(* gone before maximum is driven, or else paid for beside this attempt.    *)
(* ToldOnCardIsStored rests on what is on its way with which content.      *)
(***************************************************************************)

Unpaid == attempts < gestures + uncleared

RequestInv ==
    /\ TypeOK
    /\ OneAttemptPerRequest
    /\ card["esc"][0] = 1 => Unpaid
    /\ OnTheWay("esc") => Unpaid
    /\ power \in {"clear", "drive"} => Unpaid
    /\ power # "on" => ~OnTheWay("esc")
    /\ power = "drive" /\ card["esc"][0] = 1 => attempts + 1 < gestures + uncleared

----------------------------------------------------------------------------
LEMMA RequestInit ==
    Init => RequestInv
<1> SUFFICES ASSUME Init PROVE RequestInv
  OBVIOUS
<1>1. LaneTypeOK
  <2>1. waQ \in Seq(Requests) /\ retryQ \in Seq(Requests) /\ Len(waQ) = 0 /\ Len(retryQ) = 0
    BY EmptySeq DEF Init, RamInit, LaneInit
  <2>2. failed \in [Slots -> BOOLEAN]
    BY Zenon DEF Init, RamInit, LaneInit
  <2> QED
    BY <2>1, <2>2, LaneAssumption, EscAssumption DEF Init, RamInit, LaneInit, LaneTypeOK
<1>2. TypeOK
  <2>1. awaiting \in BOOLEAN
    BY Zenon DEF Init, RamInit
  <2> QED
    BY <1>1, <2>1, EscAssumption DEF Init, RamInit, TypeOK, Answers
<1>3. ~OnTheWay("esc")
  BY DEF Init, RamInit, LaneInit, OnTheWay, Bringing
<1>4. card["esc"][0] = 0
  BY EscAssumption DEF Init
<1> QED
  BY <1>2, <1>3, <1>4 DEF Init, RequestInv, OneAttemptPerRequest

\* A power cut leaves nothing in RAM and at most stores what was on its way.
LEMMA CutStep ==
    ASSUME RequestInv, PowerCut
    PROVE  RequestInv'
<1> USE DEF RequestInv
<1>1. card' \in [Files -> [0 .. MaxOff -> Contents]]
  <2>1. CASE card' = card
    BY <2>1 DEF TypeOK, LaneTypeOK
  <2>2. CASE fsReq # NoReq /\ Store(fsReq)
    BY <2>2, StoreType DEF TypeOK, LaneTypeOK
  <2> QED
    BY <2>1, <2>2 DEF PowerCut
<1>2. card'["esc"][0] = 1 => card["esc"][0] = 1 \/ OnTheWay("esc")
  <2>1. CASE card' = card
    BY <2>1
  <2>2. CASE fsReq # NoReq /\ Store(fsReq)
    BY <2>2, EscAssumption DEF Store, TypeOK, LaneTypeOK, Requests, OnTheWay, Bringing
  <2> QED
    BY <2>1, <2>2 DEF PowerCut
<1>3. LaneTypeOK'
  <2>1. waQ' \in Seq(Requests) /\ retryQ' \in Seq(Requests) /\ Len(waQ') = 0 /\ Len(retryQ') = 0
    BY EmptySeq DEF PowerCut
  <2>2. failed' \in [Slots -> BOOLEAN]
    BY Zenon DEF PowerCut
  <2> QED
    BY <1>1, <2>1, <2>2, LaneAssumption DEF PowerCut, LaneTypeOK
<1>4. TypeOK'
  <2>1. awaiting' \in BOOLEAN
    BY Zenon DEF PowerCut
  <2> QED
    BY <1>3, <2>1, EscAssumption DEF PowerCut, histVars, TypeOK
<1>5. ~OnTheWay("esc")'
  BY DEF PowerCut, OnTheWay, Bringing
<1> QED
  BY <1>2, <1>4, <1>5 DEF PowerCut, histVars, OneAttemptPerRequest, Unpaid

\* The steps of the boot.
LEMMA BootStep ==
    ASSUME RequestInv, Boot
    PROVE  RequestInv'
<1> USE DEF RequestInv, TypeOK, OneAttemptPerRequest, Unpaid, ramVars, histVars
<1>1. OnTheWay("esc")' = OnTheWay("esc")
  BY DEF Boot, PowerOn, BootRead, BootClear, BootDrive, laneVars, OnTheWay, Bringing
<1>2. LaneTypeOK'
  <2>1. card' \in [Files -> [0 .. MaxOff -> Contents]]
    BY EscAssumption DEF Boot, PowerOn, BootRead, BootClear, BootDrive, LaneTypeOK
  <2> QED
    BY <2>1 DEF Boot, PowerOn, BootRead, BootClear, BootDrive, laneVars, LaneTypeOK
<1>3. CASE PowerOn
  BY <1>1, <1>2, <1>3, EscAssumption DEF PowerOn, laneVars
<1>4. CASE BootRead
  BY <1>1, <1>2, <1>4 DEF BootRead, laneVars
<1>5. ASSUME NEW works \in BOOLEAN, BootClear(works)
      PROVE  RequestInv'
  <2>1. CASE works
    <3>1. card'["esc"][0] = 0
      BY <1>5, <2>1, EscAssumption DEF BootClear, LaneTypeOK
    <3> QED
      BY <1>1, <1>2, <1>5, <2>1, <3>1 DEF BootClear, laneVars, Answers
  <2>2. CASE ~works
    BY <1>1, <1>2, <1>5, <2>2 DEF BootClear, laneVars, Answers
  <2> QED
    BY <2>1, <2>2
<1>6. CASE BootDrive
  BY <1>1, <1>2, <1>6 DEF BootDrive, laneVars
<1> QED
  BY <1>3, <1>4, <1>5, <1>6 DEF Boot

\* The gesture pays for what it puts on its way.
LEMMA GestureStep ==
    ASSUME RequestInv, RcGesture
    PROVE  RequestInv'
<1> USE DEF RequestInv, TypeOK, OneAttemptPerRequest, Unpaid
<1>1. card' = card /\ power' = power /\ power = "on" /\ attempts' = attempts /\ uncleared' = uncleared
      /\ gestures' = gestures + 1 /\ gestures < MaxGestures
      /\ phase' = phase /\ hovers' = hovers /\ boots' = boots
  BY DEF RcGesture
<1>2. Unpaid'
  BY <1>1
<1>3. LaneTypeOK' /\ awaiting' \in BOOLEAN /\ mark' \in Nat /\ wait' \in 0 .. CommitTimeout
      /\ said' \in Answers
  <2>1. CASE Enqueue("internal", "esc", 0, 1)
    <3>1. LaneTypeOK'
      BY <1>1, <2>1, EnqueueType, EscAssumption, LaneAssumption
    <3>2. (awaiting' = TRUE /\ mark' = committed["internal"] /\ wait' = 0 /\ said' = "none")
          \/ (awaiting' = awaiting /\ mark' = mark /\ wait' = wait /\ said' = "refused")
      BY DEF RcGesture
    <3>3. awaiting' \in BOOLEAN
      BY <3>2, Zenon
    <3>4. mark' \in Nat /\ wait' \in 0 .. CommitTimeout /\ said' \in Answers
      BY <3>2, EscAssumption DEF Answers, LaneTypeOK
    <3> QED
      BY <3>1, <3>3, <3>4
  <2>2. CASE LaneFull /\ said' = "refused" /\ UNCHANGED <<laneVars, awaiting, mark, wait>>
    BY <1>1, <2>2 DEF LaneTypeOK, laneVars, Answers
  <2> QED
    BY <2>1, <2>2 DEF RcGesture
<1> QED
  BY <1>1, <1>2, <1>3, EscAssumption

\* fs_owner_task stores only what was on its way.
LEMMA LaneStep ==
    ASSUME RequestInv, FsLane
    PROVE  RequestInv'
<1> USE DEF RequestInv, TypeOK, OneAttemptPerRequest, Unpaid, ramVars, histVars
<1>1. LaneTypeOK'
  BY LaneType DEF FsLane
<1>2. OnTheWay("esc")' => OnTheWay("esc")
  BY LaneFrame, EscAssumption DEF FsLane, OnTheWay
<1>3. card'["esc"][0] # card["esc"][0] => OnTheWay("esc")
  <2>1. card'["esc"][0] \in Contents
    BY <1>1, EscAssumption DEF LaneTypeOK
  <2> QED
    BY <2>1, LaneFrame, EscAssumption DEF FsLane, OnTheWay
<1> QED
  BY <1>1, <1>2, <1>3 DEF FsLane

\* A hover save puts another file on its way.
LEMMA HoverStep ==
    ASSUME RequestInv, HoverSave
    PROVE  RequestInv'
<1> USE DEF RequestInv, TypeOK, OneAttemptPerRequest, Unpaid, ramVars
<1>1. LaneTypeOK'
  BY EnqueueType, EscAssumption, LaneAssumption DEF HoverSave
<1>2. OnTheWay("esc")' => OnTheWay("esc")
  <2>1. /\ "internal" \in Slots /\ "hover" \in Files /\ "esc" \in Files
        /\ 0 \in 0 .. MaxOff /\ 1 \in Contents /\ "esc" # "hover"
    BY EscAssumption
  <2>2. Enqueue("internal", "hover", 0, 1)
    BY DEF HoverSave
  <2> QED
    BY <2>1, <2>2, EnqueueFrame DEF OnTheWay
<1> QED
  BY <1>1, <1>2, EscAssumption DEF HoverSave

\* The other steps touch neither the card nor the lane.
LEMMA LocalStep ==
    ASSUME RequestInv, RcResolve \/ RcCalibEnds \/ Tick \/ UNCHANGED vars
    PROVE  RequestInv'
<1> USE DEF RequestInv, TypeOK, OneAttemptPerRequest, Unpaid, ramVars, histVars
<1>1. /\ UNCHANGED <<card, laneVars, power, gestures, attempts, uncleared, hovers, boots>>
      /\ phase' \in {"OFF", "HIGH"} /\ mark' = mark
      /\ said' \in Answers
  BY DEF RcResolve, RcCalibEnds, Tick, vars, Answers
<1>2. wait' \in 0 .. CommitTimeout
  BY EscAssumption DEF RcResolve, RcCalibEnds, Tick, vars
<1>3. awaiting' \in BOOLEAN
  BY Zenon DEF RcResolve, RcCalibEnds, Tick, vars
<1>4. LaneTypeOK' /\ OnTheWay("esc")' = OnTheWay("esc")
  BY <1>1 DEF laneVars, LaneTypeOK, OnTheWay, Bringing
<1> QED
  BY <1>1, <1>2, <1>3, <1>4

LEMMA RequestStep ==
    RequestInv /\ [Next]_vars => RequestInv'
  BY CutStep, BootStep, GestureStep, LaneStep, HoverStep, LocalStep DEF Next

----------------------------------------------------------------------------
(* What "request on card" rests on. *)

\* As long as no hover throttle was saved, only markers are on their way to
\* the card, so a commit counted since the mark was the marker's; and nobody
\* waits for one before the scheduler runs, while a boot clears the marker.
StoredInv ==
    /\ ~Bringing("esc", 0)
    /\ hovers = 0 => ~OnTheWay("hover")
    /\ hovers = 0 /\ (said = "on_card" \/ (awaiting /\ CommitSeen)) => card["esc"][0] = 1
    /\ power # "on" => ~awaiting

LEMMA Names ==
    /\ "internal" \in Slots /\ "hover" \in Files /\ "esc" \in Files /\ "esc" # "hover"
    /\ 0 \in 0 .. MaxOff /\ 0 \in Contents /\ 1 \in Contents /\ 0 # 1
  BY EscAssumption

LEMMA StoredInit ==
    Init => StoredInv
<1> SUFFICES ASSUME Init PROVE StoredInv
  OBVIOUS
<1>1. ~Bringing("esc", 0) /\ ~OnTheWay("hover")
  BY DEF Init, RamInit, LaneInit, OnTheWay, Bringing
<1>2. ~awaiting /\ said # "on_card"
  BY DEF Init, RamInit
<1> QED
  BY <1>1, <1>2 DEF StoredInv

\* A marker, once it is on the card, is only replaced by what is brought to it.
LEMMA MarkerStays ==
    ASSUME TypeOK, ~Bringing("esc", 0), card["esc"][0] = 1,
           FsDrain \/ FsWake \/ (fsReq # NoReq /\ Store(fsReq))
    PROVE  card'["esc"][0] = 1
<1>1. CASE FsDrain \/ FsWake
  <2>1. LaneTypeOK /\ LaneTypeOK'
    BY <1>1, LaneType DEF TypeOK
  <2>2. card'["esc"][0] \in {0, 1}
    BY <2>1, EscAssumption DEF LaneTypeOK
  <2>3. card'["esc"][0] # card["esc"][0] => Bringing("esc", card'["esc"][0])
    BY <1>1, <2>1, LaneFrame, Names
  <2>4. card'["esc"][0] # 0
    <3> SUFFICES ASSUME card'["esc"][0] = 0 PROVE FALSE
      OBVIOUS
    <3> QED
      BY <2>3
  <2> QED
    BY <2>2, <2>4
<1>2. CASE fsReq # NoReq /\ Store(fsReq)
  BY <1>2, EscAssumption DEF Store, TypeOK, LaneTypeOK, Requests, Bringing
<1> QED
  BY <1>1, <1>2

\* fs_owner_task counts a commit only when it has stored a request.
LEMMA CommitStores ==
    ASSUME RequestInv, StoredInv, hovers = 0, FsDrain \/ FsWake,
           committed' # committed
    PROVE  card'["esc"][0] = 1
<1>1. FsWriteOk
  BY DEF FsDrain, FsTakeFresh, FsTakeRetry, FsWriteFail, FsWake
<1>2. fsReq \in Requests /\ fsReq # NoReq
  BY <1>1 DEF FsWriteOk, RequestInv, TypeOK, LaneTypeOK
<1>3. Bringing(fsReq.file, fsReq.data)
  BY <1>2 DEF Bringing
<1>4. fsReq.file \in {"esc", "hover"} /\ fsReq.data \in Contents /\ Contents = {0, 1} /\ fsReq.off = 0
  BY <1>2, EscAssumption DEF Requests
<1>5. fsReq.file = "esc"
  BY <1>3, <1>4, Zenon DEF StoredInv, OnTheWay
<1>6. fsReq.data = 1
  <2>1. fsReq.data # 0
    <3> SUFFICES ASSUME fsReq.data = 0 PROVE FALSE
      OBVIOUS
    <3> QED
      BY <1>3, <1>5 DEF StoredInv
  <2> QED
    BY <1>4, <2>1
<1>7. card' = [card EXCEPT !["esc"][0] = 1]
  BY <1>1, <1>4, <1>5, <1>6 DEF FsWriteOk, Store
<1> QED
  BY <1>7, EscAssumption DEF RequestInv, TypeOK, LaneTypeOK

LEMMA StoredLane ==
    ASSUME RequestInv, StoredInv, FsLane
    PROVE  StoredInv'
<1> USE DEF FsLane, ramVars, histVars
<1>1. LaneTypeOK /\ TypeOK
  BY DEF RequestInv, TypeOK
<1>2. ~Bringing("esc", 0)'
  BY <1>1, LaneFrame, Names DEF StoredInv
<1>3. hovers' = 0 => ~OnTheWay("hover")'
  BY <1>1, LaneFrame, Names DEF StoredInv, OnTheWay
<1>4. ASSUME hovers' = 0, said' = "on_card" \/ (awaiting' /\ CommitSeen')
      PROVE  card'["esc"][0] = 1
  <2>1. CASE card["esc"][0] = 1
    BY <1>1, <2>1, MarkerStays DEF StoredInv
  <2>2. CASE card["esc"][0] # 1
    <3>1. awaiting /\ ~CommitSeen /\ CommitSeen' /\ mark' = mark
      BY <1>4, <2>2 DEF StoredInv
    <3>2. committed' # committed
      BY <3>1 DEF CommitSeen
    <3> QED
      BY <1>4, <3>2, CommitStores
  <2> QED
    BY <2>1, <2>2
<1> QED
  BY <1>2, <1>3, <1>4 DEF StoredInv

\* A power cut keeps the marker that is there.
LEMMA StoredCut ==
    ASSUME RequestInv, StoredInv, PowerCut
    PROVE  StoredInv'
<1>1. ~Bringing("esc", 0)' /\ ~OnTheWay("hover")'
  BY DEF PowerCut, OnTheWay, Bringing
<1>2. ~awaiting' /\ said' = said /\ hovers' = hovers
  BY DEF PowerCut, histVars
<1>3. card["esc"][0] = 1 => card'["esc"][0] = 1
  <2>1. card' = card \/ (fsReq # NoReq /\ Store(fsReq))
    BY DEF PowerCut
  <2> QED
    BY <2>1, MarkerStays DEF RequestInv, StoredInv
<1> QED
  BY <1>1, <1>2, <1>3 DEF StoredInv

\* A gesture takes its mark before anything of its own can be counted.
LEMMA StoredGesture ==
    ASSUME RequestInv, StoredInv, RcGesture
    PROVE  StoredInv'
<1>1. LaneTypeOK /\ power = "on"
  BY DEF RequestInv, TypeOK, RcGesture
<1>2. UNCHANGED <<card, power, hovers>>
  BY DEF RcGesture
<1>3. CASE LaneFull /\ said' = "refused" /\ UNCHANGED <<laneVars, awaiting, mark, wait>>
  BY <1>1, <1>2, <1>3 DEF laneVars, StoredInv, OnTheWay, Bringing, CommitSeen
<1>4. CASE Enqueue("internal", "esc", 0, 1) /\ mark' = committed["internal"] /\ said' = "none"
  <2>1. ~Bringing("esc", 0)'
    BY <1>1, <1>4, EnqueueFrame, Names DEF StoredInv
  <2>2. hovers' = 0 => ~OnTheWay("hover")'
    BY <1>1, <1>2, <1>4, EnqueueFrame, Names DEF StoredInv, OnTheWay
  <2>3. ~CommitSeen'
    BY <1>4 DEF CommitSeen, Enqueue
  <2> QED
    BY <1>1, <1>2, <1>4, <2>1, <2>2, <2>3 DEF StoredInv
<1> QED
  BY <1>3, <1>4 DEF RcGesture

\* A hover save leaves the markers on their way alone.
LEMMA StoredHover ==
    ASSUME RequestInv, StoredInv, HoverSave
    PROVE  StoredInv'
<1>1. LaneTypeOK /\ hovers' # 0 /\ power' = "on"
  BY DEF RequestInv, TypeOK, HoverSave
<1>2. ~Bringing("esc", 0)'
  BY <1>1, EnqueueFrame, Names DEF HoverSave, StoredInv
<1> QED
  BY <1>1, <1>2 DEF StoredInv

\* The boot takes the marker only while nobody waits, and answers the request.
LEMMA StoredBoot ==
    ASSUME RequestInv, StoredInv, Boot
    PROVE  StoredInv'
<1>1. laneVars' = laneVars /\ awaiting' = awaiting /\ mark' = mark /\ hovers' = hovers /\ power # "on"
  BY DEF Boot, PowerOn, BootRead, BootClear, BootDrive, ramVars, histVars
<1>2. Bringing("esc", 0)' = Bringing("esc", 0) /\ OnTheWay("hover")' = OnTheWay("hover")
  BY <1>1 DEF laneVars, OnTheWay, Bringing
<1>3. ~awaiting'
  BY <1>1 DEF StoredInv
<1>4. said' = "on_card" => card'["esc"][0] = card["esc"][0] /\ said = "on_card"
  BY DEF Boot, PowerOn, BootRead, BootClear, BootDrive, histVars
<1> QED
  BY <1>1, <1>2, <1>3, <1>4 DEF StoredInv

\* The other steps touch neither the card nor the lane.
LEMMA StoredLocal ==
    ASSUME RequestInv, StoredInv, RcResolve \/ RcCalibEnds \/ Tick \/ UNCHANGED vars
    PROVE  StoredInv'
<1>1. UNCHANGED <<card, laneVars, power, mark, hovers>>
  BY DEF RcResolve, RcCalibEnds, Tick, vars, ramVars, histVars
<1>2. Bringing("esc", 0)' = Bringing("esc", 0) /\ OnTheWay("hover")' = OnTheWay("hover")
  BY <1>1 DEF laneVars, OnTheWay, Bringing
<1>3. CommitSeen' = CommitSeen
  BY <1>1 DEF laneVars, CommitSeen
<1>4. /\ awaiting' => awaiting
      /\ said' = "on_card" => said = "on_card" \/ (awaiting /\ CommitSeen)
  BY DEF RcResolve, RcCalibEnds, Tick, vars, ramVars, histVars
<1> QED
  BY <1>1, <1>2, <1>3, <1>4 DEF StoredInv

LEMMA StoredStep ==
    RequestInv /\ StoredInv /\ [Next]_vars => StoredInv'
  BY StoredCut, StoredBoot, StoredGesture, StoredLane, StoredHover, StoredLocal DEF Next

LEMMA StoredImplies ==
    StoredInv => ToldOnCardIsStored
  BY DEF StoredInv, ToldOnCardIsStored

----------------------------------------------------------------------------
\* Every variable of the request protocol and of the lane keeps its type.
THEOREM EscTypeCorrect == Spec => []TypeOK
<1>1. RequestInv => TypeOK
  BY DEF RequestInv
<1> QED
  BY <1>1, RequestInit, RequestStep, PTL DEF Spec

\* One attempt at maximum per gesture, wherever the power is cut, and one more
\* for each boot whose clearing of the marker failed (request_take ignores it).
THEOREM OneAttempt == Spec => []OneAttemptPerRequest
<1>1. RequestInv => OneAttemptPerRequest
  BY DEF RequestInv
<1> QED
  BY <1>1, RequestInit, RequestStep, PTL DEF Spec

\* "On card" is only said of a marker that is there until a boot takes it
\* (esc_calib_rc_step waits for the commit, not for the queue), wherever the
\* power is cut, as long as no hover throttle was saved meanwhile.
THEOREM ToldOnCard == Spec => []ToldOnCardIsStored
<1>1. Init => RequestInv /\ StoredInv
  BY RequestInit, StoredInit
<1>2. RequestInv /\ StoredInv /\ [Next]_vars => (RequestInv /\ StoredInv)'
  BY RequestStep, StoredStep
<1>3. RequestInv /\ StoredInv => ToldOnCardIsStored
  BY StoredImplies
<1> QED
  BY <1>1, <1>2, <1>3, PTL DEF Spec

(***************************************************************************)
(* BatterySense.                                                           *)
(***************************************************************************)

\* samples_above is as long as the run of driven readings the rail ends in,
\* and no shorter than its run of pack readings; no scale is loaded that a
\* voltage cannot be read with.
RailInv ==
    /\ BattTypeOK
    /\ rail \in [1 .. SettleSamples -> Levels \union {"none", "timeout", "invalid"}]
    /\ scale \in {"compiled", "sane"}
    /\ \A i \in 1 .. SettleSamples : i + above > SettleSamples => rail[i] \in {"pack", "full"}
    /\ \A k \in 0 .. SettleSamples :
         (\A i \in 1 .. SettleSamples : i + k > SettleSamples => rail[i] = "pack") => k <= above
    /\ "present" \in sample.flags => above = SettleSamples
    /\ above = SettleSamples /\ rail[SettleSamples] = "pack" => Believable(sample)

LEMMA RailInit ==
    BattInit => RailInv
<1> SUFFICES ASSUME BattInit PROVE RailInv
  OBVIOUS
<1>1. ready \in BOOLEAN
  BY DEF BattInit
<1>2. BattTypeOK
  BY <1>1, BatteryAssumption DEF BattInit, BattTypeOK, NoSample, Levels
<1>3. \A k \in 0 .. SettleSamples :
         (\A i \in 1 .. SettleSamples : i + k > SettleSamples => rail[i] = "pack") => k <= above
  <2> SUFFICES ASSUME NEW k \in 0 .. SettleSamples, k > 0,
                      \A i \in 1 .. SettleSamples : i + k > SettleSamples => rail[i] = "pack"
               PROVE  FALSE
    BY BatteryAssumption DEF BattInit
  <2>1. SettleSamples \in 1 .. SettleSamples /\ SettleSamples + k > SettleSamples
    BY BatteryAssumption
  <2> QED
    BY <2>1 DEF BattInit
<1> QED
  BY <1>2, <1>3, BatteryAssumption DEF BattInit, RailInv, NoSample

\* The flags of a reading: a driven rail is present whatever the card held.
LEMMA Flags ==
    ASSUME scale \in {"compiled", "sane"}, NEW out \in Levels \union {"timeout", "invalid"}
    PROVE  /\ RawFlags(out) \subseteq {"present", "converted", "timeout", "init_fail", "railed"}
           /\ "present" \in RawFlags(out) <=> out \in {"pack", "full"}
           /\ RawFlags("pack") = {"converted", "present"}
           /\ Volts(out) = out
  BY DEF RawFlags, Volts, Levels

\* Every acquisition moves the window on by one reading.
LEMMA RailAcquire ==
    ASSUME RailInv, Acquire
    PROVE  RailInv'
<1> USE BatteryAssumption
<1> PICK out \in Outcomes :
      /\ counts' = IF out \in Levels THEN out ELSE counts
      /\ above' = Above(RawFlags(out))
      /\ sample' = [flags |-> Settled(RawFlags(out), Above(RawFlags(out))), counts |-> counts',
                    volts |-> IF out \in Levels THEN Volts(out) ELSE "zero"]
      /\ rail' = [i \in 1 .. SettleSamples |-> IF i < SettleSamples THEN rail[i + 1] ELSE out]
  BY Zenon DEF Acquire
<1>1. out \in Levels \union {"timeout", "invalid"}
  BY DEF Outcomes
<1>2. UNCHANGED <<ready, cardScale, scale, battPc>>
  BY DEF Acquire
<1>3. /\ RawFlags(out) \subseteq {"present", "converted", "timeout", "init_fail", "railed"}
      /\ "present" \in RawFlags(out) <=> out \in {"pack", "full"}
      /\ RawFlags("pack") = {"converted", "present"}
      /\ Volts(out) = out
  BY <1>1, Flags DEF RailInv
<1>4. /\ above \in 0 .. SettleSamples
      /\ out \notin {"pack", "full"} => above' = 0
      /\ out \in {"pack", "full"} => above' = IF above < SettleSamples THEN above + 1 ELSE above
  BY <1>3 DEF Above, RailInv, BattTypeOK
<1>5. /\ rail' \in [1 .. SettleSamples -> Levels \union {"none", "timeout", "invalid"}]
      /\ rail'[SettleSamples] = out
      /\ \A i \in 1 .. SettleSamples : i < SettleSamples => rail'[i] = rail[i + 1]
  <2>1. \A i \in 1 .. SettleSamples : i < SettleSamples => i + 1 \in 1 .. SettleSamples
    OBVIOUS
  <2> QED
    BY <1>1, <2>1 DEF RailInv
<1>6. sample'.flags = Settled(RawFlags(out), above')
  BY Zenon
<1>7. BattTypeOK'
  <2>1. counts' \in Levels
    BY DEF RailInv, BattTypeOK
  <2>2. sample'.volts \in Levels \union {"nan"} /\ sample'.counts \in Levels
    BY <1>3, <2>1 DEF Levels
  <2>3. sample'.flags \subseteq {"present", "converted", "timeout", "init_fail", "railed"}
    BY <1>3, <1>6 DEF Settled
  <2>4. above' \in 0 .. SettleSamples
    BY <1>4
  <2>5. ready' \in BOOLEAN
    BY <1>2, Zenon DEF RailInv, BattTypeOK
  <2> QED
    BY <1>2, <2>1, <2>2, <2>3, <2>4, <2>5 DEF RailInv, BattTypeOK
<1>8. ASSUME NEW i \in 1 .. SettleSamples, i + above' > SettleSamples
      PROVE  rail'[i] \in {"pack", "full"}
  <2>1. out \in {"pack", "full"}
    BY <1>4, <1>8
  <2>2. CASE i = SettleSamples
    BY <1>5, <2>1, <2>2
  <2>3. CASE i < SettleSamples
    <3>1. i + 1 \in 1 .. SettleSamples /\ (i + 1) + above > SettleSamples
      BY <1>4, <1>8, <2>1, <2>3
    <3>2. rail[i + 1] \in {"pack", "full"}
      BY <3>1 DEF RailInv
    <3> QED
      BY <1>5, <2>3, <3>2
  <2> QED
    BY <2>2, <2>3
<1>9. ASSUME NEW k \in 0 .. SettleSamples,
             \A i \in 1 .. SettleSamples : i + k > SettleSamples => rail'[i] = "pack"
      PROVE  k <= above'
  <2>1. CASE k = 0
    BY <1>4, <2>1
  <2>2. CASE k > 0
    <3>1. out = "pack"
      BY <1>5, <1>9, <2>2
    <3>2. k - 1 \in 0 .. SettleSamples
      BY <2>2
    <3>3. ASSUME NEW j \in 1 .. SettleSamples, j + (k - 1) > SettleSamples
          PROVE  rail[j] = "pack"
      <4>1. j - 1 \in 1 .. SettleSamples /\ j - 1 < SettleSamples /\ (j - 1) + k > SettleSamples
        BY <2>2, <3>3
      <4>2. rail'[j - 1] = rail[(j - 1) + 1] /\ (j - 1) + 1 = j
        BY <1>5, <4>1
      <4> QED
        BY <1>9, <4>1, <4>2
    <3>4. k - 1 <= above
      BY <3>2, <3>3 DEF RailInv
    <3> QED
      BY <1>4, <3>1, <3>4
  <2> QED
    BY <2>1, <2>2
<1>10. "present" \in sample'.flags => above' = SettleSamples
  <2>1. "present" \in sample'.flags => ~(above' < SettleSamples)
    BY <1>6 DEF Settled
  <2> QED
    BY <1>4, <2>1
<1>11. above' = SettleSamples /\ rail'[SettleSamples] = "pack" => Believable(sample)'
  <2> SUFFICES ASSUME above' = SettleSamples, out = "pack" PROVE Believable(sample')
    BY <1>5 DEF Believable
  <2>1. sample'.flags = RawFlags("pack")
    BY <1>6 DEF Settled
  <2> QED
    BY <1>3, <2>1 DEF Believable
<1> QED
  BY <1>2, <1>5, <1>7, <1>8, <1>9, <1>10, <1>11 DEF RailInv

LEMMA RailStep ==
    RailInv /\ [BattNext]_battVars => RailInv'
<1> SUFFICES ASSUME RailInv, [BattNext]_battVars PROVE RailInv'
  OBVIOUS
<1>1. CASE LoadCalibration
  <2>1. scale' \in {"compiled", "sane"}
    BY <1>1 DEF LoadCalibration, InBand, RailInv, BattTypeOK, CardScales
  <2>2. UNCHANGED <<ready, cardScale, counts, above, sample, rail>> /\ battPc' = "acquire"
    BY <1>1 DEF LoadCalibration
  <2> QED
    BY <2>1, <2>2 DEF RailInv, BattTypeOK, Believable, CardScales
<1>2. CASE UNCHANGED battVars
  BY <1>2 DEF battVars, RailInv, BattTypeOK, Believable
<1> QED
  BY <1>1, <1>2, RailAcquire DEF BattNext

LEMMA RailImplies ==
    RailInv => PresentEarned /\ PackSeen
<1> USE BatteryAssumption
<1> SUFFICES ASSUME RailInv PROVE PresentEarned /\ PackSeen
  OBVIOUS
<1>1. PresentEarned
  <2> SUFFICES ASSUME Believable(sample), NEW i \in 1 .. SettleSamples
               PROVE  rail[i] \in {"pack", "full"}
    BY DEF PresentEarned
  <2>1. above = SettleSamples
    BY DEF Believable, RailInv
  <2> QED
    BY <2>1 DEF RailInv
<1>2. PackSeen
  <2> SUFFICES ASSUME \A i \in 1 .. SettleSamples : rail[i] = "pack"
               PROVE  Believable(sample)
    BY DEF PackSeen
  <2>1. SettleSamples <= above
    BY DEF RailInv
  <2> QED
    BY <2>1 DEF RailInv, BattTypeOK
<1> QED
  BY <1>1, <1>2

(***************************************************************************)
(* Annunciator.                                                            *)
(***************************************************************************)

\* The deadline is n ticks ahead, across a wrap of the counter, and that is
\* what is left of the window since the last report, or one tick more (zero is
\* the idle mark, so a deadline of zero is put off by one).
Ahead(n) ==
    /\ until = now + n \/ until + ClockMod = now + n
    /\ n + quiet \in {ActivityTicks, ActivityTicks + 1}

\* Between the pass that sees the deadline passed and the one that clears it
\* the window is over.
DeadlineInv ==
    /\ lightsPc # "expire" =>
         /\ until # 0 => \E n \in 0 .. ActivityTicks + 1 : Ahead(n)
         /\ quiet <= ActivityTicks \/ wasActive => until # 0
         /\ quiet \in 1 .. ActivityTicks => wasActive
    /\ lightsPc = "expire" => quiet >= ActivityTicks

LightsInv == LightsTypeOK /\ faults \subseteq BootFaults /\ PatternOfState /\ DeadlineInv

LEMMA Window ==
    /\ ClockMod \in Nat /\ ActivityTicks \in Nat /\ BeatPeriod \in Nat /\ HalfTicks \in Nat
    /\ ActivityTicks >= 1 /\ 2 * (ActivityTicks + 2) <= ClockMod /\ ClockMod >= 6
  BY AnnunciatorAssumption

\* The tick counter wraps at most once between two values.
LEMMA Wrap ==
    ASSUME NEW m \in Nat, m > 0, NEW x \in Nat, x < m
    PROVE  x % m = x /\ (x + m) % m = x
  OBVIOUS

\* (int32_t)(now - deadline) >= 0 for a deadline within the window: it is not
\* ahead at all.
LEMMA PassedIsNow ==
    ASSUME LightsTypeOK, NEW n \in 0 .. ActivityTicks + 1, Ahead(n)
    PROVE  Passed(until) <=> n = 0
<1> USE Window
<1>1. now \in Nat /\ until \in Nat /\ now < ClockMod /\ until < ClockMod
  BY DEF LightsTypeOK
<1>2. CASE n = 0
  <2>1. until = now
    BY <1>1, <1>2 DEF Ahead
  <2>2. (0 + ClockMod) % ClockMod = 0
    BY Wrap
  <2>3. now + ClockMod - until = 0 + ClockMod
    BY <1>1, <2>1
  <2>4. Since(until) = 0
    BY <2>2, <2>3 DEF Since
  <2> QED
    BY <1>2, <2>4 DEF Passed
<1>3. CASE n # 0
  <2> DEFINE left == ClockMod - n
  <2>1. left \in Nat /\ left < ClockMod /\ 2 * left >= ClockMod
    BY <1>3
  <2>2. now + ClockMod - until = left \/ now + ClockMod - until = left + ClockMod
    BY <1>1 DEF Ahead
  <2>3. left % ClockMod = left /\ (left + ClockMod) % ClockMod = left
    BY <2>1, Wrap
  <2>4. Since(until) = left
    BY <2>2, <2>3 DEF Since
  <2> QED
    BY <1>3, <2>1, <2>4 DEF Passed
<1> QED
  BY <1>2, <1>3

\* The clock's next tick.
LEMMA NextTick ==
    ASSUME LightsTypeOK, PassEnds
    PROVE  /\ now' \in 0 .. ClockMod - 1
           /\ now' = IF now + 1 < ClockMod THEN now + 1 ELSE 0
           /\ quiet' \in 0 .. Unseen
           /\ quiet' = IF quiet < Unseen THEN quiet + 1 ELSE quiet
           /\ lightsPc' = "beat"
<1> USE Window
<1>1. now \in Nat /\ now < ClockMod /\ quiet \in 0 .. Unseen
  BY DEF LightsTypeOK
<1>2. CASE now + 1 < ClockMod
  <2>1. (now + 1) % ClockMod = now + 1
    BY <1>1, <1>2, Wrap
  <2> QED
    BY <1>1, <1>2, <2>1 DEF PassEnds, Unseen
<1>3. CASE ~(now + 1 < ClockMod)
  <2>1. now + 1 = 0 + ClockMod
    BY <1>1, <1>3
  <2>2. (0 + ClockMod) % ClockMod = 0
    BY Wrap
  <2> QED
    BY <1>1, <1>3, <2>1, <2>2 DEF PassEnds, Unseen
<1> QED
  BY <1>2, <1>3

\* heartbeat_note_link_activity: the whole window ahead, or a tick more.
LEMMA NewDeadline ==
    ASSUME LightsTypeOK
    PROVE  /\ Deadline \in 1 .. ClockMod - 1
           /\ \E n \in {ActivityTicks, ActivityTicks + 1} :
                Deadline = now + n \/ Deadline + ClockMod = now + n
<1> USE Window
<1>1. now \in Nat /\ now < ClockMod
  BY DEF LightsTypeOK
<1>2. CASE now + ActivityTicks < ClockMod
  <2>1. (now + ActivityTicks) % ClockMod = now + ActivityTicks
    BY <1>1, <1>2, Wrap
  <2>2. Deadline = now + ActivityTicks
    BY <1>1, <2>1 DEF Deadline
  <2> QED
    BY <1>1, <1>2, <2>2
<1>3. CASE ~(now + ActivityTicks < ClockMod)
  <2> DEFINE d == now + ActivityTicks - ClockMod
  <2>1. d \in Nat /\ d < ClockMod - 1 /\ now + ActivityTicks = d + ClockMod
    BY <1>1, <1>3
  <2>2. (d + ClockMod) % ClockMod = d
    BY <2>1, Wrap
  <2>3. Deadline = IF d = 0 THEN 1 ELSE d
    BY <2>1, <2>2 DEF Deadline
  <2> QED
    BY <1>1, <2>1, <2>3
<1> QED
  BY <1>2, <1>3

\* The deadline through a step of the task or a report.
LEMMA DeadlineStep ==
    ASSUME LightsTypeOK, DeadlineInv, LightsNext
    PROVE  DeadlineInv'
<1> USE Window
<1>1. /\ now \in Nat /\ until \in Nat /\ now < ClockMod /\ until < ClockMod
      /\ quiet \in 0 .. Unseen /\ lightsPc \in {"beat", "activity", "expire"}
  BY DEF LightsTypeOK
<1>2. CASE Beat \/ StateChanges
  <2>1. UNCHANGED <<until, now, quiet, wasActive>>
    BY <1>2 DEF Beat, StateChanges
  <2>2. lightsPc = "expire" <=> lightsPc' = "expire"
    BY <1>2 DEF Beat, StateChanges
  <2>3. \A n : Ahead(n)' = Ahead(n)
    BY <2>1 DEF Ahead
  <2> QED
    BY <2>1, <2>2, <2>3, Zenon DEF DeadlineInv
<1>3. CASE ServiceActivity /\ until = 0
  <2>1. PassEnds /\ Release /\ until' = until /\ lightsPc # "expire"
    BY <1>3 DEF ServiceActivity
  <2>2. ~wasActive' /\ lightsPc' = "beat"
    BY <2>1 DEF Release, PassEnds
  <2>3. quiet > ActivityTicks
    BY <1>1, <1>3, <2>1 DEF DeadlineInv
  <2>4. quiet' \in Nat /\ quiet' > ActivityTicks
    BY <1>1, <2>1, <2>3, NextTick DEF Unseen
  <2> QED
    BY <1>3, <2>1, <2>2, <2>4 DEF DeadlineInv
<1>4. CASE ServiceActivity /\ until # 0
  <2> PICK n \in 0 .. ActivityTicks + 1 : Ahead(n)
    BY <1>4 DEF DeadlineInv, ServiceActivity
  <2>1. CASE ~Passed(until)
    <3>1. PassEnds /\ until' = until
      BY <1>4, <2>1 DEF ServiceActivity
    <3>2. wasActive'
      BY <1>4, <2>1 DEF ServiceActivity, Override
    <3>3. n >= 1
      BY <2>1, PassedIsNow
    <3>4. n - 1 \in 0 .. ActivityTicks + 1 /\ Ahead(n - 1)'
      BY <1>1, <3>1, <3>3, NextTick DEF Ahead, Unseen
    <3> QED
      BY <1>4, <3>1, <3>2, <3>4, NextTick DEF DeadlineInv
  <2>2. CASE Passed(until)
    <3>1. lightsPc' = "expire" /\ quiet' = quiet
      BY <1>4, <2>2 DEF ServiceActivity
    <3>2. quiet >= ActivityTicks
      BY <1>1, <2>2, PassedIsNow DEF Ahead
    <3> QED
      BY <3>1, <3>2 DEF DeadlineInv
  <2> QED
    BY <2>1, <2>2
<1>5. CASE Expire
  <2>1. PassEnds /\ until' = 0
    BY <1>5 DEF Expire
  <2>2. ~wasActive'
    BY <1>5 DEF Expire, Release
  <2>3. quiet >= ActivityTicks
    BY <1>5 DEF DeadlineInv, Expire
  <2>4. quiet' \in Nat /\ quiet' > ActivityTicks /\ lightsPc' = "beat"
    BY <1>1, <2>1, <2>3, NextTick DEF Unseen
  <2> QED
    BY <2>1, <2>2, <2>4 DEF DeadlineInv
<1>6. CASE NoteLinkActivity
  <2>1. until' = Deadline /\ now' = now /\ lightsPc' = lightsPc
        /\ quiet' = IF lightsPc = "expire" THEN Unseen ELSE 0
    BY <1>6 DEF NoteLinkActivity
  <2>2. CASE lightsPc = "expire"
    BY <2>1, <2>2 DEF DeadlineInv, Unseen
  <2>3. CASE lightsPc # "expire"
    <3>1. PICK n \in {ActivityTicks, ActivityTicks + 1} :
            Deadline = now + n \/ Deadline + ClockMod = now + n
      BY NewDeadline
    <3>2. n \in 0 .. ActivityTicks + 1 /\ Ahead(n)'
      BY <2>1, <2>3, <3>1 DEF Ahead
    <3>3. until' # 0 /\ quiet' = 0
      BY <2>1, <2>3, NewDeadline
    <3> QED
      BY <2>1, <2>3, <3>2, <3>3 DEF DeadlineInv
  <2> QED
    BY <2>2, <2>3
<1> QED
  BY <1>2, <1>3, <1>4, <1>5, <1>6 DEF LightsNext

\* What a state toggles or sets does not depend on the buzzer's count, but for
\* the buzzer.
LEMMA SamePalette ==
    ASSUME NEW s, faults' = faults
    PROVE  Palette(s)' = Palette(s)
<1>1. SetsOn(s)' = SetsOn(s)
  BY DEF SetsOn
<1>2. Toggles(s)' \ {"buzzer"} = Toggles(s) \ {"buzzer"}
  BY DEF Toggles
<1> QED
  BY <1>1, <1>2 DEF Palette

\* indicator_set and indicator_toggle light nothing outside the pattern.
LEMMA RenderedLights ==
    ASSUME NEW s, NEW on
    PROVE  Rendered(s, on) \subseteq on \union Toggles(s) \union SetsOn(s)
  BY DEF Rendered, Flip

LEMMA PatternOutputs ==
    ASSUME NEW s
    PROVE  Toggles(s) \subseteq Outputs /\ SetsOn(s) \subseteq Outputs
  BY DEF Toggles, SetsOn, Outputs

\* _run_heartbeat writes a new state's pattern on dark LEDs; the override
\* touches blue only.
LEMMA PatternStep ==
    ASSUME LightsTypeOK, PatternOfState, LightsNext
    PROVE  PatternOfState'
<1> DEFINE Shows(on, over, s) == \A o \in on : o = "buzzer" \/ (over /\ o = "blue") \/ o \in Palette(s)
<1>1. PatternOfState <=> Shows(lit, wasActive, lastShown)
  BY DEF PatternOfState
<1>2. faults' = faults
  BY DEF LightsNext, Beat, ServiceActivity, Expire, NoteLinkActivity, StateChanges
<1>3. (\A o \in lit' : o = "buzzer" \/ (wasActive' /\ o = "blue") \/ o \in Palette(lastShown'))
      => PatternOfState'
  <2>1. Palette(lastShown)' = Palette(lastShown')
    BY <1>2, SamePalette DEF Palette, SetsOn, Toggles
  <2> QED
    BY <2>1 DEF PatternOfState
<1>4. CASE Beat
  <2>1. wasActive' = wasActive
    BY <1>4 DEF Beat
  <2>2. CASE UNCHANGED <<lit, lastShown>>
    BY <1>1, <1>3, <2>1, <2>2
  <2>3. CASE lastShown' = shown /\ lit' = Rendered(shown, Cleared(lit))
    <3>1. ASSUME NEW o \in lit'
          PROVE  o \in Cleared(lit) \/ o = "buzzer" \/ o \in Palette(shown)
      BY <2>3, <3>1, RenderedLights DEF Palette
    <3>2. ASSUME NEW o \in Cleared(lit)
          PROVE  o = "buzzer" \/ (wasActive /\ o = "blue") \/ o \in Palette(shown)
      <4>1. CASE shown = lastShown
        BY <1>1, <3>2, <4>1 DEF Cleared
      <4>2. CASE shown # lastShown
        BY <3>2, <4>2 DEF Cleared, LightsTypeOK, Outputs
      <4> QED
        BY <4>1, <4>2
    <3> QED
      BY <1>3, <2>1, <2>3, <3>1, <3>2
  <2> QED
    BY <1>4, <2>2, <2>3 DEF Beat
<1>5. CASE ServiceActivity \/ Expire
  <2>1. lastShown' = lastShown
    BY <1>5 DEF ServiceActivity, Expire
  <2>2. CASE Release
    <3>1. ASSUME NEW o \in lit'
          PROVE  o \in lit /\ (wasActive => o # "blue")
      BY <2>2, <3>1 DEF Release
    <3> QED
      BY <1>1, <1>3, <2>1, <3>1
  <2>3. CASE Override
    <3>1. ASSUME NEW o \in lit'
          PROVE  o \in lit \/ o = "blue"
      BY <2>3, <3>1 DEF Override, Flip
    <3>2. wasActive'
      BY <2>3 DEF Override
    <3> QED
      BY <1>1, <1>3, <2>1, <3>1, <3>2
  <2>4. CASE UNCHANGED <<lit, wasActive>>
    BY <1>1, <1>3, <2>1, <2>4
  <2> QED
    BY <1>5, <2>2, <2>3, <2>4 DEF ServiceActivity, Expire
<1>6. CASE NoteLinkActivity \/ StateChanges
  <2>1. UNCHANGED <<lit, wasActive, lastShown>>
    BY <1>6 DEF NoteLinkActivity, StateChanges
  <2> QED
    BY <1>1, <1>3, <2>1
<1> QED
  BY <1>4, <1>5, <1>6 DEF LightsNext

LEMMA LightsTypeStep ==
    ASSUME LightsTypeOK, LightsNext
    PROVE  LightsTypeOK'
<1> USE Window
<1>1. CASE Beat
  <2>1. lit' \subseteq Outputs
    <3>1. Rendered(shown, Cleared(lit)) \subseteq Outputs
      BY RenderedLights, PatternOutputs DEF LightsTypeOK, Cleared
    <3> QED
      BY <1>1, <3>1 DEF Beat, LightsTypeOK
  <2>2. firstBeat' \in BOOLEAN
    BY <1>1, Zenon DEF Beat, LightsTypeOK
  <2>3. wasActive' \in BOOLEAN
    BY <1>1, Zenon DEF Beat, LightsTypeOK
  <2>4. buzz' \in 0 .. 1
    BY <1>1 DEF Beat, LightsTypeOK
  <2>5. {shown', lastShown'} \subseteq ShownStates \union {"UNINITIALIZED"}
    BY <1>1 DEF Beat, LightsTypeOK
  <2>6. {now', lastBeat', until', toggled'} \subseteq 0 .. (ClockMod - 1)
    BY <1>1 DEF Beat, LightsTypeOK
  <2>7. lightsPc' = "activity" /\ quiet' = quiet
    BY <1>1 DEF Beat
  <2> QED
    BY <2>1, <2>2, <2>3, <2>4, <2>5, <2>6, <2>7 DEF LightsTypeOK
<1>2. CASE ServiceActivity \/ Expire
  <2>1. /\ UNCHANGED <<shown, lastShown, buzz, firstBeat, faults, lastBeat>>
        /\ until' \in {until, 0}
    BY <1>2 DEF ServiceActivity, Expire
  <2>2. PassEnds \/ (UNCHANGED <<now, quiet>> /\ lightsPc' = "expire")
    BY <1>2 DEF ServiceActivity, Expire
  <2>3. now' \in 0 .. (ClockMod - 1) /\ quiet' \in 0 .. Unseen /\ lightsPc' \in {"beat", "expire"}
    BY <2>2, NextTick DEF LightsTypeOK
  <2>4. Release \/ Override \/ UNCHANGED <<lit, wasActive, toggled>>
    BY <1>2 DEF ServiceActivity, Expire
  <2>5. wasActive' \in BOOLEAN
    BY <2>4, Zenon DEF Release, Override, LightsTypeOK
  <2>6. toggled' \in {toggled, now}
    BY <2>4 DEF Release, Override
  <2>7. lit' \subseteq lit \union {"blue"}
    BY <2>4 DEF Release, Override, Flip
  <2>8. firstBeat' \in BOOLEAN
    BY <2>1, Zenon DEF LightsTypeOK
  <2> QED
    BY <2>1, <2>3, <2>5, <2>6, <2>7, <2>8 DEF LightsTypeOK, Outputs
<1>3. CASE NoteLinkActivity
  <2>1. until' \in 0 .. (ClockMod - 1)
    BY <1>3, NewDeadline DEF NoteLinkActivity
  <2>2. quiet' \in 0 .. Unseen
    BY <1>3 DEF NoteLinkActivity, Unseen
  <2>3. firstBeat' \in BOOLEAN /\ wasActive' \in BOOLEAN
    BY <1>3, Zenon DEF NoteLinkActivity, LightsTypeOK
  <2> QED
    BY <1>3, <2>1, <2>2, <2>3 DEF NoteLinkActivity, LightsTypeOK
<1>4. CASE StateChanges
  <2>1. firstBeat' \in BOOLEAN /\ wasActive' \in BOOLEAN
    BY <1>4, Zenon DEF StateChanges, LightsTypeOK
  <2> QED
    BY <1>4, <2>1 DEF StateChanges, LightsTypeOK
<1> QED
  BY <1>1, <1>2, <1>3, <1>4 DEF LightsNext

LEMMA LightsStart ==
    LightsInit => LightsInv
<1> USE Window
<1> SUFFICES ASSUME LightsInit PROVE LightsInv
  OBVIOUS
<1>1. firstBeat \in BOOLEAN /\ wasActive \in BOOLEAN
  BY Zenon DEF LightsInit
<1>2. LightsTypeOK
  BY <1>1 DEF LightsInit, LightsTypeOK, Unseen
<1>3. PatternOfState
  BY DEF LightsInit, PatternOfState
<1>4. DeadlineInv
  BY DEF LightsInit, DeadlineInv, Unseen
<1> QED
  BY <1>2, <1>3, <1>4 DEF LightsInv, LightsInit

LEMMA LightsStep ==
    LightsInv /\ [LightsNext]_lightsVars => LightsInv'
<1> SUFFICES ASSUME LightsInv, [LightsNext]_lightsVars PROVE LightsInv'
  OBVIOUS
<1>1. CASE LightsNext
  <2>1. faults' = faults
    BY <1>1 DEF LightsNext, Beat, ServiceActivity, Expire, NoteLinkActivity, StateChanges
  <2> QED
    BY <1>1, <2>1, LightsTypeStep, PatternStep, DeadlineStep DEF LightsInv
<1>2. CASE UNCHANGED lightsVars
  <2>1. LightsTypeOK'
    BY <1>2, Zenon DEF lightsVars, LightsInv, LightsTypeOK
  <2>2. PatternOfState'
    BY <1>2, Zenon DEF lightsVars, LightsInv, PatternOfState, Palette, Toggles, SetsOn
  <2>3. DeadlineInv'
    BY <1>2, Zenon DEF lightsVars, LightsInv, DeadlineInv, Ahead
  <2> QED
    BY <1>2, <2>1, <2>2, <2>3 DEF lightsVars, LightsInv
<1> QED
  BY <1>1, <1>2

LEMMA LightsImply ==
    LightsInv => PatternOfState /\ ActivityHonest
<1> USE Window
<1> SUFFICES ASSUME LightsInv, lightsPc = "beat"
             PROVE  /\ wasActive => quiet <= ActivityTicks + 1
                    /\ quiet \in 1 .. ActivityTicks => wasActive
  BY DEF LightsInv, ActivityHonest
<1>1. ASSUME wasActive PROVE quiet <= ActivityTicks + 1
  <2>1. PICK n \in 0 .. ActivityTicks + 1 : Ahead(n)
    BY <1>1 DEF LightsInv, DeadlineInv
  <2> QED
    BY <2>1 DEF Ahead, LightsInv, LightsTypeOK
<1> QED
  BY <1>1 DEF LightsInv, DeadlineInv


(***************************************************************************)
(* Calibration.                                                            *)
(***************************************************************************)

\* The task's places: with the samples its own, and up to the store that gives
\* them back.
Working == {"capture", "fit", "commit", "commit2", "save"}
Diverting == Working \union {"end"}
Places == {"free", "new", "enter", "divert", "tell", "standby", "clear", "gone"} \union Diverting

Kinds == Targets \union {"unknown"}
Held == Orientations \union {"ok"}
Jobs == [pc : Places, hold : Seq(Held), banked : Seq(Sides), ticks : Nat,
         told : {"none", "COMPLETE", "FAILED", "silent"}, asked : BOOLEAN]

Among(s) == {s[i] : i \in DOMAIN s}

\* What a task of the given kind has in its locals: no side is banked twice,
\* and the accelerometer's fit starts with as many poses as there are sides.
JobOk(j, kind) ==
    /\ Len(j.hold) <= HoldSamples
    /\ j.ticks < CaptureTicks + StarveLimit
    /\ Cardinality(Among(j.banked)) = Len(j.banked)
    /\ j.pc = "fit" /\ kind = "acc" => Len(j.banked) = Cardinality(Sides)
    /\ j.pc \in Working => kind # "unknown"

\* A cancel that can still be heard was asked of every task it meets, and what
\* the wizard was told of a run agrees with what was queued.
ToldOk(j, cancelled, saved) ==
    /\ cancelled /\ j.pc \notin {"free", "new", "gone"} => j.asked
    /\ saved => j.pc \in {"end", "tell", "standby", "clear", "gone"}
    /\ j.pc \in {"standby", "clear", "gone"} =>
         /\ j.told = "COMPLETE" <=> saved
         /\ j.told \in {"COMPLETE", "FAILED"} \/ j.asked

\* While no two tasks have overlapped, a half-written target is the one the
\* only task is committing, and the samples are its own until it is done.
Shielded ==
    /\ \A q, r \in Runs : Alive(q) /\ Alive(r) => q = r
    /\ \A r \in Runs : job[r].pc \in Working => calActive
    /\ \A r \in Runs : job[r].pc = "commit2" => stored[plan[r]].a = r
    /\ \A t \in HalfWritten : \E r \in Runs : job[r].pc = "commit2" /\ plan[r] = t
    /\ torn = {}

DivertInv ==
    /\ calActive => \E r \in Runs : job[r].pc \in Diverting
    /\ overlap \/ Shielded

CalTypes ==
    /\ calState \in {"STANDBY", "CALIBRATING", "FAILSAFE", "ARMED"}
    /\ calActive \in BOOLEAN /\ calCancel \in BOOLEAN /\ overlap \in BOOLEAN
    /\ calHandle \in 0 .. 2
    /\ calRing \in Seq(Orientations \union {"moving"}) /\ Len(calRing) <= CalibCap
    /\ plan \in CalibPlans
    /\ stored \in [Targets -> [a : 0 .. 2, b : 0 .. 2]]
    /\ queued \subseteq Runs /\ torn \subseteq Targets

JobsInv ==
    /\ job \in [Runs -> Jobs]
    /\ \A r \in Runs : JobOk(job[r], plan[r]) /\ ToldOk(job[r], calCancel, r \in queued)

CalInv == CalTypes /\ JobsInv /\ DivertInv

LEMMA Budgets ==
    /\ HoldSamples \in Nat /\ CaptureTicks \in Nat /\ StarveLimit \in Nat /\ CalibCap \in Nat
    /\ HoldSamples >= 1 /\ CaptureTicks >= 1 /\ StarveLimit >= 1 /\ CalibCap >= 1
  BY CalibrationAssumption

LEMMA PlanKinds ==
    ASSUME plan \in CalibPlans, NEW r \in Runs
    PROVE  plan[r] \in Kinds
  BY CalibrationAssumption DEF Runs, Kinds, Targets

\* Nothing is banked at first.
LEMMA NoneBanked ==
    <<>> \in Seq(Sides) /\ <<>> \in Seq(Held) /\ Len(<<>>) = 0 /\ Cardinality(Among(<<>>)) = 0
<1>1. Among(<<>>) = {}
  BY DEF Among
<1> QED
  BY <1>1, FS_EmptySet, EmptySeq

LEMMA FreshJob ==
    /\ Fresh \in Jobs /\ Fresh.pc = "free" /\ Fresh.told = "none" /\ Fresh.asked = FALSE
    /\ \A kind : JobOk(Fresh, kind)
<1>1. Fresh \in Jobs
  BY NoneBanked DEF Fresh, Jobs, Places
<1> QED
  BY <1>1, NoneBanked, Budgets DEF Fresh, JobOk, Working

\* A capture's locals end with it.
LEMMA LeftJob ==
    ASSUME NEW j \in Jobs, NEW pc \in Places, NEW kind,
           pc = "fit" => kind # "acc", pc \in Working => kind # "unknown"
    PROVE  /\ Leaves(j, pc) \in Jobs
           /\ Leaves(j, pc).pc = pc
           /\ Leaves(j, pc).told = j.told /\ Leaves(j, pc).asked = j.asked
           /\ JobOk(Leaves(j, pc), kind)
<1>1. /\ Leaves(j, pc).pc = pc /\ Leaves(j, pc).hold = <<>> /\ Leaves(j, pc).ticks = 0
      /\ Leaves(j, pc).banked = <<>> /\ Leaves(j, pc).told = j.told /\ Leaves(j, pc).asked = j.asked
      /\ Leaves(j, pc) \in Jobs
  BY NoneBanked DEF Leaves, Jobs
<1> QED
  BY <1>1, NoneBanked, Budgets DEF JobOk

\* A task's step replaces its own job only.
LEMMA OneJob ==
    ASSUME JobsInv, NEW r \in Runs, NEW k \in Jobs, job' = [job EXCEPT ![r] = k],
           plan' = plan, JobOk(k, plan[r]), ToldOk(k, calCancel', r \in queued'),
           calCancel' => calCancel, \A q \in Runs : q # r => (q \in queued' <=> q \in queued)
    PROVE  /\ JobsInv'
           /\ job'[r] = k
           /\ \A q \in Runs : q # r => job'[q] = job[q]
<1>1. /\ job' \in [Runs -> Jobs] /\ job'[r] = k
      /\ \A q \in Runs : q # r => job'[q] = job[q]
  BY DEF JobsInv
<1>2. ASSUME NEW q \in Runs
      PROVE  JobOk(job'[q], plan[q]) /\ ToldOk(job'[q], calCancel', q \in queued')
  <2>1. CASE q = r
    BY <1>1, <2>1
  <2>2. CASE q # r
    <3>1. JobOk(job[q], plan[q]) /\ ToldOk(job[q], calCancel, q \in queued)
      BY DEF JobsInv
    <3>2. ToldOk(job[q], calCancel', q \in queued')
      BY <2>2, <3>1 DEF ToldOk
    <3> QED
      BY <1>1, <2>2, <3>1, <3>2
  <2> QED
    BY <2>1, <2>2
<1> QED
  BY <1>1, <1>2 DEF JobsInv

\* Most of a task's steps neither start nor end the diversion, and commit
\* nothing.
LEMMA SameDiversion ==
    ASSUME CalInv, NEW r \in Runs, Alive(r),
           \A q \in Runs : q # r => job'[q] = job[q],
           UNCHANGED <<calActive, stored, torn, overlap, plan>>,
           job[r].pc # "commit2", job'[r].pc # "commit2",
           job'[r].pc \in Working => job[r].pc \in Working,
           job[r].pc \in Diverting => job'[r].pc \in Diverting
    PROVE  DivertInv'
<1>1. calActive' => \E q \in Runs : job'[q].pc \in Diverting
  BY DEF CalInv, DivertInv
<1>2. ASSUME Shielded PROVE Shielded'
  <2>1. \A q \in Runs : Alive(q)' => Alive(q)
    BY DEF Alive
  <2>2. \A q \in Runs : job'[q].pc \in Working => job[q].pc \in Working
    OBVIOUS
  <2>3. \A q \in Runs : job'[q].pc = "commit2" <=> job[q].pc = "commit2"
    OBVIOUS
  <2>4. HalfWritten' = HalfWritten
    BY DEF HalfWritten
  <2> QED
    BY <1>2, <2>1, <2>2, <2>3, <2>4 DEF Shielded
<1> QED
  BY <1>1, <1>2 DEF CalInv, DivertInv

----------------------------------------------------------------------------
(* The polls of a capture. *)

\* A pose that advances coverage makes one side more.
LEMMA Banking ==
    ASSUME NEW banked \in Seq(Sides), Cardinality(Among(banked)) = Len(banked),
           NEW a, Advances(a, banked)
    PROVE  /\ Append(banked, a) \in Seq(Sides)
           /\ Cardinality(Among(Append(banked, a))) = Len(Append(banked, a))
<1>1. a \in Sides /\ a \notin Among(banked)
  BY DEF Advances, Among
<1>2. IsFiniteSet(Among(banked))
  <2>1. Among(banked) \in SUBSET Sides
    BY ElementOfSeq, LenProperties DEF Among
  <2> QED
    BY <2>1, FS_Subset, CalibrationAssumption
<1>3. Among(Append(banked, a)) = Among(banked) \cup {a}
  <2>1. /\ Append(banked, a) \in Seq(Sides)
        /\ Len(Append(banked, a)) = Len(banked) + 1
        /\ \A i \in 1 .. Len(banked) : Append(banked, a)[i] = banked[i]
        /\ Append(banked, a)[Len(banked) + 1] = a
    BY <1>1, AppendProperties
  <2>2. /\ Len(banked) \in Nat /\ DOMAIN banked = 1 .. Len(banked)
        /\ DOMAIN Append(banked, a) = 1 .. Len(banked) + 1
    BY <2>1, LenProperties
  <2>3. ASSUME NEW x
        PROVE  x \in Among(Append(banked, a)) <=> x \in Among(banked) \cup {a}
    <3>1. ASSUME NEW i \in 1 .. Len(banked) + 1, x = Append(banked, a)[i]
          PROVE  x = a \/ \E k \in 1 .. Len(banked) : x = banked[k]
      <4>1. i = Len(banked) + 1 \/ i \in 1 .. Len(banked)
        BY <2>2
      <4> QED
        BY <2>1, <3>1, <4>1
    <3>2. ASSUME x = a \/ \E k \in 1 .. Len(banked) : x = banked[k]
          PROVE  \E i \in 1 .. Len(banked) + 1 : x = Append(banked, a)[i]
      <4>1. Len(banked) + 1 \in 1 .. Len(banked) + 1
            /\ \A k \in 1 .. Len(banked) : k \in 1 .. Len(banked) + 1
        BY <2>2
      <4> QED
        BY <2>1, <3>2, <4>1
    <3> QED
      BY <2>2, <3>1, <3>2, Zenon DEF Among
  <2> QED
    BY <2>3
<1>4. Cardinality(Among(Append(banked, a))) = Cardinality(Among(banked)) + 1
  BY <1>1, <1>2, <1>3, FS_AddElement
<1> QED
  BY <1>1, <1>4, AppendProperties

\* What a poll makes of the hold: at most one sample more.
LEMMA Holding ==
    ASSUME NEW hold \in Seq(Held), NEW o \in Orientations \union {"moving", "none"},
           NEW kind, NEW h \in Taken(kind, hold, o)
    PROVE  /\ h \in Seq(Held)
           /\ kind = "mag" /\ Len(hold) <= HoldSamples => Len(h) <= HoldSamples
<1>1. Len(hold) \in Nat
  BY LenProperties
<1>2. /\ Append(hold, "ok") \in Seq(Held) /\ Len(Append(hold, "ok")) = Len(hold) + 1
      /\ o \in Orientations => Append(hold, o) \in Seq(Held)
      /\ <<>> \in Seq(Held)
  BY AppendProperties, EmptySeq DEF Held
<1> HIDE DEF Held
<1>3. CASE o = "none"
  <2>1. Taken(kind, hold, o) = {hold}
    BY <1>3, Zenon DEF Taken
  <2> QED
    BY <2>1
<1>4. CASE o # "none" /\ kind = "gyr"
  BY <1>2, <1>4 DEF Taken, GyrTaken
<1>5. CASE o # "none" /\ kind = "mag"
  BY <1>1, <1>2, <1>5, Budgets DEF Taken, MagTaken
<1>6. CASE o # "none" /\ kind \notin {"gyr", "mag"}
  BY <1>2, <1>6 DEF Taken, StillTaken
<1> QED
  BY <1>3, <1>4, <1>5, <1>6

\* wait_for_static_pose: it starves, it goes on holding, or it banks.
LEMMA PoseJob ==
    ASSUME NEW j \in Jobs, j.pc = "capture", JobOk(j, "acc"), NEW o, NEW h \in Seq(Held),
           NEW k \in PosePoll(j, o, h)
    PROVE  /\ k \in Jobs /\ JobOk(k, "acc")
           /\ k.pc \in {"capture", "fit", "end"} /\ k.told = j.told /\ k.asked = j.asked
<1> USE Budgets
<1> DEFINE starved == IF o = "none" THEN j.ticks + 1 ELSE 0
           banked(a) == IF Advances(a, j.banked) THEN Append(j.banked, a) ELSE j.banked
           asked(a) == [j EXCEPT !.hold = <<>>, !.ticks = 0, !.banked = banked(a)]
<1>1. starved \in Nat
  BY DEF Jobs
<1>2. CASE starved >= StarveLimit
  <2>1. ~(starved < StarveLimit)
    BY <1>1, <1>2
  <2>2. k = Leaves(j, "end")
    BY <1>2, <2>1 DEF PosePoll
  <2>3. "end" \in Places /\ "end" \notin Working /\ "end" # "fit"
    BY DEF Places, Diverting, Working
  <2>4. /\ Leaves(j, "end") \in Jobs /\ Leaves(j, "end").pc = "end"
        /\ Leaves(j, "end").told = j.told /\ Leaves(j, "end").asked = j.asked
        /\ JobOk(Leaves(j, "end"), "acc")
    BY <2>3, LeftJob
  <2> QED
    BY <2>2, <2>4
<1>3. CASE starved < StarveLimit /\ Len(h) < HoldSamples
  <2>1. ~(starved >= StarveLimit)
    BY <1>1, <1>3
  <2>2. k = [j EXCEPT !.hold = h, !.ticks = starved]
    BY <1>3, <2>1 DEF PosePoll
  <2>3. /\ k \in Jobs /\ k.hold = h /\ k.ticks = starved /\ k.banked = j.banked
        /\ k.pc = j.pc /\ k.told = j.told /\ k.asked = j.asked
    BY <1>1, <2>2 DEF Jobs
  <2>4. Len(h) \in Nat
    BY LenProperties
  <2> QED
    BY <1>1, <1>3, <2>3, <2>4 DEF JobOk
<1>4. CASE ~(starved >= StarveLimit) /\ ~(starved < StarveLimit /\ Len(h) < HoldSamples)
  <2> PICK a \in Average(h) :
        k = [asked(a) EXCEPT !.pc = IF Len(banked(a)) = Cardinality(Sides) THEN "fit" ELSE @]
    BY <1>4 DEF PosePoll
  <2>1. /\ banked(a) \in Seq(Sides)
        /\ Cardinality(Among(banked(a))) = Len(banked(a))
    <3>1. j.banked \in Seq(Sides) /\ Cardinality(Among(j.banked)) = Len(j.banked)
      BY DEF Jobs, JobOk
    <3> QED
      BY <3>1, Banking
  <2> HIDE DEF banked
  <2>2. /\ k \in Jobs /\ k.hold = <<>> /\ k.ticks = 0 /\ k.banked = banked(a)
        /\ k.pc = (IF Len(banked(a)) = Cardinality(Sides) THEN "fit" ELSE "capture")
        /\ k.told = j.told /\ k.asked = j.asked
    BY <2>1, NoneBanked DEF Jobs, Places, Diverting, Working
  <2> QED
    BY <2>1, <2>2, NoneBanked DEF JobOk
<1> QED
  BY <1>1, <1>2, <1>3, <1>4

\* run_bias, run_ellipsoid and the level capture: they fit, end, or go on.
LEMMA TickJob ==
    ASSUME NEW j \in Jobs, j.pc = "capture", NEW kind, kind \notin {"acc", "unknown"},
           JobOk(j, kind), NEW o, NEW h \in Seq(Held),
           kind = "mag" => Len(h) <= HoldSamples, NEW k \in TickPoll(j, kind, o, h)
    PROVE  /\ k \in Jobs /\ JobOk(k, kind)
           /\ k.pc \in {"capture", "fit", "end"} /\ k.told = j.told /\ k.asked = j.asked
<1> USE Budgets
<1>1. j.ticks + 1 \in Nat
  BY DEF Jobs
<1>2. \/ k = Leaves(j, "fit") \/ k = Leaves(j, "end")
      \/ /\ GoesOn(kind, Len(h) >= HoldSamples) /\ j.ticks + 1 < CaptureTicks
         /\ k = [j EXCEPT !.hold = h, !.ticks = j.ticks + 1]
  BY DEF TickPoll, Ticked
<1>3. CASE k = Leaves(j, "fit") \/ k = Leaves(j, "end")
  <2>1. ASSUME NEW pc \in {"fit", "end"}
        PROVE  /\ Leaves(j, pc) \in Jobs /\ Leaves(j, pc).pc = pc
               /\ Leaves(j, pc).told = j.told /\ Leaves(j, pc).asked = j.asked
               /\ JobOk(Leaves(j, pc), kind)
    <3>1. pc \in Places
      BY DEF Places, Diverting, Working
    <3> QED
      BY <3>1, LeftJob
  <2> QED
    BY <1>3, <2>1
<1>4. CASE /\ GoesOn(kind, Len(h) >= HoldSamples) /\ j.ticks + 1 < CaptureTicks
           /\ k = [j EXCEPT !.hold = h, !.ticks = j.ticks + 1]
  <2>1. /\ k \in Jobs /\ k.hold = h /\ k.ticks = j.ticks + 1 /\ k.banked = j.banked
        /\ k.pc = j.pc /\ k.told = j.told /\ k.asked = j.asked
    BY <1>1, <1>4 DEF Jobs
  <2>2. Len(h) \in Nat
    BY LenProperties
  <2>3. Len(h) <= HoldSamples
    BY <1>4, <2>2 DEF GoesOn
  <2> QED
    BY <1>1, <1>4, <2>1, <2>3 DEF JobOk
<1> QED
  BY <1>2, <1>3, <1>4

----------------------------------------------------------------------------
(* The steps of calibration_task. *)

\* Types through a step that changes nothing but the flight state and the
\* tasks' jobs.
LEMMA SameTypes ==
    ASSUME CalTypes, calState' \in {calState, "STANDBY", "CALIBRATING", "FAILSAFE", "ARMED"},
           UNCHANGED <<plan, calActive, calCancel, calHandle, calRing, stored, queued, torn, overlap>>
    PROVE  CalTypes'
<1>1. calActive' \in BOOLEAN /\ calCancel' \in BOOLEAN /\ overlap' \in BOOLEAN
  BY Zenon DEF CalTypes
<1> QED
  BY <1>1 DEF CalTypes

LEMMA PollStep ==
    ASSUME CalInv, NEW r \in Runs, Poll(r)
    PROVE  CalInv'
<1> DEFINE j == job[r]
           o == IF calRing = <<>> THEN "none" ELSE Head(calRing)
<1>1. /\ j \in Jobs /\ j.pc = "capture" /\ JobOk(j, plan[r])
      /\ ToldOk(j, calCancel, r \in queued) /\ plan[r] \in Kinds /\ plan[r] # "unknown"
  BY PlanKinds DEF CalInv, CalTypes, JobsInv, Poll, JobOk, Working
<1>2. calRing # <<>> =>
        /\ Head(calRing) \in Orientations \union {"moving"}
        /\ Tail(calRing) \in Seq(Orientations \union {"moving"})
        /\ Len(Tail(calRing)) = Len(calRing) - 1
        /\ Len(calRing) \in Nat
  BY HeadTailProperties, LenProperties DEF CalInv, CalTypes
<1>3. o \in Orientations \union {"moving", "none"}
  BY <1>2
<1>4. PICK h \in Taken(plan[r], j.hold, o) :
        \E k \in (IF plan[r] = "acc" THEN PosePoll(j, o, h) ELSE TickPoll(j, plan[r], o, h)) :
          job' = [job EXCEPT ![r] = k]
  BY Zenon DEF Poll
<1>5. PICK k \in (IF plan[r] = "acc" THEN PosePoll(j, o, h) ELSE TickPoll(j, plan[r], o, h)) :
        job' = [job EXCEPT ![r] = k]
  BY <1>4
<1> HIDE DEF j, o
<1>6. /\ h \in Seq(Held)
      /\ plan[r] = "mag" => Len(h) <= HoldSamples
  <2>1. j.hold \in Seq(Held) /\ Len(j.hold) <= HoldSamples
    BY <1>1 DEF Jobs, JobOk
  <2> QED
    BY <1>3, <1>4, <2>1, Holding
<1>7. /\ k \in Jobs /\ JobOk(k, plan[r])
      /\ k.pc \in {"capture", "fit", "end"} /\ k.told = j.told /\ k.asked = j.asked
  <2>1. CASE plan[r] = "acc"
    BY <1>1, <1>5, <1>6, <2>1, PoseJob
  <2>2. CASE plan[r] # "acc"
    <3>1. k \in TickPoll(j, plan[r], o, h)
      BY <1>5, <2>2
    <3> QED
      BY <1>1, <1>6, <2>2, <3>1, TickJob
  <2> QED
    BY <2>1, <2>2
<1>8. UNCHANGED <<plan, calState, calActive, calCancel, calHandle, stored, queued, torn, overlap>>
      /\ calRing' = IF calRing = <<>> THEN calRing ELSE Tail(calRing)
  BY DEF Poll
<1>9. ToldOk(k, calCancel', r \in queued')
  <2>1. ToldOk(k, calCancel, r \in queued)
    BY <1>1, <1>7 DEF ToldOk
  <2> QED
    BY <1>8, <2>1
<1>10. JobsInv' /\ job'[r] = k /\ \A q \in Runs : q # r => job'[q] = job[q]
  BY <1>5, <1>7, <1>8, <1>9, OneJob DEF CalInv
<1>11. DivertInv'
  <2>1. Alive(r)
    BY <1>1 DEF Alive, j
  <2>2. /\ job[r].pc # "commit2" /\ job'[r].pc # "commit2"
        /\ job[r].pc \in Working /\ job'[r].pc \in Diverting
    BY <1>1, <1>7, <1>10 DEF j, Working, Diverting
  <2> QED
    BY <1>8, <1>10, <2>1, <2>2, SameDiversion
<1>12. CalTypes'
  <2>1. calRing' \in Seq(Orientations \union {"moving"}) /\ Len(calRing') <= CalibCap
    BY <1>2, <1>8, Budgets DEF CalInv, CalTypes
  <2>2. calActive' \in BOOLEAN /\ calCancel' \in BOOLEAN /\ overlap' \in BOOLEAN
    BY <1>8, Zenon DEF CalInv, CalTypes
  <2> QED
    BY <1>8, <2>1, <2>2 DEF CalInv, CalTypes
<1> QED
  BY <1>10, <1>11, <1>12 DEF CalInv

\* The steps that only move the task on, or end a capture.
LEMMA MoveStep ==
    ASSUME CalInv, NEW r \in Runs, NEW pc \in Places, Goto(r, pc),
           UNCHANGED <<plan, calActive, calCancel, calHandle, calRing, stored, queued, torn, overlap>>,
           calState' \in {calState, "STANDBY", "CALIBRATING", "FAILSAFE", "ARMED"},
           <<job[r].pc, pc>> \in {<<"enter", "end">>, <<"enter", "divert">>, <<"capture", "end">>,
                                 <<"fit", "end">>, <<"fit", "commit">>, <<"standby", "clear">>}
    PROVE  CalInv'
<1> DEFINE k == Leaves(job[r], pc)
<1>1. /\ job[r] \in Jobs /\ JobOk(job[r], plan[r]) /\ ToldOk(job[r], calCancel, r \in queued)
  BY DEF CalInv, JobsInv
<1>2. job[r].pc \in {"enter", "capture", "fit", "standby"}
      /\ pc \in {"end", "divert", "commit", "clear"}
      /\ (pc = "commit" => job[r].pc = "fit") /\ (pc = "clear" <=> job[r].pc = "standby")
      /\ (pc = "divert" => job[r].pc = "enter")
  OBVIOUS
<1>3. pc # "fit" /\ (pc \in Working => plan[r] # "unknown")
  BY <1>1, <1>2 DEF JobOk, Working
<1>4. /\ k \in Jobs /\ k.pc = pc /\ k.told = job[r].told /\ k.asked = job[r].asked
      /\ JobOk(k, plan[r])
  BY <1>1, <1>3, LeftJob
<1>5. job' = [job EXCEPT ![r] = k]
  BY DEF Goto
<1> HIDE DEF k
<1>6. ToldOk(k, calCancel', r \in queued')
  <2>1. ToldOk(k, calCancel, r \in queued)
    BY <1>1, <1>2, <1>4 DEF ToldOk
  <2> QED
    BY <2>1
<1>7. JobsInv' /\ job'[r] = k /\ \A q \in Runs : q # r => job'[q] = job[q]
  BY <1>4, <1>5, <1>6, OneJob DEF CalInv
<1>8. DivertInv'
  <2>1. Alive(r) /\ job[r].pc # "commit2" /\ job'[r].pc # "commit2"
    BY <1>2, <1>4, <1>7 DEF Alive
  <2>2. /\ job'[r].pc \in Working => job[r].pc \in Working
        /\ job[r].pc \in Diverting => job'[r].pc \in Diverting
    BY <1>2, <1>4, <1>7 DEF Working, Diverting
  <2> QED
    BY <1>7, <2>1, <2>2, SameDiversion
<1> QED
  BY <1>7, <1>8, SameTypes DEF CalInv

\* The job of a task that moves on, whatever else the step does.
LEMMA MovedJob ==
    ASSUME CalInv, NEW r \in Runs, NEW pc \in Places, Goto(r, pc), plan' = plan,
           pc # "fit", pc \in Working => plan[r] # "unknown",
           calCancel' => calCancel, \A q \in Runs : q # r => (q \in queued' <=> q \in queued),
           ToldOk(Leaves(job[r], pc), calCancel', r \in queued')
    PROVE  /\ JobsInv'
           /\ job'[r].pc = pc
           /\ \A q \in Runs : q # r => job'[q] = job[q]
<1>1. job[r] \in Jobs
  BY DEF CalInv, JobsInv
<1>2. Leaves(job[r], pc) \in Jobs /\ Leaves(job[r], pc).pc = pc /\ JobOk(Leaves(job[r], pc), plan[r])
  BY <1>1, LeftJob
<1>3. job' = [job EXCEPT ![r] = Leaves(job[r], pc)]
  BY DEF Goto
<1> QED
  BY <1>2, <1>3, OneJob DEF CalInv

\* What Leaves does not touch.
LEMMA LeftTold ==
    ASSUME CalInv, NEW r \in Runs, NEW pc \in Places
    PROVE  /\ Leaves(job[r], pc).pc = pc
           /\ Leaves(job[r], pc).told = job[r].told /\ Leaves(job[r], pc).asked = job[r].asked
           /\ ToldOk(job[r], calCancel, r \in queued) /\ JobOk(job[r], plan[r])
           /\ job[r].pc \in Places
  BY DEF CalInv, JobsInv, Jobs, Leaves

LEMMA AllPlaces ==
    {"free", "new", "enter", "divert", "capture", "fit", "commit", "commit2", "save", "end",
     "tell", "standby", "clear", "gone"} \subseteq Places
  BY DEF Places, Diverting, Working

\* TaskStarts clears a cancel that was not meant for it.
LEMMA StartsStep ==
    ASSUME CalInv, NEW r \in Runs, TaskStarts(r)
    PROVE  CalInv'
<1>1. /\ job[r].pc = "new" /\ calCancel' = FALSE /\ Goto(r, "enter") /\ "enter" \in Places
      /\ UNCHANGED <<plan, calState, calActive, calHandle, calRing, stored, queued, torn, overlap>>
  BY AllPlaces DEF TaskStarts
<1>2. ToldOk(Leaves(job[r], "enter"), calCancel', r \in queued')
  BY <1>1, LeftTold DEF ToldOk
<1>3. JobsInv' /\ job'[r].pc = "enter" /\ \A q \in Runs : q # r => job'[q] = job[q]
  BY <1>1, <1>2, MovedJob DEF Working
<1>4. DivertInv'
  BY <1>1, <1>3, SameDiversion DEF Alive, Working, Diverting
<1>5. CalTypes'
  <2>1. calActive' \in BOOLEAN /\ calCancel' \in BOOLEAN /\ overlap' \in BOOLEAN
    BY <1>1, Zenon DEF CalInv, CalTypes
  <2> QED
    BY <1>1, <2>1 DEF CalInv, CalTypes
<1> QED
  BY <1>3, <1>4, <1>5 DEF CalInv

\* TaskDiverts takes the samples.
LEMMA DivertsStep ==
    ASSUME CalInv, NEW r \in Runs, TaskDiverts(r)
    PROVE  CalInv'
<1> DEFINE pc == IF plan[r] = "unknown" THEN "end" ELSE "capture"
<1>1. /\ job[r].pc = "divert" /\ calActive' = TRUE /\ Goto(r, pc) /\ pc \in Places
      /\ UNCHANGED <<plan, calState, calCancel, calHandle, calRing, stored, queued, torn, overlap>>
  BY AllPlaces DEF TaskDiverts
<1>2. pc \in {"end", "capture"} /\ (pc = "capture" => plan[r] # "unknown")
  OBVIOUS
<1> HIDE DEF pc
<1>3. ToldOk(Leaves(job[r], pc), calCancel', r \in queued')
  <2>1. ToldOk(Leaves(job[r], pc), calCancel, r \in queued)
    BY <1>1, <1>2, LeftTold DEF ToldOk
  <2> QED
    BY <1>1, <2>1
<1>4. JobsInv' /\ job'[r].pc = pc /\ \A q \in Runs : q # r => job'[q] = job[q]
  BY <1>1, <1>2, <1>3, MovedJob DEF Working
<1>5. calActive' => \E q \in Runs : job'[q].pc \in Diverting
  BY <1>2, <1>4 DEF Diverting, Working
<1>6. ASSUME Shielded PROVE Shielded'
  <2>1. \A q \in Runs : Alive(q)' => Alive(q)
    BY <1>1, <1>4 DEF Alive
  <2>2. \A q \in Runs : job'[q].pc = "commit2" <=> job[q].pc = "commit2"
    BY <1>1, <1>2, <1>4
  <2>3. HalfWritten' = HalfWritten
    BY <1>1 DEF HalfWritten
  <2> QED
    BY <1>1, <1>6, <2>1, <2>2, <2>3 DEF Shielded
<1>7. CalTypes'
  <2>1. calActive' \in BOOLEAN /\ calCancel' \in BOOLEAN /\ overlap' \in BOOLEAN
    BY <1>1, Zenon DEF CalInv, CalTypes
  <2> QED
    BY <1>1, <2>1 DEF CalInv, CalTypes
<1>8. DivertInv'
  BY <1>1, <1>5, <1>6 DEF CalInv, DivertInv
<1> QED
  BY <1>4, <1>7, <1>8 DEF CalInv

\* Persist gives its own run's snapshot away.
LEMMA PersistStep ==
    ASSUME CalInv, NEW r \in Runs, Persist(r)
    PROVE  CalInv'
<1>1. /\ job[r].pc = "save" /\ Goto(r, "end") /\ "end" \in Places
      /\ queued' = queued \/ queued' = queued \union {r}
      /\ UNCHANGED <<plan, calState, calActive, calCancel, calHandle, calRing, stored, torn, overlap>>
  BY AllPlaces DEF Persist
<1>2. ToldOk(Leaves(job[r], "end"), calCancel', r \in queued')
  <2>1. \A saved : ToldOk(Leaves(job[r], "end"), calCancel, saved)
    BY <1>1, LeftTold DEF ToldOk
  <2> QED
    BY <1>1, <2>1
<1>3. JobsInv' /\ job'[r].pc = "end" /\ \A q \in Runs : q # r => job'[q] = job[q]
  BY <1>1, <1>2, MovedJob DEF Working
<1>4. DivertInv'
  BY <1>1, <1>3, SameDiversion DEF Alive, Working, Diverting
<1>5. CalTypes'
  <2>1. calActive' \in BOOLEAN /\ calCancel' \in BOOLEAN /\ overlap' \in BOOLEAN
    BY <1>1, Zenon DEF CalInv, CalTypes
  <2> QED
    BY <1>1, <2>1 DEF CalInv, CalTypes
<1> QED
  BY <1>3, <1>4, <1>5 DEF CalInv

\* EndsDiversion gives the samples back; no other task has them.
LEMMA EndsStep ==
    ASSUME CalInv, NEW r \in Runs, EndsDiversion(r)
    PROVE  CalInv'
<1>1. /\ job[r].pc = "end" /\ calActive' = FALSE /\ Goto(r, "tell") /\ "tell" \in Places
      /\ UNCHANGED <<plan, calState, calCancel, calHandle, calRing, stored, queued, torn, overlap>>
  BY AllPlaces DEF EndsDiversion
<1>2. ToldOk(Leaves(job[r], "tell"), calCancel', r \in queued')
  <2>1. ToldOk(Leaves(job[r], "tell"), calCancel, r \in queued)
    BY <1>1, LeftTold DEF ToldOk
  <2> QED
    BY <1>1, <2>1
<1>3. JobsInv' /\ job'[r].pc = "tell" /\ \A q \in Runs : q # r => job'[q] = job[q]
  BY <1>1, <1>2, MovedJob DEF Working
<1>4. ASSUME Shielded PROVE Shielded'
  <2>1. \A q \in Runs : Alive(q)' => Alive(q)
    BY <1>1, <1>3 DEF Alive
  <2>2. \A q \in Runs : job'[q].pc = "commit2" <=> job[q].pc = "commit2"
    BY <1>1, <1>3
  <2>3. HalfWritten' = HalfWritten
    BY <1>1 DEF HalfWritten
  <2>4. \A q \in Runs : job'[q].pc \notin Working
    <3>1. Alive(r)
      BY <1>1 DEF Alive
    <3>2. \A q \in Runs : q # r => ~Alive(q)
      BY <1>4, <3>1 DEF Shielded
    <3> QED
      BY <1>3, <3>2 DEF Alive, Working
  <2> QED
    BY <1>1, <1>4, <2>1, <2>2, <2>3, <2>4 DEF Shielded
<1>5. CalTypes'
  <2>1. calActive' \in BOOLEAN /\ calCancel' \in BOOLEAN /\ overlap' \in BOOLEAN
    BY <1>1, Zenon DEF CalInv, CalTypes
  <2> QED
    BY <1>1, <2>1 DEF CalInv, CalTypes
<1>6. DivertInv'
  BY <1>1, <1>4 DEF CalInv, DivertInv
<1> QED
  BY <1>3, <1>5, <1>6 DEF CalInv

\* Commit writes the halves of its target one after the other.
LEMMA CommitStep ==
    ASSUME CalInv, NEW r \in Runs, Commit(r)
    PROVE  CalInv'
<1> DEFINE pc == IF job[r].pc = "commit" THEN "commit2" ELSE "save"
           t == plan[r]
<1>1. /\ job[r].pc \in {"commit", "commit2"} /\ Goto(r, pc) /\ pc \in Places
      /\ job[r].pc = "commit" => stored' = [stored EXCEPT ![t].a = r]
      /\ job[r].pc = "commit2" => stored' = [stored EXCEPT ![t].b = r]
      /\ UNCHANGED <<plan, calState, calActive, calCancel, calHandle, calRing, queued, torn, overlap>>
  BY AllPlaces DEF Commit
<1>2. t \in Targets
  <2>1. t # "unknown"
    BY <1>1, LeftTold DEF JobOk, Working
  <2> QED
    BY <2>1, PlanKinds DEF CalInv, CalTypes, Kinds
<1>3. pc \in {"commit2", "save"} /\ (pc = "commit2" <=> job[r].pc = "commit")
  BY <1>1
<1> HIDE DEF pc
<1>4. ToldOk(Leaves(job[r], pc), calCancel', r \in queued')
  <2>1. ToldOk(Leaves(job[r], pc), calCancel, r \in queued)
    BY <1>1, <1>3, LeftTold DEF ToldOk
  <2> QED
    BY <1>1, <2>1
<1>5. JobsInv' /\ job'[r].pc = pc /\ \A q \in Runs : q # r => job'[q] = job[q]
  BY <1>1, <1>2, <1>3, <1>4, MovedJob DEF Targets
<1>6. /\ stored' \in [Targets -> [a : 0 .. 2, b : 0 .. 2]]
      /\ \A u \in Targets : u # t => stored'[u] = stored[u]
      /\ job[r].pc = "commit" => stored'[t].a = r
      /\ job[r].pc = "commit2" => stored'[t].a = stored[t].a /\ stored'[t].b = r
  BY <1>1, <1>2 DEF CalInv, CalTypes, Runs
<1>7. ASSUME Shielded PROVE Shielded'
  <2>1. \A q \in Runs : Alive(q)' => Alive(q)
    BY <1>1, <1>5 DEF Alive
  <2>2. \A q \in Runs : q # r => ~Alive(q)
    BY <1>1, <1>7 DEF Shielded, Alive
  <2>3. \A q \in Runs : q # r => job'[q].pc # "commit2" /\ job'[q].pc \notin Working
    BY <1>5, <2>2 DEF Alive, Working
  <2>4. calActive
    BY <1>1, <1>7 DEF Shielded, Working
  <2>5. \A q \in Runs : job'[q].pc = "commit2" => stored'[plan[q]].a = q
    BY <1>3, <1>5, <1>6, <2>3
  <2>6. ASSUME NEW u \in HalfWritten'
        PROVE  \E q \in Runs : job'[q].pc = "commit2" /\ plan[q] = u
    <3>1. u \in Targets /\ stored'[u].a # stored'[u].b
      BY <2>6 DEF HalfWritten
    <3>2. CASE u # t
      <4>1. u \in HalfWritten
        BY <1>6, <3>1, <3>2 DEF HalfWritten
      <4>2. PICK q \in Runs : job[q].pc = "commit2" /\ plan[q] = u
        BY <1>7, <4>1 DEF Shielded
      <4> QED
        BY <2>2, <3>2, <4>2 DEF Alive
    <3>3. CASE u = t
      <4>1. job[r].pc # "commit2"
        <5> SUFFICES ASSUME job[r].pc = "commit2" PROVE FALSE
          OBVIOUS
        <5>1. stored[t].a = r
          BY <1>7 DEF Shielded
        <5> QED
          BY <1>6, <3>1, <3>3, <5>1
      <4> QED
        BY <1>1, <1>3, <1>5, <3>3, <4>1
    <3> QED
      BY <3>2, <3>3
  <2> QED
    BY <1>1, <1>7, <2>1, <2>4, <2>5, <2>6 DEF Shielded
<1>8. DivertInv'
  <2>1. calActive' => \E q \in Runs : job'[q].pc \in Diverting
    BY <1>1, <1>3, <1>5 DEF CalInv, DivertInv, Diverting, Working
  <2> QED
    BY <1>1, <1>7, <2>1 DEF CalInv, DivertInv
<1>9. CalTypes'
  <2>1. calActive' \in BOOLEAN /\ calCancel' \in BOOLEAN /\ overlap' \in BOOLEAN
    BY <1>1, Zenon DEF CalInv, CalTypes
  <2> QED
    BY <1>1, <1>6, <2>1 DEF CalInv, CalTypes
<1> QED
  BY <1>5, <1>8, <1>9 DEF CalInv

\* Tells answers by what was queued, and is silent only for a cancel.
LEMMA TellsStep ==
    ASSUME CalInv, NEW r \in Runs, Tells(r)
    PROVE  CalInv'
<1> DEFINE k == [job[r] EXCEPT !.told = Verdict(r), !.pc = "standby"]
<1>1. /\ job[r].pc = "tell"
      /\ UNCHANGED <<plan, calState, calActive, calCancel, calHandle, calRing, stored, queued, torn, overlap>>
  BY DEF Tells
<1>2. /\ job[r] \in Jobs /\ JobOk(job[r], plan[r]) /\ ToldOk(job[r], calCancel, r \in queued)
      /\ job \in [Runs -> Jobs]
  BY DEF CalInv, JobsInv
<1>3. Verdict(r) \in {"COMPLETE", "FAILED", "silent"}
  BY DEF Verdict
<1>4. /\ k \in Jobs /\ k.pc = "standby" /\ k.told = Verdict(r) /\ k.asked = job[r].asked
      /\ k.hold = job[r].hold /\ k.ticks = job[r].ticks /\ k.banked = job[r].banked
  BY <1>2, <1>3, AllPlaces DEF Jobs
<1>5. job' = [job EXCEPT ![r] = k]
  BY <1>2 DEF Tells, Jobs
<1> HIDE DEF k
<1>6. JobOk(k, plan[r])
  BY <1>2, <1>4 DEF JobOk, Working
<1>7. ToldOk(k, calCancel', r \in queued')
  <2>1. ToldOk(k, calCancel, r \in queued)
    BY <1>1, <1>2, <1>4 DEF ToldOk, Verdict
  <2> QED
    BY <1>1, <2>1
<1>8. JobsInv' /\ job'[r] = k /\ \A q \in Runs : q # r => job'[q] = job[q]
  BY <1>1, <1>4, <1>5, <1>6, <1>7, OneJob DEF CalInv
<1>9. DivertInv'
  BY <1>1, <1>4, <1>8, SameDiversion DEF Alive, Working, Diverting
<1> QED
  BY <1>1, <1>8, <1>9, SameTypes DEF CalInv

\* Exits keeps what the run was told.
LEMMA ExitsStep ==
    ASSUME CalInv, NEW r \in Runs, Exits(r)
    PROVE  CalInv'
<1> DEFINE k == [Fresh EXCEPT !.pc = "gone", !.told = job[r].told, !.asked = job[r].asked]
<1>1. /\ job[r].pc = "clear" /\ calCancel' = FALSE /\ job' = [job EXCEPT ![r] = k]
      /\ UNCHANGED <<plan, calState, calActive, calHandle, calRing, stored, queued, torn, overlap>>
  BY DEF Exits
<1>2. job[r] \in Jobs /\ ToldOk(job[r], calCancel, r \in queued)
  BY DEF CalInv, JobsInv
<1>3. /\ k \in Jobs /\ k.pc = "gone" /\ k.told = job[r].told /\ k.asked = job[r].asked
      /\ k.hold = <<>> /\ k.ticks = 0 /\ k.banked = <<>>
  BY <1>2, AllPlaces, NoneBanked DEF Jobs, Fresh
<1> HIDE DEF k
<1>4. JobOk(k, plan[r])
  BY <1>3, NoneBanked, Budgets DEF JobOk, Working
<1>5. ToldOk(k, calCancel', r \in queued')
  <2>1. ToldOk(k, FALSE, r \in queued)
    BY <1>1, <1>2, <1>3 DEF ToldOk
  <2> QED
    BY <1>1, <2>1
<1>6. JobsInv' /\ job'[r] = k /\ \A q \in Runs : q # r => job'[q] = job[q]
  BY <1>1, <1>3, <1>4, <1>5, OneJob DEF CalInv
<1>7. DivertInv'
  BY <1>1, <1>3, <1>6, SameDiversion DEF Alive, Working, Diverting
<1>8. CalTypes'
  <2>1. calActive' \in BOOLEAN /\ calCancel' \in BOOLEAN /\ overlap' \in BOOLEAN
    BY <1>1, Zenon DEF CalInv, CalTypes
  <2> QED
    BY <1>1, <2>1 DEF CalInv, CalTypes
<1> QED
  BY <1>6, <1>7, <1>8 DEF CalInv

LEMMA TaskStep ==
    ASSUME CalInv, NEW r \in Runs, CalibrationTask(r)
    PROVE  CalInv'
<1>1. CASE TaskEnters(r)
  <2>1. CASE calState' = calState /\ Goto(r, "end")
    BY <1>1, <2>1, AllPlaces, MoveStep DEF TaskEnters
  <2>2. CASE calState' = "CALIBRATING" /\ Goto(r, "divert")
    BY <1>1, <2>2, AllPlaces, MoveStep DEF TaskEnters
  <2> QED
    BY <1>1, <2>1, <2>2 DEF TaskEnters
<1>2. CASE CaptureCancelled(r)
  BY <1>2, AllPlaces, MoveStep DEF CaptureCancelled
<1>3. CASE Fit(r)
  <2>1. CASE Goto(r, "end")
    BY <1>3, <2>1, AllPlaces, MoveStep DEF Fit
  <2>2. CASE Goto(r, "commit")
    BY <1>3, <2>2, AllPlaces, MoveStep DEF Fit
  <2> QED
    BY <1>3, <2>1, <2>2 DEF Fit
<1>4. CASE ReturnsToStandby(r)
  BY <1>4, AllPlaces, MoveStep DEF ReturnsToStandby
<1> QED
  BY <1>1, <1>2, <1>3, <1>4, StartsStep, DivertsStep, PollStep, CommitStep, PersistStep,
     EndsStep, TellsStep, ExitsStep DEF CalibrationTask

----------------------------------------------------------------------------
(* The command task, the IMU task and the flight state. *)

\* A start that meets a task still tearing down is the overlap.
LEMMA StartStep ==
    ASSUME CalInv, CalibrateStart
    PROVE  CalInv'
<1> DEFINE k == [Fresh EXCEPT !.pc = "new"]
<1>1. PICK r \in Runs :
        /\ job[r].pc = "free"
        /\ job' = [job EXCEPT ![r] = k]
        /\ calHandle' = r
        /\ overlap' = (overlap \/ \E q \in Runs : Alive(q))
  BY Zenon DEF CalibrateStart
<1>2. UNCHANGED <<plan, calState, calActive, calCancel, calRing, stored, queued, torn>>
  BY DEF CalibrateStart
<1>3. ToldOk(job[r], calCancel, r \in queued)
  BY DEF CalInv, JobsInv
<1>4. /\ k \in Jobs /\ k.pc = "new" /\ k.hold = <<>> /\ k.ticks = 0 /\ k.banked = <<>>
  BY AllPlaces, FreshJob, NoneBanked DEF Jobs, Fresh
<1> HIDE DEF k
<1>5. JobOk(k, plan[r])
  BY <1>4, NoneBanked, Budgets DEF JobOk, Working
<1>6. ToldOk(k, calCancel', r \in queued')
  <2>1. ToldOk(k, calCancel, r \in queued)
    BY <1>1, <1>3, <1>4 DEF ToldOk
  <2> QED
    BY <1>2, <2>1
<1>7. JobsInv' /\ job'[r] = k /\ \A q \in Runs : q # r => job'[q] = job[q]
  BY <1>1, <1>2, <1>4, <1>5, <1>6, OneJob DEF CalInv
<1>8. calActive' => \E q \in Runs : job'[q].pc \in Diverting
  BY <1>1, <1>2, <1>7 DEF CalInv, DivertInv, Diverting, Working
<1>9. ASSUME ~overlap' PROVE Shielded'
  <2>1. Shielded /\ \A q \in Runs : ~Alive(q)
    BY <1>1, <1>9 DEF CalInv, DivertInv
  <2>2. \A q \in Runs : q # r => ~Alive(q)'
    BY <1>7, <2>1 DEF Alive
  <2>3. \A q \in Runs : job'[q].pc \notin Working /\ job'[q].pc # "commit2"
    BY <1>4, <1>7, <2>1 DEF Alive, Working
  <2>4. HalfWritten' = {}
    BY <1>2, <2>1 DEF Shielded, HalfWritten, Alive
  <2> QED
    BY <1>2, <2>1, <2>2, <2>3, <2>4 DEF Shielded
<1>10. CalTypes'
  <2>1. calActive' \in BOOLEAN /\ calCancel' \in BOOLEAN /\ overlap' \in BOOLEAN
    BY <1>1, <1>2, Zenon DEF CalInv, CalTypes
  <2> QED
    BY <1>1, <1>2, <2>1 DEF CalInv, CalTypes, Runs
<1>11. DivertInv'
  BY <1>8, <1>9 DEF DivertInv
<1> QED
  BY <1>7, <1>10, <1>11 DEF CalInv

\* As long as no task moves, the diversion is what it was.
LEMMA SamePlaces ==
    ASSUME CalInv, \A r \in Runs : job'[r].pc = job[r].pc,
           UNCHANGED <<calActive, stored, torn, overlap, plan>>
    PROVE  DivertInv'
<1>1. \A r \in Runs : Alive(r)' <=> Alive(r)
  BY DEF Alive
<1>2. HalfWritten' = HalfWritten
  BY DEF HalfWritten
<1>3. Shielded => Shielded'
  BY <1>1, <1>2 DEF Shielded
<1> QED
  BY <1>3 DEF CalInv, DivertInv

\* A cancel is asked of every task that lives.
LEMMA CancelStep ==
    ASSUME CalInv, CalibrateCancel
    PROVE  CalInv'
<1>1. UNCHANGED <<plan, calActive, calRing, stored, queued, torn, overlap>>
  BY DEF CalibrateCancel
<1>2. calHandle' \in {calHandle, 0} /\ calState' \in {calState, "STANDBY"}
  BY DEF CalibrateCancel
<1>3. CASE calCancel' = TRUE /\ job' = [r \in Runs |-> [job[r] EXCEPT !.asked = @ \/ Alive(r)]]
  <2>1. ASSUME NEW r \in Runs
        PROVE  /\ job'[r] \in Jobs
               /\ job'[r].pc = job[r].pc
               /\ JobOk(job'[r], plan[r]) /\ ToldOk(job'[r], calCancel', r \in queued)
    <3>1. job[r] \in Jobs /\ JobOk(job[r], plan[r]) /\ ToldOk(job[r], calCancel, r \in queued)
      BY DEF CalInv, JobsInv
    <3>2. PICK asked \in BOOLEAN : asked = (job[r].asked \/ Alive(r))
      BY Zenon
    <3>3. job'[r] = [job[r] EXCEPT !.asked = asked]
      BY <1>3, <3>2, Zenon
    <3>4. /\ job'[r] \in Jobs /\ job'[r].pc = job[r].pc /\ job'[r].hold = job[r].hold
          /\ job'[r].ticks = job[r].ticks /\ job'[r].banked = job[r].banked
          /\ job'[r].told = job[r].told /\ job'[r].asked = asked
      BY <3>1, <3>3 DEF Jobs
    <3>5. JobOk(job'[r], plan[r])
      BY <3>1, <3>4 DEF JobOk
    <3>6. ToldOk(job'[r], calCancel', r \in queued)
      BY <3>1, <3>2, <3>4 DEF ToldOk, Alive
    <3> QED
      BY <3>4, <3>5, <3>6
  <2>2. DOMAIN job' = Runs /\ job' = [r \in Runs |-> job'[r]]
    BY <1>3
  <2>3. job' \in [Runs -> Jobs]
    BY <2>1, <2>2
  <2>4. JobsInv'
    BY <1>1, <2>1, <2>3 DEF JobsInv
  <2>5. DivertInv'
    BY <1>1, <2>1, SamePlaces
  <2>6. CalTypes'
    <3>1. calActive' \in BOOLEAN /\ calCancel' \in BOOLEAN /\ overlap' \in BOOLEAN
      BY <1>1, <1>3, Zenon DEF CalInv, CalTypes
    <3> QED
      BY <1>1, <1>2, <3>1 DEF CalInv, CalTypes
  <2> QED
    BY <2>4, <2>5, <2>6 DEF CalInv
<1>4. CASE UNCHANGED <<calCancel, calHandle, job>>
  <2>1. JobsInv'
    BY <1>1, <1>4 DEF CalInv, JobsInv
  <2>2. DivertInv'
    BY <1>1, <1>4, SamePlaces
  <2> QED
    BY <1>1, <1>2, <1>4, <2>1, <2>2, SameTypes DEF CalInv
<1> QED
  BY <1>3, <1>4 DEF CalibrateCancel

\* bmx160_process_data: by _calib_active a sample goes to the ring, or to the
\* estimator.
LEMMA SampleStep ==
    ASSUME CalInv, NEW o \in Orientations \union {"moving"}, ProcessSample(o)
    PROVE  CalInv'
<1>1. UNCHANGED <<plan, calState, calActive, calCancel, calHandle, job, stored, queued, overlap>>
  BY DEF ProcessSample
<1>2. JobsInv'
  BY <1>1 DEF CalInv, JobsInv
<1>3. /\ calRing' \in Seq(Orientations \union {"moving"}) /\ Len(calRing') <= CalibCap
  <2> DEFINE R == Orientations \union {"moving"}
             long == Append(calRing, o)
  <2> HIDE DEF R
  <2>1. calRing \in Seq(R) /\ Len(calRing) <= CalibCap /\ Len(calRing) \in Nat
    BY LenProperties DEF CalInv, CalTypes, R
  <2>2. long \in Seq(R) /\ Len(long) = Len(calRing) + 1 /\ long # <<>>
    <3>1. o \in R
      BY DEF R
    <3>2. long \in Seq(R) /\ Len(long) = Len(calRing) + 1
      BY <2>1, <3>1, AppendProperties
    <3> QED
      BY <2>1, <3>2, EmptySeq
  <2> HIDE DEF long
  <2>3. Tail(long) \in Seq(R) /\ Len(Tail(long)) = Len(long) - 1
    BY <2>2, HeadTailProperties
  <2>4. calRing' = calRing \/ calRing' = Overwriting(long)
    BY DEF ProcessSample, long
  <2>5. calRing' \in Seq(R) /\ Len(calRing') <= CalibCap
    BY <2>1, <2>2, <2>3, <2>4, Budgets DEF Overwriting
  <2> QED
    BY <2>5 DEF R
<1>4. torn' \subseteq Targets /\ (torn' = torn \/ (~calActive /\ torn' = HalfWritten))
  BY DEF ProcessSample, HalfWritten, CalInv, CalTypes
<1>5. ASSUME Shielded PROVE Shielded'
  <2>1. ~calActive => HalfWritten = {}
    BY <1>5 DEF Shielded, Working
  <2>2. torn' = {}
    BY <1>4, <1>5, <2>1 DEF Shielded
  <2>3. \A r \in Runs : Alive(r)' <=> Alive(r)
    BY <1>1 DEF Alive
  <2>4. HalfWritten' = HalfWritten
    BY <1>1 DEF HalfWritten
  <2> QED
    BY <1>1, <1>5, <2>2, <2>3, <2>4 DEF Shielded
<1>6. CalTypes'
  <2>1. calActive' \in BOOLEAN /\ calCancel' \in BOOLEAN /\ overlap' \in BOOLEAN
    BY <1>1, Zenon DEF CalInv, CalTypes
  <2> QED
    BY <1>1, <1>3, <1>4, <2>1 DEF CalInv, CalTypes
<1>7. DivertInv'
  BY <1>1, <1>5 DEF CalInv, DivertInv
<1> QED
  BY <1>2, <1>6, <1>7 DEF CalInv

LEMMA CalStart ==
    CalInit => CalInv
<1> SUFFICES ASSUME CalInit PROVE CalInv
  OBVIOUS
<1>1. CalTypes
  <2>1. calActive \in BOOLEAN /\ calCancel \in BOOLEAN /\ overlap \in BOOLEAN
    BY Zenon DEF CalInit
  <2>2. calRing \in Seq(Orientations \union {"moving"}) /\ Len(calRing) <= CalibCap
    BY EmptySeq, Budgets DEF CalInit
  <2> QED
    BY <2>1, <2>2 DEF CalInit, CalTypes
<1>2. JobsInv
  BY FreshJob DEF CalInit, JobsInv, ToldOk
<1>3. DivertInv
  <2>1. HalfWritten = {}
    BY DEF CalInit, HalfWritten
  <2>2. \A r \in Runs : job[r].pc = "free"
    BY FreshJob DEF CalInit
  <2> QED
    BY <2>1, <2>2 DEF CalInit, DivertInv, Shielded, Alive, Working
<1> QED
  BY <1>1, <1>2, <1>3 DEF CalInv

LEMMA CalStep ==
    CalInv /\ [CalNext]_calVars => CalInv'
<1> SUFFICES ASSUME CalInv, [CalNext]_calVars PROVE CalInv'
  OBVIOUS
<1>1. CASE StateMoves \/ UNCHANGED calVars
  <2>1. /\ UNCHANGED <<plan, calActive, calCancel, calHandle, calRing, job, stored, queued, torn, overlap>>
        /\ calState' \in {calState, "STANDBY", "FAILSAFE", "ARMED"}
    BY <1>1 DEF StateMoves, calVars
  <2>2. JobsInv'
    BY <2>1 DEF CalInv, JobsInv
  <2>3. DivertInv'
    BY <2>1, SamePlaces
  <2> QED
    BY <2>1, <2>2, <2>3, SameTypes DEF CalInv
<1> QED
  BY <1>1, StartStep, CancelStep, SampleStep, TaskStep DEF CalNext

\* The sides banked are all of them as soon as they are as many.
LEMMA CalImplies ==
    CalInv => CalTypeOK /\ EstimatorNeverTorn /\ DiversionEnds /\ SidesDistinct /\ OutcomeHonest
<1> SUFFICES ASSUME CalInv
             PROVE  CalTypeOK /\ EstimatorNeverTorn /\ DiversionEnds /\ SidesDistinct /\ OutcomeHonest
  OBVIOUS
<1>1. \A r \in Runs : /\ job[r] \in Jobs /\ JobOk(job[r], plan[r])
                      /\ ToldOk(job[r], calCancel, r \in queued)
  BY DEF CalInv, JobsInv
<1>2. ASSUME NEW r \in Runs
      PROVE  /\ Cardinality(Among(job[r].banked)) = Len(job[r].banked)
             /\ Len(job[r].banked) <= Cardinality(Sides)
             /\ Len(job[r].banked) = Cardinality(Sides) => Among(job[r].banked) = Sides
  <2>1. job[r].banked \in Seq(Sides) /\ Cardinality(Among(job[r].banked)) = Len(job[r].banked)
    BY <1>1 DEF Jobs, JobOk
  <2>2. Among(job[r].banked) \in SUBSET Sides
    BY <2>1, ElementOfSeq, LenProperties DEF Among
  <2> QED
    BY <2>1, <2>2, FS_Subset, CalibrationAssumption
<1>3. CalTypeOK
  <2>1. ASSUME NEW r \in Runs
        PROVE  /\ Len(job[r].hold) <= HoldSamples
               /\ Len(job[r].banked) <= Cardinality(Sides)
               /\ job[r].ticks <= CaptureTicks + StarveLimit
    BY <1>1, <1>2, Budgets DEF Jobs, JobOk
  <2> QED
    BY <2>1, Zenon DEF CalInv, CalTypes, CalTypeOK
<1>4. EstimatorNeverTorn
  BY DEF CalInv, DivertInv, Shielded, EstimatorNeverTorn
<1>5. DiversionEnds
  BY DEF CalInv, DivertInv, DiversionEnds, Diverting, Working, Alive
<1>6. SidesDistinct
  BY <1>1, <1>2 DEF JobOk, SidesDistinct, EverySide, Among
<1>7. OutcomeHonest
  BY <1>1 DEF ToldOk, OutcomeHonest
<1> QED
  BY <1>3, <1>4, <1>5, <1>6, <1>7

(***************************************************************************)
(* The bench.  Outside its scene a part stays as it was.                   *)
(***************************************************************************)
BenchInv == RequestInv /\ StoredInv /\ CalInv /\ LightsInv /\ RailInv

LEMMA BenchStart ==
    BenchInit => BenchInv
  BY RequestInit, StoredInit, CalStart, LightsStart, RailInit DEF BenchInit, BenchInv

LEMMA BenchStep ==
    BenchInv /\ [BenchNext]_benchVars => BenchInv'
<1> SUFFICES ASSUME BenchInv, [BenchNext]_benchVars PROVE BenchInv'
  OBVIOUS
<1>1. [Next]_vars /\ [CalNext]_calVars /\ [LightsNext]_lightsVars /\ [BattNext]_battVars
  BY Zenon DEF BenchNext, benchVars
<1> QED
  BY <1>1, RequestStep, StoredStep, CalStep, LightsStep, RailStep DEF BenchInv

\* The inductive invariant of the bench, every part of it.
THEOREM BenchInvariant == BenchSpec => []BenchInv
  BY BenchStart, BenchStep, PTL DEF BenchSpec

\* Attempts at maximum never outnumber the gestures and the clears of the marker
\* that failed (esc_calib.c:112-118), on the bench's specification.
THEOREM BenchAttempts == BenchSpec => []OneAttemptPerRequest
<1>1. BenchInv => OneAttemptPerRequest
  BY DEF BenchInv, RequestInv
<1> QED
  BY <1>1, BenchInvariant, PTL

\* An IMU calibration gives the samples back, shields the estimator from a
\* half-written result, and fits every side once (calibration_task), for every
\* number of sides, hold length, tick budget, ring size and plan.
THEOREM CalibrationIsSound == BenchSpec => []CalibrationSound
<1>1. BenchInv => CalibrationSound
  BY CalImplies DEF BenchInv, RequestInv, LightsInv, RailInv, BenchTypeOK, CalibrationSound
<1> QED
  BY <1>1, BenchInvariant, PTL

\* What the operator is told of a request, of a calibration, of the flight
\* state, of the link and of the pack is so, for every clock width, activity
\* window and settle window.
THEOREM OperatorIsToldSo == BenchSpec => []OperatorTold
<1>1. BenchInv => OperatorTold
  BY StoredImplies, CalImplies, LightsImply, RailImplies DEF BenchInv, OperatorTold
<1> QED
  BY <1>1, BenchInvariant, PTL
=============================================================================
