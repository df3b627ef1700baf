-------------------------- MODULE TransfersProofs --------------------------
(***************************************************************************)
(* File transfers for every file size, lane, backlog and number of         *)
(* sessions: an upload that was told DONE is on the card and stays there,  *)
(* the lane's counters are exact, and until a call of fs_owner_task is     *)
(* given up while its request is pending, a download delivers no chunk     *)
(* with another chunk's bytes.                                             *)
(*                                                                         *)
(* Section 1 is about the write lane as a whole: what is on its way to the *)
(* card, and how many requests of each session.  Section 2 are the         *)
(* uploads, section 3 the downloads, section 4 the composition.            *)
(***************************************************************************)
EXTENDS Transfers, SequenceTheorems, TLAPS, FiniteSetTheorems, FunctionTheorems

(***************************************************************************)
(* WriteLane: what an upload enqueues and the steps of fs_owner_task keep  *)
(* the lane well-formed.                                                   *)
(***************************************************************************)
\* fs_owner_enqueue_write_at keeps the lane well-formed and within its
\* capacity.
LEMMA EnqueueType ==
    ASSUME LaneTypeOK, NEW s \in Slots, NEW f \in Files, NEW o \in 0 .. MaxOff,
           NEW d \in Contents, Enqueue(s, f, o, d), card' = card
    PROVE  LaneTypeOK'
<1> DEFINE req == [slot |-> s, file |-> f, off |-> o, data |-> d, tries |-> 0]
<1>1. req \in Requests
  BY LaneAssumption DEF Requests
<1>2. waQ' \in Seq(Requests) /\ Len(waQ') = Len(waQ) + 1
  BY <1>1 DEF Enqueue, LaneTypeOK
<1>3. Len(waQ') <= LaneCap
  BY <1>2, LaneAssumption DEF Enqueue, LaneFull, LaneTypeOK
<1>4. pending' \in [Slots -> Nat]
  BY DEF Enqueue, LaneTypeOK
<1> QED
  BY <1>2, <1>3, <1>4 DEF Enqueue, LaneTypeOK

\* The tail of a lane is a lane, its head a request.
LEMMA TakeType ==
    ASSUME NEW q \in Seq(Requests), q # <<>>
    PROVE  /\ Head(q) \in Requests
           /\ Tail(q) \in Seq(Requests)
           /\ Len(Tail(q)) = Len(q) - 1
           /\ \A i \in 1 .. Len(Tail(q)) : Tail(q)[i] = q[i + 1]
           /\ Len(q) >= 1 /\ Head(q) = q[1]
  BY HeadTailProperties, LenProperties, EmptySeq

\* The elements of an extended lane are the old ones and the new one.
LEMMA AppendElements ==
    ASSUME NEW q \in Seq(Requests), NEW r \in Requests, NEW i \in 1 .. Len(Append(q, r))
    PROVE  (i \in 1 .. Len(q) /\ Append(q, r)[i] = q[i]) \/ Append(q, r)[i] = r
<1>1. /\ Len(Append(q, r)) = Len(q) + 1
      /\ \A j \in 1 .. Len(q) : Append(q, r)[j] = q[j]
      /\ Append(q, r)[Len(q) + 1] = r
  BY AppendProperties
<1>2. Len(q) \in Nat
  BY LenProperties
<1>3. CASE i \in 1 .. Len(q)
  BY <1>1, <1>3
<1>4. CASE i \notin 1 .. Len(q)
  <2>1. i = Len(q) + 1
    BY <1>1, <1>2, <1>4
  <2> QED
    BY <2>1, <1>1
<1> QED
  BY <1>3, <1>4

\* A failed request goes back with one try more, if it has any left.
LEMMA RetryType ==
    ASSUME NEW r \in Requests, r.tries + 1 < MaxTries
    PROVE  [r EXCEPT !.tries = @ + 1] \in Requests
  BY LaneAssumption DEF Requests

\* Storing a request leaves the card a card.
LEMMA StoreType ==
    ASSUME LaneTypeOK, NEW r \in Requests, Store(r)
    PROVE  card' \in [Files -> [0 .. MaxOff -> Contents]]
  BY DEF Store, LaneTypeOK, Requests

\* A failed write, whether or not its bytes landed.
LEMMA WriteFailType ==
    ASSUME LaneTypeOK, NEW landed \in BOOLEAN, FsWriteFail(landed)
    PROVE  LaneTypeOK'
<1> DEFINE req == [fsReq EXCEPT !.tries = @ + 1]
<1>1. fsReq \in Requests
  BY DEF FsWriteFail, LaneTypeOK
<1>2. card' \in [Files -> [0 .. MaxOff -> Contents]]
  BY <1>1, StoreType DEF FsWriteFail, LaneTypeOK
<1>3. req.tries = fsReq.tries + 1 /\ req.slot = fsReq.slot /\ fsReq.slot \in Slots
  BY <1>1 DEF Requests
<1>4. retryQ' \in Seq(Requests) /\ Len(retryQ') <= RetryCap
  <2>1. CASE req.tries < MaxTries /\ Len(retryQ) < RetryCap
    <3>1. req \in Requests
      BY <1>1, <1>3, <2>1, RetryType
    <3>2. retryQ' = Append(retryQ, req)
      BY <2>1 DEF FsWriteFail
    <3> QED
      BY <3>1, <3>2, <2>1, LaneAssumption DEF LaneTypeOK
  <2>2. CASE ~(req.tries < MaxTries /\ Len(retryQ) < RetryCap)
    BY <2>2 DEF FsWriteFail, LaneTypeOK
  <2> QED
    BY <2>1, <2>2
<1>5. pending' \in [Slots -> Nat]
  <2>1. pending' = pending \/ Settle(fsReq.slot)
    BY <1>3 DEF FsWriteFail
  <2>2. CASE pending' = pending
    BY <2>2 DEF LaneTypeOK
  <2>3. CASE Settle(fsReq.slot)
    BY <2>3, <1>3 DEF Settle, LaneTypeOK
  <2> QED
    BY <2>1, <2>2, <2>3
<1>6. failed' \in [Slots -> BOOLEAN]
  <2>1. failed' = failed \/ failed' = [failed EXCEPT ![fsReq.slot] = TRUE]
    BY <1>3 DEF FsWriteFail
  <2> QED
    BY <2>1, <1>3, Zenon DEF LaneTypeOK
<1>7. fsStage' \in {"poll", "fresh", "retry"}
  BY DEF FsWriteFail, AfterWrite
<1> QED
  BY <1>2, <1>4, <1>5, <1>6, <1>7 DEF FsWriteFail, LaneTypeOK

\* Every step of fs_owner_task keeps the lane well-formed.
LEMMA LaneType ==
    ASSUME LaneTypeOK, FsDrain \/ FsWake
    PROVE  LaneTypeOK'
<1>1. CASE FsTakeFresh
  <2>1. Head(waQ) \in Requests /\ Tail(waQ) \in Seq(Requests) /\ Len(Tail(waQ)) = Len(waQ) - 1
    BY <1>1, TakeType DEF FsTakeFresh, LaneTypeOK
  <2> QED
    BY <1>1, <2>1, LaneAssumption DEF FsTakeFresh, LaneTypeOK
<1>2. CASE FsTakeRetry
  <2>1. CASE retryQ = <<>>
    BY <1>2, <2>1 DEF FsTakeRetry, LaneTypeOK
  <2>2. CASE retryQ # <<>>
    <3>1. /\ Head(retryQ) \in Requests /\ Tail(retryQ) \in Seq(Requests)
          /\ Len(Tail(retryQ)) = Len(retryQ) - 1
      BY <2>2, TakeType DEF LaneTypeOK
    <3>2. /\ retryQ' = Tail(retryQ) /\ fsReq' = Head(retryQ) /\ fsStage' = "retry"
          /\ UNCHANGED <<card, waQ, pending, committed, failed>>
      BY <1>2, <2>2, Zenon DEF FsTakeRetry
    <3>3. Len(retryQ') <= RetryCap
      BY <3>1, <3>2, LaneAssumption, LenProperties DEF LaneTypeOK
    <3> QED
      BY <3>1, <3>2, <3>3 DEF LaneTypeOK
  <2> QED
    BY <2>1, <2>2
<1>3. CASE FsWriteOk
  <2>1. fsReq \in Requests
    BY <1>3 DEF FsWriteOk, LaneTypeOK
  <2>2. card' \in [Files -> [0 .. MaxOff -> Contents]]
    BY <1>3, <2>1, StoreType DEF FsWriteOk
  <2>3. committed' \in [Slots -> Nat] /\ pending' \in [Slots -> Nat]
    BY <1>3, <2>1 DEF FsWriteOk, Settle, LaneTypeOK, Requests
  <2> QED
    BY <1>3, <2>2, <2>3 DEF FsWriteOk, AfterWrite, LaneTypeOK
<1>4. CASE \E landed \in BOOLEAN : FsWriteFail(landed)
  BY <1>4, WriteFailType
<1>5. CASE FsWake
  BY <1>5 DEF FsWake, LaneTypeOK
<1> QED
  BY <1>1, <1>2, <1>3, <1>4, <1>5 DEF FsDrain

\* The requests that are on their way to the card.
Elements(q) == {q[i] : i \in DOMAIN q}
Travelling == Elements(waQ) \union Elements(retryQ) \union ({fsReq} \ {NoReq})

\* The same write, whatever number of tries it has behind it.
Same(r, q) == r.slot = q.slot /\ r.file = q.file /\ r.off = q.off /\ r.data = q.data

----------------------------------------------------------------------------
(* The inductive invariant of the uploads. *)

\* What the session's own variables say of each other: nothing of an upload
\* is known before its open has returned, the end of the file is only seen
\* when the cursor stands behind it, and a terminal ack ends the upload.
SessionInv ==
    \A s \in Sessions :
      /\ st[s] \in {"FREE", "PENDING_OPEN"} => ~eof[s]
      /\ st[s] = "PENDING_OPEN" => cursor[s] = start[s]
      /\ st[s] \in {"PENDING_OPEN", "ACTIVE"} => start[s] = origin[s] /\ told[s] = "none"
      /\ st[s] = "ACTIVE" => cursor[s] >= start[s]
      /\ opening = s => st[s] = "PENDING_OPEN"
      /\ eof[s] => cursor[s] = MaxOff + 1
      /\ told[s] = "done" => st[s] \in {"FREE", "DONE_LINGER"}

\* Chunk o of session s's upload is on the card, on its way, or given up.
Kept(s, o) == \/ failed[s]
              \/ card[s][o] = content[s]
              \/ \E r \in Travelling : r.slot = s /\ r.off = o

\* While an upload runs that began under nothing of an earlier one, all that
\* travels for it is its own, and no chunk it took is lost unnoticed.
RunningInv ==
    \A s \in Sessions : clean[s] /\ st[s] = "ACTIVE" =>
      /\ syncReq # s
      /\ \A r \in Travelling : r.slot = s => r.data = content[s]
      /\ \A o \in 0 .. MaxOff : start[s] <= o /\ o < cursor[s] => Kept(s, o)

\* After DONE the file is there and nothing that could touch it is left.
DoneInv ==
    \A s \in Sessions : clean[s] /\ told[s] = "done" =>
      /\ syncReq # s
      /\ \A r \in Travelling : r.slot # s
      /\ \A o \in 0 .. MaxOff : origin[s] <= o => card[s][o] = content[s]

UpInv ==
    /\ TypeOK
    /\ \A r \in Travelling : r.file = r.slot
    /\ SessionInv
    /\ PendingExact
    /\ RunningInv
    /\ DoneInv

----------------------------------------------------------------------------
(* The inductive invariant of the downloads: a read in progress still has a *)
(* chunk of the budget left, and as long as no call has been given up, the  *)
(* one in flight is the reader's own: it is queued, being served, or        *)
(* answered, and after a good answer the buffer holds the chunk asked for.  *)
NoCall == dlReq = NoRead /\ dlExec = NoRead /\ dlRes = "none"

OwnCall ==
    \/ dlReq = tick.off /\ dlExec = NoRead /\ dlRes = "none"
    \/ dlReq = NoRead /\ dlExec = tick.off /\ dlRes = "none"
    \/ dlReq = NoRead /\ dlExec = NoRead /\ dlRes = "short"
    \/ dlReq = NoRead /\ dlExec = NoRead /\ dlRes = "ok" /\ dlBuf = tick.off

CallInv ==
    dlLate = 0 =>
        /\ IF Waiting THEN OwnCall ELSE NoCall
        /\ tick.at \in {"repairRead", "streamRead"} => dlBuf = tick.off

DlInv ==
    /\ DlTypeOK
    /\ Reading => tick.left > 0
    /\ CallInv
    /\ CopyIsFaithful

XferInv == UpInv /\ DlInv

----------------------------------------------------------------------------
(* 1. The write lane: counting requests, and what a step of fs_owner_task  *)
(* does to the requests that travel.                                       *)

\* The places in a lane that hold a request of session s.
Places(q, s) == {i \in DOMAIN q : q[i].slot = s}

\* The places in a lane are finitely many, so there is a number of them, and it
\* is 0 when no request in the lane is the session's.
LEMMA QueuedType ==
    ASSUME NEW q \in Seq(Requests), NEW s
    PROVE  /\ Queued(q, s) \in Nat
           /\ IsFiniteSet(Places(q, s))
           /\ Queued(q, s) = 0 <=> \A i \in 1 .. Len(q) : q[i].slot # s
<1>1. DOMAIN q = 1 .. Len(q) /\ Len(q) \in Nat
  BY LenProperties
<1>2. IsFiniteSet(1 .. Len(q))
  BY <1>1, FS_Interval
<1>3. Places(q, s) \in SUBSET (1 .. Len(q))
  BY <1>1 DEF Places
<1>4. IsFiniteSet(Places(q, s))
  BY <1>2, <1>3, FS_Subset
<1>5. Queued(q, s) = Cardinality(Places(q, s))
  BY DEF Queued, Places
<1>6. Queued(q, s) \in Nat
  BY <1>4, <1>5, FS_CardinalityType
<1>7. Queued(q, s) = 0 <=> Places(q, s) = {}
  BY <1>4, <1>5, FS_EmptySet
<1> QED
  BY <1>1, <1>4, <1>6, <1>7 DEF Places

\* A request that joins a lane is one more of its session.
LEMMA QueuedAppend ==
    ASSUME NEW q \in Seq(Requests), NEW r \in Requests, NEW s
    PROVE  Queued(Append(q, r), s) = IF r.slot = s THEN Queued(q, s) + 1 ELSE Queued(q, s)
<1> DEFINE p == Append(q, r)
           last == Len(q) + 1
<1>1. /\ p \in Seq(Requests) /\ Len(p) = last /\ p[last] = r
      /\ \A i \in 1 .. Len(q) : p[i] = q[i]
  BY AppendProperties
<1>2. Len(q) \in Nat /\ DOMAIN q = 1 .. Len(q) /\ DOMAIN p = 1 .. last
  BY <1>1, LenProperties
<1>3. last \notin Places(q, s)
  BY <1>2 DEF Places
<1>4. Places(p, s) = IF r.slot = s THEN Places(q, s) \union {last} ELSE Places(q, s)
  <2> HIDE DEF p
  <2>1. \A i : i \in Places(p, s) <=> i \in Places(q, s) \/ (i = last /\ r.slot = s)
    BY <1>1, <1>2 DEF Places
  <2> QED
    BY <2>1, Zenon
<1>5. IsFiniteSet(Places(q, s))
  BY QueuedType
<1>6. r.slot = s => Cardinality(Places(p, s)) = Cardinality(Places(q, s)) + 1
  <2>1. Cardinality(Places(q, s) \union {last}) = Cardinality(Places(q, s)) + 1
    BY <1>3, <1>5, FS_AddElement
  <2> QED
    BY <1>4, <2>1
<1> QED
  BY <1>4, <1>6 DEF Queued, Places

\* A request that leaves a lane is one less of its session.
LEMMA QueuedTail ==
    ASSUME NEW q \in Seq(Requests), q # <<>>, NEW s
    PROVE  Queued(Tail(q), s) = IF Head(q).slot = s THEN Queued(q, s) - 1 ELSE Queued(q, s)
<1> DEFINE t == Tail(q)
           rest == Places(q, s) \ {1}
           next == [i \in Places(t, s) |-> i + 1]
<1>1. /\ t \in Seq(Requests) /\ Len(t) = Len(q) - 1 /\ Len(q) >= 1 /\ Head(q) = q[1]
      /\ \A i \in 1 .. Len(t) : t[i] = q[i + 1]
  BY TakeType
<1>2. Len(q) \in Nat /\ DOMAIN q = 1 .. Len(q) /\ DOMAIN t = 1 .. Len(t)
  BY <1>1, LenProperties
<1> HIDE DEF t
<1>3. next \in Bijection(Places(t, s), rest)
  <2>1. \A i \in Places(t, s) : i \in Nat /\ i + 1 \in rest
    BY <1>1, <1>2 DEF Places
  <2>2. \A j \in rest : j - 1 \in Places(t, s) /\ (j - 1) + 1 = j
    BY <1>1, <1>2 DEF Places
  <2>3. next \in [Places(t, s) -> rest]
    BY <2>1
  <2>4. \A a, b \in Places(t, s) : next[a] = next[b] => a = b
    BY <2>1
  <2>5. \A j \in rest : \E i \in Places(t, s) : next[i] = j
    BY <2>2
  <2> HIDE DEF next, rest
  <2> QED
    BY <2>3, <2>4, <2>5, Fun_IsBij
<1>4. IsFiniteSet(Places(t, s)) /\ IsFiniteSet(Places(q, s))
  BY <1>1, QueuedType
<1>5. Cardinality(rest) = Cardinality(Places(t, s))
  BY <1>3, <1>4, FS_Bijection DEF ExistsBijection
<1>6. Cardinality(rest) = IF 1 \in Places(q, s) THEN Cardinality(Places(q, s)) - 1
                                                ELSE Cardinality(Places(q, s))
  BY <1>4, FS_RemoveElement
<1>7. 1 \in Places(q, s) <=> Head(q).slot = s
  BY <1>1, <1>2 DEF Places
<1> QED
  BY <1>5, <1>6, <1>7 DEF Queued, Places, t

\* The requests in a lane that one joins, and in one that its head leaves.
LEMMA ElementsAppend ==
    ASSUME NEW q \in Seq(Requests), NEW r \in Requests
    PROVE  Elements(Append(q, r)) = Elements(q) \union {r}
<1> DEFINE p == Append(q, r)
<1>1. /\ p \in Seq(Requests) /\ Len(p) = Len(q) + 1 /\ p[Len(q) + 1] = r
      /\ \A i \in 1 .. Len(q) : p[i] = q[i]
  BY AppendProperties
<1>2. Len(q) \in Nat /\ DOMAIN q = 1 .. Len(q) /\ DOMAIN p = 1 .. Len(q) + 1
  BY <1>1, LenProperties
<1> HIDE DEF p
<1>3. \A x : x \in Elements(p) <=> x \in Elements(q) \/ x = r
  BY <1>1, <1>2 DEF Elements
<1> QED
  BY <1>3, Zenon DEF p

LEMMA ElementsTail ==
    ASSUME NEW q \in Seq(Requests), q # <<>>
    PROVE  Elements(q) = Elements(Tail(q)) \union {Head(q)}
<1> DEFINE t == Tail(q)
<1>1. /\ t \in Seq(Requests) /\ Len(t) = Len(q) - 1 /\ Len(q) >= 1 /\ Head(q) = q[1]
      /\ \A i \in 1 .. Len(t) : t[i] = q[i + 1]
  BY TakeType
<1>2. Len(q) \in Nat /\ DOMAIN q = 1 .. Len(q) /\ DOMAIN t = 1 .. Len(t)
  BY <1>1, LenProperties
<1> HIDE DEF t
<1>3. \A i \in DOMAIN q : i = 1 \/ (i - 1 \in DOMAIN t /\ q[i] = t[i - 1])
  BY <1>1, <1>2
<1>4. \A i \in DOMAIN t : i + 1 \in DOMAIN q /\ t[i] = q[i + 1]
  BY <1>1, <1>2
<1>5. 1 \in DOMAIN q
  BY <1>1, <1>2
<1>6. \A x : x \in Elements(q) <=> x \in Elements(t) \/ x = q[1]
  BY <1>3, <1>4, <1>5 DEF Elements
<1> QED
  BY <1>1, <1>6, Zenon DEF t

\* What travels are requests, and no request of a session travels exactly when
\* its number is 0.
LEMMA InLaneType ==
    ASSUME LaneTypeOK
    PROVE  /\ Travelling \subseteq Requests
           /\ \A s : /\ InLane(s) \in Nat
                     /\ InLane(s) = 0 <=> \A r \in Travelling : r.slot # s
<1>1. waQ \in Seq(Requests) /\ retryQ \in Seq(Requests) /\ fsReq \in Requests \union {NoReq}
  BY DEF LaneTypeOK
<1>2. DOMAIN waQ = 1 .. Len(waQ) /\ DOMAIN retryQ = 1 .. Len(retryQ)
  BY <1>1, LenProperties
<1>3. Travelling \subseteq Requests
  BY <1>1, <1>2, ElementOfSeq DEF Travelling, Elements
<1>4. ASSUME NEW s
      PROVE  InLane(s) \in Nat /\ (InLane(s) = 0 <=> \A r \in Travelling : r.slot # s)
  <2>1. /\ Queued(waQ, s) \in Nat
        /\ Queued(waQ, s) = 0 <=> \A i \in 1 .. Len(waQ) : waQ[i].slot # s
    BY <1>1, QueuedType
  <2>2. /\ Queued(retryQ, s) \in Nat
        /\ Queued(retryQ, s) = 0 <=> \A i \in 1 .. Len(retryQ) : retryQ[i].slot # s
    BY <1>1, QueuedType
  <2>3. Queued(waQ, s) = 0 <=> \A r \in Elements(waQ) : r.slot # s
    BY <1>2, <2>1 DEF Elements
  <2>4. Queued(retryQ, s) = 0 <=> \A r \in Elements(retryQ) : r.slot # s
    BY <1>2, <2>2 DEF Elements
  <2> QED
    BY <2>1, <2>2, <2>3, <2>4 DEF InLane, Travelling
<1> QED
  BY <1>3, <1>4

----------------------------------------------------------------------------
\* Request q is on its way no longer: one less of its session, and nothing else.
Leaves(q) ==
    /\ q \in Travelling
    /\ Travelling = Travelling' \union {q}
    /\ \A s : InLane(s)' = IF q.slot = s THEN InLane(s) - 1 ELSE InLane(s)

\* Request q goes on with another try.
GoesBack(q, r) ==
    /\ q \in Travelling /\ Same(r, q)
    /\ \E rest \in SUBSET Requests :
         Travelling = rest \union {q} /\ Travelling' = rest \union {r}
    /\ \A s : InLane(s)' = InLane(s)

\* Requests that only move along the lane are all still there.
LEMMA TakeSteps ==
    ASSUME LaneTypeOK, FsTakeFresh \/ FsTakeRetry \/ FsWake
    PROVE  Travelling' = Travelling /\ \A s : InLane(s)' = InLane(s)
<1>0. waQ \in Seq(Requests) /\ retryQ \in Seq(Requests)
  BY DEF LaneTypeOK
<1>1. \A r \in Requests : r # NoReq
  BY LaneAssumption DEF Requests, NoReq
<1>2. CASE FsTakeFresh
  <2>1. fsReq = NoReq /\ waQ # <<>> /\ fsReq' = Head(waQ) /\ waQ' = Tail(waQ) /\ retryQ' = retryQ
    BY <1>2 DEF FsTakeFresh
  <2>2. Head(waQ) \in Requests
    BY <1>0, <2>1, TakeType
  <2>3. Travelling' = Travelling
    BY <1>0, <1>1, <2>1, <2>2, ElementsTail DEF Travelling
  <2>4. ASSUME NEW s PROVE InLane(s)' = InLane(s)
    <3>1. Queued(waQ, s) \in Nat /\ Queued(retryQ, s) \in Nat
      BY <1>0, QueuedType
    <3>2. Queued(waQ', s) = IF Head(waQ).slot = s THEN Queued(waQ, s) - 1 ELSE Queued(waQ, s)
      BY <1>0, <2>1, QueuedTail
    <3>3. fsReq' # NoReq
      BY <1>1, <2>1, <2>2
    <3> QED
      BY <2>1, <3>1, <3>2, <3>3 DEF InLane
  <2> QED
    BY <2>3, <2>4
<1>3. CASE FsTakeRetry /\ retryQ # <<>>
  <2>1. fsReq = NoReq /\ retryQ # <<>> /\ fsReq' = Head(retryQ) /\ retryQ' = Tail(retryQ) /\ waQ' = waQ
    BY <1>3 DEF FsTakeRetry
  <2>2. Head(retryQ) \in Requests
    BY <1>0, <2>1, TakeType
  <2>3. Travelling' = Travelling
    BY <1>0, <1>1, <2>1, <2>2, ElementsTail DEF Travelling
  <2>4. ASSUME NEW s PROVE InLane(s)' = InLane(s)
    <3>1. Queued(waQ, s) \in Nat /\ Queued(retryQ, s) \in Nat
      BY <1>0, QueuedType
    <3>2. Queued(retryQ', s) = IF Head(retryQ).slot = s THEN Queued(retryQ, s) - 1
                                                       ELSE Queued(retryQ, s)
      BY <1>0, <2>1, QueuedTail
    <3>3. fsReq' # NoReq
      BY <1>1, <2>1, <2>2
    <3> QED
      BY <2>1, <3>1, <3>2, <3>3 DEF InLane
  <2> QED
    BY <2>3, <2>4
<1>4. CASE FsWake \/ (FsTakeRetry /\ retryQ = <<>>)
  <2>1. waQ' = waQ /\ retryQ' = retryQ /\ fsReq' = fsReq
    BY <1>4 DEF FsWake, FsTakeRetry
  <2> QED
    BY <2>1 DEF Travelling, InLane
<1> QED
  BY <1>2, <1>3, <1>4

\* A write that came to its end, well or not, leaves the lane.
LEMMA EndLeaves ==
    ASSUME LaneTypeOK, fsReq # NoReq, fsReq' = NoReq, waQ' = waQ, retryQ' = retryQ
    PROVE  Leaves(fsReq)
<1>1. fsReq \in Travelling /\ Travelling = Travelling' \union {fsReq}
  BY DEF Travelling
<1>2. ASSUME NEW s
      PROVE  InLane(s)' = IF fsReq.slot = s THEN InLane(s) - 1 ELSE InLane(s)
  <2>1. Queued(waQ, s) \in Nat /\ Queued(retryQ, s) \in Nat
    BY QueuedType DEF LaneTypeOK
  <2> QED
    BY <2>1 DEF InLane
<1> QED
  BY <1>1, <1>2 DEF Leaves

\* A write that failed and may be tried again is still on its way.
LEMMA RetryGoesBack ==
    ASSUME LaneTypeOK, fsReq # NoReq, fsReq' = NoReq, waQ' = waQ,
           NEW r \in Requests, Same(r, fsReq), retryQ' = Append(retryQ, r)
    PROVE  GoesBack(fsReq, r)
<1>0. waQ \in Seq(Requests) /\ retryQ \in Seq(Requests) /\ fsReq \in Requests
  BY DEF LaneTypeOK
<1> DEFINE rest == Elements(waQ) \union Elements(retryQ)
<1>1. rest \in SUBSET Requests
  <2>1. rest \subseteq Travelling
    BY DEF Travelling
  <2> HIDE DEF rest
  <2> QED
    BY <2>1, InLaneType
<1>2. Travelling = rest \union {fsReq} /\ fsReq \in Travelling
  BY DEF Travelling
<1>3. Travelling' = rest \union {r}
  <2>1. Elements(retryQ') = Elements(retryQ) \union {r}
    BY <1>0, ElementsAppend
  <2> QED
    BY <2>1 DEF Travelling
<1>4. ASSUME NEW s PROVE InLane(s)' = InLane(s)
  <2>1. Queued(waQ, s) \in Nat /\ Queued(retryQ, s) \in Nat
    BY <1>0, QueuedType
  <2>2. Queued(retryQ', s) = IF r.slot = s THEN Queued(retryQ, s) + 1 ELSE Queued(retryQ, s)
    BY <1>0, QueuedAppend
  <2> QED
    BY <2>1, <2>2 DEF InLane, Same
<1> HIDE DEF rest
<1> QED
  BY <1>1, <1>2, <1>3, <1>4 DEF GoesBack

\* fs_owner_task moves requests along, settles one that was written, puts one
\* that failed back, or gives it up and says so.
LEMMA LaneMoves ==
    ASSUME LaneTypeOK, FsDrain \/ FsWake
    PROVE  \/ /\ Travelling' = Travelling /\ \A s : InLane(s)' = InLane(s)
              /\ UNCHANGED <<card, pending, failed>>
           \/ \E q \in Requests : /\ Leaves(q) /\ Settle(q.slot)
                                  /\ Store(q) /\ failed' = failed
           \/ \E q, r \in Requests : /\ GoesBack(q, r) /\ UNCHANGED <<pending, failed>>
                                     /\ Store(q) \/ card' = card
           \/ \E q \in Requests : /\ Leaves(q) /\ Settle(q.slot)
                                  /\ Store(q) \/ card' = card
                                  /\ failed' = [failed EXCEPT ![q.slot] = TRUE]
<1>1. CASE FsTakeFresh \/ FsTakeRetry \/ FsWake
  <2>1. UNCHANGED <<card, pending, failed>>
    BY <1>1 DEF FsTakeFresh, FsTakeRetry, FsWake
  <2> QED
    BY <1>1, <2>1, TakeSteps
<1>2. CASE FsWriteOk
  <2>1. fsReq \in Requests /\ fsReq # NoReq /\ fsReq' = NoReq /\ waQ' = waQ /\ retryQ' = retryQ
    BY <1>2 DEF FsWriteOk, LaneTypeOK
  <2> QED
    BY <1>2, <2>1, EndLeaves DEF FsWriteOk
<1>3. CASE \E landed \in BOOLEAN : FsWriteFail(landed)
  <2> PICK landed \in BOOLEAN : FsWriteFail(landed)
    BY <1>3
  <2> DEFINE req == [fsReq EXCEPT !.tries = @ + 1]
  <2>1. fsReq \in Requests /\ fsReq # NoReq /\ fsReq' = NoReq /\ waQ' = waQ
    BY DEF FsWriteFail, LaneTypeOK
  <2>2. Store(fsReq) \/ card' = card
    BY DEF FsWriteFail
  <2>3. Same(req, fsReq) /\ req.tries = fsReq.tries + 1 /\ req.slot = fsReq.slot
    BY <2>1 DEF Requests, Same
  <2>4. CASE req.tries < MaxTries /\ Len(retryQ) < RetryCap
    <3>1. retryQ' = Append(retryQ, req) /\ UNCHANGED <<pending, failed>>
      BY <2>4 DEF FsWriteFail
    <3>2. req \in Requests
      BY <2>1, <2>3, <2>4, RetryType
    <3> HIDE DEF req
    <3>3. GoesBack(fsReq, req)
      BY <2>1, <2>3, <3>1, <3>2, RetryGoesBack
    <3> QED
      BY <2>1, <2>2, <3>1, <3>2, <3>3
  <2>5. CASE ~(req.tries < MaxTries /\ Len(retryQ) < RetryCap)
    <3>1. /\ failed' = [failed EXCEPT ![fsReq.slot] = TRUE]
          /\ Settle(fsReq.slot) /\ retryQ' = retryQ
      BY <2>3, <2>5 DEF FsWriteFail
    <3>2. Leaves(fsReq)
      BY <2>1, <3>1, EndLeaves
    <3> QED
      BY <2>1, <2>2, <3>1, <3>2
  <2> QED
    BY <2>4, <2>5
<1> QED
  BY <1>1, <1>2, <1>3 DEF FsDrain

\* A request that a producer queues travels, and is one more of its session.
LEMMA EnqueueMoves ==
    ASSUME LaneTypeOK, NEW s \in Slots, NEW f \in Files, NEW o \in 0 .. MaxOff,
           NEW d \in Contents, Enqueue(s, f, o, d)
    PROVE  /\ \E r \in Requests : /\ r.slot = s /\ r.file = f /\ r.off = o /\ r.data = d
                                  /\ Travelling' = Travelling \union {r}
           /\ \A t : InLane(t)' = IF t = s THEN InLane(t) + 1 ELSE InLane(t)
<1> DEFINE r == [slot |-> s, file |-> f, off |-> o, data |-> d, tries |-> 0]
<1>1. r \in Requests /\ r.slot = s /\ r.file = f /\ r.off = o /\ r.data = d
  BY LaneAssumption DEF Requests
<1>2. waQ' = Append(waQ, r) /\ retryQ' = retryQ /\ fsReq' = fsReq
  BY DEF Enqueue
<1> HIDE DEF r
<1>3. waQ \in Seq(Requests) /\ retryQ \in Seq(Requests)
  BY DEF LaneTypeOK
<1>4. Travelling' = Travelling \union {r}
  <2>1. Elements(waQ') = Elements(waQ) \union {r}
    BY <1>1, <1>2, <1>3, ElementsAppend
  <2> QED
    BY <1>2, <2>1 DEF Travelling
<1>5. ASSUME NEW t PROVE InLane(t)' = IF t = s THEN InLane(t) + 1 ELSE InLane(t)
  <2>1. Queued(waQ, t) \in Nat /\ Queued(retryQ, t) \in Nat
    BY <1>3, QueuedType
  <2>2. Queued(waQ', t) = IF r.slot = t THEN Queued(waQ, t) + 1 ELSE Queued(waQ, t)
    BY <1>1, <1>2, <1>3, QueuedAppend
  <2> QED
    BY <1>1, <1>2, <2>1, <2>2 DEF InLane
<1> QED
  BY <1>1, <1>4, <1>5

\* As long as the lane's variables stand still, so does what travels.
LEMMA LaneStill ==
    ASSUME UNCHANGED <<waQ, retryQ, fsReq>>
    PROVE  Travelling' = Travelling /\ \A s : InLane(s)' = InLane(s)
  BY DEF Travelling, InLane

----------------------------------------------------------------------------
(* 2. Uploads. *)

\* The conjuncts of UpInv that the lane has a part in, for one session.
LaneOf(s) ==
    /\ clean[s] => pending[s] = InLane(s)
    /\ clean[s] /\ st[s] = "ACTIVE" =>
         /\ \A r \in Travelling : r.slot = s => r.data = content[s]
         /\ \A o \in 0 .. MaxOff : start[s] <= o /\ o < cursor[s] => Kept(s, o)
    /\ clean[s] /\ told[s] = "done" =>
         /\ \A r \in Travelling : r.slot # s
         /\ \A o \in 0 .. MaxOff : origin[s] <= o => card[s][o] = content[s]

\* The conjuncts of SessionInv for one session, and of the invariant that are
\* about the truncate.
SessionOf(s) ==
    /\ st[s] \in {"FREE", "PENDING_OPEN"} => ~eof[s]
    /\ st[s] = "PENDING_OPEN" => cursor[s] = start[s]
    /\ st[s] \in {"PENDING_OPEN", "ACTIVE"} => start[s] = origin[s] /\ told[s] = "none"
    /\ st[s] = "ACTIVE" => cursor[s] >= start[s]
    /\ opening = s => st[s] = "PENDING_OPEN"
    /\ eof[s] => cursor[s] = MaxOff + 1
    /\ told[s] = "done" => st[s] \in {"FREE", "DONE_LINGER"}
TruncateOf(s) == clean[s] /\ (st[s] = "ACTIVE" \/ told[s] = "done") => syncReq # s

\* The invariant, session by session.
InvOf(s) == SessionOf(s) /\ LaneOf(s) /\ TruncateOf(s)
LEMMA UpInvOf ==
    UpInv <=> /\ TypeOK
              /\ \A r \in Travelling : r.file = r.slot
              /\ \A s \in Sessions : InvOf(s)
  BY DEF UpInv, PendingExact, RunningInv, DoneInv, SessionInv, InvOf, SessionOf, LaneOf, TruncateOf
LEMMA UpInvNext ==
    (/\ TypeOK'
     /\ \A r \in Travelling' : r.file = r.slot
     /\ \A s \in Sessions : InvOf(s)') => UpInv'
  BY DEF UpInv, PendingExact, RunningInv, DoneInv, SessionInv, InvOf, SessionOf, LaneOf, TruncateOf

\* Storing a request touches its own file, at its own offset.
LEMMA StoreAt ==
    ASSUME LaneTypeOK, NEW q \in Requests, Store(q) \/ card' = card,
           NEW f \in Files, NEW o \in 0 .. MaxOff
    PROVE  \/ card'[f][o] = card[f][o]
           \/ q.file = f /\ q.off = o /\ card'[f][o] = q.data
<1>1. CASE card' = card
  BY <1>1
<1>2. CASE Store(q)
  <2>1. /\ card \in [Files -> [0 .. MaxOff -> Contents]]
        /\ q.file \in Files /\ q.off \in 0 .. MaxOff
    BY DEF LaneTypeOK, Requests
  <2>2. card' = [card EXCEPT ![q.file] = [card[q.file] EXCEPT ![q.off] = q.data]]
    BY <1>2 DEF Store
  <2> QED
    BY <2>1, <2>2
<1> QED
  BY <1>1, <1>2

\* fs_owner_task keeps every session's part of the invariant.
LEMMA LaneKeepsSession ==
    ASSUME UpInv, FsDrain \/ FsWake, UNCHANGED <<sessVars, syncVars, gcsVars, ackVars>>,
           NEW s \in Sessions
    PROVE  LaneOf(s)' /\ \A r \in Travelling' : r.file = r.slot
<1>1. LaneTypeOK /\ s \in Slots /\ s \in Files
  BY UploadAssumption DEF UpInv, TypeOK
<1>2. LaneOf(s) /\ \A r \in Travelling : r.file = r.slot /\ r \in Requests
  BY <1>1, UpInvOf, InLaneType DEF InvOf
<1>3. InLane(s) \in Nat /\ (InLane(s) = 0 <=> \A r \in Travelling : r.slot # s)
  BY <1>1, InLaneType
<1>4. /\ clean' = clean /\ st' = st /\ content' = content /\ start' = start
      /\ cursor' = cursor /\ told' = told /\ origin' = origin
  BY DEF sessVars, gcsVars, ackVars
<1>5. pending \in [Slots -> Nat] /\ failed \in [Slots -> BOOLEAN]
  BY <1>1 DEF LaneTypeOK
<1>6. CASE /\ Travelling' = Travelling /\ \A t : InLane(t)' = InLane(t)
           /\ UNCHANGED <<card, pending, failed>>
  BY <1>2, <1>4, <1>6 DEF LaneOf, Kept
<1>7. ASSUME NEW q \in Requests, Leaves(q), Settle(q.slot), Store(q) \/ card' = card,
             \/ Store(q) /\ failed' = failed
             \/ failed' = [failed EXCEPT ![q.slot] = TRUE]
      PROVE  LaneOf(s)' /\ \A r \in Travelling' : r.file = r.slot
  <2>1. q \in Travelling /\ Travelling = Travelling' \union {q} /\ q.slot \in Slots
    BY <1>7 DEF Leaves, Requests
  <2>2. clean[s] => pending'[s] = InLane(s)'
    <3>1. InLane(s)' = IF q.slot = s THEN InLane(s) - 1 ELSE InLane(s)
      BY <1>7 DEF Leaves
    <3>2. q.slot = s => InLane(s) # 0
      BY <1>3, <2>1
    <3>3. pending'[s] = IF q.slot = s THEN IF pending[s] > 0 THEN pending[s] - 1 ELSE 0
                                      ELSE pending[s]
      BY <1>1, <1>5, <1>7, <2>1 DEF Settle
    <3> QED
      BY <1>2, <1>3, <3>1, <3>2, <3>3 DEF LaneOf
  <2>3. ASSUME NEW o \in 0 .. MaxOff
        PROVE  \/ card'[s][o] = card[s][o]
               \/ q.slot = s /\ q.off = o /\ card'[s][o] = q.data
    BY <1>1, <1>2, <1>7, <2>1, StoreAt
  <2>4. ASSUME clean[s], st[s] = "ACTIVE", NEW o \in 0 .. MaxOff, start[s] <= o, o < cursor[s]
        PROVE  Kept(s, o)'
    <3>1. Kept(s, o) /\ \A r \in Travelling : r.slot = s => r.data = content[s]
      BY <1>2, <2>4 DEF LaneOf
    <3>2. failed[s] => failed'[s]
      BY <1>1, <1>5, <1>7, <2>1
    <3>3. CASE failed[s]
      BY <3>2, <3>3 DEF Kept
    <3>4. CASE card[s][o] = content[s]
      BY <1>4, <2>1, <2>3, <3>1, <3>4 DEF Kept
    <3>5. ASSUME NEW r \in Travelling, r.slot = s, r.off = o
          PROVE  Kept(s, o)'
      <4>1. CASE r \in Travelling'
        BY <3>5, <4>1 DEF Kept
      <4>2. CASE r = q
        <5>1. CASE Store(q)
          <6>1. card'[s][o] = q.data
            BY <1>1, <1>2, <2>1, <3>5, <4>2, <5>1 DEF Store, LaneTypeOK
          <6> QED
            BY <1>4, <2>1, <3>1, <3>5, <4>2, <6>1 DEF Kept
        <5>2. CASE failed' = [failed EXCEPT ![q.slot] = TRUE]
          BY <1>1, <1>5, <3>5, <4>2, <5>2 DEF Kept
        <5> QED
          BY <1>7, <5>1, <5>2
      <4> QED
        BY <2>1, <4>1, <4>2
    <3> QED
      BY <3>1, <3>3, <3>4, <3>5 DEF Kept
  <2>5. clean[s] /\ st[s] = "ACTIVE" => \A r \in Travelling' : r.slot = s => r.data = content[s]
    BY <1>2, <2>1 DEF LaneOf
  <2>6. clean[s] /\ told[s] = "done" =>
          /\ \A r \in Travelling' : r.slot # s
          /\ \A o \in 0 .. MaxOff : origin[s] <= o => card'[s][o] = content[s]
    BY <1>2, <2>1, <2>3 DEF LaneOf
  <2> QED
    BY <1>2, <1>4, <2>1, <2>2, <2>4, <2>5, <2>6 DEF LaneOf
<1>8. ASSUME NEW q \in Requests, NEW r \in Requests, GoesBack(q, r),
             UNCHANGED <<pending, failed>>, Store(q) \/ card' = card
      PROVE  LaneOf(s)' /\ \A x \in Travelling' : x.file = x.slot
  <2>1. PICK rest \in SUBSET Requests :
             Travelling = rest \union {q} /\ Travelling' = rest \union {r}
    BY <1>8 DEF GoesBack
  <2>2. Same(r, q) /\ InLane(s)' = InLane(s)
    BY <1>8 DEF GoesBack
  <2>3. ASSUME NEW o \in 0 .. MaxOff
        PROVE  \/ card'[s][o] = card[s][o]
               \/ q.slot = s /\ q.off = o /\ card'[s][o] = q.data
    BY <1>1, <1>2, <1>8, <2>1, StoreAt
  <2>4. ASSUME clean[s], st[s] = "ACTIVE", NEW o \in 0 .. MaxOff, start[s] <= o, o < cursor[s]
        PROVE  Kept(s, o)'
    <3>1. Kept(s, o) /\ \A x \in Travelling : x.slot = s => x.data = content[s]
      BY <1>2, <2>4 DEF LaneOf
    <3>2. CASE failed[s]
      BY <1>8, <3>2 DEF Kept
    <3>3. CASE card[s][o] = content[s]
      BY <1>4, <2>1, <2>3, <3>1, <3>3 DEF Kept
    <3>4. CASE \E x \in Travelling : x.slot = s /\ x.off = o
      BY <2>1, <2>2, <3>4 DEF Kept, Same
    <3> QED
      BY <3>1, <3>2, <3>3, <3>4 DEF Kept
  <2>5. clean[s] /\ st[s] = "ACTIVE" => \A x \in Travelling' : x.slot = s => x.data = content[s]
    BY <1>2, <2>1, <2>2 DEF LaneOf, Same
  <2>6. clean[s] /\ told[s] = "done" =>
          /\ \A x \in Travelling' : x.slot # s
          /\ \A o \in 0 .. MaxOff : origin[s] <= o => card'[s][o] = content[s]
    BY <1>2, <2>1, <2>2, <2>3 DEF LaneOf, Same
  <2>7. clean[s] => pending'[s] = InLane(s)'
    BY <1>2, <1>8, <2>2 DEF LaneOf
  <2>8. \A x \in Travelling' : x.file = x.slot
    BY <1>2, <2>1, <2>2 DEF Same
  <2> QED
    BY <1>4, <2>4, <2>5, <2>6, <2>7, <2>8 DEF LaneOf
<1> QED
  BY <1>1, <1>6, <1>7, <1>8, LaneMoves

\* What a session sees of itself does not change.
Untouched(t) ==
    /\ st'[t] = st[t] /\ cursor'[t] = cursor[t] /\ start'[t] = start[t] /\ eof'[t] = eof[t]
    /\ told'[t] = told[t] /\ clean'[t] = clean[t]
    /\ content'[t] = content[t] /\ origin'[t] = origin[t]
    /\ pending'[t] = pending[t] /\ failed'[t] = failed[t] /\ card'[t] = card[t]
    /\ \A r \in Travelling' : r.slot = t => r \in Travelling
    /\ \A r \in Travelling : r.slot = t => r \in Travelling'
    /\ InLane(t)' = InLane(t)
    /\ opening' = t => opening = t
    /\ syncReq' = t => syncReq = t

\* A session that a step leaves alone keeps its part of the invariant.
LEMMA UntouchedKeeps ==
    ASSUME NEW t, InvOf(t), Untouched(t)
    PROVE  InvOf(t)'
<1>1. SessionOf(t)'
  BY DEF InvOf, Untouched, SessionOf
<1>2. \A o : Kept(t, o) => Kept(t, o)'
  BY DEF Untouched, Kept
<1>3. LaneOf(t)'
  BY <1>2 DEF InvOf, Untouched, LaneOf
<1>4. TruncateOf(t)'
  BY DEF InvOf, Untouched, TruncateOf
<1> QED
  BY <1>1, <1>3, <1>4 DEF InvOf

\* So a step that works on one session has to answer for that one only.
LEMMA OneSession ==
    ASSUME UpInv, NEW s \in Sessions, TypeOK', InvOf(s)',
           \A r \in Travelling' : r.file = r.slot,
           \A t \in Sessions : t # s => Untouched(t)
    PROVE  UpInv'
<1>1. \A t \in Sessions : InvOf(t)'
  BY UpInvOf, UntouchedKeeps
<1> QED
  BY <1>1, UpInvNext

\* session_free, of a session that is not being opened.
LEMMA FreeType ==
    ASSUME TypeOK, NEW s \in Sessions, Free(s)
    PROVE  /\ st' \in [Sessions -> {"FREE", "PENDING_OPEN", "ACTIVE", "DONE_LINGER"}]
           /\ cursor' \in [Sessions -> 0 .. MaxOff + 1] /\ start' \in [Sessions -> 0 .. MaxOff]
           /\ eof' \in [Sessions -> BOOLEAN] /\ rx' \in [Sessions -> BOOLEAN]
           /\ closing' \in [Sessions -> BOOLEAN]
           /\ idle' \in [Sessions -> 0 .. IdleTicks] /\ linger' \in [Sessions -> 0 .. LingerTicks]
           /\ st'[s] = "FREE" /\ cursor'[s] = 0 /\ start'[s] = 0 /\ ~eof'[s]
           /\ \A t \in Sessions : t # s =>
                /\ st'[t] = st[t] /\ cursor'[t] = cursor[t] /\ start'[t] = start[t]
                /\ eof'[t] = eof[t]
<1>1. 0 \in 0 .. MaxOff + 1 /\ 0 \in 0 .. MaxOff /\ 0 \in 0 .. IdleTicks /\ 0 \in 0 .. LingerTicks
  BY LaneAssumption, UploadAssumption
<1>2. eof' \in [Sessions -> BOOLEAN] /\ ~eof'[s] /\ \A t \in Sessions : t # s => eof'[t] = eof[t]
  BY Zenon DEF TypeOK, Free
<1>3. rx' \in [Sessions -> BOOLEAN] /\ closing' \in [Sessions -> BOOLEAN]
  BY Zenon DEF TypeOK, Free
<1> QED
  BY <1>1, <1>2, <1>3 DEF TypeOK, Free

LEMMA FreeKeeps ==
    ASSUME UpInv, NEW s \in Sessions, Free(s), opening # s,
           UNCHANGED <<card, laneVars, syncVars, gcsVars, ackVars>>
    PROVE  UpInv'
<1>0. TypeOK /\ InvOf(s) /\ (\A r \in Travelling : r.file = r.slot)
  BY UpInvOf
<1>1. TypeOK'
  <2>1. LaneTypeOK'
    BY <1>0 DEF TypeOK, LaneTypeOK, laneVars
  <2> QED
    BY <1>0, <2>1, FreeType DEF TypeOK, syncVars, gcsVars, ackVars
<1>2. Travelling' = Travelling /\ \A t : InLane(t)' = InLane(t)
  BY LaneStill DEF laneVars
<1>3. SessionOf(s)'
  BY <1>0, FreeType DEF SessionOf, InvOf, syncVars, gcsVars, ackVars
<1>4. LaneOf(s)'
  BY <1>0, <1>2, FreeType DEF LaneOf, InvOf, laneVars, gcsVars, ackVars
<1>5. TruncateOf(s)'
  BY <1>0, FreeType DEF TruncateOf, InvOf, syncVars, ackVars
<1>6. \A t \in Sessions : t # s => Untouched(t)
  BY <1>0, <1>2, FreeType DEF Untouched, laneVars, syncVars, gcsVars, ackVars
<1> QED
  BY <1>0, <1>1, <1>2, <1>3, <1>4, <1>5, <1>6, OneSession DEF InvOf

----------------------------------------------------------------------------
\* xfer_on_open: the request is stashed; nothing is known of the upload yet.
LEMMA OnOpenKeeps ==
    ASSUME UpInv, NEW s \in Sessions, NEW from \in Starts[s], OnOpen(s, from)
    PROVE  UpInv'
<1>0. TypeOK /\ InvOf(s) /\ (\A r \in Travelling : r.file = r.slot)
  BY UpInvOf
<1>1. from \in 0 .. MaxOff /\ content[s] + 1 \in Contents /\ from \in 0 .. MaxOff + 1
  <2>1. from \in 0 .. MaxOff
    BY UploadAssumption
  <2>2. content[s] \in 0 .. MaxOpens /\ content[s] < MaxOpens
    BY <1>0, UploadAssumption DEF OnOpen, TypeOK
  <2> QED
    BY <2>1, <2>2, UploadAssumption, LaneAssumption
<1>2. TypeOK'
  <2>1. LaneTypeOK'
    BY <1>0 DEF TypeOK, LaneTypeOK, laneVars, OnOpen
  <2> QED
    BY <1>0, <1>1, <2>1 DEF TypeOK, OnOpen, syncVars
<1>3. Travelling' = Travelling /\ \A t : InLane(t)' = InLane(t)
  BY LaneStill DEF laneVars, OnOpen
<1>4. /\ st'[s] = "PENDING_OPEN" /\ cursor'[s] = from /\ start'[s] = from /\ origin'[s] = from
      /\ told'[s] = "none" /\ st[s] = "FREE" /\ eof' = eof /\ clean' = clean
      /\ pending' = pending /\ opening' = opening /\ syncReq' = syncReq
  BY <1>0 DEF TypeOK, OnOpen, syncVars, laneVars
<1>5. InvOf(s)'
  BY <1>0, <1>3, <1>4 DEF InvOf, SessionOf, LaneOf, TruncateOf
<1>6. \A t \in Sessions : t # s => Untouched(t)
  BY <1>0, <1>3 DEF Untouched, laneVars, syncVars, OnOpen, TypeOK
<1> QED
  BY <1>0, <1>2, <1>3, <1>5, <1>6, OneSession

\* xfer_on_data, for a chunk the lane takes: it travels, and the cursor covers
\* it from now on.
LEMMA DataTaken ==
    ASSUME UpInv, NEW s \in Sessions, NEW o \in 0 .. MaxOff, OnData(s, o), Accepts(s, o)
    PROVE  UpInv'
<1>0. TypeOK /\ InvOf(s) /\ (\A r \in Travelling : r.file = r.slot)
  BY UpInvOf
<1>1. s \in Slots /\ s \in Files /\ content[s] \in Contents
  BY <1>0, UploadAssumption DEF TypeOK
<1>2. /\ Enqueue(s, s, o, content[s]) /\ cursor' = [cursor EXCEPT ![s] = o + 1]
      /\ o = cursor[s] /\ st[s] = "ACTIVE"
      /\ UNCHANGED <<card, st, start, closing, idle, linger, syncVars, gcsVars, ackVars>>
  BY DEF OnData, Accepts
<1>3. /\ cursor' \in [Sessions -> 0 .. MaxOff + 1] /\ cursor'[s] = o + 1
      /\ \A t \in Sessions : t # s => cursor'[t] = cursor[t]
  BY <1>0, <1>2, LaneAssumption DEF TypeOK
<1>4. /\ eof' \in [Sessions -> BOOLEAN] /\ (eof'[s] => eof[s] \/ o = MaxOff)
      /\ \A t \in Sessions : t # s => eof'[t] = eof[t]
  <2> DEFINE new == IF o = MaxOff /\ o + 1 <= cursor'[s] THEN TRUE ELSE eof[s]
  <2>1. eof' = [eof EXCEPT ![s] = new]
    BY DEF OnData
  <2>2. new \in BOOLEAN /\ (new => eof[s] \/ o = MaxOff)
    BY <1>0 DEF TypeOK
  <2> HIDE DEF new
  <2> QED
    BY <1>0, <2>1, <2>2, Zenon DEF TypeOK
<1>5. TypeOK'
  <2>1. LaneTypeOK'
    BY <1>0, <1>1, <1>2, EnqueueType DEF TypeOK
  <2>2. rx' \in [Sessions -> BOOLEAN]
    BY <1>0, Zenon DEF TypeOK, OnData
  <2> QED
    BY <1>0, <1>2, <1>3, <1>4, <2>1, <2>2 DEF TypeOK, syncVars, gcsVars, ackVars
<1>6. PICK q \in Requests : /\ q.slot = s /\ q.file = s /\ q.off = o /\ q.data = content[s]
                            /\ Travelling' = Travelling \union {q}
  BY <1>0, <1>1, <1>2, EnqueueMoves DEF TypeOK
<1>7. \A t : InLane(t)' = IF t = s THEN InLane(t) + 1 ELSE InLane(t)
  BY <1>0, <1>1, <1>2, EnqueueMoves DEF TypeOK
<1>8. pending' = [pending EXCEPT ![s] = @ + 1] /\ failed' = failed /\ pending \in [Slots -> Nat]
  BY <1>0, <1>2 DEF Enqueue, TypeOK, LaneTypeOK
<1>9. told[s] = "none" /\ ~(told'[s] = "done")
  BY <1>0, <1>2 DEF InvOf, SessionOf, ackVars
<1>10. SessionOf(s)'
  <2>1. eof[s] => o = MaxOff + 1
    BY <1>0, <1>2 DEF InvOf, SessionOf
  <2>2. eof'[s] => cursor'[s] = MaxOff + 1
    BY <1>3, <1>4, <2>1, LaneAssumption
  <2>3. cursor'[s] >= start[s]
    BY <1>0, <1>2, <1>3 DEF InvOf, SessionOf, TypeOK
  <2> QED
    BY <1>0, <1>2, <1>9, <2>2, <2>3 DEF InvOf, SessionOf, syncVars, gcsVars, ackVars
<1>11. LaneOf(s)'
  <2>1. clean[s] => pending'[s] = InLane(s)'
    BY <1>0, <1>1, <1>7, <1>8 DEF InvOf, LaneOf
  <2>2. ASSUME clean[s], NEW p \in 0 .. MaxOff, start[s] <= p, p < cursor'[s]
        PROVE  Kept(s, p)'
    <3>1. CASE p = o
      BY <1>6, <3>1 DEF Kept
    <3>2. CASE p # o
      <4>1. p < cursor[s]
        BY <1>2, <1>3, <2>2, <3>2
      <4>2. Kept(s, p)
        BY <1>0, <1>2, <2>2, <4>1 DEF InvOf, LaneOf
      <4> QED
        BY <1>2, <1>6, <1>8, <4>2 DEF Kept, gcsVars
    <3> QED
      BY <3>1, <3>2
  <2>3. clean[s] => \A r \in Travelling' : r.slot = s => r.data = content[s]
    BY <1>0, <1>2, <1>6 DEF InvOf, LaneOf
  <2> QED
    BY <1>2, <1>9, <2>1, <2>2, <2>3 DEF LaneOf, gcsVars, ackVars
<1>12. TruncateOf(s)'
  BY <1>0, <1>2 DEF InvOf, TruncateOf, syncVars, ackVars
<1>13. \A t \in Sessions : t # s => Untouched(t)
  BY <1>1, <1>2, <1>3, <1>4, <1>6, <1>7, <1>8, UploadAssumption
     DEF Untouched, syncVars, gcsVars, ackVars
<1> QED
  BY <1>0, <1>5, <1>6, <1>10, <1>11, <1>12, <1>13, OneSession DEF InvOf

\* ... and for one that it refuses.
LEMMA DataRefused ==
    ASSUME UpInv, NEW s \in Sessions, NEW o \in 0 .. MaxOff, OnData(s, o), ~Accepts(s, o)
    PROVE  UpInv'
<1>0. TypeOK /\ InvOf(s) /\ (\A r \in Travelling : r.file = r.slot)
  BY UpInvOf
<1>1. /\ st[s] = "ACTIVE"
      /\ UNCHANGED <<laneVars, cursor, card, st, start, closing, idle, linger, syncVars, gcsVars,
                     ackVars>>
  BY DEF OnData
<1>2. /\ eof' \in [Sessions -> BOOLEAN] /\ (eof'[s] => eof[s] \/ cursor[s] = MaxOff + 1)
      /\ \A t \in Sessions : t # s => eof'[t] = eof[t]
  <2> DEFINE new == IF o = MaxOff /\ o + 1 <= cursor'[s] THEN TRUE ELSE eof[s]
  <2>1. eof' = [eof EXCEPT ![s] = new]
    BY DEF OnData
  <2>2. cursor[s] \in 0 .. MaxOff + 1
    BY <1>0 DEF TypeOK
  <2>3. new \in BOOLEAN /\ (new => eof[s] \/ cursor[s] = MaxOff + 1)
    <3>1. CASE o = MaxOff /\ o + 1 <= cursor'[s]
      <4>1. cursor[s] = MaxOff + 1
        BY <1>1, <2>2, <3>1, LaneAssumption
      <4> QED
        BY <3>1, <4>1
    <3>2. CASE ~(o = MaxOff /\ o + 1 <= cursor'[s])
      BY <1>0, <3>2 DEF TypeOK
    <3> QED
      BY <3>1, <3>2
  <2> HIDE DEF new
  <2> QED
    BY <1>0, <2>1, <2>3, Zenon DEF TypeOK
<1>3. TypeOK'
  <2>1. LaneTypeOK'
    BY <1>0, <1>1 DEF TypeOK, LaneTypeOK, laneVars
  <2>2. rx' \in [Sessions -> BOOLEAN]
    BY <1>0, Zenon DEF TypeOK, OnData
  <2> QED
    BY <1>0, <1>1, <1>2, <2>1, <2>2 DEF TypeOK, syncVars, gcsVars, ackVars
<1>4. Travelling' = Travelling /\ \A t : InLane(t)' = InLane(t)
  BY <1>1, LaneStill DEF laneVars
<1>5. InvOf(s)'
  <2>1. SessionOf(s)'
    BY <1>0, <1>1, <1>2 DEF InvOf, SessionOf, syncVars, gcsVars, ackVars
  <2>2. LaneOf(s)'
    BY <1>0, <1>1, <1>4 DEF InvOf, LaneOf, Kept, laneVars, gcsVars, ackVars
  <2> QED
    BY <1>0, <1>1, <2>1, <2>2 DEF InvOf, TruncateOf, syncVars, ackVars
<1>6. \A t \in Sessions : t # s => Untouched(t)
  BY <1>1, <1>2, <1>4 DEF Untouched, laneVars, syncVars, gcsVars, ackVars
<1> QED
  BY <1>0, <1>3, <1>4, <1>5, <1>6, OneSession

\* xfer_on_close only asks for the session to be torn down.
LEMMA OnCloseKeeps ==
    ASSUME UpInv, NEW s \in Sessions, OnClose(s)
    PROVE  UpInv'
<1>0. TypeOK /\ InvOf(s) /\ (\A r \in Travelling : r.file = r.slot)
  BY UpInvOf
<1>1. TypeOK'
  <2>1. LaneTypeOK'
    BY <1>0 DEF TypeOK, LaneTypeOK, laneVars, OnClose
  <2>2. closing' \in [Sessions -> BOOLEAN]
    BY <1>0, Zenon DEF TypeOK, OnClose
  <2> QED
    BY <1>0, <2>1, <2>2 DEF TypeOK, OnClose, syncVars, gcsVars, ackVars
<1>2. Travelling' = Travelling /\ \A t : InLane(t)' = InLane(t)
  BY LaneStill DEF laneVars, OnClose
<1>3. \A t \in Sessions : Untouched(t)
  BY <1>2 DEF Untouched, laneVars, syncVars, gcsVars, ackVars, OnClose
<1>4. InvOf(s)'
  BY <1>0, <1>3, UntouchedKeeps
<1> QED
  BY <1>0, <1>1, <1>2, <1>3, <1>4, OneSession

\* The open begins, or the session is given up; either way nothing is written
\* for it yet.
LEMMA TickOpenKeeps ==
    ASSUME UpInv, NEW s \in Sessions, TickOpen(s)
    PROVE  UpInv'
<1>0. TypeOK /\ InvOf(s) /\ (\A r \in Travelling : r.file = r.slot)
  BY UpInvOf
<1>1. opening # s
  BY UploadAssumption DEF TickOpen, Running
<1>2. CASE Free(s) /\ UNCHANGED syncVars
  BY <1>1, <1>2, FreeKeeps DEF TickOpen
<1>3. CASE opening' = s /\ UNCHANGED sessVars
  <2>1. /\ st[s] = "PENDING_OPEN" /\ told[s] = "none"
        /\ UNCHANGED <<card, laneVars, gcsVars, ackVars>>
    BY <1>0 DEF TickOpen, InvOf, SessionOf
  <2>2. syncReq' \in {s, syncReq} /\ syncRes' = syncRes
    <3>1. CASE start[s] = 0 /\ syncReq = "none"
      BY <1>0, <1>1, <1>3, <3>1, <2>1 DEF TickOpen, Free, sessVars, TypeOK, syncVars
    <3>2. CASE ~(start[s] = 0 /\ syncReq = "none")
      BY <1>0, <1>1, <1>3, <3>2, <2>1 DEF TickOpen, Free, sessVars, TypeOK, syncVars
    <3> QED
      BY <3>1, <3>2
  <2>3. Travelling' = Travelling /\ \A t : InLane(t)' = InLane(t)
    BY <2>1, LaneStill DEF laneVars
  <2>4. TypeOK'
    <3>1. LaneTypeOK'
      BY <1>0, <2>1 DEF TypeOK, LaneTypeOK, laneVars
    <3> QED
      BY <1>0, <1>3, <2>1, <2>2, <3>1, UploadAssumption DEF TypeOK, sessVars, gcsVars, ackVars
  <2>5. InvOf(s)'
    BY <1>0, <1>3, <2>1, <2>3
       DEF InvOf, SessionOf, LaneOf, TruncateOf, sessVars, laneVars, gcsVars, ackVars
  <2>6. \A t \in Sessions : t # s => Untouched(t)
    BY <1>3, <2>1, <2>2, <2>3 DEF Untouched, sessVars, laneVars, gcsVars, ackVars
  <2> QED
    BY <1>0, <2>3, <2>4, <2>5, <2>6, OneSession
<1> QED
  BY <1>2, <1>3 DEF TickOpen

\* The open returns: the counters start again, and the upload counts as clean
\* exactly when nothing of an earlier one is left that could disturb them.
LEMMA OpenReturnsKeeps ==
    ASSUME UpInv, NEW s \in Sessions, OpenReturns(s)
    PROVE  UpInv'
<1>0. TypeOK /\ InvOf(s) /\ (\A r \in Travelling : r.file = r.slot)
  BY UpInvOf
<1> DEFINE none == IF InLane(s) = 0 /\ syncReq # s THEN TRUE ELSE FALSE
<1>1. /\ st[s] = "PENDING_OPEN" /\ told[s] = "none" /\ ~eof[s]
      /\ cursor[s] = start[s] /\ start[s] = origin[s] /\ s \in Slots
  BY <1>0, UploadAssumption DEF OpenReturns, InvOf, SessionOf
<1>2. /\ opening' = "none" /\ st' = [st EXCEPT ![s] = "ACTIVE"]
      /\ UNCHANGED <<card, cursor, start, eof, rx, closing, idle, linger, syncReq, gcsVars, told>>
      /\ UNCHANGED <<waQ, retryQ, fsStage, fsReq>>
      /\ pending' = [pending EXCEPT ![s] = 0] /\ committed' = [committed EXCEPT ![s] = 0]
      /\ failed' = [failed EXCEPT ![s] = FALSE]
      /\ syncRes' \in {syncRes, FALSE}
  BY DEF OpenReturns, Reset
<1>3. /\ clean' \in [Sessions -> BOOLEAN] /\ (clean'[s] <=> none)
      /\ \A t \in Sessions : t # s => clean'[t] = clean[t]
  <2>1. clean' = [clean EXCEPT ![s] = none] /\ none \in BOOLEAN
    BY DEF OpenReturns
  <2> HIDE DEF none
  <2> QED
    BY <1>0, <2>1, Zenon DEF TypeOK
<1>4. /\ failed' \in [Slots -> BOOLEAN] /\ \A t \in Slots : t # s => failed'[t] = failed[t]
  BY <1>0, <1>1, <1>2, Zenon DEF TypeOK, LaneTypeOK
<1>5. /\ pending' \in [Slots -> Nat] /\ pending'[s] = 0 /\ committed' \in [Slots -> Nat]
      /\ \A t \in Slots : t # s => pending'[t] = pending[t]
  BY <1>0, <1>1, <1>2 DEF TypeOK, LaneTypeOK
<1>6. TypeOK'
  <2>1. LaneTypeOK'
    BY <1>0, <1>2, <1>4, <1>5 DEF TypeOK, LaneTypeOK
  <2>2. syncRes' \in BOOLEAN
    BY <1>0, <1>2 DEF TypeOK
  <2> QED
    BY <1>0, <1>2, <1>3, <2>1, <2>2 DEF TypeOK, gcsVars
<1>7. Travelling' = Travelling /\ \A t : InLane(t)' = InLane(t)
  BY <1>2, LaneStill
<1>8. st'[s] = "ACTIVE" /\ \A t \in Sessions : t # s => st'[t] = st[t]
  BY <1>0, <1>2 DEF TypeOK
<1>9. InvOf(s)'
  <2>1. SessionOf(s)'
    <3>1. cursor[s] >= start[s]
      BY <1>0, <1>1, LaneAssumption DEF TypeOK
    <3> QED
      BY <1>1, <1>2, <1>8, <3>1, UploadAssumption DEF SessionOf, gcsVars
  <2>2. LaneOf(s)'
    <3>1. clean'[s] => InLane(s) = 0 /\ \A r \in Travelling : r.slot # s
      BY <1>0, <1>3, InLaneType DEF TypeOK
    <3>2. ~ \E o \in 0 .. MaxOff : start[s] <= o /\ o < cursor[s]
      <4>1. start[s] \in Nat /\ cursor[s] = start[s]
        BY <1>0, <1>1 DEF TypeOK
      <4> QED
        BY <4>1
    <3> QED
      BY <1>1, <1>2, <1>5, <1>7, <1>8, <3>1, <3>2 DEF LaneOf, gcsVars
  <2>3. TruncateOf(s)'
    BY <1>2, <1>3 DEF TruncateOf
  <2> QED
    BY <2>1, <2>2, <2>3 DEF InvOf
<1>10. \A t \in Sessions : t # s => Untouched(t)
  BY <1>2, <1>3, <1>4, <1>5, <1>7, <1>8, UploadAssumption DEF Untouched, gcsVars
<1> QED
  BY <1>0, <1>6, <1>7, <1>9, <1>10, OneSession

\* When the flush is over without a failure nothing of the session travels, so
\* all that was taken is on the card.
LEMMA FlushedOnDisk ==
    ASSUME UpInv, NEW s \in Sessions, clean[s], st[s] = "ACTIVE", eof[s], FileFlush(s) = "done"
    PROVE  /\ \A r \in Travelling : r.slot # s
           /\ \A o \in 0 .. MaxOff : origin[s] <= o => card[s][o] = content[s]
<1>0. TypeOK /\ InvOf(s)
  BY UpInvOf
<1>1. ~failed[s] /\ pending[s] = 0
  BY DEF FileFlush
<1>2. \A r \in Travelling : r.slot # s
  BY <1>0, <1>1, InLaneType DEF TypeOK, InvOf, LaneOf
<1>3. ASSUME NEW o \in 0 .. MaxOff, origin[s] <= o
      PROVE  card[s][o] = content[s]
  <2>1. start[s] = origin[s] /\ cursor[s] = MaxOff + 1
    BY <1>0 DEF InvOf, SessionOf
  <2>2. o < cursor[s]
    BY <2>1, LaneAssumption
  <2>3. Kept(s, o)
    BY <1>0, <1>3, <2>1, <2>2 DEF InvOf, LaneOf
  <2> QED
    BY <1>1, <1>2, <2>3 DEF Kept
<1> QED
  BY <1>2, <1>3

\* tick_upload: what the flush says is passed on, and the session goes on,
\* lingers, or is reaped.
LEMMA TickActiveKeeps ==
    ASSUME UpInv, NEW s \in Sessions, TickActive(s)
    PROVE  UpInv'
<1>0. TypeOK /\ InvOf(s) /\ (\A r \in Travelling : r.file = r.slot)
  BY UpInvOf
<1> DEFINE over == eof[s] /\ FileFlush(s) # "flushing"
<1>1. /\ st[s] = "ACTIVE" /\ opening # s
      /\ UNCHANGED <<card, laneVars, syncVars, gcsVars, clean>>
  BY UploadAssumption DEF TickActive, Running
<1>2. /\ told' \in [Sessions -> {"none", "done", "failed"}]
      /\ \A t \in Sessions : t # s => told'[t] = told[t]
      /\ told'[s] = "done" => over /\ FileFlush(s) = "done"
  <2>1. told[s] = "none"
    BY <1>0, <1>1 DEF InvOf, SessionOf
  <2>2. CASE over
    <3>1. FileFlush(s) \in {"done", "failed"}
      BY <2>2 DEF FileFlush
    <3> QED
      BY <1>0, <2>2, <3>1 DEF TickActive, TypeOK
  <2>3. CASE ~over
    BY <1>0, <2>1, <2>3 DEF TickActive, TypeOK
  <2> QED
    BY <2>2, <2>3
<1>3. Travelling' = Travelling /\ \A t : InLane(t)' = InLane(t)
  BY <1>1, LaneStill DEF laneVars
<1>4. LaneTypeOK'
  BY <1>0, <1>1 DEF TypeOK, LaneTypeOK, laneVars
<1>5. told'[s] = "done" /\ clean[s] =>
        /\ \A r \in Travelling : r.slot # s
        /\ \A o \in 0 .. MaxOff : origin[s] <= o => card[s][o] = content[s]
  BY <1>1, <1>2, FlushedOnDisk
<1>6. syncReq = s => ~clean[s]
  BY <1>0, <1>1 DEF InvOf, TruncateOf
<1>7. clean[s] => pending[s] = InLane(s)
  BY <1>0 DEF InvOf, LaneOf
<1>8. CASE IdleNow(s) >= IdleTicks
  <2>1. Free(s)
    BY <1>8 DEF TickActive
  <2>2. TypeOK'
    BY <1>0, <1>1, <1>2, <1>4, <2>1, FreeType DEF TypeOK, syncVars, gcsVars
  <2>3. st'[s] = "FREE" /\ ~eof'[s]
    BY <1>0, <2>1, FreeType
  <2>4. InvOf(s)'
    <3>1. SessionOf(s)'
      BY <1>1, <2>3 DEF SessionOf, syncVars
    <3>2. LaneOf(s)'
      BY <1>1, <1>3, <1>5, <1>7, <2>3 DEF LaneOf, laneVars, gcsVars
    <3>3. TruncateOf(s)'
      BY <1>1, <1>6 DEF TruncateOf, syncVars
    <3> QED
      BY <3>1, <3>2, <3>3 DEF InvOf
  <2>5. \A t \in Sessions : t # s => Untouched(t)
    BY <1>0, <1>1, <1>2, <1>3, <2>1, FreeType DEF Untouched, laneVars, syncVars, gcsVars
  <2> QED
    BY <1>0, <1>3, <2>2, <2>4, <2>5, OneSession
<1>9. CASE IdleNow(s) < IdleTicks
  <2>0. IdleNow(s) \in Nat
    BY <1>0 DEF IdleNow, TypeOK
  <2>1. /\ idle' = [idle EXCEPT ![s] = IdleNow(s)] /\ rx' = [rx EXCEPT ![s] = FALSE]
        /\ st' = [st EXCEPT ![s] = IF over THEN "DONE_LINGER" ELSE "ACTIVE"]
        /\ UNCHANGED <<cursor, start, eof, closing, linger>>
    BY <1>9, <2>0, UploadAssumption DEF TickActive
  <2>2. /\ st' \in [Sessions -> {"FREE", "PENDING_OPEN", "ACTIVE", "DONE_LINGER"}]
        /\ st'[s] = IF over THEN "DONE_LINGER" ELSE "ACTIVE"
        /\ \A t \in Sessions : t # s => st'[t] = st[t]
    <3> HIDE DEF over
    <3> QED
      BY <1>0, <2>1 DEF TypeOK
  <2>3. TypeOK'
    <3>1. rx' \in [Sessions -> BOOLEAN]
      BY <1>0, <2>1, Zenon DEF TypeOK
    <3>2. idle' \in [Sessions -> 0 .. IdleTicks]
      <4> DEFINE n == IdleNow(s)
      <4>1. n \in 0 .. IdleTicks
        BY <1>9, <2>0, UploadAssumption
      <4>2. idle' = [idle EXCEPT ![s] = n]
        BY <2>1
      <4> HIDE DEF n
      <4> QED
        BY <1>0, <4>1, <4>2 DEF TypeOK
    <3> QED
      BY <1>0, <1>1, <1>2, <1>4, <2>1, <2>2, <3>1, <3>2 DEF TypeOK, syncVars, gcsVars
  <2>4. told'[s] \in {"none", "done", "failed"} /\ (~over => told'[s] = "none")
    <3>1. told[s] = "none"
      BY <1>0, <1>1 DEF InvOf, SessionOf
    <3>2. ~over => told' = told
      BY DEF TickActive
    <3> QED
      BY <1>2, <3>1, <3>2
  <2>5. InvOf(s)'
    <3>1. SessionOf(s)'
      BY <1>0, <1>1, <1>2, <2>1, <2>2, <2>4 DEF InvOf, SessionOf, syncVars, gcsVars
    <3>2. LaneOf(s)'
      <4>1. LaneOf(s)
        BY <1>0 DEF InvOf
      <4>2. \A o : Kept(s, o)' <=> Kept(s, o)
        BY <1>1, <1>3 DEF Kept, laneVars, gcsVars
      <4> QED
        BY <1>1, <1>3, <1>5, <2>1, <4>1, <4>2 DEF LaneOf, laneVars, gcsVars
    <3>3. TruncateOf(s)'
      BY <1>1, <1>6 DEF TruncateOf, syncVars
    <3> QED
      BY <3>1, <3>2, <3>3 DEF InvOf
  <2>6. \A t \in Sessions : t # s => Untouched(t)
    BY <1>1, <1>2, <1>3, <2>1, <2>2 DEF Untouched, laneVars, syncVars, gcsVars
  <2> QED
    BY <1>0, <1>3, <2>3, <2>5, <2>6, OneSession
<1>10. IdleNow(s) \in Nat
  BY <1>0 DEF IdleNow, TypeOK
<1> QED
  BY <1>8, <1>9, <1>10, UploadAssumption

\* The session lingers for a late frame, and is freed.
LEMMA TickLingerKeeps ==
    ASSUME UpInv, NEW s \in Sessions, TickLinger(s)
    PROVE  UpInv'
<1>0. TypeOK /\ InvOf(s) /\ (\A r \in Travelling : r.file = r.slot)
  BY UpInvOf
<1> DEFINE later == IF rx[s] THEN 0 ELSE linger[s] + 1
<1>1. opening # s /\ UNCHANGED <<card, laneVars, syncVars, gcsVars, ackVars>>
  BY UploadAssumption DEF TickLinger, Running
<1>2. CASE Free(s)
  BY <1>1, <1>2, FreeKeeps
<1>3. CASE ~Free(s)
  <2>1. /\ ~(later >= LingerTicks) /\ linger' = [linger EXCEPT ![s] = later]
        /\ rx' = [rx EXCEPT ![s] = FALSE]
        /\ UNCHANGED <<st, cursor, start, eof, closing, idle>>
    BY <1>3 DEF TickLinger
  <2>2. linger' \in [Sessions -> 0 .. LingerTicks]
    <3>1. later \in 0 .. LingerTicks
      BY <1>0, <2>1, UploadAssumption DEF TypeOK
    <3> HIDE DEF later
    <3> QED
      BY <1>0, <2>1, <3>1 DEF TypeOK
  <2>3. rx' \in [Sessions -> BOOLEAN]
    BY <1>0, <2>1, Zenon DEF TypeOK
  <2>4. LaneTypeOK'
    BY <1>0, <1>1 DEF TypeOK, LaneTypeOK, laneVars
  <2>5. TypeOK'
    BY <1>0, <1>1, <2>1, <2>2, <2>3, <2>4 DEF TypeOK, syncVars, gcsVars, ackVars
  <2>6. Travelling' = Travelling /\ \A t : InLane(t)' = InLane(t)
    BY <1>1, LaneStill DEF laneVars
  <2>7. \A t \in Sessions : Untouched(t)
    BY <1>1, <2>1, <2>6 DEF Untouched, laneVars, syncVars, gcsVars, ackVars
  <2>8. InvOf(s)'
    BY <1>0, <2>7, UntouchedKeeps
  <2> QED
    BY <1>0, <2>5, <2>6, <2>7, <2>8, OneSession
<1> QED
  BY <1>2, <1>3

\* The truncate empties its file, which is no upload's that runs or was told
\* DONE under a clean start.
LEMMA FsTruncateKeeps ==
    ASSUME UpInv, FsTruncate
    PROVE  UpInv'
<1>0. TypeOK /\ (\A r \in Travelling : r.file = r.slot)
  BY UpInvOf
<1>a. syncReq \in Sessions
  BY <1>0, UploadAssumption DEF FsTruncate, TypeOK
<1> PICK s \in Sessions : s = syncReq
  BY <1>a
<1>1. s \in Sessions /\ s \in Files
  BY UploadAssumption
<1>2. InvOf(s)
  BY <1>1, UpInvOf
<1>3. /\ UNCHANGED <<waQ, retryQ, fsReq, pending, committed, failed, sessVars, opening,
                     gcsVars, ackVars>>
      /\ syncReq' = "none" /\ syncRes' = TRUE /\ fsStage' = "fresh"
  BY DEF FsTruncate
<1>4. /\ card' \in [Files -> [0 .. MaxOff -> Contents]]
      /\ \A f \in Files : f # s => card'[f] = card[f]
  <2>1. 0 \in Contents
    BY UploadAssumption
  <2>2. card \in [Files -> [0 .. MaxOff -> Contents]]
    BY <1>0 DEF TypeOK, LaneTypeOK
  <2>3. card' = card \/ card' = [card EXCEPT ![s] = [o \in 0 .. MaxOff |-> 0]]
    BY DEF FsTruncate
  <2> QED
    BY <1>1, <2>1, <2>2, <2>3
<1>5. TypeOK'
  <2>1. LaneTypeOK'
    BY <1>0, <1>3, <1>4 DEF TypeOK, LaneTypeOK
  <2> QED
    BY <1>0, <1>3, <2>1 DEF TypeOK, sessVars, gcsVars, ackVars
<1>6. Travelling' = Travelling /\ \A t : InLane(t)' = InLane(t)
  BY <1>3, LaneStill
<1>7. ~(clean[s] /\ (st[s] = "ACTIVE" \/ told[s] = "done"))
  BY <1>2 DEF InvOf, TruncateOf
<1>8. InvOf(s)'
  <2>1. SessionOf(s)'
    BY <1>2, <1>3 DEF InvOf, SessionOf, sessVars, gcsVars, ackVars
  <2>2. LaneOf(s)'
    BY <1>2, <1>3, <1>6, <1>7 DEF InvOf, LaneOf, sessVars, gcsVars, ackVars
  <2> QED
    BY <1>3, <1>7, <2>1, <2>2 DEF InvOf, TruncateOf, sessVars, ackVars
<1>9. \A t \in Sessions : t # s => Untouched(t)
  BY <1>3, <1>4, <1>6, UploadAssumption DEF Untouched, sessVars, gcsVars, ackVars
<1> QED
  BY <1>0, <1>1, <1>5, <1>6, <1>8, <1>9, OneSession

\* Every step of the uploads keeps the invariant.
LEMMA UpNext ==
    ASSUME UpInv, Next
    PROVE  UpInv'
<1>1. ASSUME NEW s \in Sessions, Handlers(s)
      PROVE  UpInv'
  <2>1. ASSUME OnAbort(s) PROVE UpInv'
    <3>1. opening # s
      BY <2>1, UpInvOf DEF OnAbort, InvOf, SessionOf
    <3> QED
      BY <2>1, <3>1, FreeKeeps DEF OnAbort
  <2>2. ASSUME NEW o \in 0 .. MaxOff, OnData(s, o) PROVE UpInv'
    BY <2>2, DataTaken, DataRefused
  <2> QED
    BY <1>1, <2>1, <2>2, OnOpenKeeps, OnCloseKeeps DEF Handlers
<1>2. ASSUME NEW s \in Sessions, Tick(s)
      PROVE  UpInv'
  <2>1. ASSUME TickClose(s) PROVE UpInv'
    <3>1. opening # s
      BY <2>1, UploadAssumption DEF TickClose
    <3> QED
      BY <2>1, <3>1, FreeKeeps DEF TickClose
  <2> QED
    BY <1>2, <2>1, TickOpenKeeps, OpenReturnsKeeps, TickActiveKeeps, TickLingerKeeps DEF Tick
<1>3. CASE FsLane
  <2>1. (FsDrain \/ FsWake) /\ UNCHANGED <<sessVars, syncVars, gcsVars, ackVars>>
    BY <1>3 DEF FsLane
  <2>2. TypeOK /\ TypeOK'
    <3>1. TypeOK /\ LaneTypeOK'
      BY <2>1, LaneType DEF UpInv, TypeOK
    <3> QED
      BY <2>1, <3>1 DEF TypeOK, sessVars, syncVars, gcsVars, ackVars
  <2>3. ASSUME NEW s \in Sessions PROVE InvOf(s)' /\ \A r \in Travelling' : r.file = r.slot
    <3>1. InvOf(s)
      BY UpInvOf
    <3>2. SessionOf(s)' /\ TruncateOf(s)'
      BY <2>1, <3>1 DEF InvOf, SessionOf, TruncateOf, sessVars, syncVars, gcsVars, ackVars
    <3>3. LaneOf(s)' /\ \A r \in Travelling' : r.file = r.slot
      BY <2>1, LaneKeepsSession
    <3> QED
      BY <3>2, <3>3 DEF InvOf
  <2>4. \A r \in Travelling' : r.file = r.slot
    <3>1. CASE Sessions = {}
      <4>1. Requests = {}
        BY <3>1, UploadAssumption DEF Requests
      <4>2. LaneTypeOK /\ Travelling \subseteq Requests
        BY <2>2, InLaneType DEF TypeOK
      <4>3. Travelling' = Travelling
        BY <2>1, <4>1, <4>2, LaneMoves
      <4> QED
        BY <4>1, <4>2, <4>3
    <3>2. CASE Sessions # {}
      BY <2>3, <3>2
    <3> QED
      BY <3>1, <3>2
  <2> QED
    BY <2>2, <2>3, <2>4, UpInvNext
<1>4. CASE GcsLeaves
  <2>1. gone' = TRUE /\ UNCHANGED <<card, laneVars, sessVars, syncVars, content, origin, ackVars>>
    BY <1>4 DEF GcsLeaves
  <2>2. TypeOK'
    <3>1. TypeOK /\ LaneTypeOK'
      BY <2>1 DEF UpInv, TypeOK, LaneTypeOK, laneVars
    <3> QED
      BY <2>1, <3>1 DEF TypeOK, sessVars, syncVars, ackVars
  <2>3. Travelling' = Travelling /\ \A t : InLane(t)' = InLane(t)
    BY <2>1, LaneStill DEF laneVars
  <2>4. \A t \in Sessions : Untouched(t)
    BY <2>1, <2>3 DEF Untouched, laneVars, sessVars, syncVars, ackVars
  <2>5. \A t \in Sessions : InvOf(t)'
    BY <2>4, UntouchedKeeps, UpInvOf
  <2> QED
    BY <2>2, <2>3, <2>5, UpInvOf, UpInvNext
<1> QED
  BY <1>1, <1>2, <1>3, <1>4, FsTruncateKeeps DEF Next

----------------------------------------------------------------------------
(* 3. Downloads. *)

\* The entry of a repeated hole stays within the report counter's range: it is
\* queued afresh before it leaves it.
LEMMA EntryType ==
    ASSUME DlTypeOK, NEW o \in Offsets
    PROVE  EntryOf(o) \in Entries
<1>1. Fresh(o) \in Entries
  BY DownloadAssumption DEF Fresh, Entries
<1>2. ASSUME NEW e \in Entries
      PROVE  ReportedAgain(e) \in Entries
  <2> DEFINE more == e.reports + 1
  <2>1. Limit \in 0 .. RepeatReports
    BY DownloadAssumption DEF Limit
  <2>2. e.off \in Offsets /\ e.reports \in 0 .. RepeatReports
    BY DEF Entries
  <2>3. CASE ~e.sent
    BY <2>3 DEF ReportedAgain
  <2>4. CASE e.sent /\ more >= Limit
    BY <2>2, <2>4, DownloadAssumption DEF ReportedAgain, Fresh, Entries
  <2>5. CASE e.sent /\ ~(more >= Limit)
    <3>1. more \in 0 .. RepeatReports
      BY <2>1, <2>2, <2>5, DownloadAssumption
    <3>2. ReportedAgain(e) = [e EXCEPT !.reports = more]
      BY <2>5 DEF ReportedAgain
    <3> HIDE DEF more
    <3> QED
      BY <3>1, <3>2 DEF Entries
  <2> QED
    BY <2>3, <2>4, <2>5
<1> DEFINE old == {i \in 1 .. Len(repair) : repair[i].off = o}
<1>3. old # {} => (CHOOSE i \in old : TRUE) \in 1 .. Len(repair)
  BY Zenon
<1>4. \A i \in 1 .. Len(repair) : repair[i] \in Entries
  BY ElementOfSeq DEF DlTypeOK
<1> QED
  BY <1>1, <1>2, <1>3, <1>4 DEF EntryOf

\* What the receiver's report is, once it is taken from the link.
LEMMA ReportType ==
    ASSUME DlTypeOK, up.kind \in {"sack", "nak", "done", "abort"}
    PROVE  up.next \in 0 .. Chunks /\ up.holes \subseteq Offsets
  BY DEF DlTypeOK, Reports, NoReport

\* session_free leaves a session of its type.
LEMMA DlFreeType ==
    ASSUME DlFree
    PROVE  /\ dlSt' \in {"FREE", "PENDING_OPEN", "ACTIVE", "DONE_LINGER"}
           /\ dlCursor' \in 0 .. Chunks /\ dlClosing' \in BOOLEAN /\ total' \in {0, Chunks}
           /\ repair' \in Seq(Entries) /\ Len(repair') <= Ranges
           /\ dlIdle' \in 0 .. DlIdleTicks /\ dlLinger' \in 0 .. DlLingerTicks
<1>1. repair' \in Seq(Entries) /\ Len(repair') = 0
  BY EmptySeq DEF DlFree
<1>2. Len(repair') <= Ranges
  BY <1>1, DownloadAssumption
<1>3. \A n \in Nat : 0 \in 0 .. n
  OBVIOUS
<1>4. 0 \in 0 .. Chunks /\ 0 \in 0 .. DlIdleTicks /\ 0 \in 0 .. DlLingerTicks
  BY <1>3, DownloadAssumption
<1> QED
  BY <1>1, <1>2, <1>4 DEF DlFree

\* A timer of the session stays within its limit.
LEMMA OlderType ==
    ASSUME NEW max \in Nat, NEW t \in 0 .. max
    PROVE  Older(t, max) \in 0 .. max
  BY DEF Older

\* The types of a read in flight; nothing has gone out with other bytes.
CallsTyped ==
    /\ dlReq \in 0 .. Chunks /\ dlExec \in 0 .. Chunks
    /\ dlRes \in {"none", "ok", "short"}
    /\ dlBuf \in 0 .. Chunks /\ dlLate \in 0 .. DlMaxLate
    /\ mixed = FALSE

LEMMA CallTypes ==
    ASSUME DlInv
    PROVE  CallsTyped
  BY DEF DlInv, DlTypeOK, CopyIsFaithful, CallsTyped

\* What a step may do to a read in flight: leave it and its tick alone, or go
\* on to a place where nothing is being read, leaving no call behind unless one
\* was given up.
ReadLeft == tick' = tick /\ UNCHANGED dlFsVars

ReadOver ==
    /\ \E p \in {"idle", "repairs", "stream"}, n \in 0 .. Budget : tick' = At(p, n)
    /\ CallsTyped'
    /\ dlLate' = 0 => NoCall'

\* Either keeps the part of the invariant that is about the reads.
LEMMA ReadsOf ==
    ASSUME DlInv, ReadLeft \/ ReadOver
    PROVE  /\ CallsTyped' /\ CallInv'
           /\ tick' \in [at : {"idle", "repairs", "repairWait", "repairRead",
                               "stream", "streamWait", "streamRead"},
                         off : Offsets, rix : 0 .. Ranges, left : 0 .. Budget]
           /\ Reading' => tick'.left > 0
<1>1. CASE ReadLeft
  <2>1. CallsTyped'
    BY <1>1, CallTypes DEF ReadLeft, CallsTyped, dlFsVars, dlCallVars
  <2>2. CallInv'
    BY <1>1 DEF DlInv, ReadLeft, CallInv, OwnCall, NoCall, Waiting, dlFsVars, dlCallVars
  <2>3. Reading' = Reading
    BY <1>1 DEF ReadLeft, Reading, Waiting
  <2> QED
    BY <1>1, <2>1, <2>2, <2>3 DEF DlInv, DlTypeOK, ReadLeft
<1>2. CASE ReadOver
  <2>1. PICK p \in {"idle", "repairs", "stream"}, n \in 0 .. Budget : tick' = At(p, n)
    BY <1>2 DEF ReadOver
  <2>2. ~Reading' /\ ~Waiting' /\ tick'.at \notin {"repairRead", "streamRead"}
    BY <2>1 DEF Reading, Waiting, At
  <2>3. tick' \in [at : {"idle", "repairs", "stream"}, off : Offsets,
                   rix : 0 .. Ranges, left : 0 .. Budget]
    BY <2>1, DownloadAssumption DEF At, Offsets
  <2>4. CallInv'
    BY <1>2, <2>2 DEF ReadOver, CallInv
  <2> QED
    BY <1>2, <2>2, <2>3, <2>4 DEF ReadOver
<1> QED
  BY <1>1, <1>2

\* A step that frees the session, or only moves its state, cursor and timers,
\* and adds nothing to the frames on the link.
LEMMA Elsewhere ==
    ASSUME DlInv,
           \/ DlFree
           \/ /\ dlSt' \in {"FREE", "PENDING_OPEN", "ACTIVE", "DONE_LINGER"}
              /\ dlCursor' \in 0 .. Chunks /\ dlClosing' \in BOOLEAN /\ total' \in {0, Chunks}
              /\ repair' = repair
              /\ dlIdle' \in 0 .. DlIdleTicks /\ dlLinger' \in 0 .. DlLingerTicks,
           ReadLeft \/ ReadOver,
           net' \subseteq net, up' \in {up, NoReport},
           UNCHANGED dlGcsVars \/ Gone
    PROVE  DlInv'
<1>1. /\ dlSt' \in {"FREE", "PENDING_OPEN", "ACTIVE", "DONE_LINGER"}
      /\ dlCursor' \in 0 .. Chunks /\ dlClosing' \in BOOLEAN /\ total' \in {0, Chunks}
      /\ repair' \in Seq(Entries) /\ Len(repair') <= Ranges
      /\ dlIdle' \in 0 .. DlIdleTicks /\ dlLinger' \in 0 .. DlLingerTicks
  BY DlFreeType DEF DlInv, DlTypeOK
<1>2. copy' \subseteq Offsets /\ known' \in 0 .. Chunks /\ dlGone' \in BOOLEAN
  <2>1. CASE UNCHANGED dlGcsVars
    BY <2>1 DEF DlInv, DlTypeOK, dlGcsVars
  <2>2. CASE Gone
    BY <2>2, DownloadAssumption DEF Gone
  <2> QED
    BY <2>1, <2>2
<1>3. net' \subseteq Offsets /\ up' \in Reports \union {NoReport}
  BY DEF DlInv, DlTypeOK
<1> QED
  BY <1>1, <1>2, <1>3, ReadsOf DEF DlInv, DlTypeOK, CopyIsFaithful, CallsTyped

\* The handlers of comm_processor_task.
LEMMA HandlersKeep ==
    ASSUME DlInv, DlHandlers
    PROVE  DlInv'
<1>0. DlTypeOK
  BY DEF DlInv
<1>1. CASE OnEnd
  <2>1. /\ DlFree \/ UNCHANGED dlSessVars
        /\ ReadLeft /\ net' = net /\ up' = NoReport /\ UNCHANGED dlGcsVars
    BY <1>1 DEF OnEnd, Take, ReadLeft
  <2> QED
    BY <1>0, <2>1, Elsewhere DEF dlSessVars, DlTypeOK
<1>2. CASE OnNak
  <2>1. /\ up.kind = "nak" /\ ReadLeft /\ net' = net /\ up' = NoReport /\ UNCHANGED dlGcsVars
        /\ \/ UNCHANGED dlSessVars
           \/ /\ dlCursor' = up.next /\ dlSt' = "ACTIVE" /\ dlIdle' = 0 /\ dlLinger' = 0
              /\ UNCHANGED <<dlClosing, total, repair>>
    BY <1>2 DEF OnNak, Take, ReadLeft
  <2>2. up.next \in 0 .. Chunks
    BY <1>0, <2>1, ReportType
  <2>3. 0 \in 0 .. DlIdleTicks /\ 0 \in 0 .. DlLingerTicks
    BY DownloadAssumption
  <2> QED
    BY <1>0, <2>1, <2>2, <2>3, Elsewhere DEF dlSessVars, DlTypeOK
<1>3. CASE OnSack
  <2>1. /\ up.kind = "sack" /\ ReadLeft /\ net' = net /\ up' = NoReport /\ UNCHANGED dlGcsVars
    BY <1>3 DEF OnSack, Take, ReadLeft
  <2>2. CASE UNCHANGED dlSessVars
    BY <1>0, <2>1, <2>2, Elsewhere DEF dlSessVars, DlTypeOK
  <2>3. ASSUME NEW named \in Fitting({o \in up.holes : o >= up.next /\ o < total}),
               repair' = [i \in 1 .. Len(named) |-> EntryOf(named[i])],
               dlIdle' = 0, dlLinger' = 0, dlSt' \in {"ACTIVE", dlSt},
               UNCHANGED <<dlCursor, dlClosing, total>>
        PROVE  DlInv'
    <3>1. PICK n \in 0 .. Ranges : named \in [1 .. n -> {o \in up.holes : o >= up.next /\ o < total}]
      BY <2>3 DEF Fitting
    <3>2. up.holes \subseteq Offsets
      BY <1>0, <2>1, ReportType
    <3>3. named \in [1 .. n -> Offsets] /\ n \in Nat
      BY <3>1, <3>2, DownloadAssumption
    <3>4. Len(named) = n
      BY <3>3
    <3>5. repair' \in [1 .. n -> Entries]
      BY <1>0, <2>3, <3>3, <3>4, EntryType
    <3>6. repair' \in Seq(Entries) /\ Len(repair') = n
      BY <3>3, <3>5
    <3>7. n <= Ranges /\ 0 \in 0 .. DlIdleTicks /\ 0 \in 0 .. DlLingerTicks
      BY DownloadAssumption
    <3> QED
      BY <2>1, <2>3, <3>6, <3>7, ReadsOf
      DEF DlInv, DlTypeOK, CopyIsFaithful, CallsTyped, dlGcsVars
  <2>4. \/ UNCHANGED dlSessVars
        \/ \E named \in Fitting({o \in up.holes : o >= up.next /\ o < total}) :
              /\ repair' = [i \in 1 .. Len(named) |-> EntryOf(named[i])]
              /\ dlIdle' = 0 /\ dlLinger' = 0 /\ dlSt' \in {"ACTIVE", dlSt}
              /\ UNCHANGED <<dlCursor, dlClosing, total>>
    BY <1>3, Zenon DEF OnSack
  <2> QED
    BY <2>2, <2>3, <2>4
<1>4. CASE DlOnClose
  <2>1. /\ ReadLeft /\ Gone /\ up' = up /\ net' \subseteq net /\ dlClosing' \in BOOLEAN
        /\ UNCHANGED <<dlSt, dlCursor, total, repair, dlIdle, dlLinger>>
    BY <1>4 DEF DlOnClose, Gone, ReadLeft
  <2> QED
    BY <1>0, <2>1, Elsewhere DEF DlTypeOK
<1> QED
  BY <1>1, <1>2, <1>3, <1>4 DEF DlHandlers

\* The end of a tick: the idle timeout.
LEMMA EndTickKeeps ==
    ASSUME DlInv, NEW s \in {"FREE", "PENDING_OPEN", "ACTIVE", "DONE_LINGER"}, EndTick(s),
           CallsTyped', dlLate' = 0 => NoCall'
    PROVE  DlInv'
<1>0. DlTypeOK
  BY DEF DlInv
<1>1. /\ tick' = At("idle", 0) /\ net' = net /\ up' = up /\ UNCHANGED dlGcsVars
      /\ \/ DlFree
         \/ /\ dlSt' = s /\ dlIdle' = Older(dlIdle, DlIdleTicks)
            /\ dlLinger' \in {dlLinger, 0}
            /\ UNCHANGED <<dlCursor, dlClosing, total, repair>>
  BY DEF EndTick
<1>2. Older(dlIdle, DlIdleTicks) \in 0 .. DlIdleTicks
  BY <1>0, OlderType, DownloadAssumption DEF DlTypeOK
<1>3. dlLinger \in 0 .. DlLingerTicks /\ 0 \in 0 .. DlLingerTicks /\ 0 \in 0 .. Budget
  BY <1>0, DownloadAssumption DEF DlTypeOK
<1>4. ReadOver
  BY <1>1, <1>3 DEF ReadOver
<1> QED
  BY <1>0, <1>1, <1>2, <1>3, <1>4, Elsewhere DEF DlTypeOK

\* The end of a loop: the read it leaves has been answered or given up, or was
\* never asked for.
LEMMA BreakKeeps ==
    ASSUME DlInv, Break,
           dlReq' \in 0 .. Chunks, dlExec' \in 0 .. Chunks, dlRes' \in {"none", "ok", "short"},
           dlLate' \in 0 .. DlMaxLate, mixed' = FALSE, dlLate' = 0 => NoCall'
    PROVE  DlInv'
<1>0. DlTypeOK /\ tick.left \in 0 .. Budget
  BY DEF DlInv, DlTypeOK
<1>1. dlBuf' = NoRead
  BY DEF Break, EndTick
<1>2. CallsTyped'
  BY <1>1, DownloadAssumption DEF CallsTyped, NoRead
<1>3. CASE EndTick(dlSt)
  BY <1>0, <1>2, <1>3, EndTickKeeps DEF DlTypeOK
<1>4. CASE tick' = At("stream", tick.left) /\ UNCHANGED <<dlSessVars, net, up, dlGcsVars>>
  <2>1. ReadOver
    BY <1>0, <1>2, <1>4 DEF ReadOver
  <2> QED
    BY <1>0, <1>4, <2>1, Elsewhere DEF DlTypeOK, dlSessVars
<1> QED
  BY <1>3, <1>4 DEF Break

\* xfer_tick, up to the emission.
LEMMA TicksKeep ==
    ASSUME DlInv, DlTickClose \/ DlTickOpen \/ DlTickActive \/ DlTickLinger
    PROVE  DlInv'
<1>0. /\ DlTypeOK /\ Budget \in 0 .. Budget /\ 0 \in 0 .. DlIdleTicks
      /\ Chunks \in {0, Chunks}
  BY DownloadAssumption DEF DlInv
<1>1. ASSUME tick.at = "idle", tick' = At("repairs", Budget), UNCHANGED dlFsVars
      PROVE  ReadOver
  <2>1. ~Waiting
    BY <1>1 DEF Waiting
  <2>2. CallsTyped' /\ (dlLate' = 0 => NoCall')
    BY <1>1, <2>1, CallTypes DEF CallsTyped, dlFsVars, dlCallVars, DlInv, CallInv, NoCall
  <2> QED
    BY <1>0, <1>1, <2>2 DEF ReadOver
<1>2. CASE DlTickClose
  BY <1>0, <1>2, Elsewhere DEF DlTickClose, DlTypeOK, ReadLeft
<1>3. CASE DlTickOpen
  <2>1. CASE DlFree /\ Gone
    <3>1. dlSt' = "FREE" /\ net' = {}
      BY <2>1 DEF DlFree, Gone
    <3>2. ReadLeft /\ up' = up /\ net' \subseteq net
      BY <1>3, <3>1 DEF DlTickOpen, ReadLeft
    <3> QED
      BY <1>0, <2>1, <3>2, Elsewhere DEF DlTypeOK
  <2>2. CASE ~(DlFree /\ Gone)
    <3>1. /\ dlSt' = "ACTIVE" /\ total' = Chunks /\ dlIdle' = 0 /\ up' = up
          /\ UNCHANGED <<dlCursor, dlClosing, repair, dlLinger, net, dlGcsVars>>
          /\ ReadOver
      BY <1>1, <1>3, <2>2 DEF DlTickOpen
    <3> QED
      BY <1>0, <3>1, Elsewhere DEF DlTypeOK
  <2> QED
    BY <2>1, <2>2
<1>4. CASE DlTickActive
  BY <1>0, <1>1, <1>4, Elsewhere DEF DlTickActive, DlTypeOK, dlSessVars
<1>5. CASE DlTickLinger
  <2>1. Older(dlLinger, DlLingerTicks) \in 0 .. DlLingerTicks
    BY <1>0, OlderType, DownloadAssumption DEF DlTypeOK
  <2> QED
    BY <1>0, <1>5, <2>1, Elsewhere DEF DlTickLinger, DlTypeOK, ReadLeft
<1> QED
  BY <1>2, <1>3, <1>4, <1>5

\* A read begins: the request that goes into the queue is the only one, as long
\* as none was left there.
LEMMA AskKeeps ==
    ASSUME DlInv, NEW p \in {"repairWait", "streamWait"}, NEW o \in Offsets,
           NEW r \in 0 .. Ranges, Ask(p, o, r), UNCHANGED <<dlExec, dlRes, dlLate, mixed>>,
           ~Reading, tick.left > 0
    PROVE  DlInv'
<1>0. DlTypeOK /\ CallsTyped /\ (dlLate = 0 => NoCall)
  BY CallTypes DEF DlInv, CallInv, Reading
<1>1. CASE dlReq = NoRead
  <2>1. /\ dlReq' = o /\ tick' = [at |-> p, off |-> o, rix |-> r, left |-> tick.left]
        /\ UNCHANGED <<dlSessVars, net, up, dlBuf, dlGcsVars>>
    BY <1>1 DEF Ask
  <2>2. CallInv'
    BY <1>0, <2>1 DEF CallInv, OwnCall, NoCall, Waiting
  <2>3. dlReq' \in 0 .. Chunks
    BY <2>1, DownloadAssumption DEF Offsets
  <2> QED
    BY <1>0, <2>1, <2>2, <2>3
    DEF DlInv, DlTypeOK, CallsTyped, CopyIsFaithful, dlSessVars, dlGcsVars
<1>2. CASE dlReq # NoRead
  <2>1. Break /\ dlReq' = dlReq
    BY <1>2 DEF Ask
  <2> QED
    BY <1>0, <2>1, BreakKeeps DEF CallsTyped, NoCall
<1> QED
  BY <1>1, <1>2

\* The read returns, is given up, or its chunk finds the ring full.  A good
\* answer is to the reader's own call unless one was given up.
LEMMA ReadsKeep ==
    ASSUME DlInv, ReadReturns \/ ReadGivenUp \/ RingFull
    PROVE  DlInv'
<1>0. DlTypeOK /\ CallsTyped
  BY CallTypes DEF DlInv
<1>1. CASE ReadReturns
  <2>1. /\ Waiting /\ dlRes # "none" /\ dlRes' = "none"
        /\ UNCHANGED <<dlReq, dlExec, dlLate, mixed>>
    BY <1>1 DEF ReadReturns
  <2>2. dlLate = 0 => dlReq = NoRead /\ dlExec = NoRead /\ (dlRes = "ok" => dlBuf = tick.off)
    BY <2>1 DEF DlInv, CallInv, OwnCall
  <2>3. CASE dlRes = "ok"
    <3>1. /\ tick' = [tick EXCEPT !.at = IF @ = "repairWait" THEN "repairRead" ELSE "streamRead"]
          /\ UNCHANGED <<dlSessVars, net, up, dlBuf, dlGcsVars>>
      BY <1>1, <2>3 DEF ReadReturns
    <3>2. /\ tick' \in [at : {"repairRead", "streamRead"}, off : Offsets,
                        rix : 0 .. Ranges, left : 0 .. Budget]
          /\ tick'.off = tick.off /\ tick'.left = tick.left
      BY <1>0, <3>1 DEF DlTypeOK
    <3>3. CallInv'
      BY <2>1, <2>2, <2>3, <3>1, <3>2 DEF CallInv, NoCall, Waiting
    <3>4. Reading' => tick'.left > 0
      BY <2>1, <3>2 DEF DlInv, Reading
    <3> QED
      BY <1>0, <2>1, <3>1, <3>2, <3>3, <3>4
      DEF DlInv, DlTypeOK, CallsTyped, CopyIsFaithful, dlSessVars, dlGcsVars
  <2>4. CASE dlRes # "ok"
    <3>1. Break
      BY <1>1, <2>4 DEF ReadReturns
    <3> QED
      BY <1>0, <2>1, <2>2, <3>1, BreakKeeps DEF CallsTyped, NoCall
  <2> QED
    BY <2>3, <2>4
<1>2. CASE ReadGivenUp
  <2>1. Break /\ UNCHANGED <<dlReq, dlExec, dlRes, mixed>>
    BY <1>2 DEF ReadGivenUp
  <2>2. dlLate' \in 0 .. DlMaxLate /\ dlLate' # 0
    BY <1>0, <1>2, DownloadAssumption DEF ReadGivenUp, CallsTyped
  <2> QED
    BY <1>0, <2>1, <2>2, BreakKeeps DEF CallsTyped
<1>3. CASE RingFull
  <2>1. Break /\ UNCHANGED dlCallVars /\ ~Waiting
    BY <1>3 DEF RingFull, Waiting
  <2>2. dlLate = 0 => NoCall
    BY <2>1 DEF DlInv, CallInv
  <2> QED
    BY <1>0, <2>1, <2>2, BreakKeeps DEF CallsTyped, NoCall, dlCallVars
<1> QED
  BY <1>1, <1>2, <1>3

\* What is emitted under the offset that was asked for carries its bytes,
\* unless a call was given up.
LEMMA EmitFaithful ==
    ASSUME DlInv, tick.at \in {"repairRead", "streamRead"},
           NEW lost \in BOOLEAN, Emit(tick.off, lost),
           NEW p \in {"idle", "repairs", "stream"}, NEW n \in 0 .. Budget, tick' = At(p, n)
    PROVE  ReadOver /\ net' \subseteq Offsets
<1>0. DlTypeOK /\ CallsTyped /\ tick.off \in Offsets
  BY CallTypes DEF DlInv, DlTypeOK
<1>1. ~Waiting
  BY DEF Waiting
<1>2. /\ mixed' = (mixed \/ (dlLate = 0 /\ dlBuf # tick.off))
      /\ dlBuf' = NoRead /\ UNCHANGED <<dlReq, dlExec, dlRes, dlLate>>
  BY DEF Emit
<1>3. dlLate = 0 => NoCall /\ dlBuf = tick.off
  BY <1>1 DEF DlInv, CallInv
<1>4. mixed' = FALSE
  BY <1>0, <1>2, <1>3 DEF CallsTyped
<1>5. CallsTyped' /\ (dlLate' = 0 => NoCall')
  BY <1>0, <1>2, <1>3, <1>4, DownloadAssumption DEF CallsTyped, NoCall, NoRead
<1>6. net' \subseteq net \union {tick.off}
  BY DEF Emit
<1> QED
  BY <1>0, <1>5, <1>6 DEF ReadOver, DlTypeOK

\* The repairs: an entry that is owed is read, and sent under its own offset.
LEMMA RepairsKeep ==
    ASSUME DlInv, TakeRepair \/ \E lost \in BOOLEAN : RepairSent(lost)
    PROVE  DlInv'
<1>0. /\ DlTypeOK /\ CallsTyped /\ tick.left \in 0 .. Budget /\ Budget \in Nat
      /\ Reading => tick.left > 0
  BY CallTypes, DownloadAssumption DEF DlInv, DlTypeOK
<1>1. CASE TakeRepair
  <2>1. /\ tick.at = "repairs" /\ ~Reading /\ ~Waiting
        /\ UNCHANGED <<dlExec, dlRes, dlLate, mixed>>
    BY <1>1 DEF TakeRepair, Reading, Waiting
  <2>2. CASE tick.left > 0 /\ dlSt = "ACTIVE" /\ Owed # {}
    <3>1. PICK r \in Owed : Ask("repairWait", repair[r].off, r)
      BY <1>1, <2>2, Zenon DEF TakeRepair
    <3>2. r \in 1 .. Len(repair) /\ Len(repair) \in Nat /\ Len(repair) <= Ranges
      BY <1>0, LenProperties DEF Owed, DlTypeOK
    <3>3. repair[r].off \in Offsets
      <4>1. repair[r] \in Entries
        BY <1>0, <3>2, ElementOfSeq DEF DlTypeOK
      <4> QED
        BY <4>1 DEF Entries
    <3>4. r \in 0 .. Ranges
      BY <3>2, DownloadAssumption
    <3> QED
      BY <2>1, <2>2, <3>1, <3>3, <3>4, AskKeeps
  <2>3. CASE ~(tick.left > 0 /\ dlSt = "ACTIVE" /\ Owed # {})
    <3>1. Break /\ dlReq' = dlReq
      BY <1>1, <2>3, Zenon DEF TakeRepair
    <3>2. dlLate = 0 => NoCall
      BY <2>1 DEF DlInv, CallInv
    <3> QED
      BY <1>0, <2>1, <3>1, <3>2, BreakKeeps DEF CallsTyped, NoCall
  <2> QED
    BY <2>2, <2>3
<1>2. ASSUME NEW lost \in BOOLEAN, RepairSent(lost)
      PROVE  DlInv'
  <2>1. /\ tick.at = "repairRead" /\ Emit(tick.off, lost)
        /\ dlIdle' = 0 /\ tick' = At("repairs", tick.left - 1)
        /\ UNCHANGED <<dlSt, dlCursor, dlClosing, total, dlLinger, up, dlGcsVars>>
    BY <1>2, Zenon DEF RepairSent
  <2>2. tick.left - 1 \in 0 .. Budget
    BY <1>0, <2>1 DEF Reading
  <2>3. ReadOver /\ net' \subseteq Offsets
    BY <2>1, <2>2, EmitFaithful
  <2>4. repair' \in Seq(Entries) /\ Len(repair') <= Ranges
    <3> DEFINE n == Len(repair)
               new(i) == IF i = tick.rix THEN [repair[i] EXCEPT !.sent = TRUE, !.reports = 0]
                                         ELSE repair[i]
    <3>1. n \in Nat /\ n <= Ranges /\ \A i \in 1 .. n : repair[i] \in Entries
      BY <1>0, LenProperties, ElementOfSeq DEF DlTypeOK
    <3>2. ASSUME NEW e \in Entries
          PROVE  [e EXCEPT !.sent = TRUE, !.reports = 0] \in Entries
      <4>1. 0 \in 0 .. RepeatReports
        BY DownloadAssumption
      <4> QED
        BY <4>1, Zenon DEF Entries
    <3>3. \A i \in 1 .. n : new(i) \in Entries
      BY <3>1, <3>2, Zenon
    <3>4. repair' = [i \in 1 .. n |-> new(i)]
      BY <1>2, Zenon DEF RepairSent
    <3> HIDE DEF n, new
    <3>5. repair' \in Seq(Entries) /\ Len(repair') = n
      BY <3>1, <3>3, <3>4
    <3> QED
      BY <3>1, <3>5
  <2>5. 0 \in 0 .. DlIdleTicks
    BY DownloadAssumption
  <2> QED
    BY <1>0, <2>1, <2>3, <2>4, <2>5, ReadsOf
    DEF DlInv, DlTypeOK, CallsTyped, CopyIsFaithful, dlGcsVars
<1> QED
  BY <1>1, <1>2

\* The stream: a chunk is sent under the offset it was read at, wherever the
\* cursor has been moved meanwhile.
LEMMA StreamsKeep ==
    ASSUME DlInv,
           \/ StreamEnds \/ StreamTake
           \/ \E lost \in BOOLEAN : StreamSent(lost)
           \/ \E accepted \in BOOLEAN : StreamEof(accepted)
    PROVE  DlInv'
<1>0. /\ DlTypeOK /\ CallsTyped /\ tick.left \in 0 .. Budget /\ Budget \in Nat
      /\ tick.off \in Offsets /\ dlCursor \in 0 .. Chunks /\ dlLinger \in 0 .. DlLingerTicks
      /\ Reading => tick.left > 0
      /\ dlSt \in {"FREE", "PENDING_OPEN", "ACTIVE", "DONE_LINGER"}
  BY CallTypes, DownloadAssumption DEF DlInv, DlTypeOK
<1>1. CASE tick.at = "stream" /\ UNCHANGED dlCallVars /\ \E s \in {dlSt, "DONE_LINGER"} : EndTick(s)
  <2>1. PICK s \in {dlSt, "DONE_LINGER"} : EndTick(s)
    BY <1>1
  <2>2. dlBuf' = NoRead
    BY <2>1 DEF EndTick
  <2>3. CallsTyped'
    BY <1>0, <1>1, <2>2, DownloadAssumption DEF CallsTyped, dlCallVars, NoRead
  <2>4. dlLate = 0 => NoCall
    BY <1>1 DEF DlInv, CallInv, Waiting
  <2>5. dlLate' = 0 => NoCall'
    BY <1>1, <2>4 DEF NoCall, dlCallVars
  <2> QED
    BY <1>0, <2>1, <2>3, <2>5, EndTickKeeps
<1>2. CASE StreamTake
  <2>1. dlCursor \in Offsets
    <3>1. dlCursor < Chunks
      BY <1>0, <1>2, DownloadAssumption DEF StreamTake, DlTypeOK
    <3> QED
      BY <1>0, <3>1, DownloadAssumption DEF Offsets
  <2>2. 0 \in 0 .. Ranges
    BY DownloadAssumption
  <2>3. /\ Ask("streamWait", dlCursor, 0) /\ UNCHANGED <<dlExec, dlRes, dlLate, mixed>>
        /\ ~Reading /\ tick.left > 0
    BY <1>2 DEF StreamTake, Reading, Waiting
  <2> QED
    BY <2>1, <2>2, <2>3, AskKeeps
<1>3. ASSUME NEW lost \in BOOLEAN, StreamSent(lost)
      PROVE  DlInv'
  <2>1. /\ tick.at = "streamRead" /\ Emit(tick.off, lost)
        /\ dlIdle' = 0 /\ UNCHANGED <<dlClosing, total, repair, up, dlGcsVars>>
        /\ \/ dlSt' = "DONE_LINGER" /\ dlLinger' = 0 /\ tick' = At("idle", 0)
           \/ tick' = At("stream", tick.left - 1) /\ UNCHANGED <<dlSt, dlLinger>>
    BY <1>3, Zenon DEF StreamSent, Label
  <2>2. tick.left - 1 \in 0 .. Budget /\ 0 \in 0 .. Budget
    BY <1>0, <2>1 DEF Reading
  <2>3. ReadOver /\ net' \subseteq Offsets
    BY <2>1, <2>2, EmitFaithful
  <2>4. dlCursor' \in 0 .. Chunks
    BY <1>0, <1>3, DownloadAssumption DEF StreamSent, Offsets
  <2>5. 0 \in 0 .. DlIdleTicks /\ 0 \in 0 .. DlLingerTicks
    BY DownloadAssumption
  <2> QED
    BY <1>0, <2>1, <2>3, <2>4, <2>5, ReadsOf
    DEF DlInv, DlTypeOK, CallsTyped, CopyIsFaithful, dlGcsVars
<1>4. StreamEnds => tick.at = "stream" /\ UNCHANGED dlCallVars /\ EndTick(dlSt)
  BY DEF StreamEnds
<1>5. \A accepted \in BOOLEAN : StreamEof(accepted) =>
          tick.at = "stream" /\ UNCHANGED dlCallVars /\ \E s \in {dlSt, "DONE_LINGER"} : EndTick(s)
  BY Zenon DEF StreamEof
<1> QED
  BY <1>1, <1>2, <1>3, <1>4, <1>5

\* fs_owner_task and the other tasks that call it: the request that is served
\* is the reader's own unless a call was given up.
LEMMA FsKeeps ==
    ASSUME DlInv, FsTask \/ OthersLate
    PROVE  DlInv'
<1>0. DlTypeOK /\ CallsTyped /\ Chunks \in Nat
  BY CallTypes, DownloadAssumption DEF DlInv
<1>1. ASSUME UNCHANGED <<dlSessVars, tick, net, up, dlGcsVars>>, CallsTyped', CallInv'
      PROVE  DlInv'
  BY <1>0, <1>1
  DEF DlInv, DlTypeOK, CallsTyped, CopyIsFaithful, Reading, Waiting, dlSessVars, dlGcsVars
<1>2. CASE FsTakes
  <2>1. /\ dlReq # NoRead /\ dlExec' = dlReq /\ dlReq' = NoRead
        /\ UNCHANGED <<dlSessVars, tick, net, up, dlRes, dlBuf, dlLate, mixed, dlGcsVars>>
    BY <1>2 DEF FsTakes
  <2>2. CallsTyped'
    BY <1>0, <2>1 DEF CallsTyped, NoRead
  <2>3. CallInv'
    BY <2>1 DEF DlInv, CallInv, OwnCall, NoCall, Waiting
  <2> QED
    BY <1>1, <2>1, <2>2, <2>3
<1>3. ASSUME NEW r \in {"ok", "short"}, FsReads(r)
      PROVE  DlInv'
  <2>1. /\ dlExec # NoRead /\ dlExec' = NoRead
        /\ dlBuf' = IF r = "ok" /\ Reading THEN dlExec ELSE dlBuf
        /\ dlRes' = IF dlRes = "none" THEN r ELSE dlRes
        /\ UNCHANGED <<dlSessVars, tick, net, up, dlReq, dlLate, mixed, dlGcsVars>>
    BY <1>3 DEF FsReads
  <2>2. CallsTyped'
    BY <1>0, <2>1 DEF CallsTyped, NoRead
  <2>3. CallInv'
    <3>1. ASSUME dlLate = 0
          PROVE  Waiting /\ dlReq = NoRead /\ dlExec = tick.off /\ dlRes = "none"
      BY <2>1, <3>1 DEF DlInv, CallInv, OwnCall, NoCall
    <3> QED
      BY <2>1, <3>1 DEF CallInv, OwnCall, Waiting, Reading
  <2> QED
    BY <1>1, <2>1, <2>2, <2>3
<1>4. CASE OthersLate
  <2>1. /\ dlLate' = dlLate + 1 /\ dlLate < DlMaxLate /\ dlRes' \in {"ok", "short"}
        /\ UNCHANGED <<dlSessVars, tick, net, up, dlReq, dlExec, dlBuf, mixed, dlGcsVars>>
    BY <1>4 DEF OthersLate
  <2>2. CallsTyped' /\ dlLate' # 0
    BY <1>0, <2>1, DownloadAssumption DEF CallsTyped
  <2>3. CallInv'
    BY <2>2 DEF CallInv
  <2> QED
    BY <1>1, <2>1, <2>2, <2>3
<1> QED
  BY <1>2, <1>3, <1>4 DEF FsTask

\* The receiver's report starts within the file or just behind it.
LEMMA FirstMissingType == FirstMissing \in 0 .. Chunks
<1> DEFINE S == {o \in Offsets : \A p \in Missing : o < p}
<1>1. IsFiniteSet(Offsets) /\ Cardinality(Offsets) = Chunks
  <2>1. 0 \in Int /\ Chunks - 1 \in Int /\ ~(0 > Chunks - 1)
    BY DownloadAssumption
  <2>2. Chunks - 1 - 0 + 1 = Chunks
    BY DownloadAssumption
  <2> QED
    BY <2>1, <2>2, FS_Interval DEF Offsets
<1>2. S \in SUBSET Offsets
  OBVIOUS
<1> HIDE DEF S
<1>3. IsFiniteSet(S) /\ Cardinality(S) <= Cardinality(Offsets)
  BY <1>1, <1>2, FS_Subset
<1>4. Cardinality(S) \in Nat
  BY <1>3, FS_CardinalityType
<1>5. Cardinality(S) \in 0 .. Chunks
  BY <1>1, <1>3, <1>4, DownloadAssumption
<1> QED
  BY <1>5 DEF FirstMissing, S

\* The ground station.
LEMMA GcsKeeps ==
    ASSUME DlInv, Gcs
    PROVE  DlInv'
<1>0. DlTypeOK
  BY DEF DlInv
<1>1. ASSUME ReadLeft, UNCHANGED dlSessVars, net' \subseteq net,
             up' \in Reports \union {NoReport}, copy' \subseteq Offsets,
             known' \in 0 .. Chunks, dlGone' \in BOOLEAN
      PROVE  DlInv'
  BY <1>0, <1>1, ReadsOf DEF DlInv, DlTypeOK, CallsTyped, CopyIsFaithful, dlSessVars
<1>2. ASSUME NEW f \in net, GcsReceive(f)
      PROVE  DlInv'
  <2>1. f \in Offsets /\ net' \subseteq net /\ ReadLeft
        /\ UNCHANGED <<dlSessVars, up, dlGone>>
    BY <1>0, <1>2 DEF GcsReceive, DlTypeOK, ReadLeft
  <2>2. copy' \subseteq Offsets
    BY <1>0, <1>2 DEF GcsReceive, DlTypeOK
  <2>3. known' \in 0 .. Chunks
    BY <1>0, <1>2, <2>1, DownloadAssumption DEF GcsReceive, DlTypeOK, Offsets
  <2> QED
    BY <1>0, <1>1, <2>1, <2>2, <2>3 DEF DlTypeOK
<1>3. ASSUME NEW kind \in Recovery, NEW k \in {known, Chunks}, GcsReport(kind, k)
      PROVE  DlInv'
  <2>1. kind \in {"sack", "nak", "done", "abort"} /\ k \in 0 .. Chunks
    BY <1>0, DownloadAssumption DEF DlTypeOK
  <2> DEFINE hs == IF kind = "sack" THEN {o \in Missing : o < k} ELSE {}
  <2>2. hs \in SUBSET Offsets
    BY DEF Missing
  <2>3. up' \in Reports
    <3>1. up' = [kind |-> kind, next |-> FirstMissing, holes |-> hs]
      BY <1>3 DEF GcsReport
    <3> HIDE DEF hs
    <3> QED
      BY <2>1, <2>2, <3>1, FirstMissingType DEF Reports
  <2>4. known' = k /\ ReadLeft /\ UNCHANGED <<dlSessVars, net, copy, dlGone>>
    BY <1>3 DEF GcsReport, ReadLeft
  <2> QED
    BY <1>0, <1>1, <2>1, <2>3, <2>4 DEF DlTypeOK
<1>4. ASSUME NEW kind \in {"done", "abort"}, GcsEnds(kind)
      PROVE  DlInv'
  <2>1. up' \in Reports
    BY <1>4, DownloadAssumption DEF GcsEnds, Reports
  <2>2. Gone /\ ReadLeft /\ UNCHANGED dlSessVars
    BY <1>4 DEF GcsEnds, ReadLeft
  <2> QED
    BY <1>1, <2>1, <2>2, DownloadAssumption DEF Gone
<1>5. CASE GcsVanishes
  <2>1. Gone /\ up' = NoReport /\ ReadLeft /\ UNCHANGED dlSessVars
    BY <1>5 DEF GcsVanishes, ReadLeft
  <2> QED
    BY <1>1, <2>1, DownloadAssumption DEF Gone
<1> QED
  BY <1>2, <1>3, <1>4, <1>5 DEF Gcs

\* Every step of the downloads keeps their invariant.
LEMMA DlNextKeeps ==
    ASSUME DlInv, DlNext
    PROVE  DlInv'
<1>1. CASE DlHandlers
  BY <1>1, HandlersKeep
<1>2. CASE XferTick
  BY <1>2, TicksKeep, ReadsKeep, RepairsKeep, StreamsKeep DEF XferTick
<1>3. CASE FsTask \/ OthersLate
  BY <1>3, FsKeeps
<1>4. CASE Gcs
  BY <1>4, GcsKeeps
<1> QED
  BY <1>1, <1>2, <1>3, <1>4 DEF DlNext

----------------------------------------------------------------------------
(* 4. The composition. *)

\* The table as it is before the first frame.
LEMMA UpInitial ==
    ASSUME Init
    PROVE  UpInv
<1>1. 0 \in Contents /\ 0 \in 0 .. MaxOff /\ 0 \in 0 .. MaxOff + 1
      /\ 0 \in 0 .. IdleTicks /\ 0 \in 0 .. LingerTicks
  BY UploadAssumption, LaneAssumption
<1>2. waQ = <<>> /\ retryQ = <<>> /\ fsReq = NoReq
  BY DEF Init, LaneInit
<1>3. LaneTypeOK
  <2>1. <<>> \in Seq(Requests) /\ Len(<<>>) = 0
    BY EmptySeq
  <2>2. Len(<<>>) <= LaneCap /\ Len(<<>>) <= RetryCap
    BY <2>1, LaneAssumption
  <2>3. card \in [Files -> [0 .. MaxOff -> Contents]]
    BY <1>1 DEF Init
  <2>4. /\ pending \in [Slots -> Nat] /\ committed \in [Slots -> Nat]
        /\ failed \in [Slots -> BOOLEAN]
    BY DEF Init, LaneInit
  <2>5. fsStage \in {"poll", "fresh", "retry"} /\ fsReq \in Requests \union {NoReq}
    BY DEF Init, LaneInit
  <2> QED
    BY <1>2, <2>1, <2>2, <2>3, <2>4, <2>5 DEF LaneTypeOK
<1>4. Travelling = {} /\ \A s : InLane(s) = 0
  <2>1. Travelling = {}
    BY <1>2 DEF Travelling, Elements
  <2> QED
    BY <1>3, <2>1, InLaneType
<1>5. TypeOK
  BY <1>1, <1>3 DEF Init, TypeOK
<1>6. ASSUME NEW s \in Sessions PROVE InvOf(s)
  <2>1. /\ st[s] = "FREE" /\ cursor[s] = 0 /\ eof[s] = FALSE /\ told[s] = "none"
        /\ opening # s /\ syncReq # s
    BY UploadAssumption DEF Init
  <2>2. pending[s] = 0
    BY UploadAssumption DEF Init, LaneInit
  <2> QED
    BY <1>4, <2>1, <2>2 DEF InvOf, SessionOf, LaneOf, TruncateOf
<1> QED
  BY <1>4, <1>5, <1>6, UpInvOf

\* A download from offset 0 that was just opened, or no download at all.
LEMMA DlInitial ==
    ASSUME NEW s \in {"FREE", "PENDING_OPEN"}, NEW without \in BOOLEAN, DlInitAt(s, without)
    PROVE  DlInv
<1>1. repair \in Seq(Entries) /\ Len(repair) = 0
  BY EmptySeq DEF DlInitAt
<1>2. Len(repair) <= Ranges
  BY <1>1, DownloadAssumption
<1>3. /\ 0 \in 0 .. Chunks /\ Chunks \in 0 .. Chunks /\ 0 \in Offsets
      /\ 0 \in 0 .. DlIdleTicks /\ 0 \in 0 .. DlLingerTicks /\ 0 \in 0 .. Ranges /\ 0 \in 0 .. Budget
  BY DownloadAssumption DEF Offsets
<1>4. tick.at = "idle" /\ tick \in [at : {"idle"}, off : Offsets, rix : 0 .. Ranges, left : 0 .. Budget]
  BY <1>3 DEF DlInitAt
<1>5. CallInv /\ ~Reading
  BY <1>4 DEF DlInitAt, CallInv, NoCall, Waiting, Reading
<1>6. /\ dlReq = Chunks /\ dlExec = Chunks /\ dlBuf = Chunks /\ dlLate \in 0 .. DlMaxLate
      /\ net \subseteq Offsets /\ copy \subseteq Offsets /\ mixed = FALSE /\ dlRes = "none"
  BY DownloadAssumption DEF DlInitAt, NoRead
<1>7. DlTypeOK
  BY <1>1, <1>2, <1>3, <1>4, <1>6 DEF DlInitAt, DlTypeOK
<1> QED
  BY <1>5, <1>6, <1>7 DEF DlInv, CopyIsFaithful

\* A step that is none of a direction's own keeps its invariant.
LEMMA DlStutters ==
    ASSUME DlInv, UNCHANGED dlVars
    PROVE  DlInv'
<1>1. /\ ReadLeft /\ UNCHANGED <<dlSessVars, dlGcsVars>>
      /\ net' = net /\ up' = up
  BY DEF dlVars, ReadLeft
<1> QED
  BY <1>1, Elsewhere DEF DlInv, DlTypeOK, dlSessVars

LEMMA UpStutters ==
    ASSUME UpInv, UNCHANGED vars
    PROVE  UpInv'
<1>1. TypeOK'
  BY DEF UpInv, TypeOK, LaneTypeOK, vars, laneVars, sessVars, syncVars, gcsVars, ackVars
<1>2. Travelling' = Travelling /\ \A t : InLane(t)' = InLane(t)
  BY LaneStill DEF vars, laneVars
<1>3. \A t \in Sessions : Untouched(t)
  BY <1>2 DEF Untouched, vars, laneVars, sessVars, syncVars, gcsVars, ackVars
<1>4. \A t \in Sessions : InvOf(t)'
  BY <1>3, UntouchedKeeps, UpInvOf
<1> QED
  BY <1>1, <1>2, <1>4, UpInvOf, UpInvNext

\* The table of navlink_xfer.c keeps both invariants, whichever direction it
\* works in: the ledger of the write lane and the labels of the frames.
THEOREM TransfersInvariant == XferSpec => []XferInv
<1>1. XferInit => XferInv
  <2>1. ASSUME XferInit PROVE DlInv
    <3>1. DlInitAt("PENDING_OPEN", FALSE) \/ DlInitAt("FREE", TRUE)
      BY <2>1 DEF XferInit, DlInit
    <3> QED
      BY <3>1, DlInitial
  <2> QED
    BY <2>1, UpInitial DEF XferInit, XferInv
<1>2. XferInv /\ [XferNext]_xferVars => XferInv'
  <2> SUFFICES ASSUME XferInv, [XferNext]_xferVars PROVE XferInv'
    OBVIOUS
  <2>1. UpInv /\ DlInv
    BY DEF XferInv
  <2>2. CASE Next /\ UNCHANGED dlVars
    BY <2>1, <2>2, UpNext, DlStutters DEF XferInv
  <2>3. CASE DlNext /\ UNCHANGED vars
    BY <2>1, <2>3, DlNextKeeps, UpStutters DEF XferInv
  <2>4. CASE UNCHANGED xferVars
    BY <2>1, <2>4, UpStutters, DlStutters DEF XferInv, xferVars
  <2> QED
    BY <2>2, <2>3, <2>4 DEF XferNext
<1> QED
  BY <1>1, <1>2, PTL DEF XferSpec

\* COMM-XFER-001, "only reports completion once bytes are durably persisted":
\* an upload that was told DONE is on the card and stays there, and the count
\* of its chunks on their way, which file_flush decides by, is exact.  For
\* every number of sessions and opens, and with fs_sync_call timing out.
THEOREM UploadIsExact == XferSpec => []UploadExact
<1>1. XferInv => UploadExact
  <2> SUFFICES ASSUME XferInv PROVE UploadExact
    OBVIOUS
  <2>1. UpInv /\ DlInv
    BY DEF XferInv
  <2>2. XferTypeOK /\ PendingExact
    BY <2>1 DEF XferTypeOK, UpInv, DlInv
  <2>3. ASSUME NEW s \in Sessions, told[s] = "done", clean[s], NEW o \in origin[s] .. MaxOff
        PROVE  card[s][o] = content[s]
    <3>1. origin[s] \in 0 .. MaxOff
      BY <2>1 DEF UpInv, TypeOK
    <3>2. o \in 0 .. MaxOff /\ origin[s] <= o
      BY <3>1, LaneAssumption
    <3> QED
      BY <2>1, <2>3, <3>2 DEF UpInv, DoneInv
  <2> QED
    BY <2>2, <2>3 DEF UploadExact, DoneMeansOnDisk
<1> QED
  BY <1>1, TransfersInvariant, PTL

\* navlink_xfer.c, "One snapshot makes each emitted frame self-consistent": a
\* rewind, a rebuilt backlog or a freed session during the blocking read never
\* sends a chunk with another chunk's bytes, as long as no call of fs_owner_task
\* has been given up while its request was pending.  For every file, backlog and
\* chunk budget, and any frames lost and overtaking each other.
THEOREM CopiesAreFaithful == XferSpec => []CopyIsFaithful
<1>1. XferInv => CopyIsFaithful
  BY DEF XferInv, DlInv
<1> QED
  BY <1>1, TransfersInvariant, PTL

============================================================================
