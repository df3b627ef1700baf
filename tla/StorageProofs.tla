---------------------------- MODULE StorageProofs ----------------------------
(***************************************************************************)
(* What the filesystem task promises its other clients, for every number   *)
(* of callers, files, faults, power cuts, retries and queue sizes.         *)
(*                                                                         *)
(* 1. The save lane (ConfigStore): once it is idle, a reboot restores the  *)
(*    tune in force.                                                       *)
(* 2. The funnel (FsFunnel): a caller gets the result of its own request,  *)
(*    the two cached handles stay apart, and a browsing request is         *)
(*    answered once and leaves no directory open.                          *)
(* 3. Both in the one loop of Storage, beside the recorder, which shares   *)
(*    only the card's faults with them.                                    *)
(* 4. The recorder (BlackBox) in the same loop: its types, the ring on the *)
(*    card, the streams of records.                                        *)
(***************************************************************************)
EXTENDS Storage, SequenceTheorems, FiniteSetTheorems, TLAPS

(***************************************************************************)
(* 1. ConfigStore.                                                         *)
(***************************************************************************)
\* Snapshots of versions there have been, at some stages.
Snapshots(stages) == {r \in [store : Stores, version : Nat, tries : 0 .. SaveTries - 1,
                         stage : stages] :
                      r.version <= MaxChanges[r.store]}
Queueable == Snapshots({"queued"})
Writable == Snapshots({"popped", "open"})

CfgTypes ==
    /\ live \in [Stores -> Nat] /\ \A s \in Stores : live[s] <= MaxChanges[s]
    /\ disk \in [Stores -> Int] /\ \A s \in Stores : disk[s] \in -1 .. MaxChanges[s]
    /\ saveQ \in Seq(Queueable) /\ Len(saveQ) <= SaveCap
    /\ saving \in Writable \union {NoSave}
    /\ lostSaves \in Nat /\ tried \in BOOLEAN

\* No request of queue q is for store s; the i-th is the last one for it.
Unqueued(q, s) == \A i \in 1 .. Len(q) : q[i].store # s
LastFor(q, i, s) == q[i].store = s /\ \A j \in i + 1 .. Len(q) : q[j].store # s

\* What version a reboot finds on a card that holds d.
Found(d) == IF d = -1 THEN 0 ELSE d

\* Version l of store s is the last one queued, or else the one being written
\* (w), or else the one on the card.
Latest(q, w, d, l, s) ==
    /\ \A i \in 1 .. Len(q) : LastFor(q, i, s) => q[i].version = l
    /\ Unqueued(q, s) /\ w.store = s => w.version = l
    /\ Unqueued(q, s) /\ w.store # s => Found(d) = l

LatestInv ==
    ~tried /\ lostSaves = 0 =>
       \A s \in Stores : Latest(saveQ, saving, disk[s], live[s], s)

CfgInv == CfgTypes /\ LatestInv

LEMMA NoStore == NoSave.store \notin Stores
  BY DEF NoSave, Stores

LEMMA SnapshotOf ==
    ASSUME NEW stages, NEW r \in Snapshots(stages)
    PROVE  /\ r.store \in Stores /\ r.version \in Nat /\ r.tries \in 0 .. SaveTries - 1
           /\ r.stage \in stages /\ r.version <= MaxChanges[r.store]
  BY DEF Snapshots

LEMMA NoQueue ==
    ASSUME NEW S, NEW s, NEW w, NEW d, NEW l, w.store # s, Found(d) = l
    PROVE  Latest(<<>>, w, d, l, s)
  BY DEF Latest, Unqueued

\* A request behind the others is the last one for its store.
LEMMA Behind ==
    ASSUME NEW q \in Seq(Queueable), NEW r \in Queueable, NEW s \in Stores, NEW w, NEW d, NEW l,
           NEW k, Latest(q, w, d, l, s),
           IF r.store = s THEN r.version = k ELSE k = l
    PROVE  Latest(Append(q, r), w, d, k, s)
<1> DEFINE a == Append(q, r)
           n == Len(q)
<1>1. n \in Nat /\ Len(a) = n + 1 /\ a[n + 1] = r /\ \A i \in 1 .. n : a[i] = q[i]
  OBVIOUS
<1> HIDE DEF a, n
<1>2. CASE r.store = s
  <2>1. ~Unqueued(a, s)
    BY <1>1, <1>2 DEF Unqueued
  <2>2. ASSUME NEW i \in 1 .. Len(a), LastFor(a, i, s)
        PROVE  a[i].version = k
    <3>1. i = n + 1
      BY <1>1, <1>2, <2>2 DEF LastFor
    <3> QED
      BY <1>1, <1>2, <3>1
  <2> QED
    BY <2>1, <2>2 DEF Latest, a
<1>3. CASE r.store # s
  <2>1. Unqueued(a, s) => Unqueued(q, s)
    BY <1>1 DEF Unqueued, n
  <2>2. ASSUME NEW i \in 1 .. Len(a), LastFor(a, i, s)
        PROVE  a[i].version = k
    <3>1. i \in 1 .. n
      BY <1>1, <1>3, <2>2 DEF LastFor
    <3>2. LastFor(q, i, s)
      BY <1>1, <2>2, <3>1 DEF LastFor, n
    <3> QED
      BY <1>1, <1>3, <3>1, <3>2 DEF Latest, n
  <2> QED
    BY <1>3, <2>1, <2>2 DEF Latest, a
<1> QED
  BY <1>2, <1>3

\* The first request is taken to be written.
LEMMA InFront ==
    ASSUME NEW q \in Seq(Queueable), q # <<>>, NEW s \in Stores, NEW v, v.store \notin Stores,
           NEW d, NEW l, Latest(q, v, d, l, s),
           NEW w, w.store = Head(q).store, w.version = Head(q).version
    PROVE  Latest(Tail(q), w, d, l, s)
<1> DEFINE t == Tail(q)
           n == Len(q)
<1>1. /\ n \in Nat \ {0} /\ Len(t) = n - 1 /\ Head(q) = q[1]
      /\ \A i \in 1 .. n - 1 : t[i] = q[i + 1]
  OBVIOUS
<1> HIDE DEF t, n
<1>2. ASSUME NEW i \in 1 .. Len(t), LastFor(t, i, s)
      PROVE  t[i].version = l
  <2>1. i + 1 \in 1 .. n /\ t[i] = q[i + 1]
    BY <1>1
  <2>2. ASSUME NEW j \in i + 2 .. n
        PROVE  q[j].store # s
    <3>1. j - 1 \in i + 1 .. Len(t) /\ j - 1 \in 1 .. n - 1 /\ (j - 1) + 1 = j
      BY <1>1
    <3> QED
      BY <1>1, <1>2, <3>1 DEF LastFor
  <2>3. LastFor(q, i + 1, s)
    BY <1>2, <2>1, <2>2 DEF LastFor, n
  <2> QED
    BY <2>1, <2>3 DEF Latest, n
<1>3. ASSUME Unqueued(t, s)
      PROVE  \A j \in 2 .. n : q[j].store # s
  <2> TAKE j \in 2 .. n
  <2>1. j - 1 \in 1 .. n - 1 /\ (j - 1) + 1 = j
    BY <1>1
  <2> QED
    BY <1>1, <1>3, <2>1 DEF Unqueued
<1>4. ASSUME Unqueued(t, s), w.store = s
      PROVE  w.version = l
  <2>1. LastFor(q, 1, s)
    BY <1>1, <1>3, <1>4 DEF LastFor, n
  <2> QED
    BY <1>1, <2>1 DEF Latest, n
<1>5. ASSUME Unqueued(t, s), w.store # s
      PROVE  Found(d) = l
  <2>1. Unqueued(q, s)
    BY <1>1, <1>3, <1>5 DEF Unqueued, n
  <2> QED
    BY <2>1 DEF Latest
<1> QED
  BY <1>2, <1>4, <1>5 DEF Latest, t

LEMMA CfgStart == CfgInit => CfgInv
<1> SUFFICES ASSUME CfgInit PROVE CfgInv
  OBVIOUS
<1>1. CfgTypes
  <2>1. live \in [Stores -> Nat] /\ disk \in [Stores -> Int]
    BY DEF CfgInit
  <2>2. \A s \in Stores : live[s] <= MaxChanges[s] /\ disk[s] \in -1 .. MaxChanges[s]
    BY CfgAssumption DEF CfgInit
  <2>3. saveQ \in Seq(Queueable) /\ Len(saveQ) <= SaveCap
    BY CfgAssumption DEF CfgInit
  <2> QED
    BY <2>1, <2>2, <2>3 DEF CfgInit, CfgTypes
<1>2. ASSUME NEW s \in Stores
      PROVE  Latest(saveQ, saving, disk[s], live[s], s)
  <2>1. saving.store # s /\ Found(disk[s]) = live[s] /\ saveQ = <<>>
    BY NoStore DEF CfgInit, Found
  <2> QED
    BY <2>1, NoQueue
<1> QED
  BY <1>1, <1>2 DEF CfgInv, LatestInv

LEMMA CfgSame == CfgInv /\ UNCHANGED cfgVars => CfgInv'
<1> SUFFICES ASSUME CfgInv, UNCHANGED cfgVars PROVE CfgInv'
  OBVIOUS
<1>1. /\ live' = live /\ saveQ' = saveQ /\ saving' = saving /\ disk' = disk
      /\ lostSaves' = lostSaves /\ tried' = tried
  BY DEF cfgVars
<1> QED
  BY <1>1 DEF CfgInv, CfgTypes, LatestInv

LEMMA ChangeKeeps ==
    ASSUME CfgInv, NEW s \in Stores, Change(s)
    PROVE  CfgInv'
<1> DEFINE r == [store |-> s, version |-> live[s] + 1, tries |-> 0, stage |-> "queued"]
<1>1. /\ live[s] \in Nat /\ live[s] < MaxChanges[s] /\ MaxChanges[s] \in Nat
      /\ live' = [live EXCEPT ![s] = @ + 1] /\ saving' = saving /\ disk' = disk /\ tried' = tried
      /\ lostSaves \in Nat /\ SaveTries \in Nat \ {0} /\ SaveCap \in Nat
  BY CfgAssumption DEF CfgInv, CfgTypes, Change
<1>2. r \in Queueable
  BY <1>1 DEF Queueable, Snapshots
<1>3. \/ /\ Len(saveQ) < SaveCap /\ saveQ' = Append(saveQ, r) /\ lostSaves' = lostSaves
      \/ saveQ' = saveQ /\ lostSaves' = lostSaves + 1
  BY DEF Change, Enqueue
<1>4. live' \in [Stores -> Nat] /\ \A t \in Stores : live'[t] <= MaxChanges[t]
  BY <1>1 DEF CfgInv, CfgTypes
<1>5. saveQ' \in Seq(Queueable) /\ Len(saveQ') <= SaveCap /\ lostSaves' \in Nat
  <2> HIDE DEF r
  <2>1. saveQ \in Seq(Queueable) /\ Len(saveQ) <= SaveCap /\ Len(saveQ) \in Nat
    BY DEF CfgInv, CfgTypes
  <2>2. Append(saveQ, r) \in Seq(Queueable) /\ Len(Append(saveQ, r)) = Len(saveQ) + 1
    BY <1>2, <2>1
  <2>3. CASE Len(saveQ) < SaveCap /\ saveQ' = Append(saveQ, r) /\ lostSaves' = lostSaves
    BY <1>1, <2>1, <2>2, <2>3
  <2>4. CASE saveQ' = saveQ /\ lostSaves' = lostSaves + 1
    BY <1>1, <2>1, <2>4
  <2> QED
    BY <1>3, <2>3, <2>4 DEF r
<1>6. CfgTypes'
  BY <1>1, <1>4, <1>5 DEF CfgInv, CfgTypes
<1>7. ASSUME ~tried', lostSaves' = 0, NEW t \in Stores
      PROVE  Latest(saveQ', saving', disk'[t], live'[t], t)
  <2>1. saveQ' = Append(saveQ, r) /\ lostSaves = 0 /\ ~tried
    BY <1>1, <1>3, <1>7
  <2>2. Latest(saveQ, saving, disk[t], live[t], t) /\ saveQ \in Seq(Queueable)
    BY <2>1 DEF CfgInv, CfgTypes, LatestInv
  <2>3. IF r.store = t THEN r.version = live'[t] ELSE live'[t] = live[t]
    BY <1>1 DEF CfgInv, CfgTypes
  <2> HIDE DEF r
  <2> QED
    BY <1>1, <1>2, <2>1, <2>2, <2>3, Behind
<1> QED
  BY <1>6, <1>7 DEF CfgInv, LatestInv

LEMMA SavePopKeeps == CfgInv /\ SavePop => CfgInv'
<1> SUFFICES ASSUME CfgInv, SavePop PROVE CfgInv'
  OBVIOUS
<1>1. /\ live' = live /\ disk' = disk /\ lostSaves' = lostSaves /\ tried' = tried
      /\ saving = NoSave
  BY DEF SavePop
<1>2. CASE saveQ = <<>>
  BY <1>1, <1>2, CfgSame DEF SavePop, cfgVars
<1>3. CASE saveQ # <<>>
  <2>1. saving' = [Head(saveQ) EXCEPT !.stage = "popped"] /\ saveQ' = Tail(saveQ)
    BY <1>3 DEF SavePop
  <2>2. saveQ \in Seq(Queueable) /\ Len(saveQ) <= SaveCap
    BY DEF CfgInv, CfgTypes
  <2>3. /\ Head(saveQ) \in Queueable /\ Tail(saveQ) \in Seq(Queueable)
        /\ Len(Tail(saveQ)) <= SaveCap
    BY <1>3, <2>2, CfgAssumption
  <2>4. /\ saving' \in Writable /\ saving'.store = Head(saveQ).store
        /\ saving'.version = Head(saveQ).version
    BY <2>1, <2>3 DEF Queueable, Writable, Snapshots
  <2>5. CfgTypes'
    BY <1>1, <2>1, <2>3, <2>4 DEF CfgInv, CfgTypes
  <2>6. ASSUME ~tried', lostSaves' = 0, NEW s \in Stores
        PROVE  Latest(saveQ', saving', disk'[s], live'[s], s)
    <3>1. Latest(saveQ, saving, disk[s], live[s], s) /\ saving.store \notin Stores
      BY <1>1, <2>6, NoStore DEF CfgInv, LatestInv
    <3> QED
      BY <1>1, <1>3, <2>1, <2>2, <2>4, <3>1, InFront
  <2> QED
    BY <2>5, <2>6 DEF CfgInv, LatestInv
<1> QED
  BY <1>2, <1>3

LEMMA Requeued ==
    ASSUME NEW stages, NEW r \in Snapshots(stages), NEW t \in 0 .. SaveTries - 1
    PROVE  [r EXCEPT !.tries = t, !.stage = "queued"] \in Queueable
<1> DEFINE q == [r EXCEPT !.tries = t, !.stage = "queued"]
<1>1. r \in [store : Stores, version : Nat, tries : 0 .. SaveTries - 1, stage : stages]
  BY DEF Snapshots
<1>2. q \in [store : Stores, version : Nat, tries : 0 .. SaveTries - 1, stage : {"queued"}]
  BY <1>1
<1>3. q.store = r.store /\ q.version = r.version
  BY <1>1
<1>4. r.version <= MaxChanges[r.store]
  BY DEF Snapshots
<1> QED
  BY <1>2, <1>3, <1>4 DEF Queueable, Snapshots

LEMMA RetryKeeps ==
    ASSUME CfgInv, saving # NoSave, Retry, live' = live, disk' = disk
    PROVE  CfgInv'
<1> DEFINE r == [saving EXCEPT !.tries = @ + 1, !.stage = "queued"]
<1>1. tried' = TRUE /\ saving' = NoSave
  BY DEF Retry
<1>2. /\ saving \in Writable /\ saveQ \in Seq(Queueable) /\ Len(saveQ) <= SaveCap /\ Len(saveQ) \in Nat
      /\ lostSaves \in Nat /\ SaveCap \in Nat /\ SaveTries \in Nat \ {0}
  BY CfgAssumption DEF CfgInv, CfgTypes
<1>3. \/ /\ saving.tries + 1 < SaveTries /\ Len(saveQ) < SaveCap
         /\ saveQ' = Append(saveQ, r) /\ lostSaves' = lostSaves
      \/ saveQ' = saveQ /\ lostSaves' = lostSaves + 1
  BY DEF Retry
<1>4. ASSUME saving.tries + 1 < SaveTries
      PROVE  r \in Queueable
  <2>2. /\ saving.store \in Stores /\ saving.version \in Nat /\ saving.tries \in 0 .. SaveTries - 1
        /\ saving.version <= MaxChanges[saving.store]
    BY <1>2, SnapshotOf DEF Writable
  <2>3. saving.tries + 1 \in 0 .. SaveTries - 1
    BY <1>2, <1>4, <2>2
  <2> QED
    BY <1>2, <2>3, Requeued DEF Writable
<1> HIDE DEF r
<1>5. saveQ' \in Seq(Queueable) /\ Len(saveQ') <= SaveCap /\ lostSaves' \in Nat
  <2>1. CASE saving.tries + 1 < SaveTries /\ Len(saveQ) < SaveCap /\ saveQ' = Append(saveQ, r)
    <3>1. Append(saveQ, r) \in Seq(Queueable) /\ Len(Append(saveQ, r)) = Len(saveQ) + 1
      BY <1>2, <1>4, <2>1
    <3> QED
      BY <1>2, <1>3, <2>1, <3>1
  <2>2. CASE saveQ' = saveQ
    BY <1>2, <1>3, <2>2
  <2> QED
    BY <1>3, <2>1, <2>2
<1>6. CfgTypes'
  BY <1>1, <1>5 DEF CfgInv, CfgTypes
<1> QED
  BY <1>1, <1>6 DEF CfgInv, LatestInv

LEMMA SaveOpenKeeps == CfgInv /\ SaveOpen => CfgInv'
<1> SUFFICES ASSUME CfgInv, SaveOpen PROVE CfgInv'
  OBVIOUS
<1>1. saving # NoSave /\ live' = live
  BY DEF SaveOpen
<1>2. CASE Retry /\ UNCHANGED disk
  BY <1>1, <1>2, RetryKeeps
<1>3. CASE /\ saving' = [saving EXCEPT !.stage = "open"]
           /\ disk' = [disk EXCEPT ![saving.store] = -1]
           /\ UNCHANGED <<saveQ, lostSaves, tried>>
  <2>1. saving \in Writable
    BY <1>1 DEF CfgInv, CfgTypes
  <2>2. /\ saving' \in Writable /\ saving'.store = saving.store /\ saving'.version = saving.version
        /\ saving.store \in Stores
    BY <1>3, <2>1 DEF Writable, Snapshots
  <2>3. disk' \in [Stores -> Int] /\ \A s \in Stores : disk'[s] \in -1 .. MaxChanges[s]
    <3>1. \A s \in Stores : MaxChanges[s] \in Nat /\ -1 \in Int /\ -1 \in -1 .. MaxChanges[s]
      BY CfgAssumption
    <3>2. disk \in [Stores -> Int] /\ \A s \in Stores : disk[s] \in -1 .. MaxChanges[s]
      BY DEF CfgInv, CfgTypes
    <3>3. \A s \in Stores : disk'[s] = IF s = saving.store THEN -1 ELSE disk[s]
      BY <1>3, <3>2
    <3>4. disk' \in [Stores -> Int]
      BY <1>3, <3>1, <3>2
    <3> QED
      BY <3>1, <3>2, <3>3, <3>4
  <2>4. CfgTypes'
    BY <1>1, <1>3, <2>2, <2>3 DEF CfgInv, CfgTypes
  <2>5. ASSUME ~tried', lostSaves' = 0, NEW s \in Stores
        PROVE  Latest(saveQ', saving', disk'[s], live'[s], s)
    <3>1. Latest(saveQ, saving, disk[s], live[s], s)
      BY <1>3, <2>5 DEF CfgInv, LatestInv
    <3>2. saving.store # s => disk'[s] = disk[s]
      BY <1>3 DEF CfgInv, CfgTypes
    <3> QED
      BY <1>1, <1>3, <2>2, <3>1, <3>2 DEF Latest
  <2> QED
    BY <2>4, <2>5 DEF CfgInv, LatestInv
<1> QED
  BY <1>2, <1>3 DEF SaveOpen

LEMMA SaveWriteKeeps == CfgInv /\ SaveWrite => CfgInv'
<1> SUFFICES ASSUME CfgInv, SaveWrite PROVE CfgInv'
  OBVIOUS
<1>1. saving # NoSave /\ live' = live
  BY DEF SaveWrite
<1>2. CASE Retry /\ disk' = disk
  BY <1>1, <1>2, RetryKeeps
<1>3. CASE /\ disk' = [disk EXCEPT ![saving.store] = saving.version]
           /\ saving' = NoSave
           /\ UNCHANGED <<saveQ, lostSaves, tried>>
  <2>1. saving \in Writable
    BY <1>1 DEF CfgInv, CfgTypes
  <2>2. /\ saving.store \in Stores /\ saving.version \in Nat
        /\ saving.version <= MaxChanges[saving.store] /\ MaxChanges[saving.store] \in Nat
    BY <2>1, CfgAssumption DEF Writable, Snapshots
  <2>3. disk' \in [Stores -> Int] /\ \A s \in Stores : disk'[s] \in -1 .. MaxChanges[s]
    BY <1>3, <2>2 DEF CfgInv, CfgTypes
  <2>4. CfgTypes'
    BY <1>1, <1>3, <2>3 DEF CfgInv, CfgTypes
  <2>5. ASSUME ~tried', lostSaves' = 0, NEW s \in Stores
        PROVE  Latest(saveQ', saving', disk'[s], live'[s], s)
    <3>1. Latest(saveQ, saving, disk[s], live[s], s)
      BY <1>3, <2>5 DEF CfgInv, LatestInv
    <3>2. disk'[s] = IF saving.store = s THEN saving.version ELSE disk[s]
      BY <1>3 DEF CfgInv, CfgTypes
    <3>3. Unqueued(saveQ, s) => Found(disk'[s]) = live[s]
      BY <2>2, <3>1, <3>2 DEF Latest, Found
    <3> QED
      BY <1>1, <1>3, <3>1, <3>3, NoStore DEF Latest
  <2> QED
    BY <2>4, <2>5 DEF CfgInv, LatestInv
<1> QED
  BY <1>2, <1>3 DEF SaveWrite

LEMMA CfgResetKeeps == CfgInv /\ CfgReset => CfgInv'
<1> SUFFICES ASSUME CfgInv, CfgReset PROVE CfgInv'
  OBVIOUS
<1>1. /\ live' = [s \in Stores |-> Restored(s)] /\ saveQ' = <<>> /\ saving' = NoSave
      /\ lostSaves' = 0 /\ disk' = disk /\ tried' \in BOOLEAN
  BY DEF CfgReset, CfgInv, CfgTypes
<1>2. ASSUME NEW s \in Stores
      PROVE  /\ Restored(s) \in Nat /\ Restored(s) <= MaxChanges[s]
             /\ Restored(s) = Found(disk[s])
  BY CfgAssumption DEF Restored, Found, CfgInv, CfgTypes
<1>3. CfgTypes'
  BY <1>1, <1>2, CfgAssumption DEF CfgInv, CfgTypes
<1>4. ASSUME NEW s \in Stores
      PROVE  Latest(saveQ', saving', disk'[s], live'[s], s)
  BY <1>1, <1>2, <1>4, NoStore, NoQueue
<1> QED
  BY <1>3, <1>4 DEF CfgInv, LatestInv

LEMMA CfgImplies == CfgInv => TuneSound
<1> SUFFICES ASSUME CfgInv PROVE TuneSound
  OBVIOUS
<1>1. CfgTypeOK
  <2>1. \A i \in 1 .. Len(saveQ) : saveQ[i] \in Queueable
    BY DEF CfgInv, CfgTypes
  <2>2. \A i \in 1 .. Len(saveQ) : saveQ[i].tries < SaveTries
    BY <2>1, SnapshotOf, CfgAssumption DEF Queueable
  <2>3. \A s \in Stores : live[s] \in -1 .. MaxChanges[s]
    BY CfgAssumption DEF CfgInv, CfgTypes
  <2> QED
    BY <2>2, <2>3 DEF CfgTypeOK, CfgInv, CfgTypes
<1>2. ConfigKept
  <2>1. \A s \in Stores : live[s] >= 0
    BY DEF CfgInv, CfgTypes
  <2>2. ASSUME saveQ = <<>>, saving = NoSave, ~tried, lostSaves = 0, NEW s \in Stores
        PROVE  Restored(s) = live[s]
    <3>1. Latest(saveQ, saving, disk[s], live[s], s)
      BY <2>2 DEF CfgInv, LatestInv
    <3>2. Unqueued(saveQ, s)
      BY <2>2 DEF Unqueued
    <3> QED
      BY <2>2, <3>1, <3>2, NoStore DEF Latest, Restored, Found
  <2> QED
    BY <2>1, <2>2 DEF ConfigKept
<1> QED
  BY <1>1, <1>2 DEF TuneSound

(***************************************************************************)
(* 2. FsFunnel.                                                            *)
(*                                                                         *)
(* While no caller has given up on a request that was pending, the token's *)
(* holder is the only one who waits, and the one request, execution or     *)
(* result there is belongs to it (TokenInv).  The calls on directories are *)
(* the listing's, whose place in opendir, readdir and closedir says what   *)
(* is open (DirInv).                                                       *)
(***************************************************************************)
OpNames == {"read", "truncate", "stat", "unlink", "opendir", "readdir", "closedir"}
DirOps == {"opendir", "readdir", "closedir"}
Outcome == {"ok", "fail", "end"}

RequestSet == [id : Nat \ {0}, by : Callers, op : OpNames, path : Paths]
ResultSet == [res : Outcome, id : Nat]
CallSet == [st : {"idle", "token", "wait", "done"}, id : Nat, op : OpNames \union {"none"},
            path : Paths \union {"none"}, res : Outcome \union {"none"}, of : Nat]
FdSet == {NoFd} \union [path : Paths, made : Nat]
\* A queue of at most one.
OneOf(S) == {<<>>} \union {<<x>> : x \in S}

FunnelTypes ==
    /\ token \in Callers \union {"free"}
    /\ call \in [Callers -> CallSet] /\ calls \in Nat /\ late \in Nat
    /\ reqQ \in OneOf(RequestSet) /\ resQ \in OneOf(ResultSet)
    /\ exec \in RequestSet \union {NoReq}

\* A call that has begun says what it is for.
Named(k) == k.st # "idle" => k.id >= 1 /\ k.op \in OpNames /\ k.path \in Paths
AllNamed == \A c \in Callers : Named(call[c])

\* Request r is that of call k.
Asks(r, k) == r.id = k.id /\ r.op = k.op

\* The holder t of the token among the calls k, and what there is of its call:
\* a request in rq, the execution x or a result in rs.
Holder(t, k, rq, x, rs) ==
    /\ \A c \in Callers : k[c].st = "wait" => t = c
    /\ t # "free" => k[t].st = "wait"
    /\ rq # <<>> => t # "free" /\ x = NoReq /\ rs = <<>> /\ Asks(rq[1], k[t])
    /\ x # NoReq => t # "free" /\ rq = <<>> /\ rs = <<>> /\ Asks(x, k[t])
    /\ rs # <<>> => t # "free" /\ rq = <<>> /\ x = NoReq /\ rs[1].id = k[t].id
    /\ \A c \in Callers : k[c].st = "done" => k[c].of = k[c].id
TokenInv == late = 0 => Holder(token, call, reqQ, exec, resQ)

FunnelInv == FunnelTypes /\ AllNamed /\ TokenInv

LEMMA OneShape ==
    ASSUME NEW S, NEW q \in OneOf(S)
    PROVE  /\ Len(q) \in {0, 1} /\ (q = <<>> \/ \E x \in S : q = <<x>> /\ Head(q) = x /\ q[1] = x)
           /\ q # <<>> => Head(q) \in S /\ Head(q) = q[1]
  BY DEF OneOf

LEMMA OneEmpty == ASSUME NEW S PROVE <<>> \in OneOf(S)
  BY DEF OneOf

LEMMA OneFull == ASSUME NEW S, NEW x \in S PROVE <<x>> \in OneOf(S) /\ <<x>> # <<>> /\ <<x>>[1] = x
  BY DEF OneOf

LEMMA RequestIs ==
    ASSUME NEW r \in RequestSet
    PROVE  /\ r # NoReq /\ r.id \in Nat \ {0} /\ r.by \in Callers /\ r.op \in OpNames /\ r.path \in Paths
  BY DEF RequestSet, NoReq

LEMMA CallIs ==
    ASSUME call \in [Callers -> CallSet], NEW c \in Callers
    PROVE  /\ call[c] \in CallSet /\ call[c].id \in Nat /\ call[c].of \in Nat
           /\ call[c].st \in {"idle", "token", "wait", "done"}
           /\ call[c].op \in OpNames \union {"none"} /\ call[c].path \in Paths \union {"none"}
           /\ call[c].res \in Outcome \union {"none"}
<1>1. call[c] \in CallSet
  OBVIOUS
<1> QED
  BY <1>1 DEF CallSet

LEMMA IssuedIs ==
    ASSUME call \in [Callers -> CallSet], calls \in Nat, NEW c \in Callers, NEW o \in OpNames, NEW p \in Paths
    PROVE  /\ Issued(c, o, p) \in [Callers -> CallSet]
           /\ Issued(c, o, p)[c].st = "token" /\ Issued(c, o, p)[c].op = o
           /\ Named(Issued(c, o, p)[c])
           /\ \A d \in Callers \ {c} : Issued(c, o, p)[d] = call[d]
<1> DEFINE k == [st |-> "token", id |-> calls + 1, op |-> o, path |-> p, res |-> "none", of |-> 0]
<1>1. k \in CallSet
  BY DEF CallSet
<1>2. k.st = "token" /\ k.id >= 1 /\ k.op = o /\ k.path = p
  OBVIOUS
<1>3. Issued(c, o, p) = [call EXCEPT ![c] = k]
  BY DEF Issued
<1> HIDE DEF k
<1> QED
  BY <1>1, <1>2, <1>3 DEF Named

LEMMA ReturnedIs ==
    ASSUME call \in [Callers -> CallSet], NEW c \in Callers, NEW r \in Outcome, NEW n \in Nat
    PROVE  /\ Returned(c, r, n) \in [Callers -> CallSet]
           /\ Returned(c, r, n)[c].st = "done" /\ Returned(c, r, n)[c].res = r
           /\ Returned(c, r, n)[c].of = n
           /\ Returned(c, r, n)[c].id = call[c].id /\ Returned(c, r, n)[c].op = call[c].op
           /\ Returned(c, r, n)[c].path = call[c].path
           /\ \A d \in Callers \ {c} : Returned(c, r, n)[d] = call[d]
<1> DEFINE a == [call EXCEPT ![c].st = "done"]
           b == [a EXCEPT ![c].res = r]
           k == [b EXCEPT ![c].of = n]
<1>1. Returned(c, r, n) = k
  BY DEF Returned
<1>2. /\ a \in [Callers -> CallSet] /\ a[c].st = "done" /\ a[c].id = call[c].id
      /\ a[c].op = call[c].op /\ a[c].path = call[c].path
      /\ \A d \in Callers \ {c} : a[d] = call[d]
  BY DEF CallSet
<1> HIDE DEF a
<1>3. /\ b \in [Callers -> CallSet] /\ b[c].st = "done" /\ b[c].res = r /\ b[c].id = call[c].id
      /\ b[c].op = call[c].op /\ b[c].path = call[c].path
      /\ \A d \in Callers \ {c} : b[d] = call[d]
  BY <1>2 DEF CallSet
<1> HIDE DEF b
<1>4. /\ k \in [Callers -> CallSet] /\ k[c].st = "done" /\ k[c].res = r /\ k[c].of = n
      /\ k[c].id = call[c].id /\ k[c].op = call[c].op /\ k[c].path = call[c].path
      /\ \A d \in Callers \ {c} : k[d] = call[d]
  BY <1>3 DEF CallSet
<1> HIDE DEF k
<1> QED
  BY <1>1, <1>4

LEMMA HolderBeside ==
    ASSUME NEW t, NEW k, NEW m, NEW rq, NEW x, NEW rs, NEW c \in Callers,
           t \in Callers \union {"free"}, Holder(t, k, rq, x, rs),
           k[c].st # "wait", m[c].st \notin {"wait", "done"},
           \A d \in Callers \ {c} : m[d] = k[d]
    PROVE  Holder(t, m, rq, x, rs)
<1>1. t # "free" => t \in Callers \ {c} /\ m[t] = k[t]
  BY DEF Holder
<1>2. \A d \in Callers : m[d].st = "wait" => t = d
  BY DEF Holder
<1>3. \A d \in Callers : m[d].st = "done" => m[d].of = m[d].id
  BY DEF Holder
<1> QED
  BY <1>1, <1>2, <1>3 DEF Holder

\* A call begins, or is over.
LEMMA IssueKeeps ==
    ASSUME FunnelInv, NEW c \in Callers, call[c].st \in {"idle", "done"}, NEW o \in OpNames, NEW p \in Paths,
           call' = Issued(c, o, p), calls' = calls + 1, UNCHANGED <<token, late, reqQ, resQ, exec>>
    PROVE  FunnelInv'
<1>1. call \in [Callers -> CallSet] /\ calls \in Nat
  BY DEF FunnelInv, FunnelTypes
<1>2. /\ call' \in [Callers -> CallSet] /\ call'[c].st = "token" /\ Named(call'[c])
      /\ \A d \in Callers \ {c} : call'[d] = call[d]
  BY <1>1, IssuedIs
<1>3. FunnelTypes'
  BY <1>1, <1>2 DEF FunnelInv, FunnelTypes
<1>4. AllNamed'
  BY <1>2 DEF FunnelInv, AllNamed, Named
<1>5. ASSUME late = 0
      PROVE  Holder(token, call', reqQ, exec, resQ)
  <2>1. Holder(token, call, reqQ, exec, resQ) /\ token \in Callers \union {"free"}
    BY <1>5 DEF FunnelInv, TokenInv, FunnelTypes
  <2> QED
    BY <1>2, <2>1, HolderBeside
<1> QED
  BY <1>3, <1>4, <1>5 DEF FunnelInv, TokenInv

LEMMA ClearKeeps ==
    ASSUME FunnelInv, NEW c \in Callers, call[c].st = "done",
           call' = [call EXCEPT ![c] = NoCall], UNCHANGED <<token, calls, late, reqQ, resQ, exec>>
    PROVE  FunnelInv'
<1>1. call \in [Callers -> CallSet]
  BY DEF FunnelInv, FunnelTypes
<1>2. NoCall \in CallSet /\ NoCall.st = "idle"
  BY DEF NoCall, CallSet
<1>3. /\ call' \in [Callers -> CallSet] /\ call'[c].st = "idle"
      /\ \A d \in Callers \ {c} : call'[d] = call[d]
  BY <1>1, <1>2
<1>4. FunnelTypes'
  BY <1>3 DEF FunnelInv, FunnelTypes
<1>5. AllNamed'
  BY <1>3 DEF FunnelInv, AllNamed, Named
<1>6. ASSUME late = 0
      PROVE  Holder(token, call', reqQ, exec, resQ)
  <2>1. Holder(token, call, reqQ, exec, resQ) /\ token \in Callers \union {"free"}
    BY <1>6 DEF FunnelInv, TokenInv, FunnelTypes
  <2> QED
    BY <1>3, <2>1, HolderBeside
<1> QED
  BY <1>4, <1>5, <1>6 DEF FunnelInv, TokenInv

\* A call that fails without its request being queued.
LEMMA FailKeeps ==
    ASSUME FunnelInv, NEW c \in Callers, call[c].st = "token",
           call' = Returned(c, "fail", call[c].id), UNCHANGED <<token, calls, late, reqQ, resQ, exec>>
    PROVE  FunnelInv'
<1>1. call \in [Callers -> CallSet] /\ call[c].id \in Nat /\ "fail" \in Outcome
  BY CallIs DEF FunnelInv, FunnelTypes, Outcome
<1>2. /\ call' \in [Callers -> CallSet] /\ call'[c].st = "done" /\ call'[c].of = call'[c].id
      /\ call'[c].id = call[c].id /\ call'[c].op = call[c].op /\ call'[c].path = call[c].path
      /\ \A d \in Callers \ {c} : call'[d] = call[d]
  BY <1>1, ReturnedIs
<1>3. FunnelTypes'
  BY <1>2 DEF FunnelInv, FunnelTypes
<1>4. AllNamed'
  BY <1>2 DEF FunnelInv, AllNamed, Named
<1>5. ASSUME late = 0
      PROVE  Holder(token, call', reqQ, exec, resQ)
  <2>1. Holder(token, call, reqQ, exec, resQ) /\ token \in Callers \union {"free"}
    BY <1>5 DEF FunnelInv, TokenInv, FunnelTypes
  <2>2. token # "free" => token \in Callers \ {c} /\ call'[token] = call[token]
    BY <1>2, <2>1 DEF Holder
  <2>3. \A d \in Callers : call'[d].st = "wait" => token = d
    BY <1>2, <2>1 DEF Holder
  <2>4. \A d \in Callers : call'[d].st = "done" => call'[d].of = call'[d].id
    BY <1>2, <2>1 DEF Holder
  <2> QED
    BY <2>1, <2>2, <2>3, <2>4 DEF Holder
<1> QED
  BY <1>3, <1>4, <1>5 DEF FunnelInv, TokenInv

LEMMA TakeTokenKeeps ==
    ASSUME FunnelInv, NEW c \in Callers, TakeToken(c)
    PROVE  FunnelInv'
<1> DEFINE r == [id |-> call[c].id, by |-> c, op |-> call[c].op, path |-> call[c].path]
<1>1. /\ call[c].st = "token" /\ token = "free" /\ UNCHANGED <<calls, late, resQ, exec>>
  BY DEF TakeToken, TokenFree
<1>2. CASE reqQ # <<>>
  <2>1. call' = Returned(c, "fail", call[c].id) /\ UNCHANGED <<reqQ, token>>
    BY <1>2 DEF TakeToken
  <2> QED
    BY <1>1, <2>1, FailKeeps
<1>3. CASE reqQ = <<>>
  <2>1. reqQ' = <<r>> /\ call' = [call EXCEPT ![c].st = "wait"] /\ token' = c
    BY <1>3 DEF TakeToken
  <2>2. call \in [Callers -> CallSet]
    BY DEF FunnelInv, FunnelTypes
  <2>3. call[c].id \in Nat \ {0} /\ call[c].op \in OpNames /\ call[c].path \in Paths
    BY <1>1, <2>2, CallIs DEF FunnelInv, AllNamed, Named
  <2>4. r \in RequestSet /\ Asks(r, call[c])
    BY <2>3 DEF RequestSet, Asks
  <2>5. /\ call' \in [Callers -> CallSet] /\ call'[c].st = "wait"
        /\ call'[c].id = call[c].id /\ call'[c].op = call[c].op /\ call'[c].path = call[c].path
        /\ \A d \in Callers \ {c} : call'[d] = call[d]
    BY <2>1, <2>2 DEF CallSet
  <2> HIDE DEF r
  <2>6. reqQ' \in OneOf(RequestSet) /\ reqQ'[1] = r /\ reqQ' # <<>>
    BY <2>1, <2>4, OneFull
  <2>7. FunnelTypes'
    BY <1>1, <2>1, <2>5, <2>6 DEF FunnelInv, FunnelTypes
  <2>8. AllNamed'
    BY <1>1, <2>3, <2>5 DEF FunnelInv, AllNamed, Named
  <2>9. ASSUME late = 0
        PROVE  Holder(token', call', reqQ', exec, resQ)
    <3>1. Holder("free", call, reqQ, exec, resQ) /\ "free" \notin Callers
      BY <1>1, <2>9, FunnelAssumption DEF FunnelInv, TokenInv
    <3>2. exec = NoReq /\ resQ = <<>> /\ \A d \in Callers : call[d].st # "wait"
      BY <3>1 DEF Holder
    <3>3. \A d \in Callers : call'[d].st = "wait" => c = d
      BY <2>5, <3>2
    <3>4. \A d \in Callers : call'[d].st = "done" => call'[d].of = call'[d].id
      BY <2>5, <3>1 DEF Holder
    <3>5. Asks(reqQ'[1], call'[c])
      BY <2>4, <2>5, <2>6 DEF Asks
    <3> QED
      BY <2>1, <2>5, <3>1, <3>2, <3>3, <3>4, <3>5 DEF Holder
  <2> QED
    BY <1>1, <2>7, <2>8, <2>9 DEF FunnelInv, TokenInv
<1> QED
  BY <1>2, <1>3

LEMMA TakeResultKeeps ==
    ASSUME FunnelInv, NEW c \in Callers, TakeResult(c)
    PROVE  FunnelInv'
<1>1. /\ call[c].st = "wait" /\ resQ # <<>> /\ call' = Returned(c, Head(resQ).res, Head(resQ).id)
      /\ resQ' = <<>> /\ token' = "free" /\ UNCHANGED <<calls, late, reqQ, exec>>
  BY DEF TakeResult
<1>2. call \in [Callers -> CallSet] /\ resQ \in OneOf(ResultSet)
  BY DEF FunnelInv, FunnelTypes
<1>3. Head(resQ) = resQ[1] /\ Head(resQ) \in ResultSet
  BY <1>1, <1>2, OneShape
<1>4. Head(resQ).res \in Outcome /\ Head(resQ).id \in Nat
  BY <1>3 DEF ResultSet
<1>5. /\ call' \in [Callers -> CallSet] /\ call'[c].st = "done" /\ call'[c].of = Head(resQ).id
      /\ call'[c].id = call[c].id /\ call'[c].op = call[c].op /\ call'[c].path = call[c].path
      /\ \A d \in Callers \ {c} : call'[d] = call[d]
  BY <1>1, <1>2, <1>4, ReturnedIs
<1>6. FunnelTypes'
  BY <1>1, <1>5, OneEmpty DEF FunnelInv, FunnelTypes
<1>7. AllNamed'
  BY <1>1, <1>5 DEF FunnelInv, AllNamed, Named
<1>8. ASSUME late = 0
      PROVE  Holder("free", call', reqQ, exec, <<>>)
  <2>1. Holder(token, call, reqQ, exec, resQ)
    BY <1>8 DEF FunnelInv, TokenInv
  <2>2. token = c /\ reqQ = <<>> /\ exec = NoReq /\ resQ[1].id = call[c].id
    BY <1>1, <2>1 DEF Holder
  <2>3. \A d \in Callers : call'[d].st # "wait"
    BY <1>5, <2>1, <2>2 DEF Holder
  <2>4. \A d \in Callers : call'[d].st = "done" => call'[d].of = call'[d].id
    BY <1>3, <1>5, <2>1, <2>2 DEF Holder
  <2> QED
    BY <2>2, <2>3, <2>4 DEF Holder
<1> QED
  BY <1>1, <1>6, <1>7, <1>8 DEF FunnelInv, TokenInv

LEMMA GiveUpKeeps ==
    ASSUME FunnelInv, NEW c \in Callers, GiveUp(c)
    PROVE  FunnelInv'
<1>1. call' = Returned(c, "fail", call[c].id) /\ UNCHANGED <<calls, reqQ, resQ, exec>>
  BY DEF GiveUp
<1>2. CASE call[c].st = "token" /\ UNCHANGED <<token, late>>
  BY <1>1, <1>2, FailKeeps
<1>3. CASE call[c].st = "wait" /\ token' = "free" /\ late' = late + 1
  <2>1. call \in [Callers -> CallSet] /\ call[c].id \in Nat /\ "fail" \in Outcome /\ late \in Nat
    BY CallIs DEF FunnelInv, FunnelTypes, Outcome
  <2>2. /\ call' \in [Callers -> CallSet] /\ call'[c].st = "done"
        /\ call'[c].id = call[c].id /\ call'[c].op = call[c].op /\ call'[c].path = call[c].path
        /\ \A d \in Callers \ {c} : call'[d] = call[d]
    BY <1>1, <2>1, ReturnedIs
  <2>3. late' \in Nat /\ late' # 0
    BY <1>3, <2>1
  <2>4. FunnelTypes'
    BY <1>1, <1>3, <2>2, <2>3 DEF FunnelInv, FunnelTypes
  <2>5. AllNamed'
    BY <1>3, <2>2 DEF FunnelInv, AllNamed, Named
  <2> QED
    BY <2>3, <2>4, <2>5 DEF FunnelInv, TokenInv
<1> QED
  BY <1>2, <1>3 DEF GiveUp

LEMMA SyncPopKeeps == FunnelInv /\ SyncPop => FunnelInv'
<1> SUFFICES ASSUME FunnelInv, SyncPop PROVE FunnelInv'
  OBVIOUS
<1>1. /\ exec = NoReq /\ reqQ # <<>> /\ exec' = Head(reqQ) /\ reqQ' = <<>>
      /\ UNCHANGED <<token, call, calls, late, resQ>>
  BY DEF SyncPop
<1>2. Head(reqQ) = reqQ[1] /\ Head(reqQ) \in RequestSet
  BY <1>1, OneShape DEF FunnelInv, FunnelTypes
<1>3. FunnelTypes'
  BY <1>1, <1>2, OneEmpty DEF FunnelInv, FunnelTypes
<1>4. AllNamed'
  BY <1>1 DEF FunnelInv, AllNamed
<1>5. ASSUME late = 0
      PROVE  Holder(token, call, <<>>, exec', resQ)
  <2>1. Holder(token, call, reqQ, exec, resQ)
    BY <1>5 DEF FunnelInv, TokenInv
  <2> QED
    BY <1>1, <1>2, <2>1 DEF Holder
<1> QED
  BY <1>1, <1>3, <1>4, <1>5 DEF FunnelInv, TokenInv

\* Executing a request answers it.
LEMMA ExecReplies ==
    SyncExec => /\ exec # NoReq /\ exec' = NoReq /\ UNCHANGED <<token, call, calls, late, reqQ>>
                /\ \E r \in Outcome : Reply(r)
<1> SUFFICES ASSUME SyncExec
             PROVE  \E r \in Outcome : Reply(r)
  BY DEF SyncExec
<1>1. "ok" \in Outcome /\ "fail" \in Outcome /\ "end" \in Outcome
  BY DEF Outcome
<1>2. \/ ExecRead(exec.path) \/ ExecReplace(exec.path) \/ ExecOther(exec.op)
  BY DEF SyncExec
<1>3. CASE ExecRead(exec.path)
  BY <1>1, <1>3 DEF ExecRead
<1>4. CASE ExecReplace(exec.path)
  <2>1. Reply("ok") \/ Reply("fail")
    BY <1>4 DEF ExecReplace
  <2> QED
    BY <1>1, <2>1
<1>5. CASE ExecOther(exec.op)
  <2>1. Reply("ok") \/ Reply("fail") \/ Reply("end")
    BY <1>5 DEF ExecOther
  <2> QED
    BY <1>1, <2>1
<1> QED
  BY <1>2, <1>3, <1>4, <1>5

LEMMA SyncExecKeeps == FunnelInv /\ SyncExec => FunnelInv'
<1> SUFFICES ASSUME FunnelInv, SyncExec PROVE FunnelInv'
  OBVIOUS
<1>1. exec # NoReq /\ exec' = NoReq /\ UNCHANGED <<token, call, calls, late, reqQ>>
  BY ExecReplies
<1>2. PICK r \in Outcome : Reply(r)
  BY ExecReplies
<1> DEFINE a == [res |-> r, id |-> exec.id]
<1>3. exec \in RequestSet
  BY <1>1 DEF FunnelInv, FunnelTypes
<1>4. a \in ResultSet /\ a.id = exec.id
  BY <1>2, <1>3, RequestIs DEF ResultSet
<1>5. resQ' = IF resQ = <<>> THEN <<a>> ELSE resQ
  BY <1>2 DEF Reply
<1> HIDE DEF a
<1>6. resQ' \in OneOf(ResultSet)
  BY <1>4, <1>5, OneFull DEF FunnelInv, FunnelTypes
<1>7. FunnelTypes'
  BY <1>1, <1>6 DEF FunnelInv, FunnelTypes
<1>8. AllNamed'
  BY <1>1 DEF FunnelInv, AllNamed
<1>9. ASSUME late = 0
      PROVE  Holder(token, call, reqQ, NoReq, resQ')
  <2>1. Holder(token, call, reqQ, exec, resQ)
    BY <1>9 DEF FunnelInv, TokenInv
  <2>2. token # "free" /\ reqQ = <<>> /\ resQ = <<>> /\ exec.id = call[token].id
    BY <1>1, <2>1 DEF Holder, Asks
  <2>3. resQ'[1].id = call[token].id
    BY <1>4, <1>5, <2>2, OneFull
  <2> QED
    BY <2>1, <2>2, <2>3 DEF Holder
<1> QED
  BY <1>1, <1>7, <1>8, <1>9 DEF FunnelInv, TokenInv

LEMMA FunnelSame == FunnelInv /\ UNCHANGED funnelVars => FunnelInv'
<1> SUFFICES ASSUME FunnelInv, UNCHANGED funnelVars PROVE FunnelInv'
  OBVIOUS
<1>1. UNCHANGED <<token, call, calls, late, reqQ, resQ, exec>>
  BY DEF funnelVars
<1> QED
  BY <1>1 DEF FunnelInv, FunnelTypes, AllNamed, TokenInv

\* Nobody calls.
LEMMA QuietHolder ==
    ASSUME NEW k, k = [c \in Callers |-> NoCall]
    PROVE  /\ k \in [Callers -> CallSet] /\ \A c \in Callers : k[c].st = "idle"
           /\ Holder("free", k, <<>>, NoReq, <<>>)
<1>1. NoCall \in CallSet /\ NoCall.st = "idle"
  BY DEF NoCall, CallSet
<1> QED
  BY <1>1 DEF Holder

LEMMA FunnelReset == FunnelInv /\ SvcReset => FunnelInv'
<1> SUFFICES ASSUME FunnelInv, SvcReset PROVE FunnelInv'
  OBVIOUS
<1>1. /\ token' = "free" /\ call' = [c \in Callers |-> NoCall] /\ reqQ' = <<>> /\ resQ' = <<>>
      /\ exec' = NoReq /\ UNCHANGED <<calls, late>>
  BY DEF SvcReset
<1> QED
  BY <1>1, QuietHolder, OneEmpty DEF FunnelInv, FunnelTypes, AllNamed, Named, TokenInv

LEMMA FunnelStart == SvcInit => FunnelInv
<1> SUFFICES ASSUME SvcInit PROVE FunnelInv
  OBVIOUS
<1>1. /\ token = "free" /\ call = [c \in Callers |-> NoCall] /\ reqQ = <<>> /\ resQ = <<>>
      /\ exec = NoReq /\ calls = 0 /\ late = 0
  BY DEF SvcInit
<1> QED
  BY <1>1, QuietHolder, OneEmpty DEF FunnelInv, FunnelTypes, AllNamed, Named, TokenInv

(* The handles. *)

HandleTypes ==
    /\ rfd \in FdSet /\ wfd \in FdSet
    /\ replaced \in [Paths -> Nat] /\ lane \in Seq(Paths)

\* Handle h is on the file there is, or on one that a save replaced.
Present(h, rep) == h # NoFd /\ h.made # rep[h.path] => h.path \in {"pid", "cal"}
Apart(r, w) == r.path = w.path => r = NoFd

HandleInv == HandleTypes /\ HandlesApart

LEMMA HandlesAre == HandlesApart <=> Apart(rfd, wfd) /\ Present(rfd, replaced) /\ Present(wfd, replaced)
  BY DEF HandlesApart, Apart, Present

LEMMA HandlesWillBe ==
    HandlesApart' <=> Apart(rfd', wfd') /\ Present(rfd', replaced') /\ Present(wfd', replaced')
  BY DEF HandlesApart, Apart, Present

LEMMA NoFdIs == NoFd \in FdSet /\ NoFd.path \notin Paths /\ \A rep : Present(NoFd, rep)
  BY FunnelAssumption DEF NoFd, FdSet, Present

LEMMA FdIs ==
    ASSUME replaced \in [Paths -> Nat], NEW p \in Paths
    PROVE  Fd(p) \in FdSet /\ Fd(p).path = p /\ Fd(p) # NoFd /\ Present(Fd(p), replaced)
<1>1. Fd(p).path = p /\ Fd(p).made = replaced[p] /\ Fd(p) \in FdSet
  BY DEF Fd, FdSet
<1>2. Fd(p) # NoFd
  BY <1>1, NoFdIs
<1> QED
  BY <1>1, <1>2 DEF Present

LEMMA OnFile ==
    ASSUME NEW h \in FdSet
    PROVE  h = NoFd \/ (h.path \in Paths /\ h.made \in Nat /\ h.path # NoFd.path)
<1>1. h = NoFd \/ h \in [path : Paths, made : Nat]
  BY DEF FdSet
<1> QED
  BY <1>1, NoFdIs

LEMMA WithoutIs ==
    ASSUME NEW h \in FdSet, NEW p \in Paths
    PROVE  /\ Without(h, p) \in FdSet /\ Without(h, p).path # p
           /\ Without(h, p) \in {h, NoFd}
           /\ \A rep : Present(h, rep) => Present(Without(h, p), rep)
  BY NoFdIs DEF Without

LEMMA ExecReadHandles ==
    ASSUME HandleInv, NEW p \in Paths, ExecRead(p)
    PROVE  HandlesApart' /\ rfd' \in FdSet /\ wfd' \in FdSet /\ replaced' = replaced
<1>1. /\ rfd \in FdSet /\ wfd \in FdSet /\ replaced \in [Paths -> Nat]
      /\ Apart(rfd, wfd) /\ Present(rfd, replaced) /\ Present(wfd, replaced)
  BY HandlesAre DEF HandleInv, HandleTypes
<1>2. /\ wfd' = IF rfd.path = p THEN wfd ELSE Without(wfd, p)
      /\ rfd' \in {IF rfd.path = p THEN rfd ELSE Fd(p), NoFd} /\ replaced' = replaced
  BY DEF ExecRead
<1>3. CASE rfd' = NoFd
  <2>1. wfd' \in FdSet /\ Present(wfd', replaced)
    BY <1>1, <1>2, WithoutIs
  <2>2. Apart(rfd', wfd')
    BY <1>3 DEF Apart
  <2> QED
    BY <1>2, <1>3, <2>1, <2>2, NoFdIs, HandlesWillBe
<1>4. CASE rfd.path = p /\ rfd' = rfd
  BY <1>1, <1>2, <1>4, HandlesWillBe
<1>5. CASE rfd.path # p /\ rfd' = Fd(p)
  <2>1. wfd' = Without(wfd, p)
    BY <1>2, <1>5
  <2>2. wfd' \in FdSet /\ wfd'.path # p /\ Present(wfd', replaced)
    BY <1>1, <2>1, WithoutIs
  <2>3. rfd' \in FdSet /\ rfd'.path = p /\ Present(rfd', replaced)
    BY <1>1, <1>5, FdIs
  <2>4. Apart(rfd', wfd')
    BY <2>2, <2>3 DEF Apart
  <2> QED
    BY <1>2, <2>2, <2>3, <2>4, HandlesWillBe
<1> QED
  BY <1>2, <1>3, <1>4, <1>5

LEMMA ExecReplaceHandles ==
    ASSUME HandleInv, NEW p \in Paths, ExecReplace(p)
    PROVE  HandlesApart' /\ rfd' \in FdSet /\ wfd' \in FdSet /\ replaced' \in [Paths -> Nat]
<1>1. /\ rfd \in FdSet /\ wfd \in FdSet /\ replaced \in [Paths -> Nat]
      /\ Apart(rfd, wfd) /\ Present(rfd, replaced) /\ Present(wfd, replaced)
  BY HandlesAre DEF HandleInv, HandleTypes
<1>2. rfd' = Without(rfd, p) /\ wfd' = Without(wfd, p)
  BY DEF ExecReplace
<1>3. /\ rfd' \in FdSet /\ rfd'.path # p /\ rfd' \in {rfd, NoFd} /\ Present(rfd', replaced)
      /\ wfd' \in FdSet /\ wfd'.path # p /\ wfd' \in {wfd, NoFd} /\ Present(wfd', replaced)
  BY <1>1, <1>2, WithoutIs
<1>4. replaced' \in [Paths -> Nat] /\ \A q \in Paths \ {p} : replaced'[q] = replaced[q]
  BY <1>1 DEF ExecReplace
<1>5. Present(rfd', replaced')
  BY <1>3, <1>4, OnFile DEF Present
<1>6. Present(wfd', replaced')
  BY <1>3, <1>4, OnFile DEF Present
<1>7. Apart(rfd', wfd')
  BY <1>1, <1>3, OnFile DEF Apart
<1> QED
  BY <1>3, <1>4, <1>5, <1>6, <1>7, HandlesWillBe

LEMMA HandlesExec == HandleInv /\ FunnelInv /\ SyncExec => HandleInv'
<1> SUFFICES ASSUME HandleInv, FunnelInv, SyncExec PROVE HandleInv'
  OBVIOUS
<1>1. exec.path \in Paths /\ lane' = lane
  BY RequestIs DEF SyncExec, FunnelInv, FunnelTypes
<1>2. ExecRead(exec.path) \/ ExecReplace(exec.path) \/ ExecOther(exec.op)
  BY DEF SyncExec
<1>3. CASE ExecRead(exec.path)
  BY <1>1, <1>3, ExecReadHandles DEF HandleInv, HandleTypes
<1>4. CASE ExecReplace(exec.path)
  BY <1>1, <1>4, ExecReplaceHandles DEF HandleInv, HandleTypes
<1>5. CASE ExecOther(exec.op)
  <2>1. UNCHANGED <<rfd, wfd, replaced>>
    BY <1>5 DEF ExecOther
  <2> QED
    BY <1>1, <2>1 DEF HandleInv, HandleTypes, HandlesApart
<1> QED
  BY <1>2, <1>3, <1>4, <1>5

LEMMA HandlesIdle ==
    ASSUME HandleInv, rfd' \in {rfd, NoFd}, wfd' \in {wfd, NoFd}, UNCHANGED <<replaced, lane>>
    PROVE  HandleInv'
<1>1. /\ rfd \in FdSet /\ wfd \in FdSet
      /\ Apart(rfd, wfd) /\ Present(rfd, replaced) /\ Present(wfd, replaced)
  BY HandlesAre DEF HandleInv, HandleTypes
<1>2. /\ rfd' \in FdSet /\ wfd' \in FdSet
      /\ Present(rfd', replaced) /\ Present(wfd', replaced)
  BY <1>1, NoFdIs
<1>3. Apart(rfd', wfd')
  BY <1>1, OnFile DEF Apart
<1> QED
  BY <1>2, <1>3, HandlesWillBe DEF HandleInv, HandleTypes

LEMMA WriteAtHandles ==
    ASSUME HandleInv, NEW p \in Paths, WriteAt(p), replaced' = replaced
    PROVE  HandlesApart' /\ rfd' \in FdSet /\ wfd' \in FdSet
<1>1. /\ rfd \in FdSet /\ wfd \in FdSet /\ replaced \in [Paths -> Nat]
      /\ Apart(rfd, wfd) /\ Present(rfd, replaced) /\ Present(wfd, replaced)
  BY HandlesAre DEF HandleInv, HandleTypes
<1>2. /\ rfd' = IF wfd.path = p THEN rfd ELSE Without(rfd, p)
      /\ wfd' \in {IF wfd.path = p THEN wfd ELSE NoFd, Fd(p)}
        \/ wfd' = IF wfd.path = p THEN wfd ELSE Fd(p)
  BY DEF WriteAt
<1>3. rfd' \in FdSet /\ rfd' \in {rfd, NoFd} /\ Present(rfd', replaced)
  BY <1>1, <1>2, WithoutIs
<1>4. CASE wfd' = wfd /\ wfd.path = p
  BY <1>1, <1>2, <1>4, replaced' = replaced, HandlesWillBe
<1>5. CASE wfd' = NoFd /\ wfd.path # p
  <2>1. Apart(rfd', wfd')
    BY <1>3, <1>5, OnFile DEF Apart
  <2> QED
    BY <1>3, <1>5, <2>1, NoFdIs, HandlesWillBe
<1>6. CASE wfd' = Fd(p)
  <2>1. wfd' \in FdSet /\ wfd'.path = p /\ Present(wfd', replaced)
    BY <1>1, <1>6, FdIs
  <2>2. rfd'.path # p \/ rfd' = NoFd
    <3>1. CASE wfd.path = p
      BY <1>1, <1>2, <3>1 DEF Apart
    <3>2. CASE wfd.path # p
      BY <1>1, <1>2, <3>2, WithoutIs
    <3> QED
      BY <3>1, <3>2
  <2>3. Apart(rfd', wfd')
    BY <2>1, <2>2 DEF Apart
  <2> QED
    BY <1>3, <2>1, <2>3, HandlesWillBe
<1> QED
  BY <1>2, <1>4, <1>5, <1>6

LEMMA WritesHandles == HandleInv /\ Writes => HandleInv'
<1> SUFFICES ASSUME HandleInv, Writes PROVE HandleInv'
  OBVIOUS
<1>1. replaced' = replaced /\ lane \in Seq(Paths)
  BY DEF Writes, HandleInv, HandleTypes
<1>2. CASE lane # <<>>
  <2>1. WriteAt(Head(lane)) /\ lane' = Tail(lane)
    BY <1>2 DEF Writes
  <2>2. Head(lane) \in Paths /\ Tail(lane) \in Seq(Paths)
    BY <1>1, <1>2
  <2> QED
    BY <1>1, <2>1, <2>2, WriteAtHandles DEF HandleInv, HandleTypes
<1>3. CASE lane = <<>>
  <2>1. wfd' \in {wfd, NoFd} /\ UNCHANGED <<rfd, lane>>
    BY <1>3 DEF Writes
  <2> QED
    BY <1>1, <2>1, HandlesIdle
<1> QED
  BY <1>2, <1>3

\* A save replaces its file under the handles.
LEMMA SaveHandles == HandleInv /\ CfgInv /\ SaveOpen => HandleInv'
<1> SUFFICES ASSUME HandleInv, CfgInv, SaveOpen PROVE HandleInv'
  OBVIOUS
<1>1. UNCHANGED <<rfd, wfd, lane>>
  BY DEF SaveOpen, SvcRest
<1>2. CASE UNCHANGED replaced
  BY <1>1, <1>2 DEF HandleInv, HandleTypes, HandlesApart
<1>3. CASE replaced' = [p \in Paths |-> replaced[p] + IF p = saving.store THEN 1 ELSE 0]
  <2>1. saving.store \in {"pid", "cal"}
    <3>1. saving \in Writable
      BY DEF SaveOpen, CfgInv, CfgTypes
    <3> QED
      BY <3>1, SnapshotOf DEF Writable, Stores
  <2>2. /\ rfd \in FdSet /\ wfd \in FdSet /\ replaced \in [Paths -> Nat]
        /\ Apart(rfd, wfd) /\ Present(rfd, replaced) /\ Present(wfd, replaced)
    BY HandlesAre DEF HandleInv, HandleTypes
  <2>3. replaced' \in [Paths -> Nat]
    BY <1>3, <2>2
  <2>4. ASSUME NEW h \in FdSet, Present(h, replaced)
        PROVE  Present(h, replaced')
    BY <1>3, <2>1, <2>2, <2>4, OnFile DEF Present
  <2> QED
    BY <1>1, <2>2, <2>3, <2>4, HandlesWillBe DEF HandleInv, HandleTypes
<1> QED
  BY <1>2, <1>3 DEF SaveOpen

LEMMA HandlesSame == HandleInv /\ UNCHANGED handleVars => HandleInv'
  BY DEF HandleInv, HandleTypes, HandlesApart, handleVars

LEMMA EnqueueHandles ==
    ASSUME HandleInv, NEW p \in Paths, EnqueueWrite(p)
    PROVE  HandleInv'
<1>1. lane' = Append(lane, p) /\ UNCHANGED <<rfd, wfd, replaced>>
  BY DEF EnqueueWrite
<1>2. lane' \in Seq(Paths)
  BY <1>1 DEF HandleInv, HandleTypes
<1> QED
  BY <1>1, <1>2 DEF HandleInv, HandleTypes, HandlesApart

LEMMA HandlesReset == HandleInv /\ SvcReset => HandleInv'
<1> SUFFICES ASSUME HandleInv, SvcReset PROVE HandleInv'
  OBVIOUS
<1>1. rfd' = NoFd /\ wfd' = NoFd /\ lane' = <<>> /\ replaced' = replaced
  BY DEF SvcReset
<1> QED
  BY <1>1, NoFdIs, HandlesWillBe DEF HandleInv, HandleTypes, Apart

LEMMA HandlesStart == SvcInit => HandleInv
<1> SUFFICES ASSUME SvcInit PROVE HandleInv
  OBVIOUS
<1>1. rfd = NoFd /\ wfd = NoFd /\ lane = <<>> /\ replaced = [p \in Paths |-> 0]
  BY DEF SvcInit
<1> QED
  BY <1>1, NoFdIs, HandlesAre DEF HandleInv, HandleTypes, Apart

(* The queries. *)

\* Query j is the transfer task's work, whose call is k["xfer"]: only a listing
\* uses directories.
Serving(j, q, k) ==
    /\ j # "none" => q[j] = "new" /\ k["xfer"].st # "idle"
    /\ j = "list" => k["xfer"].op \in DirOps
    /\ \A c \in Callers : k[c].op \in DirOps => c = "xfer" /\ j = "list"

JobInv ==
    /\ query \in [Kinds -> {"off", "new"}] /\ job \in Kinds \union {"none"}
    /\ answers \in [Kinds -> Int]
    /\ \A k \in Kinds : answers[k] = IF query[k] = "off" THEN 0 ELSE 1
    /\ Serving(job, query, call)

\* The listing's call x has been executed: it is done, or its result is in rs
\* and it holds the token t.
Executed(x, t, rs) == x.st = "done" \/ (t = "xfer" /\ rs # <<>>)

\* The directories the listing has open during its call x.
Opened(x, t, rs) ==
    IF x.op = "opendir" THEN (IF Executed(x, t, rs) THEN 1 ELSE 0)
    ELSE IF x.op = "closedir" THEN (IF Executed(x, t, rs) THEN 0 ELSE 1)
    ELSE 1

\* On a card that works a directory is opened.
OpenWorks(x, t, rs) ==
    x.op = "opendir" => /\ x.st = "done" => x.res = "ok"
                        /\ t = "xfer" /\ rs # <<>> => rs[1].res = "ok"

Walk(j, x, t, rs, d) ==
    /\ j # "list" => d = 0
    /\ j = "list" => d = Opened(x, t, rs) /\ OpenWorks(x, t, rs)

DirInv ==
    /\ fails \in Nat /\ ("slow" \notin offered => late = 0)
    /\ "slow" \notin offered /\ fails = 0 => Walk(job, call["xfer"], token, resQ, dirs)

QueryInv == JobInv /\ DirInv
SvcInv == FunnelInv /\ HandleInv /\ QueryInv

LEMMA Names == "none" \notin Kinds /\ "list" \in Kinds /\ "none" \notin DirOps /\ "read" \notin DirOps
               /\ "truncate" \notin DirOps /\ "stat" \notin DirOps /\ "unlink" \notin DirOps
               /\ DirOps \subseteq OpNames
  BY DEF Kinds, DirOps, OpNames

\* The token, the results and the calls of other tasks are not the listing's.
LEMMA WalkBeside ==
    ASSUME NEW j, NEW x, NEW t, NEW rs, NEW d, Walk(j, x, t, rs, d),
           ~(t = "xfer" /\ rs # <<>>), NEW u, NEW qs, ~(u = "xfer" /\ qs # <<>>)
    PROVE  Walk(j, x, u, qs, d)
  BY DEF Walk, Opened, OpenWorks, Executed

\* What the holder of the token can say on a card that is not slow.
LEMMA NotSlow ==
    ASSUME FunnelInv, QueryInv, "slow" \notin offered, fails = 0
    PROVE  /\ late = 0 /\ Holder(token, call, reqQ, exec, resQ)
           /\ Walk(job, call["xfer"], token, resQ, dirs)
  BY DEF FunnelInv, TokenInv, QueryInv, DirInv

LEMMA QueriesSame ==
    ASSUME QueryInv, fails' \in {fails, fails + 1},
           UNCHANGED <<offered, late, job, call, token, resQ, dirs, query, answers>>
    PROVE  QueryInv'
<1>1. JobInv'
  BY DEF QueryInv, JobInv
<1>2. fails \in Nat /\ fails' \in Nat /\ (fails' = 0 => fails = 0)
  BY DEF QueryInv, DirInv
<1>3. DirInv'
  BY <1>2 DEF QueryInv, DirInv
<1> QED
  BY <1>1, <1>3 DEF QueryInv

\* A call moves on.
LEMMA JobMoves ==
    ASSUME JobInv, UNCHANGED <<query, job, answers>>,
           \A c \in Callers : call'[c].op = call[c].op /\ (call[c].st # "idle" => call'[c].st # "idle")
    PROVE  JobInv'
<1>1. Serving(job', query', call')
  BY FunnelAssumption DEF JobInv, Serving
<1> QED
  BY <1>1 DEF JobInv

LEMMA TakeTokenQueries ==
    ASSUME FunnelInv, QueryInv, NEW c \in Callers, TakeToken(c),
           UNCHANGED <<offered, fails, query, job, answers, dirs>>
    PROVE  QueryInv'
<1>1. /\ call \in [Callers -> CallSet] /\ call[c].id \in Nat /\ "fail" \in Outcome
      /\ call[c].st = "token" /\ token = "free" /\ UNCHANGED <<late, resQ>>
  BY CallIs DEF FunnelInv, FunnelTypes, Outcome, TakeToken, TokenFree
<1>2. /\ call'[c].op = call[c].op /\ call'[c].st # "idle"
      /\ \A d \in Callers \ {c} : call'[d] = call[d]
  <2>1. CASE call' = Returned(c, "fail", call[c].id)
    BY <1>1, <2>1, ReturnedIs
  <2>2. CASE call' = [call EXCEPT ![c].st = "wait"]
    BY <1>1, <2>2 DEF CallSet
  <2> QED
    BY <2>1, <2>2 DEF TakeToken
<1>3. JobInv'
  BY <1>2, JobMoves DEF QueryInv
<1>4. ASSUME "slow" \notin offered, fails = 0
      PROVE  Walk(job, call'["xfer"], token', resQ, dirs)
  <2>1. Holder(token, call, reqQ, exec, resQ) /\ Walk(job, call["xfer"], token, resQ, dirs)
    BY <1>4, NotSlow
  <2>2. reqQ = <<>> /\ resQ = <<>>
    BY <1>1, <2>1 DEF Holder
  <2>3. call' = [call EXCEPT ![c].st = "wait"]
    BY <2>2 DEF TakeToken
  <2>4. call'["xfer"].op = call["xfer"].op /\ call'["xfer"].res = call["xfer"].res
    BY <1>1, <2>3, FunnelAssumption DEF CallSet
  <2>5. call'["xfer"].st = "done" <=> call["xfer"].st = "done"
    BY <1>1, <2>3, FunnelAssumption DEF CallSet
  <2> QED
    BY <2>1, <2>2, <2>4, <2>5 DEF Walk, Opened, OpenWorks, Executed
<1>5. DirInv'
  BY <1>1, <1>4 DEF QueryInv, DirInv
<1> QED
  BY <1>3, <1>5 DEF QueryInv

LEMMA TakeResultQueries ==
    ASSUME FunnelInv, QueryInv, NEW c \in Callers, TakeResult(c),
           UNCHANGED <<offered, fails, query, job, answers, dirs>>
    PROVE  QueryInv'
<1>1. /\ call[c].st = "wait" /\ resQ # <<>> /\ call' = Returned(c, Head(resQ).res, Head(resQ).id)
      /\ resQ' = <<>> /\ token' = "free" /\ UNCHANGED late
  BY DEF TakeResult
<1>2. call \in [Callers -> CallSet] /\ resQ \in OneOf(ResultSet)
  BY DEF FunnelInv, FunnelTypes
<1>3. Head(resQ) = resQ[1] /\ Head(resQ) \in ResultSet
  BY <1>1, <1>2, OneShape
<1>4. Head(resQ).res \in Outcome /\ Head(resQ).id \in Nat
  BY <1>3 DEF ResultSet
<1>5. /\ call'[c].st = "done" /\ call'[c].res = resQ[1].res /\ call'[c].op = call[c].op
      /\ \A d \in Callers \ {c} : call'[d] = call[d]
  BY <1>1, <1>2, <1>3, <1>4, ReturnedIs
<1>6. JobInv'
  BY <1>5, JobMoves DEF QueryInv
<1>7. ASSUME "slow" \notin offered, fails = 0
      PROVE  Walk(job, call'["xfer"], "free", <<>>, dirs)
  <2>1. Holder(token, call, reqQ, exec, resQ) /\ Walk(job, call["xfer"], token, resQ, dirs)
    BY <1>7, NotSlow
  <2>2. token = c
    BY <1>1, <2>1 DEF Holder
  <2>3. CASE c = "xfer"
    BY <1>1, <1>5, <2>1, <2>2, <2>3 DEF Walk, Opened, OpenWorks, Executed
  <2>4. CASE c # "xfer"
    <3>1. call'["xfer"] = call["xfer"]
      BY <1>5, <2>4, FunnelAssumption
    <3> QED
      BY <2>1, <2>2, <2>4, <3>1, WalkBeside
  <2> QED
    BY <2>3, <2>4
<1>8. DirInv'
  BY <1>1, <1>7 DEF QueryInv, DirInv
<1> QED
  BY <1>6, <1>8 DEF QueryInv

LEMMA GiveUpQueries ==
    ASSUME FunnelInv, QueryInv, NEW c \in Callers, GiveUp(c),
           UNCHANGED <<offered, fails, query, job, answers, dirs>>
    PROVE  QueryInv'
<1>1. /\ call' = Returned(c, "fail", call[c].id) /\ "slow" \in offered
      /\ call[c].st \in {"token", "wait"}
  BY DEF GiveUp
<1>2. call \in [Callers -> CallSet] /\ call[c].id \in Nat /\ "fail" \in Outcome
  BY CallIs DEF FunnelInv, FunnelTypes, Outcome
<1>3. /\ call'[c].st = "done" /\ call'[c].op = call[c].op
      /\ \A d \in Callers \ {c} : call'[d] = call[d]
  BY <1>1, <1>2, ReturnedIs
<1>4. JobInv'
  BY <1>3, JobMoves DEF QueryInv
<1>5. DirInv'
  BY <1>1 DEF QueryInv, DirInv
<1> QED
  BY <1>4, <1>5 DEF QueryInv

LEMMA CallStepQueries ==
    ASSUME FunnelInv, QueryInv, NEW c \in Callers, CallStep(c)
    PROVE  QueryInv'
<1>1. UNCHANGED <<offered, fails, query, job, answers, dirs>>
  BY DEF CallStep, loopVars, queryVars
<1> QED
  BY <1>1, TakeTokenQueries, TakeResultQueries, GiveUpQueries DEF CallStep

LEMMA ClientQueries ==
    ASSUME FunnelInv, QueryInv, NEW c \in Callers, NEW p \in Paths, NEW o \in {"read", "truncate"},
           Client(c, o, p)
    PROVE  QueryInv'
<1>1. /\ call[c].st = "idle" /\ (c = "xfer" => job = "none") /\ call' = Issued(c, o, p)
      /\ UNCHANGED <<offered, fails, late, job, token, resQ, dirs, query, answers>>
  BY DEF Client, FreeTo, loopVars, queryVars
<1>2. call \in [Callers -> CallSet] /\ calls \in Nat /\ o \in OpNames /\ o \notin DirOps
  BY DEF FunnelInv, FunnelTypes, OpNames, DirOps
<1>3. /\ call'[c].st = "token" /\ call'[c].op = o
      /\ \A d \in Callers \ {c} : call'[d] = call[d]
  BY <1>1, <1>2, IssuedIs
<1>4. Serving(job, query, call')
  BY <1>1, <1>2, <1>3, FunnelAssumption DEF QueryInv, JobInv, Serving
<1>5. JobInv'
  BY <1>1, <1>4 DEF QueryInv, JobInv
<1>6. ASSUME "slow" \notin offered, fails = 0
      PROVE  Walk(job, call'["xfer"], token, resQ, dirs)
  <2>1. Walk(job, call["xfer"], token, resQ, dirs)
    BY <1>6, NotSlow
  <2>2. job = "list" => call'["xfer"] = call["xfer"]
    BY <1>1, <1>3, FunnelAssumption
  <2> QED
    BY <2>1, <2>2 DEF Walk
<1>7. DirInv'
  BY <1>1, <1>6 DEF QueryInv, DirInv
<1> QED
  BY <1>5, <1>7 DEF QueryInv

LEMMA ClientDoneQueries ==
    ASSUME FunnelInv, QueryInv, NEW c \in Callers, ClientDone(c)
    PROVE  QueryInv'
<1>1. /\ call[c].st = "done" /\ (c = "xfer" => job = "none") /\ call' = [call EXCEPT ![c] = NoCall]
      /\ UNCHANGED <<offered, fails, late, job, token, resQ, dirs, query, answers>>
  BY DEF ClientDone, loopVars, queryVars
<1>2. call \in [Callers -> CallSet] /\ NoCall.op \notin DirOps
  BY Names DEF FunnelInv, FunnelTypes, NoCall
<1>3. call'[c].op \notin DirOps /\ \A d \in Callers \ {c} : call'[d] = call[d]
  BY <1>1, <1>2
<1>4. Serving(job, query, call')
  BY <1>1, <1>2, <1>3, FunnelAssumption DEF QueryInv, JobInv, Serving
<1>5. JobInv'
  BY <1>1, <1>4 DEF QueryInv, JobInv
<1>6. ASSUME "slow" \notin offered, fails = 0
      PROVE  Walk(job, call'["xfer"], token, resQ, dirs)
  <2>1. Walk(job, call["xfer"], token, resQ, dirs)
    BY <1>6, NotSlow
  <2>2. job = "list" => call'["xfer"] = call["xfer"]
    BY <1>1, <1>3, FunnelAssumption
  <2> QED
    BY <2>1, <2>2 DEF Walk
<1>7. DirInv'
  BY <1>1, <1>6 DEF QueryInv, DirInv
<1> QED
  BY <1>5, <1>7 DEF QueryInv

LEMMA AskQueries ==
    ASSUME QueryInv, NEW k \in Kinds, Ask(k)
    PROVE  QueryInv'
<1>1. UNCHANGED <<offered, fails, late, job, call, token, resQ, dirs>>
  BY DEF Ask, loopVars, funnelVars
<1>2. CASE UNCHANGED <<query, answers>>
  <2>1. fails' \in {fails, fails + 1}
    BY <1>1
  <2> QED
    BY <1>1, <1>2, <2>1, QueriesSame
<1>3. CASE /\ query[k] = "off" /\ query' = [query EXCEPT ![k] = "new"]
           /\ answers' = [answers EXCEPT ![k] = @ + 1]
  <2>1. /\ query \in [Kinds -> {"off", "new"}] /\ answers \in [Kinds -> Int]
        /\ \A m \in Kinds : answers[m] = IF query[m] = "off" THEN 0 ELSE 1
        /\ job \in Kinds \union {"none"}
    BY DEF QueryInv, JobInv
  <2>2. query' \in [Kinds -> {"off", "new"}] /\ answers' \in [Kinds -> Int]
    BY <1>3, <2>1
  <2>3. \A m \in Kinds : answers'[m] = IF query'[m] = "off" THEN 0 ELSE 1
    <3>1. answers'[k] = 1 /\ query'[k] = "new"
      BY <1>3, <2>1
    <3>2. \A m \in Kinds \ {k} : answers'[m] = answers[m] /\ query'[m] = query[m]
      BY <1>3, <2>1
    <3> QED
      BY <2>1, <3>1, <3>2
  <2>4. Serving(job, query', call)
    BY <1>3, <2>1, Names DEF QueryInv, JobInv, Serving
  <2>5. JobInv'
    BY <1>1, <2>1, <2>2, <2>3, <2>4 DEF JobInv
  <2>6. DirInv'
    BY <1>1 DEF QueryInv, DirInv
  <2> QED
    BY <2>5, <2>6 DEF QueryInv
<1> QED
  BY <1>2, <1>3 DEF Ask

\* A query that is over was answered.
LEMMA AnsweredKeeps ==
    ASSUME QueryInv, NEW k \in Kinds, query[k] = "new", Answered(k)
    PROVE  /\ query' \in [Kinds -> {"off", "new"}] /\ answers' \in [Kinds -> Int]
           /\ \A m \in Kinds : answers'[m] = IF query'[m] = "off" THEN 0 ELSE 1
           /\ job' = "none"
<1>1. /\ query \in [Kinds -> {"off", "new"}] /\ answers \in [Kinds -> Int]
      /\ \A m \in Kinds : answers[m] = IF query[m] = "off" THEN 0 ELSE 1
  BY DEF QueryInv, JobInv
<1>2. /\ query' = [query EXCEPT ![k] = "off"] /\ answers' = [answers EXCEPT ![k] = @ - 1]
      /\ job' = "none"
  BY DEF Answered
<1>3. query' \in [Kinds -> {"off", "new"}] /\ answers' \in [Kinds -> Int]
  BY <1>1, <1>2
<1>4. answers'[k] = 0 /\ query'[k] = "off"
  BY <1>1, <1>2
<1>5. \A m \in Kinds \ {k} : answers'[m] = answers[m] /\ query'[m] = query[m]
  BY <1>1, <1>2
<1> QED
  BY <1>1, <1>2, <1>3, <1>4, <1>5

\* The transfer task's next call, o, for the query j.
LEMMA ServingNext ==
    ASSUME FunnelInv, JobInv, NEW j \in Kinds, query[j] = "new", NEW o \in OpNames,
           o \in DirOps <=> j = "list", job = j \/ (job = "none" /\ call["xfer"].st = "idle")
    PROVE  Serving(j, query, Issued("xfer", o, "hsl"))
<1>1. call \in [Callers -> CallSet] /\ calls \in Nat /\ "xfer" \in Callers /\ "hsl" \in Paths
  BY FunnelAssumption DEF FunnelInv, FunnelTypes
<1>2. /\ Issued("xfer", o, "hsl")["xfer"].st = "token" /\ Issued("xfer", o, "hsl")["xfer"].op = o
      /\ \A d \in Callers \ {"xfer"} : Issued("xfer", o, "hsl")[d] = call[d]
  BY <1>1, IssuedIs
<1> DEFINE k == Issued("xfer", o, "hsl")
<1> HIDE DEF k
<1>3. /\ k["xfer"].st = "token" /\ k["xfer"].op = o
      /\ \A d \in Callers \ {"xfer"} : k[d] = call[d]
  BY <1>2 DEF k
<1>4. \A c \in Callers : k[c].op \in DirOps => c = "xfer" /\ j = "list"
  BY <1>3 DEF JobInv, Serving
<1> QED
  BY <1>3, <1>4 DEF Serving, k

LEMMA StartQueryQueries ==
    ASSUME FunnelInv, QueryInv, NEW k \in Kinds, StartQuery(k)
    PROVE  QueryInv'
<1>1. /\ job = "none" /\ query[k] = "new" /\ call["xfer"].st = "idle"
      /\ UNCHANGED <<offered, fails, late, token, resQ, dirs>>
  BY DEF StartQuery, loopVars
<1>2. CASE Answered(k) /\ UNCHANGED <<call, calls>>
  <2>1. /\ query' \in [Kinds -> {"off", "new"}] /\ answers' \in [Kinds -> Int]
        /\ \A m \in Kinds : answers'[m] = IF query'[m] = "off" THEN 0 ELSE 1
        /\ job' = "none"
    BY <1>1, <1>2, AnsweredKeeps
  <2>2. Serving("none", query', call')
    BY <1>1, <1>2 DEF QueryInv, JobInv, Serving
  <2>3. JobInv'
    BY <2>1, <2>2 DEF JobInv
  <2>4. DirInv'
    BY <1>1, <1>2, <2>1 DEF QueryInv, DirInv
  <2> QED
    BY <2>3, <2>4 DEF QueryInv
<1>3. CASE /\ job' = k /\ call' = Issued("xfer", FirstOp(k), "hsl")
           /\ UNCHANGED <<query, answers>>
  <2>1. /\ FirstOp(k) \in OpNames /\ (FirstOp(k) \in DirOps <=> k = "list")
        /\ (k = "list" => FirstOp(k) = "opendir")
    BY DEF FirstOp, OpNames, DirOps
  <2>2. Serving(k, query, call')
    BY <1>1, <1>3, <2>1, ServingNext DEF QueryInv
  <2>3. JobInv'
    BY <1>3, <2>2 DEF QueryInv, JobInv
  <2>4. call'["xfer"].st = "token" /\ call'["xfer"].op = FirstOp(k)
    BY <1>3, <2>1, IssuedIs, FunnelAssumption DEF FunnelInv, FunnelTypes
  <2>5. ASSUME "slow" \notin offered, fails = 0
        PROVE  Walk(k, call'["xfer"], token, resQ, dirs)
    <3>1. Holder(token, call, reqQ, exec, resQ) /\ dirs = 0
      BY <1>1, <2>5, NotSlow DEF Walk
    <3>2. token # "xfer"
      BY <1>1, <3>1 DEF Holder
    <3> QED
      BY <2>1, <2>4, <3>1, <3>2 DEF Walk, Opened, OpenWorks, Executed
  <2>6. DirInv'
    BY <1>1, <1>3, <2>5 DEF QueryInv, DirInv
  <2> QED
    BY <2>3, <2>6 DEF QueryInv
<1> QED
  BY <1>2, <1>3 DEF StartQuery

LEMMA FollowUps ==
    ASSUME NEW k \in Kinds, NEW o, NEW r
    PROVE  LET n == FollowUp(k, o, r)
           IN  /\ n # "none" => n \in OpNames /\ (n \in DirOps <=> k = "list")
               /\ k = "list" /\ o = "opendir" => n = IF r = "ok" THEN "readdir" ELSE "none"
               /\ k = "list" /\ o = "readdir" => n = IF r = "ok" THEN "readdir" ELSE "closedir"
               /\ k = "list" /\ o = "closedir" => n = "none"
  BY DEF FollowUp, Kinds, OpNames, DirOps

LEMMA StepQueryQueries ==
    ASSUME FunnelInv, QueryInv, StepQuery
    PROVE  QueryInv'
<1> DEFINE x == call["xfer"]
           n == FollowUp(job, x.op, x.res)
<1>1. /\ job # "none" /\ x.st = "done"
      /\ UNCHANGED <<offered, fails, late, token, resQ, dirs>>
  BY DEF StepQuery, loopVars
<1>2. job \in Kinds /\ query[job] = "new" /\ Serving(job, query, call)
  BY <1>1 DEF QueryInv, JobInv, Serving
<1>3. call \in [Callers -> CallSet] /\ "xfer" \in Callers /\ "hsl" \in Paths /\ calls \in Nat
  BY FunnelAssumption DEF FunnelInv, FunnelTypes
<1>4. /\ n # "none" => n \in OpNames /\ (n \in DirOps <=> job = "list")
      /\ job = "list" /\ x.op = "opendir" => n = IF x.res = "ok" THEN "readdir" ELSE "none"
      /\ job = "list" /\ x.op = "readdir" => n = IF x.res = "ok" THEN "readdir" ELSE "closedir"
      /\ job = "list" /\ x.op = "closedir" => n = "none"
  BY <1>2, FollowUps
<1>5. job = "list" => x.op \in DirOps
  BY <1>2 DEF Serving
<1>6. \/ n = "none" /\ Answered(job) /\ call' = [call EXCEPT !["xfer"] = NoCall]
      \/ /\ n # "none" /\ call' = Issued("xfer", n, "hsl") /\ UNCHANGED <<query, job, answers>>
  BY DEF StepQuery
<1>7. ASSUME "slow" \notin offered, fails = 0
      PROVE  /\ job # "list" => dirs = 0
             /\ job = "list" => dirs = (IF x.op = "closedir" THEN 0 ELSE 1)
             /\ job = "list" /\ x.op = "opendir" => x.res = "ok"
             /\ token # "xfer"
  <2>1. Holder(token, call, reqQ, exec, resQ) /\ Walk(job, x, token, resQ, dirs)
    BY <1>7, NotSlow
  <2>2. token # "xfer"
    BY <1>1, <2>1, <1>3, FunnelAssumption DEF Holder
  <2> QED
    BY <1>1, <1>5, <2>1, <2>2 DEF Walk, Opened, OpenWorks, Executed, DirOps
<1> HIDE DEF n
<1>8. CASE n = "none" /\ Answered(job) /\ call' = [call EXCEPT !["xfer"] = NoCall]
  <2>1. /\ query' \in [Kinds -> {"off", "new"}] /\ answers' \in [Kinds -> Int]
        /\ \A m \in Kinds : answers'[m] = IF query'[m] = "off" THEN 0 ELSE 1
        /\ job' = "none"
    BY <1>2, <1>8, AnsweredKeeps
  <2>2. call'["xfer"] = NoCall /\ \A d \in Callers \ {"xfer"} : call'[d] = call[d]
    BY <1>3, <1>8
  <2>3. \A c \in Callers : call'[c].op \notin DirOps
    <3>1. NoCall.op \notin DirOps
      BY Names DEF NoCall
    <3> QED
      BY <1>2, <2>2, <3>1 DEF Serving
  <2>4. Serving("none", query', call')
    BY <2>3 DEF Serving
  <2>5. JobInv'
    BY <2>1, <2>4 DEF JobInv
  <2>6. ASSUME "slow" \notin offered, fails = 0
        PROVE  dirs = 0
    BY <1>4, <1>5, <1>7, <1>8, <2>6 DEF DirOps
  <2>7. DirInv'
    BY <1>1, <2>1, <2>6 DEF QueryInv, DirInv, Walk
  <2> QED
    BY <2>5, <2>7 DEF QueryInv
<1>9. CASE n # "none" /\ call' = Issued("xfer", n, "hsl") /\ UNCHANGED <<query, job, answers>>
  <2>1. Serving(job, query, call')
    BY <1>2, <1>4, <1>9, ServingNext DEF QueryInv
  <2>2. JobInv'
    BY <1>9, <2>1 DEF QueryInv, JobInv
  <2>3. call'["xfer"].st = "token" /\ call'["xfer"].op = n
    BY <1>3, <1>4, <1>9, IssuedIs
  <2>4. ASSUME "slow" \notin offered, fails = 0
        PROVE  Walk(job, call'["xfer"], token, resQ, dirs)
    <3>1. CASE job # "list"
      BY <1>7, <2>4, <3>1 DEF Walk
    <3>2. CASE job = "list"
      <4>1. n \in {"readdir", "closedir"} /\ x.op # "closedir"
        BY <1>4, <1>5, <1>9, <3>2 DEF DirOps
      <4>2. dirs = 1 /\ token # "xfer"
        BY <1>7, <2>4, <3>2, <4>1
      <4> QED
        BY <2>3, <3>2, <4>1, <4>2 DEF Walk, Opened, OpenWorks, Executed
    <3> QED
      BY <3>1, <3>2
  <2>5. DirInv'
    BY <1>1, <1>9, <2>4 DEF QueryInv, DirInv
  <2> QED
    BY <2>2, <2>5 DEF QueryInv
<1> QED
  BY <1>6, <1>8, <1>9

\* What an execution on a card that works does to the directories.
DirStep(o) == IF o = "opendir" THEN 1 ELSE IF o = "closedir" THEN -1 ELSE 0

LEMMA ExecDirs ==
    ASSUME SyncExec, fails \in Nat, dirs \in Int
    PROVE  /\ UNCHANGED <<offered, query, job, answers>>
           /\ fails' = fails \/ fails' = fails + 1
           /\ fails' = fails => /\ dirs' = dirs + DirStep(exec.op)
                                /\ exec.op = "opendir" => Reply("ok")
<1>1. UNCHANGED <<offered, query, job, answers>>
  BY DEF SyncExec, LogRest
<1>2. CASE exec.op = "read" /\ ExecRead(exec.path)
  BY <1>1, <1>2 DEF ExecRead, CardWorks, CardFails, DirStep
<1>3. CASE exec.op \in {"unlink", "truncate"} /\ ExecReplace(exec.path)
  BY <1>1, <1>3 DEF ExecReplace, CardWorks, CardFails, DirStep
<1>4. CASE exec.op \notin {"read", "unlink", "truncate"} /\ ExecOther(exec.op)
  <2>1. CASE CardWorks /\ Reply("ok") /\ dirs' = dirs + DirStep(exec.op)
    BY <1>1, <2>1 DEF CardWorks
  <2>2. CASE exec.op = "readdir" /\ CardWorks /\ dirs' = dirs
    BY <1>1, <2>2 DEF CardWorks, DirStep
  <2>3. CASE (IF Absent THEN CardWorks ELSE CardFails) /\ dirs' = dirs
    <3>1. CASE Absent
      BY <1>1, <2>3, <3>1 DEF Absent, CardWorks, DirStep
    <3>2. CASE CardFails
      BY <1>1, <2>3, <3>2 DEF CardFails
    <3> QED
      BY <2>3, <3>1, <3>2
  <2>4. ExecOther(exec.op)
        => \/ CardWorks /\ Reply("ok") /\ dirs' = dirs + DirStep(exec.op)
           \/ exec.op = "readdir" /\ CardWorks /\ dirs' = dirs
           \/ (IF Absent THEN CardWorks ELSE CardFails) /\ dirs' = dirs
    BY DEF ExecOther, DirStep
  <2> QED
    BY <1>4, <2>1, <2>2, <2>3, <2>4
<1> QED
  BY <1>2, <1>3, <1>4 DEF SyncExec

LEMMA SyncExecQueries ==
    ASSUME FunnelInv, QueryInv, SyncExec
    PROVE  QueryInv'
<1>1. exec # NoReq /\ exec' = NoReq /\ UNCHANGED <<token, call, calls, late, reqQ>>
  BY ExecReplies
<1>2. fails \in Nat /\ exec \in RequestSet
  BY <1>1 DEF FunnelInv, FunnelTypes, QueryInv, DirInv
<1>3. UNCHANGED <<query, job, answers, offered>>
  BY DEF SyncExec, LogRest
<1>4. JobInv'
  BY <1>1, <1>3 DEF QueryInv, JobInv
<1>5. fails' = fails \/ fails' = fails + 1
  BY DEF SyncExec, ExecRead, ExecReplace, ExecOther, CardWorks, CardFails
<1>6. ASSUME "slow" \notin offered, fails' = 0
      PROVE  Walk(job, call["xfer"], token, resQ', dirs')
  <2>1. fails = 0 /\ fails' = fails
    BY <1>2, <1>5, <1>6
  <2>2. Holder(token, call, reqQ, exec, resQ) /\ Walk(job, call["xfer"], token, resQ, dirs)
    BY <1>6, <2>1, NotSlow
  <2>3. token # "free" /\ resQ = <<>> /\ exec.op = call[token].op /\ call[token].st = "wait"
    BY <1>1, <2>2 DEF Holder, Asks
  <2>4. dirs \in Int
    BY <2>2 DEF Walk, Opened
  <2>5. dirs' = dirs + DirStep(exec.op) /\ (exec.op = "opendir" => Reply("ok"))
    BY <1>2, <2>1, <2>4, ExecDirs
  <2>6. token \in Callers /\ Serving(job, query, call)
    BY <2>3 DEF FunnelInv, FunnelTypes, QueryInv, JobInv
  <2>7. CASE token = "xfer" /\ job = "list"
    <3> DEFINE x == call["xfer"]
    <3>1. x.op = exec.op /\ x.st = "wait" /\ x.op \in DirOps
      BY <2>3, <2>6, <2>7 DEF Serving
    <3>2. dirs = Opened(x, token, <<>>)
      BY <2>2, <2>3, <2>7 DEF Walk
    <3>3. PICK r \in Outcome : Reply(r)
      BY ExecReplies
    <3>4. resQ' # <<>> /\ resQ'[1].res = r
      BY <2>3, <3>3 DEF Reply
    <3>5. x.op = "opendir" => resQ'[1].res = "ok"
      BY <2>3, <2>5, <3>1 DEF Reply
    <3> HIDE DEF x
    <3>6. Executed(x, token, resQ') /\ ~Executed(x, token, <<>>)
      BY <2>7, <3>1, <3>4 DEF Executed
    <3>7. dirs' = Opened(x, token, resQ')
      BY <2>5, <3>1, <3>2, <3>6 DEF Opened, DirStep, DirOps
    <3>8. OpenWorks(x, token, resQ')
      BY <3>1, <3>5 DEF OpenWorks
    <3> QED
      BY <2>7, <3>7, <3>8 DEF Walk, x
  <2>8. CASE ~(token = "xfer" /\ job = "list")
    <3>1. exec.op \notin DirOps
      BY <2>3, <2>6, <2>8 DEF Serving
    <3>2. dirs' = dirs
      BY <2>4, <2>5, <3>1 DEF DirStep, DirOps
    <3>3. CASE job # "list"
      BY <2>2, <3>2, <3>3 DEF Walk
    <3>4. CASE job = "list"
      BY <2>2, <2>3, <2>8, <3>2, <3>4, WalkBeside
    <3> QED
      BY <3>3, <3>4
  <2> QED
    BY <2>7, <2>8
<1>7. DirInv'
  BY <1>1, <1>2, <1>3, <1>5, <1>6 DEF QueryInv, DirInv
<1> QED
  BY <1>4, <1>7 DEF QueryInv

LEMMA ResetQueries == QueryInv /\ SvcReset /\ UNCHANGED <<offered, fails>> => QueryInv'
<1> SUFFICES ASSUME QueryInv, SvcReset, UNCHANGED <<offered, fails>> PROVE QueryInv'
  OBVIOUS
<1>1. /\ call' = [c \in Callers |-> NoCall] /\ query' = [k \in Kinds |-> "off"] /\ job' = "none"
      /\ answers' = [k \in Kinds |-> 0] /\ dirs' = 0 /\ late' = late
  BY DEF SvcReset
<1>2. NoCall.op \notin DirOps
  BY Names DEF NoCall
<1>3. Serving("none", query', call')
  BY <1>1, <1>2 DEF Serving
<1>4. JobInv'
  BY <1>1, <1>3 DEF JobInv
<1>5. DirInv'
  BY <1>1 DEF QueryInv, DirInv, Walk
<1> QED
  BY <1>4, <1>5 DEF QueryInv

LEMMA QueriesStart == LoopInit /\ SvcInit => QueryInv
<1> SUFFICES ASSUME LoopInit, SvcInit PROVE QueryInv
  OBVIOUS
<1>1. /\ call = [c \in Callers |-> NoCall] /\ query = [k \in Kinds |-> "off"] /\ job = "none"
      /\ answers = [k \in Kinds |-> 0] /\ dirs = 0 /\ late = 0 /\ fails = 0
  BY DEF SvcInit, LoopInit
<1>2. NoCall.op \notin DirOps
  BY Names DEF NoCall
<1>3. Serving("none", query, call)
  BY <1>1, <1>2 DEF Serving
<1>4. JobInv
  BY <1>1, <1>3 DEF JobInv
<1>5. DirInv
  BY <1>1 DEF DirInv, Walk
<1> QED
  BY <1>4, <1>5 DEF QueryInv

LEMMA SvcImplies == SvcInv => CallsSettled
<1> SUFFICES ASSUME SvcInv PROVE CallsSettled
  OBVIOUS
<1>1. FunnelInv /\ HandleInv /\ JobInv /\ DirInv
  BY DEF SvcInv, QueryInv
<1>2. SvcTypeOK
  <2>1. \A c \in Callers : call[c].st \in {"idle", "token", "wait", "done"}
    BY <1>1, CallIs DEF FunnelInv, FunnelTypes
  <2>2. Len(reqQ) <= 1 /\ Len(resQ) <= 1
    <3>1. Len(reqQ) \in {0, 1} /\ Len(resQ) \in {0, 1}
      BY <1>1, OneShape DEF FunnelInv, FunnelTypes
    <3> QED
      BY <3>1
  <2>3. token \in Callers \union {"free"}
    BY <1>1 DEF FunnelInv, FunnelTypes
  <2>4. job \in Kinds \union {"none"} /\ \A k \in Kinds : query[k] \in {"off", "new"}
    BY <1>1 DEF JobInv
  <2> QED
    BY <2>1, <2>2, <2>3, <2>4 DEF SvcTypeOK
<1>3. SyncMatched
  BY <1>1 DEF SyncMatched, FunnelInv, TokenInv, Holder
<1>4. HandlesApart
  BY <1>1 DEF HandleInv
<1>5. QueriesSettled
  BY <1>1 DEF QueriesSettled, JobInv, DirInv, Walk
<1> QED
  BY <1>2, <1>3, <1>4, <1>5 DEF CallsSettled

(***************************************************************************)
(* 3. Storage.                                                             *)
(*                                                                         *)
(* The recorder and the producers only add to the count of faults.         *)
(***************************************************************************)
StoreInv == CfgInv /\ SvcInv

\* What a step that serves nobody else leaves.
Aside == offered' = offered /\ fails' \in {fails, fails + 1}

LEMMA RingWriteAside ==
    ASSUME NEW c, NEW how, NEW str, NEW kind, NEW data, NEW force,
           RingWrite(c, how, str, kind, data, force)
    PROVE  fails' \in {fails, fails + 1}
  BY DEF RingWrite, CardWorks, CardFails

LEMMA WriteSectorAside ==
    ASSUME NEW how, NEW s, NEW b, WriteSector(how, s, b)
    PROVE  fails' \in {fails, fails + 1}
  BY RingWriteAside DEF WriteSector

LEMMA RecorderAside == Recorder => Aside
<1>1. Tick => Aside
  BY DEF Tick, Rest, Aside
<1>2. FlushHead => Aside
  BY DEF FlushHead, Rest, Aside
<1>3. Decide => Aside
  BY DEF Decide, Rest, Aside
<1>4. SessionStart => Aside
  <2> SUFFICES ASSUME SessionStart PROVE Aside
    OBVIOUS
  <2>1. offered' = offered
    BY DEF SessionStart, Rest
  <2>2. fails' \in {fails, fails + 1}
    BY RingWriteAside DEF SessionStart, CardWorks, CardFails
  <2> QED
    BY <2>1, <2>2 DEF Aside
<1>5. Events => Aside
  BY RingWriteAside DEF Events, Rest, Aside
<1>6. Drain => Aside
  BY WriteSectorAside DEF Drain, Rest, Aside
<1>7. SessionStop => Aside
  BY DEF SessionStop, Rest, Aside
<1>8. StopQueue => Aside
  BY WriteSectorAside DEF StopQueue, Rest, Aside
<1>9. StopPartial => Aside
  BY WriteSectorAside DEF StopPartial, Rest, Aside
<1>10. StopClear => Aside
  BY DEF StopClear, Rest, Aside
<1>11. StopClose => Aside
  BY DEF StopClose, Rest, Aside, CardWorks, CardFails
<1> QED
  BY <1>1, <1>2, <1>3, <1>4, <1>5, <1>6, <1>7, <1>8, <1>9, <1>10, <1>11 DEF Recorder

LEMMA BootAside == BootInit => Aside
  BY DEF BootInit, Aside, CardWorks, CardFails

LEMMA ProducersAside == Producers => Aside
  BY DEF Producers, Sample, Text, Quiet, HoldEnds, Fly, Transfer, loopVars, Aside

LEMMA AsideKeeps == SvcInv /\ Aside /\ UNCHANGED svcVars => SvcInv'
<1> SUFFICES ASSUME SvcInv, Aside, UNCHANGED svcVars PROVE SvcInv'
  OBVIOUS
<1>1. UNCHANGED funnelVars /\ UNCHANGED handleVars /\ UNCHANGED queryVars
  BY DEF svcVars
<1>2. FunnelInv' /\ HandleInv'
  BY <1>1, FunnelSame, HandlesSame DEF SvcInv
<1>3. QueryInv'
  BY <1>1, QueriesSame DEF SvcInv, Aside, funnelVars, queryVars
<1> QED
  BY <1>2, <1>3 DEF SvcInv

LEMMA ServeKeeps == SvcInv /\ (Writes \/ SyncPop \/ SyncExec \/ SyncIdle) => SvcInv'
<1> SUFFICES ASSUME SvcInv, Writes \/ SyncPop \/ SyncExec \/ SyncIdle PROVE SvcInv'
  OBVIOUS
<1>1. FunnelInv /\ HandleInv /\ QueryInv
  BY DEF SvcInv
<1>2. CASE Writes
  <2>1. UNCHANGED funnelVars /\ UNCHANGED queryVars /\ offered' = offered
    BY <1>2 DEF Writes, LogRest
  <2>2. fails' \in {fails, fails + 1}
    BY <1>2 DEF Writes, WriteAt, CardWorks, CardFails
  <2>3. QueryInv'
    BY <1>1, <2>1, <2>2, QueriesSame DEF funnelVars, queryVars
  <2> QED
    BY <1>1, <1>2, <2>1, <2>3, FunnelSame, WritesHandles DEF SvcInv
<1>3. CASE SyncPop
  <2>1. UNCHANGED handleVars /\ UNCHANGED queryVars /\ offered' = offered /\ fails' \in {fails, fails + 1}
    BY <1>3 DEF SyncPop, LogRest
  <2>2. UNCHANGED <<late, call, token, resQ>>
    BY <1>3 DEF SyncPop
  <2>3. QueryInv'
    BY <1>1, <2>1, <2>2, QueriesSame DEF queryVars
  <2> QED
    BY <1>1, <1>3, <2>1, <2>3, SyncPopKeeps, HandlesSame DEF SvcInv
<1>4. CASE SyncExec
  BY <1>1, <1>4, SyncExecKeeps, HandlesExec, SyncExecQueries DEF SvcInv
<1>5. CASE SyncIdle
  <2>1. /\ UNCHANGED funnelVars /\ UNCHANGED queryVars /\ offered' = offered /\ fails' \in {fails, fails + 1}
        /\ rfd' \in {rfd, NoFd} /\ UNCHANGED <<wfd, replaced, lane>>
    BY <1>5 DEF SyncIdle, LogRest
  <2>2. QueryInv'
    BY <1>1, <2>1, QueriesSame DEF funnelVars, queryVars
  <2>3. HandleInv'
    BY <1>1, <2>1, HandlesIdle
  <2> QED
    BY <1>1, <2>1, <2>2, <2>3, FunnelSame DEF SvcInv
<1> QED
  BY <1>2, <1>3, <1>4, <1>5

LEMMA SaveSvc == StoreInv /\ (SavePop \/ SaveOpen \/ SaveWrite) => SvcInv'
<1> SUFFICES ASSUME StoreInv, SavePop \/ SaveOpen \/ SaveWrite PROVE SvcInv'
  OBVIOUS
<1>1. FunnelInv /\ HandleInv /\ QueryInv /\ CfgInv
  BY DEF StoreInv, SvcInv
<1>2. /\ UNCHANGED funnelVars /\ UNCHANGED queryVars /\ offered' = offered
      /\ UNCHANGED <<rfd, wfd, lane>>
  BY DEF SavePop, SaveOpen, SaveWrite, SvcRest
<1>3. fails' \in {fails, fails + 1}
  BY DEF SavePop, SaveOpen, SaveWrite, CardWorks, CardFails
<1>4. FunnelInv' /\ QueryInv'
  BY <1>1, <1>2, <1>3, FunnelSame, QueriesSame DEF funnelVars, queryVars
<1>5. CASE SaveOpen
  BY <1>1, <1>4, <1>5, SaveHandles DEF SvcInv
<1>6. CASE SavePop \/ SaveWrite
  <2>1. replaced' = replaced
    BY <1>6 DEF SavePop, SaveWrite
  <2>2. HandleInv'
    BY <1>1, <1>2, <2>1, HandlesIdle
  <2> QED
    BY <1>4, <2>2 DEF SvcInv
<1> QED
  BY <1>5, <1>6

LEMMA CallerKeeps ==
    ASSUME SvcInv, NEW c \in Callers, Caller(c)
    PROVE  SvcInv'
<1>1. FunnelInv /\ HandleInv /\ QueryInv
  BY DEF SvcInv
<1>2. CASE CallStep(c)
  <2>1. UNCHANGED handleVars
    BY <1>2 DEF CallStep
  <2>2. FunnelInv'
    BY <1>1, <1>2, TakeTokenKeeps, TakeResultKeeps, GiveUpKeeps DEF CallStep
  <2> QED
    BY <1>1, <1>2, <2>1, <2>2, HandlesSame, CallStepQueries DEF SvcInv
<1>3. CASE ClientDone(c)
  <2>1. UNCHANGED handleVars
    BY <1>3 DEF ClientDone
  <2>2. FunnelInv'
    BY <1>1, <1>3, ClearKeeps DEF ClientDone
  <2> QED
    BY <1>1, <1>3, <2>1, <2>2, HandlesSame, ClientDoneQueries DEF SvcInv
<1> QED
  BY <1>2, <1>3 DEF Caller

LEMMA ProgressKeeps == SvcInv /\ Progress => SvcInv'
<1> SUFFICES ASSUME SvcInv, Progress PROVE SvcInv'
  OBVIOUS
<1>1. FunnelInv /\ HandleInv /\ QueryInv
  BY DEF SvcInv
<1>2. "xfer" \in Callers /\ "hsl" \in Paths
  BY FunnelAssumption
<1>3. CASE StepQuery
  <2> DEFINE n == FollowUp(job, call["xfer"].op, call["xfer"].res)
  <2>1. /\ UNCHANGED handleVars /\ UNCHANGED <<token, late, reqQ, resQ, exec>>
        /\ job # "none" /\ call["xfer"].st = "done"
        /\ \/ call' = [call EXCEPT !["xfer"] = NoCall] /\ calls' = calls
           \/ n # "none" /\ call' = Issued("xfer", n, "hsl") /\ calls' = calls + 1
    BY <1>3 DEF StepQuery
  <2>2. n # "none" => n \in OpNames
    BY <1>1, <2>1, FollowUps DEF QueryInv, JobInv
  <2> HIDE DEF n
  <2>3. FunnelInv'
    BY <1>1, <1>2, <2>1, <2>2, ClearKeeps, IssueKeeps
  <2> QED
    BY <1>1, <1>3, <2>1, <2>3, HandlesSame, StepQueryQueries DEF SvcInv
<1>4. ASSUME NEW k \in Kinds, StartQuery(k)
      PROVE  SvcInv'
  <2>1. /\ UNCHANGED handleVars /\ UNCHANGED <<token, late, reqQ, resQ, exec>>
        /\ call["xfer"].st = "idle"
        /\ \/ UNCHANGED <<call, calls>>
           \/ call' = Issued("xfer", FirstOp(k), "hsl") /\ calls' = calls + 1
    BY <1>4 DEF StartQuery, handleVars
  <2>2. FirstOp(k) \in OpNames
    BY DEF FirstOp, OpNames
  <2>3. FunnelInv'
    BY <1>1, <1>2, <2>1, <2>2, FunnelSame, IssueKeeps DEF funnelVars
  <2> QED
    BY <1>1, <1>4, <2>1, <2>3, HandlesSame, StartQueryQueries DEF SvcInv
<1> QED
  BY <1>3, <1>4, CallerKeeps DEF Progress

LEMMA ClientsKeep == SvcInv /\ Clients => SvcInv'
<1> SUFFICES ASSUME SvcInv, Clients PROVE SvcInv'
  OBVIOUS
<1>1. FunnelInv /\ HandleInv /\ QueryInv
  BY DEF SvcInv
<1>2. ASSUME NEW c \in Callers, NEW p \in Paths, NEW o \in Ops(c, p), Client(c, o, p)
      PROVE  SvcInv'
  <2>1. o \in {"read", "truncate"} /\ o \in OpNames
    BY DEF Ops, OpNames
  <2>2. /\ call[c].st = "idle" /\ call' = Issued(c, o, p) /\ calls' = calls + 1
        /\ UNCHANGED <<token, late, reqQ, resQ, exec>> /\ UNCHANGED handleVars
    BY <1>2 DEF Client, FreeTo
  <2>3. FunnelInv'
    BY <1>1, <2>1, <2>2, IssueKeeps
  <2>4. QueryInv'
    BY <1>1, <1>2, <2>1, ClientQueries
  <2> QED
    BY <1>1, <2>2, <2>3, <2>4, HandlesSame DEF SvcInv
<1>3. ASSUME NEW k \in Kinds, Ask(k)
      PROVE  SvcInv'
  <2>1. UNCHANGED funnelVars /\ UNCHANGED handleVars
    BY <1>3 DEF Ask
  <2> QED
    BY <1>1, <1>3, <2>1, FunnelSame, HandlesSame, AskQueries DEF SvcInv
<1>4. ASSUME NEW p \in Paths, EnqueueWrite(p)
      PROVE  SvcInv'
  <2>1. UNCHANGED funnelVars /\ UNCHANGED queryVars /\ UNCHANGED loopVars
    BY <1>4 DEF EnqueueWrite
  <2>2. QueryInv'
    BY <1>1, <2>1, QueriesSame DEF funnelVars, queryVars, loopVars
  <2> QED
    BY <1>1, <1>4, <2>1, <2>2, FunnelSame, EnqueueHandles DEF SvcInv
<1> QED
  BY <1>2, <1>3, <1>4, ProgressKeeps DEF Clients

LEMMA StoreStarts == Init => StoreInv
  BY CfgStart, FunnelStart, HandlesStart, QueriesStart DEF Init, StoreInv, SvcInv

LEMMA StoreSteps == StoreInv /\ [Next]_vars => StoreInv'
<1> SUFFICES ASSUME StoreInv, [Next]_vars PROVE StoreInv'
  OBVIOUS
<1>1. CfgInv /\ SvcInv
  BY DEF StoreInv
<1>2. CASE UNCHANGED vars
  <2>1. UNCHANGED svcVars /\ UNCHANGED cfgVars /\ Aside
    BY <1>2 DEF vars, loopVars, Aside
  <2> QED
    BY <1>1, <2>1, CfgSame, AsideKeeps DEF StoreInv
<1>3. CASE FsTask
  <2>1. CASE (Recorder \/ BootInit) /\ UNCHANGED <<svcVars, cfgVars>>
    BY <1>1, <2>1, CfgSame, AsideKeeps, RecorderAside, BootAside DEF StoreInv
  <2>2. CASE (Writes \/ SyncPop \/ SyncExec \/ SyncIdle) /\ UNCHANGED cfgVars
    BY <1>1, <2>2, CfgSame, ServeKeeps DEF StoreInv
  <2>3. CASE SavePop \/ SaveOpen \/ SaveWrite
    BY <1>1, <2>3, SaveSvc, SavePopKeeps, SaveOpenKeeps, SaveWriteKeeps DEF StoreInv
  <2> QED
    BY <1>3, <2>1, <2>2, <2>3 DEF FsTask
<1>4. CASE Clients /\ UNCHANGED cfgVars
  BY <1>1, <1>4, CfgSame, ClientsKeep DEF StoreInv
<1>5. CASE Producers /\ UNCHANGED <<svcVars, cfgVars>>
  BY <1>1, <1>5, CfgSame, AsideKeeps, ProducersAside DEF StoreInv
<1>6. ASSUME NEW s \in Stores, Change(s)
      PROVE  StoreInv'
  <2>1. UNCHANGED svcVars /\ Aside
    BY <1>6 DEF Change, loopVars, Aside
  <2> QED
    BY <1>1, <1>6, <2>1, AsideKeeps, ChangeKeeps DEF StoreInv
<1>7. CASE Crash
  <2>1. SvcReset /\ CfgReset /\ UNCHANGED <<offered, fails>>
    BY <1>7 DEF Crash
  <2> QED
    BY <1>1, <2>1, CfgResetKeeps, FunnelReset, HandlesReset, ResetQueries DEF StoreInv, SvcInv
<1> QED
  BY <1>2, <1>3, <1>4, <1>5, <1>6, <1>7 DEF Next

\* The inductive invariant of the filesystem task's clients.
THEOREM StorageInvariant == Spec => []StoreInv
  BY StoreStarts, StoreSteps, PTL DEF Spec

\* The saved tune (pid_config.c, fs_do_save): once the save lane is idle, a
\* reboot restores what is in force, whatever changed while an earlier
\* snapshot was being written, unless an attempt failed or was cut off or a
\* save was counted as dropped, and a torn file never becomes a tune.
THEOREM TuneIsSound == Spec => []TuneSound
<1>1. StoreInv => TuneSound
  BY CfgImplies DEF StoreInv
<1> QED
  BY <1>1, StorageInvariant, PTL

\* The calls of other tasks (fs_sync_call, fs_query.c): until one is given up,
\* each gets its own result; the cached handles are never on one file and
\* outlive no file but a saved store; and a browsing request is answered once
\* and, on a card that works in time, leaves no directory open.
THEOREM CallsAreSettled == Spec => []CallsSettled
<1>1. StoreInv => CallsSettled
  BY SvcImplies DEF StoreInv
<1> QED
  BY <1>1, StorageInvariant, PTL

(***************************************************************************)
(* 4. The recorder.                                                        *)
(***************************************************************************)
\* The values of its variables.
Places == 0 .. Bufs - 1
Slots == 0 .. Ring - 1
Gens == 0 .. 254
InSession == {"events", "endEvents", "drain", "stop", "stopQ", "stopP", "clear"}
Phases == InSession \union {"boot", "idle", "flush", "decide", "start"}

Batches == {d \in Seq(Nat) : Len(d) <= Cap}
Sectors == [stamped : BOOLEAN, data : Batches]
StreamStates == [head : Places, tail : Places, fill : 0 .. Cap - 1, buf : [Places -> Sectors]]
Cursors == [slot : Slots, seq : Nat, session : Nat, gen : Gens, since : Nat]
Headers == [slot : Slots, seq : Nat, gen : Gens]
FrameKinds == {"block", "junk", "session", "event"}
LogFrames == [kind : FrameKinds, str : {"imu", "txt", "ctl"}, sent : Nat, tag : Nat, seq : Nat,
              data : Seq(Nat), boot : Nat, ses : Nat, life : Nat, no : Nat]

On(i) == card[i] # None

\* Where the task is in imu_hs_log_drain, and whether the file is open.
PhaseInv ==
    /\ pc \in Phases /\ at \in 1 .. 3 /\ open \in BOOLEAN /\ active \in BOOLEAN
    /\ pc \notin {"idle", "boot"} => turn = "log"
    /\ active => open
    /\ pc \in InSession => open
    /\ pc \in {"start", "boot"} => ~open
    /\ pc \in {"stopQ", "stopP", "clear"} => ~active
    /\ pc = "clear" => at \in 1 .. 2

\* The records of a stream are numbered from 1 (made).
StreamTypes ==
    /\ flight \in {"standby", "armed"}
    /\ st \in [Streams -> StreamStates]
    /\ made \in [Streams -> SUBSET Nat] /\ stored \in [Streams -> SUBSET Nat]
    /\ \A s \in Streams : \E n \in Nat : made[s] = 1 .. n
    /\ dropped \in Nat /\ raced \in BOOLEAN

Numbered ==
    /\ \A i \in Slots : On(i) =>
          card[i].boot <= boots /\ card[i].life <= life /\ card[i].no < frames
    /\ \A i, j \in Slots : On(i) /\ On(j) /\ i # j => card[i].no # card[j].no

CardTypes ==
    /\ cursor \in Cursors /\ hdr \in Headers
    /\ card \in [Slots -> LogFrames \union {None}]
    /\ frames \in Nat /\ life \in Nat
    /\ Numbered

LaneInv == saving # NoSave => turn = "saves"

RecTypes == LoopTypeOK /\ PhaseInv /\ StreamTypes /\ CardTypes /\ LaneInv

-----------------------------------------------------------------------------
LEMMA RecConstants ==
    /\ Cap \in Nat \ {0} /\ Bufs \in Nat \ {0, 1} /\ Ring \in Nat \ {0}
    /\ SyncFrames \in Nat \ {0} /\ Margin = 2 * SyncFrames
    /\ StartGens \subseteq Nat /\ MaxFails \in Nat /\ MaxBoots \in Nat
  BY LogAssumption, LoopAssumption

LEMMA Around ==
    ASSUME NEW n \in Nat \ {0}, NEW i \in 0 .. n - 1
    PROVE  (i + 1) % n = IF i = n - 1 THEN 0 ELSE i + 1
<1>1. CASE i = n - 1
  <2>1. n % n = 0
    BY Z3
  <2> QED
    BY <1>1, <2>1
<1>2. CASE i # n - 1
  <2>1. i + 1 \in 0 .. n - 1
    BY <1>2
  <2>2. (i + 1) % n = i + 1
    BY <2>1, Z3
  <2> QED
    BY <1>2, <2>2
<1> QED
  BY <1>1, <1>2

LEMMA NextPlace ==
    ASSUME NEW i \in Places
    PROVE  Next1(i) \in Places /\ Next1(i) = IF i = Bufs - 1 THEN 0 ELSE i + 1
<1>1. Next1(i) = IF i = Bufs - 1 THEN 0 ELSE i + 1
  BY RecConstants, Around DEF Next1, Places
<1> QED
  BY <1>1, RecConstants DEF Places

LEMMA NextSlot ==
    ASSUME NEW i \in Slots
    PROVE  (i + 1) % Ring \in Slots
<1>1. (i + 1) % Ring = IF i = Ring - 1 THEN 0 ELSE i + 1
  BY RecConstants, Around DEF Slots
<1> QED
  BY <1>1, RecConstants DEF Slots

\* What stream_commit makes of a stream: the buffer at head is one record longer.
LEMMA CommittedShape ==
    ASSUME NEW str \in StreamStates, NEW r \in Nat
    PROVE  LET n == Committed(str, r)
               old == str.buf[str.head].data
               new == n.buf[str.head].data
           IN  /\ n \in StreamStates /\ n.tail = str.tail
               /\ \A i \in Places : i # str.head => n.buf[i] = str.buf[i]
               /\ Len(new) = str.fill + 1 /\ new[str.fill + 1] = r
               /\ \A i \in 1 .. str.fill : new[i] = IF i <= Len(old) THEN old[i] ELSE 0
               /\ n.fill = (IF str.fill + 1 >= Cap THEN 0 ELSE str.fill + 1)
               /\ n.head = (IF str.fill + 1 >= Cap /\ Next1(str.head) # str.tail
                            THEN Next1(str.head) ELSE str.head)
<1> DEFINE b == str.buf[str.head]
           d == [i \in 1 .. (str.fill + 1) |->
                   IF i = str.fill + 1 THEN r ELSE IF i <= Len(b.data) THEN b.data[i] ELSE 0]
           x == [stamped |-> b.stamped \/ str.fill = 0, data |-> d]
           full == str.fill + 1 >= Cap
           n == Committed(str, r)
<1>1. /\ str.head \in Places /\ str.tail \in Places /\ str.fill \in 0 .. Cap - 1
      /\ str.buf \in [Places -> Sectors]
  BY DEF StreamStates
<1>2. b \in Sectors /\ b.data \in Seq(Nat) /\ b.stamped \in BOOLEAN /\ Len(b.data) \in Nat
  BY <1>1 DEF Sectors, Batches
<1> HIDE DEF b
<1>3. \A i \in 1 .. (str.fill + 1) : d[i] \in Nat
  <2> TAKE i \in 1 .. (str.fill + 1)
  <2>1. CASE i = str.fill + 1
    BY <2>1
  <2>2. CASE i # str.fill + 1 /\ i <= Len(b.data)
    BY <1>1, <1>2, <2>2
  <2>3. CASE i # str.fill + 1 /\ ~(i <= Len(b.data))
    BY <2>3
  <2> QED
    BY <2>1, <2>2, <2>3
<1>4. d \in [1 .. (str.fill + 1) -> Nat]
  BY <1>3
<1>5. d \in Seq(Nat) /\ Len(d) = str.fill + 1
  <2>1. str.fill + 1 \in Nat
    BY <1>1
  <2> HIDE DEF d
  <2> QED
    BY <1>4, <2>1
<1>6. d \in Batches
  BY <1>1, <1>5, RecConstants DEF Batches
<1>7. /\ d[str.fill + 1] = r
      /\ \A i \in 1 .. str.fill : d[i] = IF i <= Len(b.data) THEN b.data[i] ELSE 0
  BY <1>1
<1> HIDE DEF d
<1>8. x \in Sectors
  <2>1. (b.stamped \/ str.fill = 0) \in BOOLEAN
    OBVIOUS
  <2> QED
    BY <1>6, <2>1 DEF Sectors
<1> HIDE DEF x
<1>9. n = [str EXCEPT !.buf = [str.buf EXCEPT ![str.head] = x],
                      !.fill = IF full THEN 0 ELSE str.fill + 1,
                      !.head = IF full /\ Next1(str.head) # str.tail THEN Next1(str.head) ELSE str.head]
  BY DEF Committed, StreamStates, x, d, b
<1>10. [str.buf EXCEPT ![str.head] = x] \in [Places -> Sectors]
  BY <1>1, <1>8
<1>11. (IF full THEN 0 ELSE str.fill + 1) \in 0 .. Cap - 1
  BY <1>1, RecConstants
<1>12. (IF full /\ Next1(str.head) # str.tail THEN Next1(str.head) ELSE str.head) \in Places
  BY <1>1, NextPlace
<1> HIDE DEF n, full
<1>13. n \in StreamStates
  BY <1>9, <1>10, <1>11, <1>12 DEF StreamStates
<1>14. /\ n.tail = str.tail /\ n.buf = [str.buf EXCEPT ![str.head] = x]
       /\ n.fill = (IF full THEN 0 ELSE str.fill + 1)
       /\ n.head = (IF full /\ Next1(str.head) # str.tail THEN Next1(str.head) ELSE str.head)
  BY <1>9 DEF StreamStates
<1>15. n.buf[str.head].data = d /\ \A i \in Places : i # str.head => n.buf[i] = str.buf[i]
  BY <1>1, <1>14 DEF x
<1> QED
  BY <1>5, <1>7, <1>13, <1>14, <1>15 DEF n, full, b

\* The generations go round, 255 left out, with one sentinel each but for 0,
\* 165 and 170.
Cyc(n) == IF n > 254 THEN n - 255 ELSE n

LEMMA SentinelIs ==
    ASSUME NEW g \in Gens
    PROVE  Sentinel(g) \in Nat /\ Sentinel(g) = IF g \in {0, 170} THEN 165 ELSE g
<1>1. g \in 0 .. 254 /\ g % 256 = g
  BY DEF Gens
<1> QED
  BY <1>1 DEF Sentinel

LEMMA FreshGenIs ==
    ASSUME NEW g \in Nat
    PROVE  FreshGen(g) \in Gens
<1>1. g % 256 \in 0 .. 255 /\ (g + 1) % 256 = IF g % 256 = 255 THEN 0 ELSE (g % 256) + 1
  OBVIOUS
<1>2. CASE g % 256 = 255
  <2>1. Sentinel(g) = 165 /\ Sentinel(g + 1) = 165
    BY <1>1, <1>2 DEF Sentinel
  <2> QED
    BY <1>1, <1>2, <2>1 DEF FreshGen, Gens
<1>3. CASE g % 256 # 255
  <2>1. Sentinel(g) # Sentinel(g + 1)
    BY <1>1, <1>3 DEF Sentinel
  <2> QED
    BY <1>1, <1>3, <2>1 DEF FreshGen, Gens
<1> QED
  BY <1>2, <1>3

LEMMA NextGenIs ==
    ASSUME NEW g \in Gens
    PROVE  NextGen(g) \in Gens /\ NextGen(g) = Cyc(g + 1)
<1>1. g \in 0 .. 254 /\ g + 1 \in Nat
  BY DEF Gens
<1>2. CASE g = 254
  <2>1. Sentinel(255) = 165 /\ Sentinel(256) = 165 /\ 256 % 256 = 0
    BY DEF Sentinel
  <2>2. FreshGen(255) = 0
    BY <2>1 DEF FreshGen
  <2> QED
    BY <1>2, <2>2 DEF NextGen, Cyc, Gens
<1>3. CASE g # 254
  <2>1. g + 1 \in 0 .. 254 /\ (g + 1) % 256 = g + 1 /\ (g + 2) % 256 = g + 2
    BY <1>1, <1>3
  <2>2. Sentinel(g + 1) # Sentinel((g + 1) + 1)
    BY <2>1 DEF Sentinel
  <2>3. FreshGen(g + 1) = g + 1
    BY <2>1, <2>2 DEF FreshGen
  <2> QED
    BY <1>1, <1>3, <2>1, <2>3 DEF NextGen, Cyc, Gens
<1> QED
  BY <1>2, <1>3

\* Four generations on, a frame is still told from the new ones.
LEMMA SentinelsApart ==
    ASSUME NEW g \in Gens, NEW d \in 1 .. 4
    PROVE  Sentinel(g) # Sentinel(Cyc(g + d))
<1>1. g \in 0 .. 254 /\ Cyc(g + d) \in Gens
  BY DEF Cyc, Gens
<1>2. Sentinel(g) = IF g \in {0, 170} THEN 165 ELSE g
  BY SentinelIs
<1>3. Sentinel(Cyc(g + d)) = IF Cyc(g + d) \in {0, 170} THEN 165 ELSE Cyc(g + d)
  BY <1>1, SentinelIs
<1> QED
  BY <1>1, <1>2, <1>3 DEF Cyc

-----------------------------------------------------------------------------
\* The frame that ring_write puts on the card from cursor c.
FrameFrom(c, str, kind, data) ==
    [kind |-> kind, str |-> str, sent |-> Sentinel(c.gen), tag |-> SessionTag(c), seq |-> c.seq,
     data |-> data, boot |-> boots, ses |-> c.session, life |-> life, no |-> frames]

LEMMA FrameFromType ==
    ASSUME RecTypes, NEW c \in Cursors, NEW str \in {"imu", "txt", "ctl"}, NEW kind \in FrameKinds,
           NEW data \in Seq(Nat)
    PROVE  FrameFrom(c, str, kind, data) \in LogFrames
<1>1. c.gen \in Gens /\ c.seq \in Nat /\ c.session \in Nat
  BY DEF Cursors
<1>2. Sentinel(c.gen) \in Nat /\ SessionTag(c) \in Nat
  BY <1>1, SentinelIs DEF SessionTag
<1>3. boots \in Nat /\ life \in Nat /\ frames \in Nat
  BY DEF RecTypes, LoopTypeOK, CardTypes
<1> QED
  BY <1>1, <1>2, <1>3 DEF FrameFrom, LogFrames

\* How ring_write goes.
Fails == fails < MaxFails /\ fails' = fails + 1
NotWritten(c) == Fails /\ cursor' = c /\ card' = card /\ hdr' = hdr /\ frames' = frames
Lands(c, str, kind, data) ==
    /\ card' = [card EXCEPT ![c.slot] = FrameFrom(c, str, kind, data)] /\ frames' = frames + 1
    /\ cursor' \in Cursors /\ cursor'.seq = c.seq + 1 /\ cursor'.session = c.session
    /\ cursor'.gen = c.gen
HeaderToo(c) ==
    /\ fails' = fails /\ hdr' \in Headers /\ hdr'.seq = c.seq + 1 /\ hdr'.gen = c.gen
    /\ cursor'.since = 0
HeaderLater(c, force) ==
    /\ hdr' = hdr /\ cursor'.since = c.since + 1
    /\ Fails \/ (fails' = fails /\ ~force /\ c.since + 1 < SyncFrames)

LEMMA RingWriteCases ==
    ASSUME RecTypes, NEW c \in Cursors, c.since = cursor.since, NEW how \in Outcomes, NEW str,
           NEW kind, NEW data, NEW force \in BOOLEAN, RingWrite(c, how, str, kind, data, force)
    PROVE  \/ how = "fail" /\ NotWritten(c)
           \/ /\ how # "fail" /\ Lands(c, str, kind, data)
              /\ (how = "ok" /\ HeaderToo(c)) \/ HeaderLater(c, force)
              /\ IF how = "ok" THEN fails' = fails ELSE fails' = fails + 1
<1> DEFINE moved == [c EXCEPT !.slot = (@ + 1) % Ring, !.seq = @ + 1, !.since = @ + 1]
           f == FrameFrom(c, str, kind, data)
<1>1. c.slot \in Slots /\ c.seq \in Nat /\ c.session \in Nat /\ c.gen \in Gens /\ c.since \in Nat
  BY DEF Cursors
<1>2. (c.slot + 1) % Ring \in Slots
  BY <1>1, NextSlot
<1>3. /\ moved \in Cursors /\ moved.seq = c.seq + 1 /\ moved.session = c.session
      /\ moved.gen = c.gen /\ moved.since = c.since + 1 /\ moved.slot \in Slots
  <2>1. c \in [slot : Slots, seq : Nat, session : Nat, gen : Gens, since : Nat]
    BY DEF Cursors
  <2>2. c.seq + 1 \in Nat /\ c.since + 1 \in Nat
    BY <1>1
  <2>3. /\ moved.seq = c.seq + 1 /\ moved.session = c.session /\ moved.gen = c.gen
        /\ moved.since = c.since + 1 /\ moved.slot = (c.slot + 1) % Ring
    BY <2>1
  <2>4. moved \in Cursors
    BY <1>2, <2>1, <2>2 DEF Cursors
  <2> QED
    BY <1>2, <2>3, <2>4
<1>4. (how = "ok" => fails' = fails) /\ (how # "ok" => Fails)
  BY DEF RingWrite, CardWorks, CardFails, Fails
<1>5. how = "fail" => cursor' = c /\ card' = card /\ hdr' = hdr /\ frames' = frames
  BY DEF RingWrite
<1>6. how # "fail" =>
         /\ card' = [card EXCEPT ![c.slot] = f] /\ frames' = frames + 1
         /\ IF how = "ok" /\ (Due \/ force)
            THEN hdr' = Header(moved) /\ cursor' = [moved EXCEPT !.since = 0]
            ELSE hdr' = hdr /\ cursor' = moved
  BY DEF RingWrite, FrameFrom
<1> HIDE DEF moved, f
<1>7. CASE how = "fail"
  BY <1>4, <1>5, <1>7 DEF NotWritten
<1>8. CASE how = "ok" /\ (Due \/ force)
  <2>1. hdr' = Header(moved) /\ cursor' = [moved EXCEPT !.since = 0]
    BY <1>6, <1>8
  <2>2. cursor' \in Cursors /\ cursor'.seq = c.seq + 1 /\ cursor'.session = c.session /\ cursor'.gen = c.gen
        /\ cursor'.since = 0
    BY <1>3, <2>1 DEF Cursors
  <2>3. hdr' \in Headers /\ hdr'.seq = c.seq + 1 /\ hdr'.gen = c.gen
    BY <1>1, <1>3, <2>1 DEF Headers, Header
  <2>4. card' = [card EXCEPT ![c.slot] = f] /\ frames' = frames + 1 /\ fails' = fails
    BY <1>4, <1>6, <1>8
  <2> QED
    BY <1>8, <2>2, <2>3, <2>4 DEF HeaderToo, Lands, f
<1>9. CASE how # "fail" /\ ~(how = "ok" /\ (Due \/ force))
  <2>1. hdr' = hdr /\ cursor' = moved /\ card' = [card EXCEPT ![c.slot] = f] /\ frames' = frames + 1
    BY <1>6, <1>9
  <2>2. Fails \/ (fails' = fails /\ ~force /\ c.since + 1 < SyncFrames)
    <3>1. CASE how = "ok"
      <4>1. ~Due /\ ~force
        BY <1>9, <3>1
      <4>2. c.since + 1 < SyncFrames
        BY <1>1, <4>1, RecConstants DEF Due
      <4> QED
        BY <1>4, <3>1, <4>1, <4>2
    <3>2. CASE how # "ok"
      BY <1>4, <3>2 DEF Fails
    <3> QED
      BY <3>1, <3>2
  <2>3. IF how = "ok" THEN fails' = fails ELSE fails' = fails + 1
    BY <1>4 DEF Fails
  <2> QED
    BY <1>3, <1>9, <2>1, <2>2, <2>3 DEF HeaderLater, Lands, f
<1> QED
  BY <1>7, <1>8, <1>9

-----------------------------------------------------------------------------
\* What a step that is not the recorder's leaves of the recorder.
Untouched ==
    /\ UNCHANGED <<st, made, stored, dropped, raced, pc, at, open, active, cursor, card, hdr, life,
                   frames, amnesia, offered, boots>>
    /\ flight' \in {"standby", "armed"} /\ suppressed' \in BOOLEAN
    /\ fails' \in 0 .. MaxFails /\ fails <= fails'
    /\ turn' \in Turns /\ (turn = "log" => turn' = "log")

LEMMA UntouchedTypes ==
    ASSUME RecTypes, Untouched
    PROVE  (LoopTypeOK /\ PhaseInv /\ StreamTypes /\ CardTypes)'
<1>1. /\ st' = st /\ made' = made /\ stored' = stored /\ dropped' = dropped /\ raced' = raced
      /\ pc' = pc /\ at' = at /\ open' = open /\ active' = active /\ cursor' = cursor /\ card' = card
      /\ hdr' = hdr /\ life' = life /\ frames' = frames /\ offered' = offered /\ boots' = boots
  BY DEF Untouched
<1>2. LoopTypeOK'
  BY <1>1 DEF RecTypes, LoopTypeOK, Untouched
<1>3. PhaseInv'
  BY <1>1 DEF RecTypes, PhaseInv, Untouched
<1>4. StreamTypes'
  BY <1>1 DEF RecTypes, StreamTypes, Untouched
<1>5. CardTypes'
  BY <1>1 DEF RecTypes, CardTypes, Numbered, On
<1> QED
  BY <1>2, <1>3, <1>4, <1>5

LEMMA LoopTypes ==
    ASSUME RecTypes
    PROVE  /\ fails \in 0 .. MaxFails /\ fails <= fails /\ turn \in Turns /\ suppressed \in BOOLEAN
           /\ flight \in {"standby", "armed"} /\ offered \in Scenes /\ boots \in 0 .. MaxBoots
  BY RecConstants DEF RecTypes, LoopTypeOK, StreamTypes

LEMMA CardOutcome ==
    ASSUME RecTypes, CardWorks \/ CardFails
    PROVE  fails' \in 0 .. MaxFails /\ fails <= fails'
  BY LoopTypes, RecConstants DEF CardWorks, CardFails

LEMMA SaveTouchesNot ==
    ASSUME RecTypes, SavePop \/ SaveOpen \/ SaveWrite
    PROVE  Untouched
<1>1. /\ UNCHANGED <<st, made, stored, dropped, raced, pc, at, open, active, cursor, card, hdr, life,
                     frames, amnesia, offered, boots>>
      /\ flight' = flight /\ suppressed' = suppressed
  BY DEF SavePop, SaveOpen, SaveWrite, SvcRest, logVars, streamVars, cardVars, taskVars
<1>2. fails' \in 0 .. MaxFails /\ fails <= fails'
  <2>1. fails' = fails \/ CardWorks \/ CardFails
    BY DEF SavePop, SaveOpen, SaveWrite
  <2> QED
    BY <2>1, LoopTypes, CardOutcome
<1>3. turn = "saves" /\ turn' \in {"saves", "writes"}
  <2>1. turn = "saves"
    BY DEF SavePop, SaveOpen, SaveWrite, RecTypes, LaneInv
  <2>2. After("saves") = "writes"
    BY DEF After
  <2>3. turn' \in {turn, After("saves")}
    BY DEF SavePop, SaveOpen, SaveWrite, Retry
  <2> QED
    BY <2>1, <2>2, <2>3
<1> QED
  BY <1>1, <1>2, <1>3, LoopTypes DEF Untouched, Turns

LEMMA ServeTouchesNot ==
    ASSUME RecTypes, Writes \/ SyncPop \/ SyncExec \/ SyncIdle
    PROVE  Untouched
<1>1. /\ UNCHANGED <<st, made, stored, dropped, raced, pc, at, open, active, cursor, card, hdr, life,
                     frames, amnesia, offered, boots>>
      /\ flight' = flight /\ suppressed' = suppressed
  BY DEF Writes, SyncPop, SyncExec, SyncIdle, LogRest, streamVars, taskVars
<1>2. fails' \in 0 .. MaxFails /\ fails <= fails'
  <2>1. CASE Writes
    BY <2>1, CardOutcome DEF Writes, WriteAt
  <2>2. CASE SyncExec
    BY <2>2, CardOutcome DEF SyncExec, ExecRead, ExecReplace, ExecOther
  <2>3. CASE SyncPop \/ SyncIdle
    BY <2>3, LoopTypes DEF SyncPop, SyncIdle
  <2> QED
    BY <2>1, <2>2, <2>3
<1>3. turn \in {"writes", "sync"} /\ turn' \in {turn, After(turn)}
  BY DEF Writes, SyncPop, SyncExec, SyncIdle
<1>4. turn' \in Turns /\ turn # "log"
  BY <1>3 DEF After, Turns
<1> QED
  BY <1>1, <1>2, <1>4, LoopTypes DEF Untouched

LEMMA SameTouchesNot ==
    ASSUME RecTypes, UNCHANGED <<loopVars, logVars>>
    PROVE  Untouched
  BY LoopTypes DEF loopVars, logVars, streamVars, cardVars, taskVars, Untouched

LEMMA ClientsTouchNot ==
    ASSUME RecTypes, Clients
    PROVE  Untouched
<1>1. UNCHANGED <<loopVars, logVars>>
  <2>1. CASE Progress
    BY <2>1 DEF Progress, StepQuery, StartQuery, Caller, CallStep, ClientDone
  <2>2. CASE ~Progress
    BY <2>2 DEF Clients, Client, Ask, EnqueueWrite
  <2> QED
    BY <2>1, <2>2
<1> QED
  BY <1>1, SameTouchesNot

LEMMA ProducersTouchNot ==
    ASSUME RecTypes, Quiet \/ HoldEnds \/ Fly \/ Transfer
    PROVE  Untouched
<1>1. CASE Quiet
  BY <1>1, LoopTypes DEF Quiet, loopVars, cardVars, taskVars, Untouched
<1>2. CASE HoldEnds
  BY <1>2, LoopTypes DEF HoldEnds, loopVars, streamVars, cardVars, Untouched
<1>3. CASE Fly
  <2>1. flight' \in {"standby", "armed"}
    BY <1>3 DEF Fly
  <2> QED
    BY <1>3, <2>1, LoopTypes DEF Fly, loopVars, streamVars, cardVars, taskVars, Untouched
<1>4. CASE Transfer
  <2>1. suppressed' \in BOOLEAN
    BY <1>4, LoopTypes DEF Transfer
  <2> QED
    BY <1>4, <2>1, LoopTypes DEF Transfer, streamVars, cardVars, taskVars, Untouched
<1> QED
  BY <1>1, <1>2, <1>3, <1>4

LEMMA RecorderHasTurn == Recorder => turn = "log" /\ boots' = boots /\ offered' = offered /\ suppressed' = suppressed
  BY DEF Recorder, Tick, FlushHead, Decide, SessionStart, Events, Drain, SessionStop, StopQueue,
         StopPartial, StopClear, StopClose, Rest

\* The save lane keeps its turn until its request is done with.
LEMMA LaneSteps ==
    ASSUME RecTypes, [Next]_vars
    PROVE  LaneInv'
<1>1. turn # "saves" => saving = NoSave
  BY DEF RecTypes, LaneInv
<1>2. CASE turn' = turn /\ saving' = saving
  BY <1>2 DEF RecTypes, LaneInv
<1>3. CASE FsTask
  <2>1. CASE Recorder /\ UNCHANGED <<svcVars, cfgVars>>
    BY <1>1, <2>1, RecorderHasTurn DEF LaneInv, cfgVars
  <2>2. CASE (Writes \/ SyncPop \/ SyncExec \/ SyncIdle) /\ UNCHANGED cfgVars
    <3>1. turn \in {"writes", "sync"} /\ saving' = saving
      BY <2>2 DEF Writes, SyncPop, SyncExec, SyncIdle, cfgVars
    <3> QED
      BY <1>1, <3>1 DEF LaneInv
  <2>3. CASE SavePop \/ SaveOpen \/ SaveWrite
    <3>1. turn = "saves"
      BY <2>3 DEF SavePop, SaveOpen, SaveWrite, RecTypes, LaneInv
    <3>2. turn' = turn \/ saving' = NoSave
      BY <2>3 DEF SavePop, SaveOpen, SaveWrite, Retry
    <3> QED
      BY <3>1, <3>2 DEF LaneInv
  <2>4. CASE BootInit /\ UNCHANGED <<svcVars, cfgVars>>
    BY <1>2, <2>4 DEF BootInit, cfgVars
  <2> QED
    BY <1>3, <2>1, <2>2, <2>3, <2>4 DEF FsTask
<1>4. CASE Clients /\ UNCHANGED cfgVars
  <2>1. turn' = turn
    <3>1. CASE Progress
      BY <3>1 DEF Progress, StepQuery, StartQuery, Caller, CallStep, ClientDone, loopVars
    <3>2. CASE ~Progress
      BY <1>4, <3>2 DEF Clients, Client, Ask, EnqueueWrite, loopVars
    <3> QED
      BY <3>1, <3>2
  <2> QED
    BY <1>2, <1>4, <2>1 DEF cfgVars
<1>5. CASE Producers /\ UNCHANGED <<svcVars, cfgVars>>
  BY <1>2, <1>5 DEF Producers, Sample, Text, Quiet, HoldEnds, Fly, Transfer, loopVars, cfgVars
<1>6. ASSUME NEW s \in Stores, Change(s)
      PROVE  LaneInv'
  BY <1>2, <1>6 DEF Change, loopVars
<1>7. CASE Crash
  BY <1>7 DEF Crash, CfgReset, LaneInv
<1>8. CASE UNCHANGED vars
  BY <1>2, <1>8 DEF vars, loopVars, cfgVars
<1> QED
  BY <1>3, <1>4, <1>5, <1>6, <1>7, <1>8 DEF Next

-----------------------------------------------------------------------------
\* What the steps of the recorder and its producers do.
Logged(c, str, kind, data, force) ==
    \/ NotWritten(c)
    \/ Lands(c, str, kind, data) /\ (HeaderToo(c) \/ HeaderLater(c, force))

LEMMA LoggedTypes ==
    ASSUME RecTypes, NEW c \in Cursors, NEW str \in {"imu", "txt", "ctl"}, NEW kind \in FrameKinds,
           NEW data \in Seq(Nat), NEW force, Logged(c, str, kind, data, force),
           boots' = boots, life' = life
    PROVE  CardTypes' /\ fails' \in 0 .. MaxFails /\ fails <= fails'
<1>1. /\ card \in [Slots -> LogFrames \union {None}] /\ hdr \in Headers /\ frames \in Nat
      /\ life \in Nat /\ boots \in Nat /\ Numbered /\ fails \in 0 .. MaxFails /\ MaxFails \in Nat
  BY RecConstants DEF RecTypes, CardTypes, LoopTypeOK
<1>2. CASE NotWritten(c)
  <2>1. fails' \in 0 .. MaxFails /\ fails <= fails'
    BY <1>1, <1>2 DEF NotWritten, Fails
  <2>2. cursor' = c /\ card' = card /\ hdr' = hdr /\ frames' = frames
    BY <1>2 DEF NotWritten
  <2> QED
    BY <1>1, <2>1, <2>2 DEF CardTypes, Numbered, On
<1>3. CASE Lands(c, str, kind, data) /\ (HeaderToo(c) \/ HeaderLater(c, force))
  <2> DEFINE f == FrameFrom(c, str, kind, data)
  <2>1. c.slot \in Slots /\ f \in LogFrames
    BY FrameFromType DEF Cursors
  <2>2. /\ card' = [card EXCEPT ![c.slot] = f] /\ frames' = frames + 1 /\ cursor' \in Cursors
        /\ hdr' \in Headers
    BY <1>1, <1>3 DEF Lands, HeaderToo, HeaderLater
  <2>3. fails' \in 0 .. MaxFails /\ fails <= fails'
    BY <1>1, <1>3 DEF HeaderToo, HeaderLater, Fails
  <2>4. f.boot = boots /\ f.life = life /\ f.no = frames
    BY DEF FrameFrom
  <2> HIDE DEF f
  <2>5. card' \in [Slots -> LogFrames \union {None}]
    BY <1>1, <2>1, <2>2
  <2>6. \A i \in Slots : card'[i] = IF i = c.slot THEN f ELSE card[i]
    BY <1>1, <2>1, <2>2
  <2>7. \A i \in Slots : (On(i))' => i = c.slot \/ (On(i) /\ card'[i] = card[i])
    BY <2>6 DEF On
  <2>8. \A i \in Slots : On(i) => card[i].no \in Nat
    BY <1>1 DEF On, LogFrames
  <2>9. \A i \in Slots : (On(i))' =>
           card'[i].boot <= boots /\ card'[i].life <= life /\ card'[i].no < frames + 1
    BY <1>1, <2>4, <2>6, <2>7, <2>8 DEF Numbered
  <2>10. ASSUME NEW i \in Slots, NEW j \in Slots, (On(i))', (On(j))', i # j
         PROVE  card'[i].no # card'[j].no
    <3>1. CASE i = c.slot
      BY <1>1, <2>4, <2>6, <2>7, <2>8, <2>10, <3>1 DEF Numbered
    <3>2. CASE j = c.slot
      BY <1>1, <2>4, <2>6, <2>7, <2>8, <2>10, <3>2 DEF Numbered
    <3>3. CASE i # c.slot /\ j # c.slot
      BY <1>1, <2>6, <2>7, <2>10, <3>3 DEF Numbered
    <3> QED
      BY <3>1, <3>2, <3>3
  <2>11. Numbered'
    BY <2>2, <2>9, <2>10 DEF Numbered
  <2>12. frames' \in Nat /\ life' \in Nat
    BY <1>1, <2>2
  <2> QED
    BY <2>2, <2>3, <2>5, <2>11, <2>12 DEF CardTypes
<1> QED
  BY <1>2, <1>3 DEF Logged

\* The sector of buffer b of stream s.
SectorData(b) == IF b.data = <<>> THEN <<0>> ELSE b.data
SectorKind(b) == IF b.stamped THEN "block" ELSE "junk"

LEMMA SectorTypes ==
    ASSUME NEW b \in Sectors
    PROVE  SectorData(b) \in Seq(Nat) /\ SectorKind(b) \in FrameKinds /\ Range(b.data) \subseteq Nat
<1>1. b.data \in Seq(Nat)
  BY DEF Sectors, Batches
<1>2. <<0>> \in Seq(Nat)
  OBVIOUS
<1>3. \A i \in 1 .. Len(b.data) : b.data[i] \in Nat
  BY <1>1
<1>4. DOMAIN b.data = 1 .. Len(b.data)
  BY <1>1
<1> QED
  BY <1>1, <1>2, <1>3, <1>4 DEF SectorData, SectorKind, FrameKinds, Range

LEMMA SectorCases ==
    ASSUME RecTypes, NEW how \in Outcomes, NEW s \in Streams, NEW b \in Sectors,
           WriteSector(how, s, b), boots' = boots, life' = life
    PROVE  /\ Logged(cursor, s, SectorKind(b), SectorData(b), FALSE)
           /\ \/ how = "fail" /\ NotWritten(cursor) /\ stored' = stored
              \/ /\ how # "fail" /\ Lands(cursor, s, SectorKind(b), SectorData(b))
                 /\ stored' = [stored EXCEPT ![s] = @ \union Range(b.data)]
                 /\ IF how = "ok" THEN fails' = fails ELSE fails' = fails + 1
           /\ CardTypes' /\ fails' \in 0 .. MaxFails /\ fails <= fails'
           /\ stored' \in [Streams -> SUBSET Nat]
<1>1. cursor \in Cursors
  BY DEF RecTypes, CardTypes
<1>2. RingWrite(cursor, how, s, SectorKind(b), SectorData(b), FALSE)
  BY DEF WriteSector, SectorKind, SectorData
<1>3. \/ how = "fail" /\ NotWritten(cursor)
      \/ /\ how # "fail" /\ Lands(cursor, s, SectorKind(b), SectorData(b))
         /\ (how = "ok" /\ HeaderToo(cursor)) \/ HeaderLater(cursor, FALSE)
         /\ IF how = "ok" THEN fails' = fails ELSE fails' = fails + 1
  BY <1>1, <1>2, RingWriteCases
<1>4. Logged(cursor, s, SectorKind(b), SectorData(b), FALSE)
  BY <1>3 DEF Logged
<1>5. s \in {"imu", "txt", "ctl"}
  BY DEF Streams
<1>6. CardTypes' /\ fails' \in 0 .. MaxFails /\ fails <= fails'
  BY <1>1, <1>4, <1>5, SectorTypes, LoggedTypes
<1>7. stored' = IF how = "fail" THEN stored ELSE [stored EXCEPT ![s] = @ \union Range(b.data)]
  BY DEF WriteSector
<1>8. stored' \in [Streams -> SUBSET Nat]
  <2>1. stored \in [Streams -> SUBSET Nat] /\ stored[s] \union Range(b.data) \in SUBSET Nat
    BY SectorTypes DEF RecTypes, StreamTypes
  <2> QED
    BY <1>7, <2>1
<1> QED
  BY <1>3, <1>4, <1>6, <1>7, <1>8

\* stream_commit numbers the records of a stream.
LEMMA AppendIs ==
    ASSUME RecTypes, NEW s \in Streams, Append1(s)
    PROVE  \E r \in Nat \ {0} :
             /\ made[s] = 1 .. r - 1 /\ made'[s] = 1 .. r
             /\ \A t \in Streams \ {s} : made'[t] = made[t] /\ st'[t] = st[t]
             /\ st'[s] = Committed(st[s], r)
             /\ dropped' = dropped + (IF Overrun(st[s]) THEN 1 ELSE 0)
             /\ st' \in [Streams -> StreamStates] /\ made' \in [Streams -> SUBSET Nat]
             /\ dropped' \in Nat /\ \A t \in Streams : \E n \in Nat : made'[t] = 1 .. n
<1>1. PICK n \in Nat : made[s] = 1 .. n
  BY DEF RecTypes, StreamTypes
<1>2. Cardinality(1 .. n) = n
  BY FS_Interval
<1> DEFINE r == n + 1
<1>3. r \in Nat \ {0} /\ 1 .. r = (1 .. n) \union {r} /\ r - 1 = n
  OBVIOUS
<1>4. /\ st \in [Streams -> StreamStates] /\ made \in [Streams -> SUBSET Nat] /\ dropped \in Nat
      /\ \A t \in Streams : \E m \in Nat : made[t] = 1 .. m
  BY DEF RecTypes, StreamTypes
<1>5. Cardinality(made[s]) + 1 = r
  BY <1>1, <1>2
<1> HIDE DEF r
<1>6. /\ st' = [st EXCEPT ![s] = Committed(st[s], r)]
      /\ made' = [made EXCEPT ![s] = made[s] \union {r}]
      /\ dropped' = dropped + (IF Overrun(st[s]) THEN 1 ELSE 0)
  BY <1>5 DEF Append1
<1>7. Committed(st[s], r) \in StreamStates
  BY <1>3, <1>4, CommittedShape
<1>8. st' \in [Streams -> StreamStates] /\ st'[s] = Committed(st[s], r)
  BY <1>4, <1>6, <1>7
<1>9. made' \in [Streams -> SUBSET Nat] /\ made'[s] = 1 .. r
  BY <1>1, <1>3, <1>4, <1>6
<1>10. \A t \in Streams \ {s} : made'[t] = made[t] /\ st'[t] = st[t]
  BY <1>4, <1>6
<1>11. \A t \in Streams : \E m \in Nat : made'[t] = 1 .. m
  BY <1>3, <1>4, <1>9, <1>10
<1>12. dropped' \in Nat
  BY <1>4, <1>6
<1> QED
  BY <1>1, <1>3, <1>6, <1>8, <1>9, <1>10, <1>11, <1>12

-----------------------------------------------------------------------------
\* The types, action by action.
LEMMA LoopKept ==
    ASSUME RecTypes, turn' \in {turn, After("log")}, UNCHANGED <<offered, boots, suppressed>>,
           fails' \in 0 .. MaxFails
    PROVE  LoopTypeOK'
<1>1. After("log") \in Turns
  BY DEF After, Turns
<1> QED
  BY <1>1 DEF RecTypes, LoopTypeOK

LEMMA CardKept ==
    ASSUME RecTypes, UNCHANGED <<cursor, card, hdr, frames, life, boots>>
    PROVE  CardTypes'
<1>1. /\ cursor' = cursor /\ card' = card /\ hdr' = hdr /\ frames' = frames /\ life' = life
      /\ boots' = boots
  OBVIOUS
<1> QED
  BY <1>1 DEF RecTypes, CardTypes, Numbered, On

LEMMA StreamsKept ==
    ASSUME RecTypes, UNCHANGED <<flight, made, dropped, raced>>, st' \in [Streams -> StreamStates],
           stored' \in [Streams -> SUBSET Nat]
    PROVE  StreamTypes'
  BY DEF RecTypes, StreamTypes

LEMMA StreamIs ==
    ASSUME RecTypes, NEW s \in Streams
    PROVE  /\ st \in [Streams -> StreamStates] /\ stored \in [Streams -> SUBSET Nat]
           /\ st[s] \in StreamStates /\ st[s].head \in Places /\ st[s].tail \in Places
           /\ st[s].fill \in 0 .. Cap - 1 /\ st[s].buf \in [Places -> Sectors]
           /\ \A i \in Places : st[s].buf[i] \in Sectors /\ st[s].buf[i].data \in Batches
  BY DEF RecTypes, StreamTypes, StreamStates, Sectors

CoreTypes == LoopTypeOK /\ PhaseInv /\ StreamTypes /\ CardTypes

LEMMA WithFill ==
    ASSUME NEW x \in StreamStates, NEW f \in 0 .. Cap - 1
    PROVE  /\ [x EXCEPT !.fill = f] \in StreamStates
           /\ [x EXCEPT !.fill = f].head = x.head /\ [x EXCEPT !.fill = f].tail = x.tail
           /\ [x EXCEPT !.fill = f].buf = x.buf /\ [x EXCEPT !.fill = f].fill = f
  BY DEF StreamStates

LEMMA WithHead ==
    ASSUME NEW x \in StreamStates, NEW h \in Places
    PROVE  /\ [x EXCEPT !.head = h] \in StreamStates
           /\ [x EXCEPT !.head = h].head = h /\ [x EXCEPT !.head = h].tail = x.tail
           /\ [x EXCEPT !.head = h].buf = x.buf /\ [x EXCEPT !.head = h].fill = x.fill
  BY DEF StreamStates

LEMMA WithTail ==
    ASSUME NEW x \in StreamStates, NEW h \in Places
    PROVE  /\ [x EXCEPT !.tail = h] \in StreamStates
           /\ [x EXCEPT !.tail = h].head = x.head /\ [x EXCEPT !.tail = h].tail = h
           /\ [x EXCEPT !.tail = h].buf = x.buf /\ [x EXCEPT !.tail = h].fill = x.fill
  BY DEF StreamStates

\* An emptied buffer.
Emptied(b) == [b EXCEPT !.data = <<>>]

LEMMA EmptiedType ==
    ASSUME NEW b \in Sectors
    PROVE  Emptied(b) \in Sectors /\ Emptied(b).data = <<>>
<1>1. <<>> \in Batches
  BY RecConstants DEF Batches
<1>2. b \in [stamped : BOOLEAN, data : Batches]
  BY DEF Sectors
<1> QED
  BY <1>1, <1>2 DEF Emptied, Sectors

LEMMA Taken ==
    ASSUME NEW x \in StreamStates, NEW h \in Places, NEW i \in Places, NEW f \in 0 .. Cap - 1
    PROVE  LET y == [head |-> x.head, tail |-> h, fill |-> f, buf |-> [x.buf EXCEPT ![i] = Emptied(@)]]
           IN  y \in StreamStates
<1>1. x.head \in Places /\ x.buf \in [Places -> Sectors] /\ x.buf[i] \in Sectors
  BY DEF StreamStates
<1>2. [x.buf EXCEPT ![i] = Emptied(@)] \in [Places -> Sectors]
  BY <1>1, EmptiedType
<1> QED
  BY <1>1, <1>2 DEF StreamStates

\* What Take and StopClear make of a stream.
Without1(x, h, i, f) ==
    [head |-> x.head, tail |-> h, fill |-> f, buf |-> [x.buf EXCEPT ![i] = Emptied(@)]]

LEMMA TakeIs ==
    ASSUME RecTypes, NEW s \in Streams
    PROVE  /\ Take(s) = [st EXCEPT ![s] = Without1(st[s], Next1(st[s].tail), st[s].tail, st[s].fill)]
           /\ Take(s) \in [Streams -> StreamStates]
<1> DEFINE x == st[s]
           y == Without1(x, Next1(x.tail), x.tail, x.fill)
<1>1. /\ st \in [Streams -> StreamStates] /\ x \in StreamStates /\ x.tail \in Places
      /\ x.fill \in 0 .. Cap - 1 /\ x.buf \in [Places -> Sectors] /\ x.buf[x.tail] \in Sectors
  BY StreamIs
<1>2. Next1(x.tail) \in Places
  BY <1>1, NextPlace
<1>3. Take(s) = [st EXCEPT ![s] = [[x EXCEPT !.tail = Next1(x.tail)] EXCEPT
                                     !.buf = [x.buf EXCEPT ![x.tail] = [x.buf[x.tail] EXCEPT !.data = <<>>]]]]
  BY <1>1, <1>2 DEF Take, StreamStates
<1>4. [[x EXCEPT !.tail = Next1(x.tail)] EXCEPT
         !.buf = [x.buf EXCEPT ![x.tail] = [x.buf[x.tail] EXCEPT !.data = <<>>]]] = y
  <2> DEFINE nb == [x.buf EXCEPT ![x.tail] = [x.buf[x.tail] EXCEPT !.data = <<>>]]
             z == [x EXCEPT !.tail = Next1(x.tail)]
  <2>1. x = [head |-> x.head, tail |-> x.tail, fill |-> x.fill, buf |-> x.buf]
    BY <1>1 DEF StreamStates
  <2>2. y = [head |-> x.head, tail |-> Next1(x.tail), fill |-> x.fill, buf |-> nb]
    BY DEF Without1, Emptied
  <2> HIDE DEF x, y, nb
  <2>3. z = [head |-> x.head, tail |-> Next1(x.tail), fill |-> x.fill, buf |-> x.buf]
    BY <2>1
  <2> HIDE DEF z
  <2>4. [z EXCEPT !.buf = nb] = [head |-> x.head, tail |-> Next1(x.tail), fill |-> x.fill, buf |-> nb]
    BY <2>3
  <2> QED
    BY <2>2, <2>4 DEF z, nb
<1>5. y \in StreamStates
  BY <1>1, <1>2, Taken DEF Without1
<1> QED
  BY <1>1, <1>3, <1>4, <1>5

LEMMA OrderIs == Len(Order) = 2 /\ Order[1] = "imu" /\ Order[2] = "txt" /\ \A i \in 1 .. 2 : Order[i] \in Streams
  BY DEF Order, Streams

LEMMA FirstOf ==
    ASSUME NEW S \in SUBSET (1 .. 2), S # {}
    PROVE  Min(S) \in S /\ Min(S) \in 1 .. 2 /\ \A i \in S : Min(S) <= i
<1>1. \E m \in S : \A i \in S : m <= i
  <2>1. CASE 1 \in S
    BY <2>1
  <2>2. CASE 1 \notin S
    <3>1. \A i \in S : i = 2
      <4> TAKE i \in S
      <4>1. i \in 1 .. 2 /\ i # 1
        BY <2>2
      <4> QED
        BY <4>1
    <3>2. PICK m \in S : TRUE
      OBVIOUS
    <3> QED
      BY <3>1, <3>2
  <2> QED
    BY <2>1, <2>2
<1> QED
  BY <1>1 DEF Min

LEMMA WaitingIn ==
    ASSUME NEW i \in 1 .. 3
    PROVE  Waiting(i) \in SUBSET (1 .. 2) /\ Partial(i) \in SUBSET (1 .. 2)
<1>1. Len(Order) = 2
  BY OrderIs
<1> QED
  BY <1>1 DEF Waiting, Partial

LEMMA TickTypes == RecTypes /\ Tick => CoreTypes'
<1> SUFFICES ASSUME RecTypes, Tick PROVE CoreTypes'
  OBVIOUS
<1>1. "txt" \in Streams /\ 0 \in 0 .. Cap - 1
  BY RecConstants DEF Streams
<1>2. st["txt"] \in StreamStates /\ st \in [Streams -> StreamStates] /\ stored \in [Streams -> SUBSET Nat]
  BY <1>1, StreamIs
<1>3. st' \in [Streams -> StreamStates]
  <2>1. st' = st \/ st' = [st EXCEPT !["txt"] = [st["txt"] EXCEPT !.fill = 0]]
    BY DEF Tick
  <2> QED
    BY <1>1, <1>2, <2>1, WithFill
<1>4. LoopTypeOK' /\ CardTypes'
  BY LoopTypes, LoopKept, CardKept DEF Tick, Stay, Rest
<1>5. StreamTypes'
  BY <1>2, <1>3, StreamsKept DEF Tick, Rest
<1>6. PhaseInv'
  BY DEF Tick, Stay, RecTypes, PhaseInv, Phases, InSession
<1> QED
  BY <1>4, <1>5, <1>6 DEF CoreTypes

LEMMA FlushTypes == RecTypes /\ FlushHead => CoreTypes'
<1> SUFFICES ASSUME RecTypes, FlushHead PROVE CoreTypes'
  OBVIOUS
<1>1. "txt" \in Streams
  BY DEF Streams
<1>2. /\ st["txt"] \in StreamStates /\ st \in [Streams -> StreamStates]
      /\ stored \in [Streams -> SUBSET Nat] /\ Next1(st["txt"].head) \in Places
  BY <1>1, StreamIs, NextPlace
<1>3. st' \in [Streams -> StreamStates]
  <2>1. st' = st \/ st' = [st EXCEPT !["txt"] = [st["txt"] EXCEPT !.head = Next1(st["txt"].head)]]
    BY DEF FlushHead
  <2> QED
    BY <1>1, <1>2, <2>1, WithHead
<1>4. LoopTypeOK' /\ CardTypes'
  BY LoopTypes, LoopKept, CardKept DEF FlushHead, Stay, Rest
<1>5. StreamTypes'
  <2>1. dropped' \in Nat
    BY DEF FlushHead, RecTypes, StreamTypes
  <2>2. made' = made /\ raced' = raced /\ flight' = flight /\ stored' = stored
    BY DEF FlushHead, Rest
  <2> QED
    BY <1>3, <2>1, <2>2 DEF RecTypes, StreamTypes
<1>6. PhaseInv'
  BY DEF FlushHead, Stay, RecTypes, PhaseInv, Phases, InSession
<1> QED
  BY <1>4, <1>5, <1>6 DEF CoreTypes

LEMMA StreamsSame ==
    ASSUME RecTypes, UNCHANGED <<flight, st, made, stored, dropped, raced>>
    PROVE  StreamTypes'
  BY DEF RecTypes, StreamTypes

LEMMA DecideTypes == RecTypes /\ Decide => CoreTypes'
<1> SUFFICES ASSUME RecTypes, Decide PROVE CoreTypes'
  OBVIOUS
<1>1. turn' \in {turn, After("log")} /\ UNCHANGED <<fails, card, hdr, frames, cursor, at, open, active>>
  BY DEF Decide, Done, Stay
<1>2. LoopTypeOK' /\ CardTypes'
  BY <1>1, LoopTypes, LoopKept, CardKept DEF Decide, Rest
<1>3. StreamTypes'
  BY StreamsSame DEF Decide, Rest, streamVars
<1>4. PhaseInv'
  <2>1. turn = "log" /\ pc = "decide"
    BY DEF Decide
  <2>2. \/ open /\ pc' \in {"endEvents", "events"} /\ turn' = turn
        \/ ~open /\ pc' = "start" /\ turn' = turn
        \/ pc' = "idle"
    BY DEF Decide, Done, Stay
  <2> QED
    BY <1>1, <2>1, <2>2 DEF RecTypes, PhaseInv, Phases, InSession
<1> QED
  BY <1>2, <1>3, <1>4 DEF CoreTypes

LEMMA NextSession ==
    ASSUME RecTypes
    PROVE  LET c == [cursor EXCEPT !.session = @ + 1]
           IN  /\ c \in Cursors /\ c.since = cursor.since /\ c.slot = cursor.slot
               /\ c.seq = cursor.seq /\ c.gen = cursor.gen /\ c.session = cursor.session + 1
<1>1. cursor \in Cursors
  BY DEF RecTypes, CardTypes
<1>2. cursor.session + 1 \in Nat
  BY <1>1 DEF Cursors
<1> QED
  BY <1>1, <1>2 DEF Cursors

LEMMA EmptyBatch == <<>> \in Seq(Nat)
  OBVIOUS

LEMMA StartTypes == RecTypes /\ SessionStart => CoreTypes'
<1> SUFFICES ASSUME RecTypes, SessionStart PROVE CoreTypes'
  OBVIOUS
<1> DEFINE c == [cursor EXCEPT !.session = @ + 1]
<1>1. c \in Cursors /\ c.since = cursor.since
  BY NextSession
<1>2. "imu" \in Streams
  BY DEF Streams
<1>3. /\ st["imu"] \in StreamStates /\ st \in [Streams -> StreamStates] /\ st["imu"].head \in Places
      /\ stored \in [Streams -> SUBSET Nat]
  BY <1>2, StreamIs
<1>4. /\ turn = "log" /\ pc = "start" /\ at' = at
      /\ UNCHANGED <<offered, boots, suppressed, flight, life, made, raced, dropped, stored>>
  BY DEF SessionStart, Rest
<1> HIDE DEF c
<1>5. CASE /\ IF exists THEN CardFails ELSE CardWorks
           /\ Done
           /\ UNCHANGED <<st, card, hdr, frames, open, active, cursor>>
  <2>1. fails' \in 0 .. MaxFails
    BY <1>5, CardOutcome
  <2>2. LoopTypeOK' /\ CardTypes'
    BY <1>4, <1>5, <2>1, LoopKept, CardKept DEF Done
  <2>3. StreamTypes'
    BY <1>4, <1>5, StreamsSame
  <2>4. PhaseInv'
    BY <1>4, <1>5 DEF Done, RecTypes, PhaseInv, Phases, InSession
  <2> QED
    BY <2>2, <2>3, <2>4 DEF CoreTypes
<1>6. ASSUME NEW how \in Outcomes, RingWrite(c, how, "ctl", "session", <<>>, TRUE),
             IF how = "ok"
             THEN /\ open' = TRUE /\ active' = TRUE
                  /\ st' = [st EXCEPT !["imu"].tail = st["imu"].head]
                  /\ pc' = "events" /\ Stay
             ELSE Done /\ UNCHANGED <<open, active, st>>
      PROVE  CoreTypes'
  <2>1. Logged(c, "ctl", "session", <<>>, TRUE)
    BY <1>1, <1>6, RingWriteCases DEF Logged
  <2>2. CardTypes' /\ fails' \in 0 .. MaxFails
    BY <1>1, <1>4, <2>1, LoggedTypes, EmptyBatch DEF FrameKinds
  <2>3. LoopTypeOK'
    BY <1>4, <1>6, <2>2, LoopKept DEF Stay, Done
  <2>4. st' \in [Streams -> StreamStates]
    <3>1. st' = st \/ st' = [st EXCEPT !["imu"] = [st["imu"] EXCEPT !.tail = st["imu"].head]]
      BY <1>6
    <3> QED
      BY <1>2, <1>3, <3>1, WithTail
  <2>5. StreamTypes'
    BY <1>3, <1>4, <2>4, StreamsKept
  <2>6. PhaseInv'
    BY <1>4, <1>6 DEF Stay, Done, RecTypes, PhaseInv, Phases, InSession
  <2> QED
    BY <2>2, <2>3, <2>5, <2>6 DEF CoreTypes
<1> QED
  BY <1>5, <1>6 DEF SessionStart, c

LEMMA EventsTypes == RecTypes /\ Events => CoreTypes'
<1> SUFFICES ASSUME RecTypes, Events PROVE CoreTypes'
  OBVIOUS
<1>1. cursor \in Cursors
  BY DEF RecTypes, CardTypes
<1>2. /\ turn = "log" /\ pc \in {"events", "endEvents"} /\ at' = at /\ Stay
      /\ pc' = (IF pc = "events" THEN "drain" ELSE "stop")
      /\ UNCHANGED <<offered, boots, suppressed, flight, life, st, made, raced, dropped, stored, open, active>>
  BY DEF Events, Rest, streamVars
<1>3. CardTypes' /\ fails' \in 0 .. MaxFails
  <2>1. CASE flight = ev
    BY <1>2, <2>1, CardKept, LoopTypes DEF Events
  <2>2. CASE flight # ev
    <3>1. PICK how \in Outcomes : RingWrite(cursor, how, "ctl", "event", <<>>, FALSE)
      BY <2>2 DEF Events
    <3>2. Logged(cursor, "ctl", "event", <<>>, FALSE)
      BY <1>1, <3>1, RingWriteCases DEF Logged
    <3> QED
      BY <1>1, <1>2, <3>2, LoggedTypes, EmptyBatch DEF FrameKinds
  <2> QED
    BY <2>1, <2>2
<1>4. LoopTypeOK'
  BY <1>2, <1>3, LoopKept DEF Stay
<1>5. StreamTypes'
  BY <1>2, StreamsSame
<1>6. PhaseInv'
  BY <1>2 DEF Stay, RecTypes, PhaseInv, Phases, InSession
<1> QED
  BY <1>3, <1>4, <1>5, <1>6 DEF CoreTypes

LEMMA DrainTypes == RecTypes /\ Drain => CoreTypes'
<1> SUFFICES ASSUME RecTypes, Drain PROVE CoreTypes'
  OBVIOUS
<1>1. /\ turn = "log" /\ pc = "drain" /\ at' = at
      /\ UNCHANGED <<offered, boots, suppressed, flight, life, made, raced, dropped, open, active>>
  BY DEF Drain, Rest
<1>2. open
  BY <1>1 DEF RecTypes, PhaseInv, InSession
<1>3. CASE Waiting(1) = {}
  <2>1. Done /\ UNCHANGED <<fails, st, card, hdr, frames, cursor, stored>>
    BY <1>3 DEF Drain
  <2>2. LoopTypeOK' /\ CardTypes' /\ StreamTypes'
    BY <1>1, <2>1, LoopTypes, LoopKept, CardKept, StreamsSame DEF Done
  <2>3. PhaseInv'
    BY <1>1, <2>1 DEF Done, RecTypes, PhaseInv, Phases, InSession
  <2> QED
    BY <2>2, <2>3 DEF CoreTypes
<1>4. CASE Waiting(1) # {}
  <2> DEFINE s == Order[Min(Waiting(1))]
  <2>1. Waiting(1) \in SUBSET (1 .. 2) /\ Min(Waiting(1)) \in 1 .. 2
    BY <1>4, WaitingIn, FirstOf
  <2>2. s \in Streams
    BY <2>1, OrderIs
  <2>3. PICK how \in Outcomes :
           /\ WriteSector(how, s, st[s].buf[st[s].tail])
           /\ st' = (IF how = "ok" THEN Take(s) ELSE st)
           /\ pc' = (IF how = "ok" THEN pc ELSE "stop") /\ Stay
    BY <1>4 DEF Drain
  <2> HIDE DEF s
  <2>4. st[s].buf[st[s].tail] \in Sectors /\ st \in [Streams -> StreamStates]
    BY <2>2, StreamIs
  <2>5. CardTypes' /\ fails' \in 0 .. MaxFails /\ stored' \in [Streams -> SUBSET Nat]
    BY <1>1, <2>2, <2>3, <2>4, SectorCases
  <2>6. StreamTypes'
    BY <1>1, <2>2, <2>3, <2>4, <2>5, TakeIs, StreamsKept
  <2>7. LoopTypeOK'
    BY <1>1, <2>3, <2>5, LoopKept DEF Stay
  <2>8. PhaseInv'
    BY <1>1, <1>2, <2>3 DEF Stay, RecTypes, PhaseInv, Phases, InSession
  <2> QED
    BY <2>5, <2>6, <2>7, <2>8 DEF CoreTypes
<1> QED
  BY <1>3, <1>4

LEMMA StopTypes == RecTypes /\ SessionStop => CoreTypes'
<1> SUFFICES ASSUME RecTypes, SessionStop PROVE CoreTypes'
  OBVIOUS
<1>1. /\ turn = "log" /\ pc = "stop" /\ at' = 1 /\ Stay /\ active' = FALSE /\ pc' = "stopQ"
      /\ UNCHANGED <<offered, boots, suppressed, flight, life, fails, raced, card, hdr, frames, open,
                     cursor, stored>>
      /\ Append1("txt")
  BY DEF SessionStop, Rest
<1>2. /\ st' \in [Streams -> StreamStates] /\ made' \in [Streams -> SUBSET Nat] /\ dropped' \in Nat
      /\ \A t \in Streams : \E n \in Nat : made'[t] = 1 .. n
  <2>1. "txt" \in Streams
    BY DEF Streams
  <2> QED
    BY <1>1, <2>1, AppendIs
<1>3. StreamTypes'
  BY <1>1, <1>2 DEF RecTypes, StreamTypes
<1>4. LoopTypeOK' /\ CardTypes'
  BY <1>1, LoopTypes, LoopKept, CardKept DEF Stay
<1>5. PhaseInv'
  <2>1. open = TRUE
    BY <1>1 DEF RecTypes, PhaseInv, InSession
  <2>2. open' = TRUE /\ turn' = "log"
    BY <1>1, <2>1 DEF Stay
  <2>3. open' \in BOOLEAN /\ active' \in BOOLEAN
    BY <1>1, <2>2
  <2>4. pc' = "stopQ" /\ at' \in 1 .. 3 /\ ~active' /\ open'
    BY <1>1, <2>2
  <2> QED
    BY <2>2, <2>3, <2>4 DEF PhaseInv, Phases, InSession
<1> QED
  BY <1>3, <1>4, <1>5 DEF CoreTypes

LEMMA QueueTypes == RecTypes /\ StopQueue => CoreTypes'
<1> SUFFICES ASSUME RecTypes, StopQueue PROVE CoreTypes'
  OBVIOUS
<1>1. /\ turn = "log" /\ pc = "stopQ" /\ Stay
      /\ UNCHANGED <<offered, boots, suppressed, flight, life, made, raced, dropped, open, active>>
  BY DEF StopQueue, Rest
<1>2. at \in 1 .. 3
  BY DEF RecTypes, PhaseInv
<1>3. CASE Waiting(at) = {}
  <2>1. pc' = "stopP" /\ at' = 1 /\ UNCHANGED <<fails, st, card, hdr, frames, cursor, stored>>
    BY <1>3 DEF StopQueue
  <2>2. LoopTypeOK' /\ CardTypes' /\ StreamTypes'
    BY <1>1, <2>1, LoopTypes, LoopKept, CardKept, StreamsSame DEF Stay
  <2>3. PhaseInv'
    BY <1>1, <2>1 DEF Stay, RecTypes, PhaseInv, Phases, InSession
  <2> QED
    BY <2>2, <2>3 DEF CoreTypes
<1>4. CASE Waiting(at) # {}
  <2> DEFINE i == Min(Waiting(at))
             s == Order[i]
  <2>1. Waiting(at) \in SUBSET (1 .. 2) /\ i \in 1 .. 2
    BY <1>2, <1>4, WaitingIn, FirstOf
  <2>2. s \in Streams
    BY <2>1, OrderIs
  <2>3. PICK how \in Outcomes :
           /\ WriteSector(how, s, st[s].buf[st[s].tail])
           /\ st' = (IF how = "ok" THEN Take(s) ELSE st)
           /\ at' = (IF how = "ok" THEN i ELSE i + 1)
           /\ pc' = pc
    BY <1>4 DEF StopQueue
  <2> HIDE DEF s, i
  <2>4. st[s].buf[st[s].tail] \in Sectors /\ st \in [Streams -> StreamStates]
    BY <2>2, StreamIs
  <2>5. CardTypes' /\ fails' \in 0 .. MaxFails /\ stored' \in [Streams -> SUBSET Nat]
    BY <1>1, <2>2, <2>3, <2>4, SectorCases
  <2>6. StreamTypes'
    BY <1>1, <2>2, <2>3, <2>4, <2>5, TakeIs, StreamsKept
  <2>7. LoopTypeOK'
    BY <1>1, <2>5, LoopKept DEF Stay
  <2>8. PhaseInv'
    <3>1. at' \in 1 .. 3
      BY <2>1, <2>3
    <3> QED
      BY <1>1, <2>3, <3>1 DEF Stay, RecTypes, PhaseInv, Phases, InSession
  <2> QED
    BY <2>5, <2>6, <2>7, <2>8 DEF CoreTypes
<1> QED
  BY <1>3, <1>4

LEMMA PartialTypes == RecTypes /\ StopPartial => CoreTypes'
<1> SUFFICES ASSUME RecTypes, StopPartial PROVE CoreTypes'
  OBVIOUS
<1> DEFINE i == Min(Partial(at))
           s == Order[i]
<1>1. /\ turn = "log" /\ pc = "stopP" /\ Partial(at) # {} /\ Stay /\ pc' = "clear" /\ at' = i
      /\ UNCHANGED <<offered, boots, suppressed, flight, life, st, made, raced, dropped, open, active>>
  BY DEF StopPartial, Rest, streamVars
<1>2. at \in 1 .. 3
  BY DEF RecTypes, PhaseInv
<1>3. Partial(at) \in SUBSET (1 .. 2) /\ i \in 1 .. 2
  BY <1>1, <1>2, WaitingIn, FirstOf
<1>4. s \in Streams
  BY <1>3, OrderIs
<1>5. PICK how \in Outcomes : WriteSector(how, s, st[s].buf[st[s].head])
  BY DEF StopPartial, AtHead
<1> HIDE DEF i, s
<1>6. st[s].buf[st[s].head] \in Sectors /\ st \in [Streams -> StreamStates]
  BY <1>4, StreamIs
<1>7. CardTypes' /\ fails' \in 0 .. MaxFails /\ stored' \in [Streams -> SUBSET Nat]
  BY <1>1, <1>4, <1>5, <1>6, SectorCases
<1>8. StreamTypes'
  BY <1>1, <1>6, <1>7, StreamsKept
<1>9. LoopTypeOK'
  BY <1>1, <1>7, LoopKept DEF Stay
<1>10. PhaseInv'
  BY <1>1, <1>3 DEF Stay, RecTypes, PhaseInv, Phases, InSession
<1> QED
  BY <1>7, <1>8, <1>9, <1>10 DEF CoreTypes

LEMMA ClearIs ==
    ASSUME RecTypes, NEW s \in Streams
    PROVE  LET new == [st EXCEPT ![s].fill = 0, ![s].buf[st[s].head].data = <<>>]
           IN  /\ new = [st EXCEPT ![s] = Without1(st[s], st[s].tail, st[s].head, 0)]
               /\ new \in [Streams -> StreamStates]
<1> DEFINE x == st[s]
           y == Without1(x, x.tail, x.head, 0)
<1>1. /\ st \in [Streams -> StreamStates] /\ x \in StreamStates /\ x.tail \in Places
      /\ x.head \in Places /\ 0 \in 0 .. Cap - 1 /\ x.buf \in [Places -> Sectors]
      /\ x.buf[x.head] \in Sectors
  BY StreamIs, RecConstants
<1>2. [st EXCEPT ![s].fill = 0, ![s].buf[st[s].head].data = <<>>] =
      [st EXCEPT ![s] = [[x EXCEPT !.fill = 0] EXCEPT
                           !.buf = [x.buf EXCEPT ![x.head] = [x.buf[x.head] EXCEPT !.data = <<>>]]]]
  BY <1>1 DEF StreamStates
<1>3. [[x EXCEPT !.fill = 0] EXCEPT
         !.buf = [x.buf EXCEPT ![x.head] = [x.buf[x.head] EXCEPT !.data = <<>>]]] = y
  <2> DEFINE nb == [x.buf EXCEPT ![x.head] = [x.buf[x.head] EXCEPT !.data = <<>>]]
             z == [x EXCEPT !.fill = 0]
  <2>1. x = [head |-> x.head, tail |-> x.tail, fill |-> x.fill, buf |-> x.buf]
    BY <1>1 DEF StreamStates
  <2>2. y = [head |-> x.head, tail |-> x.tail, fill |-> 0, buf |-> nb]
    BY DEF Without1, Emptied
  <2> HIDE DEF x, y, nb
  <2>3. z = [head |-> x.head, tail |-> x.tail, fill |-> 0, buf |-> x.buf]
    BY <2>1
  <2> HIDE DEF z
  <2>4. [z EXCEPT !.buf = nb] = [head |-> x.head, tail |-> x.tail, fill |-> 0, buf |-> nb]
    BY <2>3
  <2> QED
    BY <2>2, <2>4 DEF z, nb
<1>4. y \in StreamStates
  BY <1>1, Taken DEF Without1
<1> QED
  BY <1>1, <1>2, <1>3, <1>4

LEMMA ClearTypes == RecTypes /\ StopClear => CoreTypes'
<1> SUFFICES ASSUME RecTypes, StopClear PROVE CoreTypes'
  OBVIOUS
<1>1. /\ turn = "log" /\ pc = "clear" /\ pc' = "stopP" /\ at' = at + 1 /\ Stay
      /\ UNCHANGED <<offered, boots, suppressed, flight, life, fails, made, raced, dropped, card, hdr,
                     frames, open, active, cursor, stored>>
      /\ st' = [st EXCEPT ![Order[at]].fill = 0,
                          ![Order[at]].buf[st[Order[at]].head].data = <<>>]
  BY DEF StopClear, Rest
<1>2. at \in 1 .. 2 /\ Order[at] \in Streams
  BY <1>1, OrderIs DEF RecTypes, PhaseInv
<1>3. st' \in [Streams -> StreamStates] /\ stored \in [Streams -> SUBSET Nat]
  BY <1>1, <1>2, ClearIs, StreamIs
<1>4. StreamTypes'
  BY <1>1, <1>3, StreamsKept
<1>5. LoopTypeOK' /\ CardTypes'
  BY <1>1, LoopTypes, LoopKept, CardKept DEF Stay
<1>6. PhaseInv'
  BY <1>1, <1>2 DEF Stay, RecTypes, PhaseInv, Phases, InSession
<1> QED
  BY <1>4, <1>5, <1>6 DEF CoreTypes

\* The cursor once its header is on the card.
Synced == [cursor EXCEPT !.since = 0]

LEMMA SyncedIs ==
    ASSUME RecTypes
    PROVE  /\ Synced \in Cursors /\ Synced.since = 0 /\ Synced.slot = cursor.slot
           /\ Synced.seq = cursor.seq /\ Synced.gen = cursor.gen /\ Synced.session = cursor.session
           /\ Header(cursor) \in Headers /\ Header(cursor).seq = cursor.seq
           /\ Header(cursor).gen = cursor.gen /\ Header(cursor).slot = cursor.slot
<1>1. cursor \in Cursors
  BY DEF RecTypes, CardTypes
<1> QED
  BY <1>1 DEF Synced, Cursors, Header, Headers

LEMMA HeaderTypes ==
    ASSUME RecTypes, UNCHANGED <<card, frames, life, boots>>, cursor' \in Cursors, hdr' \in Headers
    PROVE  CardTypes'
<1>1. card' = card /\ frames' = frames /\ life' = life /\ boots' = boots
  OBVIOUS
<1> QED
  BY <1>1 DEF RecTypes, CardTypes, Numbered, On

LEMMA CloseTypes == RecTypes /\ StopClose => CoreTypes'
<1> SUFFICES ASSUME RecTypes, StopClose PROVE CoreTypes'
  OBVIOUS
<1>1. /\ turn = "log" /\ pc = "stopP" /\ open' = FALSE /\ at' = 1 /\ Done
      /\ UNCHANGED <<offered, boots, suppressed, flight, life, st, made, raced, dropped, card, frames,
                     active, stored>>
  BY DEF StopClose, Rest, streamVars
<1>2. ~active
  BY <1>1 DEF RecTypes, PhaseInv
<1>3. /\ fails' \in 0 .. MaxFails
      /\ \/ cursor' = Synced /\ hdr' = Header(cursor)
         \/ cursor' = cursor /\ hdr' = hdr
  BY CardOutcome DEF StopClose, Synced
<1>4. CardTypes'
  BY <1>1, <1>3, SyncedIs, HeaderTypes DEF RecTypes, CardTypes
<1>5. StreamTypes' /\ LoopTypeOK'
  BY <1>1, <1>3, StreamsSame, LoopKept DEF Done
<1>6. PhaseInv'
  <2>1. active' = FALSE /\ pc' = "idle"
    BY <1>1, <1>2 DEF Done, RecTypes, PhaseInv
  <2>2. open' \in BOOLEAN /\ active' \in BOOLEAN
    BY <1>1, <2>1
  <2>3. pc' = "idle" /\ at' \in 1 .. 3 /\ ~active' /\ ~open'
    BY <1>1, <2>1
  <2> QED
    BY <2>2, <2>3 DEF PhaseInv, Phases, InSession
<1> QED
  BY <1>4, <1>5, <1>6 DEF CoreTypes

LEMMA RecorderTypes == RecTypes /\ Recorder => CoreTypes'
  BY TickTypes, FlushTypes, DecideTypes, StartTypes, EventsTypes, DrainTypes, StopTypes, QueueTypes,
     PartialTypes, ClearTypes, CloseTypes DEF Recorder

\* imu_hs_log_boot_init: no file, the file resumed, or the file started over.
NoFile == cursor' = cursor /\ hdr' = hdr /\ card' = card /\ life' = life /\ amnesia' = TRUE
Resumed ==
    /\ cursor' \in Cursors /\ cursor'.slot = hdr.slot /\ cursor'.seq = hdr.seq + Margin
    /\ cursor'.gen = hdr.gen /\ cursor'.since = cursor.since
    /\ hdr' \in Headers
    /\ \/ hdr'.seq = cursor'.seq /\ hdr'.gen = cursor'.gen
       \/ hdr' = hdr /\ fails' = fails + 1
    /\ card' = card /\ life' = life /\ amnesia' = amnesia
StartedOver ==
    /\ cursor' \in Cursors /\ cursor'.since = cursor.since
    /\ hdr' \in Headers /\ hdr'.seq = cursor'.seq /\ hdr'.gen = cursor'.gen
    /\ life' = life + 1
    /\ \/ cursor'.gen = Cyc(hdr.gen + 1) /\ card' = card /\ amnesia' = amnesia
       \/ card' = [i \in Slots |-> None]
       \/ card' = card /\ amnesia' = TRUE

LEMMA HeaderIs ==
    ASSUME NEW c \in Cursors
    PROVE  Header(c) \in Headers /\ Header(c).seq = c.seq /\ Header(c).gen = c.gen
  BY DEF Cursors, Headers, Header

LEMMA BootCases ==
    ASSUME RecTypes, BootInit
    PROVE  /\ fails' \in 0 .. MaxFails /\ fails <= fails'
           /\ pc = "boot" /\ pc' = "idle" /\ frames' = frames /\ boots' = boots
           /\ NoFile \/ Resumed \/ StartedOver
<1>1. /\ cursor \in Cursors /\ hdr \in Headers /\ hdr.slot \in Slots /\ hdr.seq \in Nat
      /\ hdr.gen \in Gens /\ Margin \in Nat
  BY RecConstants DEF RecTypes, CardTypes, Headers
<1>2. pc = "boot" /\ pc' = "idle" /\ frames' = frames /\ boots' = boots
  BY DEF BootInit
<1>3. fails' \in 0 .. MaxFails /\ fails <= fails'
  <2>1. CardWorks \/ CardFails
    BY DEF BootInit
  <2> QED
    BY <2>1, CardOutcome
<1>4. CASE CardFails /\ amnesia' = TRUE /\ UNCHANGED <<cursor, hdr, card, exists, life>>
  BY <1>2, <1>3, <1>4 DEF NoFile
<1>5. CASE /\ cursor' = [cursor EXCEPT !.slot = hdr.slot, !.seq = ResumeSeq(hdr), !.gen = hdr.gen]
           /\ \/ CardWorks /\ hdr' = Header(cursor')
              \/ CardFails /\ hdr' = hdr
           /\ UNCHANGED <<card, exists, life, amnesia>>
  <2>1. cursor' \in Cursors /\ cursor'.slot = hdr.slot /\ cursor'.seq = hdr.seq + Margin
        /\ cursor'.gen = hdr.gen /\ cursor'.since = cursor.since
    <3>1. hdr.seq + Margin \in Nat
      BY <1>1
    <3> QED
      BY <1>1, <1>5, <3>1 DEF Cursors, ResumeSeq
  <2>2. \/ hdr' = Header(cursor')
        \/ hdr' = hdr /\ fails' = fails + 1
    BY <1>5 DEF CardFails
  <2> QED
    BY <1>1, <1>2, <1>3, <1>5, <2>1, <2>2, HeaderIs DEF Resumed
<1>6. ASSUME NEW g \in Gens, cursor' = [cursor EXCEPT !.gen = g], hdr' = Header(cursor')
      PROVE  /\ cursor' \in Cursors /\ cursor'.since = cursor.since /\ cursor'.gen = g
             /\ hdr' \in Headers /\ hdr'.seq = cursor'.seq /\ hdr'.gen = cursor'.gen
  <2>1. cursor' \in Cursors /\ cursor'.since = cursor.since /\ cursor'.gen = g
    BY <1>1, <1>6 DEF Cursors
  <2> QED
    BY <1>6, <2>1, HeaderIs
<1>7. CASE /\ life' = life + 1 /\ cursor' = [cursor EXCEPT !.gen = NextGen(hdr.gen)]
           /\ UNCHANGED <<card, amnesia>> /\ hdr' = Header(cursor')
  BY <1>1, <1>2, <1>3, <1>6, <1>7, NextGenIs DEF StartedOver
<1>8. ASSUME life' = life + 1, hdr' = Header(cursor'), NEW g \in StartGens,
             cursor' = [cursor EXCEPT !.gen = FreshGen(g)],
             card' = IF exists THEN card ELSE [i \in 0 .. (Ring - 1) |-> None],
             amnesia' = (amnesia \/ exists)
      PROVE  StartedOver
  <2>1. FreshGen(g) \in Gens
    BY RecConstants, FreshGenIs
  <2>2. /\ cursor' \in Cursors /\ cursor'.since = cursor.since
        /\ hdr' \in Headers /\ hdr'.seq = cursor'.seq /\ hdr'.gen = cursor'.gen
    BY <1>6, <1>8, <2>1
  <2>3. CASE exists
    BY <1>8, <2>2, <2>3 DEF StartedOver
  <2>4. CASE ~exists
    BY <1>8, <2>2, <2>4 DEF StartedOver, Slots
  <2> QED
    BY <2>3, <2>4
<1> QED
  BY <1>2, <1>3, <1>4, <1>5, <1>7, <1>8 DEF BootInit

LEMMA BootTypes == RecTypes /\ BootInit => CoreTypes'
<1> SUFFICES ASSUME RecTypes, BootInit PROVE CoreTypes'
  OBVIOUS
<1>1. /\ fails' \in 0 .. MaxFails /\ pc = "boot" /\ pc' = "idle" /\ frames' = frames
      /\ NoFile \/ Resumed \/ StartedOver
  BY BootCases
<1>2. /\ UNCHANGED <<offered, turn, boots, suppressed, flight, st, made, raced, dropped, at, open,
                     active, stored>>
  BY DEF BootInit, streamVars
<1>3. LoopTypeOK' /\ StreamTypes'
  BY <1>1, <1>2, LoopKept, StreamsSame
<1>4. PhaseInv'
  BY <1>1, <1>2 DEF RecTypes, PhaseInv, Phases, InSession
<1>5. /\ cursor \in Cursors /\ hdr \in Headers /\ card \in [Slots -> LogFrames \union {None}]
      /\ frames \in Nat /\ life \in Nat /\ Numbered
  BY DEF RecTypes, CardTypes
<1>6. \A i \in Slots : On(i) => card[i].life \in Nat
  BY <1>5 DEF On, LogFrames
<1>7. cursor' \in Cursors /\ hdr' \in Headers /\ life' \in Nat /\ life <= life'
      /\ (card' = card \/ card' = [i \in Slots |-> None])
  BY <1>1, <1>5 DEF NoFile, Resumed, StartedOver
<1>8. CardTypes'
  <2>1. CASE card' = card
    <3>1. \A i \in Slots : On(i) => card[i].life <= life'
      BY <1>5, <1>6, <1>7 DEF Numbered
    <3> QED
      BY <1>1, <1>2, <1>5, <1>7, <2>1, <3>1 DEF CardTypes, Numbered, On
  <2>2. CASE card' = [i \in Slots |-> None]
    <3>1. card' \in [Slots -> LogFrames \union {None}] /\ \A i \in Slots : card'[i] = None
      BY <2>2
    <3> QED
      BY <1>1, <1>5, <1>7, <3>1 DEF CardTypes, Numbered, On
  <2> QED
    BY <1>7, <2>1, <2>2
<1> QED
  BY <1>3, <1>4, <1>8 DEF CoreTypes

LEMMA RecordTypes ==
    ASSUME RecTypes, Sample \/ Text
    PROVE  CoreTypes'
<1>1. /\ UNCHANGED <<offered, turn, fails, boots, suppressed, flight, card, hdr, life, frames, pc, at,
                     open, active, cursor, stored>>
      /\ raced' \in BOOLEAN
  <2>1. raced \in BOOLEAN
    BY DEF RecTypes, StreamTypes
  <2>2. raced' \in {raced, (raced \/ InFlush)}
    BY DEF Sample, Text
  <2>3. raced' \in BOOLEAN
    BY <2>1, <2>2
  <2> QED
    BY <2>3 DEF Sample, Text, loopVars, cardVars, taskVars
<1>2. \E s \in Streams : Append1(s)
  BY DEF Sample, Text, Streams
<1>3. /\ st' \in [Streams -> StreamStates] /\ made' \in [Streams -> SUBSET Nat] /\ dropped' \in Nat
      /\ \A t \in Streams : \E n \in Nat : made'[t] = 1 .. n
  BY <1>2, AppendIs
<1>4. StreamTypes'
  BY <1>1, <1>3 DEF RecTypes, StreamTypes
<1>5. LoopTypeOK' /\ CardTypes'
  BY <1>1, LoopTypes, LoopKept, CardKept
<1>6. PhaseInv'
  BY <1>1 DEF RecTypes, PhaseInv
<1> QED
  BY <1>4, <1>5, <1>6 DEF CoreTypes

LEMMA EmptyStreamType == EmptyStream \in StreamStates
<1>1. 0 \in Places /\ 0 \in 0 .. Cap - 1 /\ <<>> \in Batches
  BY RecConstants DEF Places, Batches
<1>2. [i \in 0..(Bufs - 1) |-> [stamped |-> FALSE, data |-> <<>>]] \in [Places -> Sectors]
  BY <1>1 DEF Places, Sectors
<1> QED
  BY <1>1, <1>2 DEF EmptyStream, StreamStates

LEMMA FreshStreams ==
    /\ [s \in Streams |-> EmptyStream] \in [Streams -> StreamStates]
    /\ [s \in Streams |-> {}] \in [Streams -> SUBSET Nat]
    /\ \A s \in Streams : \E n \in Nat : [t \in Streams |-> {}][s] = 1 .. n
<1>1. {} = 1 .. 0 /\ 0 \in Nat
  OBVIOUS
<1> QED
  BY <1>1, EmptyStreamType

LEMMA CrashTypes == RecTypes /\ Crash => CoreTypes'
<1> SUFFICES ASSUME RecTypes, Crash PROVE CoreTypes'
  OBVIOUS
<1>1. /\ boots < MaxBoots /\ boots' = boots + 1 /\ turn' = "saves" /\ suppressed' = FALSE
      /\ offered' = offered /\ fails' = fails /\ card' = card /\ hdr' = hdr /\ life' = life
      /\ frames' = frames
      /\ st' = [s \in Streams |-> EmptyStream] /\ made' = [s \in Streams |-> {}]
      /\ stored' = [s \in Streams |-> {}] /\ dropped' = 0 /\ raced' = FALSE
      /\ pc' = "boot" /\ at' = 1 /\ open' = FALSE /\ active' = FALSE /\ flight' = "standby"
      /\ cursor' = [slot |-> 0, seq |-> 1, session |-> 0, gen |-> 0, since |-> 0]
  BY DEF Crash, LogReset, cardVars
<1>2. LoopTypeOK'
  <2>1. suppressed' \in BOOLEAN
    BY <1>1
  <2>2. boots' \in 0 .. MaxBoots /\ fails' \in 0 .. MaxFails /\ offered' \in Scenes
    BY <1>1, LoopTypes, RecConstants
  <2> QED
    BY <1>1, <2>1, <2>2 DEF LoopTypeOK, Turns
<1>3. StreamTypes'
  BY <1>1, FreshStreams DEF StreamTypes
<1>4. PhaseInv'
  <2>1. open' \in BOOLEAN /\ active' \in BOOLEAN
    BY <1>1
  <2>2. pc' = "boot" /\ at' \in 1 .. 3 /\ ~open' /\ ~active'
    BY <1>1
  <2> QED
    BY <2>1, <2>2 DEF PhaseInv, Phases, InSession
<1>5. cursor' \in Cursors
  BY <1>1, RecConstants DEF Cursors, Slots, Gens
<1>6. CardTypes'
  <2>1. /\ card \in [Slots -> LogFrames \union {None}] /\ boots \in Nat /\ hdr \in Headers
        /\ frames \in Nat /\ life \in Nat /\ Numbered
    BY RecConstants DEF RecTypes, CardTypes, LoopTypeOK
  <2>2. \A i \in Slots : On(i) => card[i].boot \in Nat
    BY <2>1 DEF On, LogFrames
  <2>3. \A i \in Slots : On(i) => card[i].boot <= boots + 1
    BY <2>1, <2>2 DEF Numbered
  <2> QED
    BY <1>1, <1>5, <2>1, <2>3 DEF CardTypes, Numbered, On
<1> QED
  BY <1>2, <1>3, <1>4, <1>6 DEF CoreTypes

LEMMA StartOf == Init => RecTypes
<1> SUFFICES ASSUME Init PROVE RecTypes
  OBVIOUS
<1>1. LoopTypeOK /\ LaneInv
  <2>1. suppressed \in BOOLEAN /\ saving = NoSave
    BY DEF Init, LoopInit, CfgInit
  <2>2. turn = "saves" /\ fails = 0 /\ boots = 0 /\ offered \in Scenes
    BY DEF Init, LoopInit
  <2> QED
    BY <2>1, <2>2, RecConstants DEF LoopTypeOK, Turns, LaneInv
<1>2. /\ flight = "standby" /\ st = [s \in Streams |-> EmptyStream] /\ made = [s \in Streams |-> {}]
      /\ stored = [s \in Streams |-> {}] /\ dropped = 0 /\ raced = FALSE /\ pc = "idle" /\ at = 1
      /\ open = FALSE /\ active = FALSE /\ card = [i \in 0 .. (Ring - 1) |-> None]
      /\ life = 0 /\ frames = 0 /\ hdr = Header(cursor)
  BY DEF Init, LogInit
<1>3. StreamTypes
  BY <1>2, FreshStreams DEF StreamTypes
<1>4. PhaseInv
  <2>1. open \in BOOLEAN /\ active \in BOOLEAN
    BY <1>2
  <2>2. pc = "idle" /\ at \in 1 .. 3 /\ ~open /\ ~active
    BY <1>2
  <2> QED
    BY <2>1, <2>2 DEF PhaseInv, Phases, InSession
<1>5. PICK g \in StartGens :
         cursor = [slot |-> 0, seq |-> 1, session |-> 0, gen |-> FreshGen(g), since |-> 0]
  BY DEF Init, LogInit
<1>6. FreshGen(g) \in Gens
  BY RecConstants, FreshGenIs
<1>7. cursor \in Cursors
  BY <1>5, <1>6, RecConstants DEF Cursors, Slots
<1>8. hdr \in Headers
  BY <1>2, <1>7, HeaderIs
<1>9. card \in [Slots -> LogFrames \union {None}] /\ \A i \in Slots : card[i] = None
  BY <1>2 DEF Slots
<1>10. CardTypes
  BY <1>2, <1>7, <1>8, <1>9 DEF CardTypes, Numbered, On
<1> QED
  BY <1>1, <1>3, <1>4, <1>10 DEF RecTypes

\* Every step is the recorder's, its boot, a record, a power cut or another
\* task's.
LEMMA StepKinds ==
    ASSUME RecTypes, [Next]_vars
    PROVE  \/ Recorder
           \/ BootInit
           \/ Sample
           \/ Text
           \/ Crash
           \/ Untouched
<1>1. CASE FsTask
  BY <1>1, ServeTouchesNot, SaveTouchesNot DEF FsTask
<1>2. CASE Clients /\ UNCHANGED cfgVars
  BY <1>2, ClientsTouchNot
<1>3. CASE Producers /\ UNCHANGED <<svcVars, cfgVars>>
  BY <1>3, ProducersTouchNot DEF Producers
<1>4. ASSUME NEW s \in Stores, Change(s)
      PROVE  Untouched
  BY <1>4, SameTouchesNot DEF Change
<1>5. CASE UNCHANGED vars
  BY <1>5, SameTouchesNot DEF vars
<1> QED
  BY <1>1, <1>2, <1>3, <1>4, <1>5 DEF Next

LEMMA TypeSteps == RecTypes /\ [Next]_vars => RecTypes'
<1> SUFFICES ASSUME RecTypes, [Next]_vars PROVE RecTypes'
  OBVIOUS
<1>1. CoreTypes'
  BY StepKinds, RecorderTypes, BootTypes, RecordTypes, CrashTypes, UntouchedTypes DEF CoreTypes
<1> QED
  BY <1>1, LaneSteps DEF CoreTypes, RecTypes

LEMMA TypesImply == RecTypes => LoopTypeOK /\ LogTypeOK
<1> SUFFICES ASSUME RecTypes PROVE LoopTypeOK /\ LogTypeOK
  OBVIOUS
<1>1. \A s \in Streams :
         /\ st[s].head \in 0..(Bufs - 1) /\ st[s].tail \in 0..(Bufs - 1)
         /\ st[s].fill \in 0..(Cap - 1)
         /\ \A i \in 0..(Bufs - 1) : Len(st[s].buf[i].data) <= Cap
  BY StreamIs DEF Places, Batches
<1>2. cursor.slot \in 0..(Ring - 1) /\ hdr.slot \in 0..(Ring - 1)
  BY DEF RecTypes, CardTypes, Cursors, Headers, Slots
<1>3. /\ pc \in {"boot", "idle", "flush", "decide", "start", "events", "endEvents",
                 "drain", "stop", "stopQ", "stopP", "clear"}
      /\ pc # "idle" /\ pc # "boot" => turn = "log"
      /\ active => open
  BY DEF RecTypes, PhaseInv, Phases, InSession
<1>4. LoopTypeOK /\ flight \in {"standby", "armed"}
  BY DEF RecTypes, StreamTypes
<1> QED
  BY <1>1, <1>2, <1>3, <1>4 DEF LogTypeOK

-----------------------------------------------------------------------------
\* The ring: the frames of this generation and of this session.
Mine(i) == On(i) /\ card[i].life = life
Ours(i) == card[i].boot = boots /\ card[i].ses = cursor.session
Period(a, b) == a.boot = b.boot /\ a.ses = b.ses

\* The generations of the ring follow each other: that of a frame is as many
\* back as the file has been started over since.
GenInv ==
    /\ pc # "boot" => cursor.gen = hdr.gen
    /\ \A i \in Slots : On(i) /\ life <= card[i].life + 4 =>
          \E g \in Gens : card[i].sent = Sentinel(g) /\ hdr.gen = Cyc(g + (life - card[i].life))

\* The frames of this generation are numbered in the order of writing.
OrderInv ==
    \A i, j \in Slots :
       Mine(i) /\ Mine(j) /\ card[i].no < card[j].no => card[i].seq < card[j].seq

\* The next frame is numbered after all of them, or overwrites the only one that
\* has its number (a resumed ring whose last header was lost).
AheadInv ==
    pc # "boot" =>
       \A i \in Slots : Mine(i) =>
          card[i].seq < cursor.seq \/ (i = cursor.slot /\ card[i].seq = cursor.seq)

\* The header is never more than HSL_SEQ_RESUME_MARGIN behind the card, so that
\* a resumed ring is ahead of every frame on it.
MarginInv ==
    \A i \in Slots : Mine(i) =>
       card[i].seq < hdr.seq + Margin \/ (i = hdr.slot /\ card[i].seq = hdr.seq + Margin)

\* The header is as far behind as the frames since it was written, or its write
\* at boot failed.
InStep == cursor.seq = hdr.seq + cursor.since /\ cursor.since <= SyncFrames - 1 + fails
BootHeaderLost ==
    /\ ~open /\ cursor.seq = hdr.seq + Margin + cursor.since
    /\ \/ cursor.since = 0 /\ fails >= 1 /\ cursor.slot = hdr.slot
       \/ cursor.since = 1 /\ fails >= 2

LagInv == IF pc = "boot" THEN cursor.since = 0 ELSE InStep \/ BootHeaderLost

\* While a session is open, what it did not write is not next to what it will.
ApartInv == open => \A i \in Slots : Mine(i) => Ours(i) \/ card[i].seq + 1 < cursor.seq

\* Two frames of different periods are not next to each other, but for a SESSION
\* frame.
PeriodInv ==
    \A i, j \in Slots :
       Mine(i) /\ Mine(j) /\ card[j].kind # "session" /\ card[i].no < card[j].no =>
          Period(card[i], card[j]) \/ card[i].seq + 1 < card[j].seq

RingInv ==
    /\ GenInv /\ OrderInv /\ AheadInv /\ MarginInv /\ LagInv /\ ApartInv /\ PeriodInv

RingOK == ~amnesia /\ fails <= 2 => RingInv

LEMMA FrameNumbers ==
    ASSUME RecTypes
    PROVE  \A i \in Slots : On(i) =>
              /\ card[i].seq \in Nat /\ card[i].boot \in Nat /\ card[i].ses \in Nat
              /\ card[i].life \in Nat /\ card[i].no \in Nat /\ card[i].sent \in Nat
              /\ card[i].kind \in FrameKinds /\ card[i].data \in Seq(Nat)
              /\ card[i].boot <= boots /\ card[i].life <= life /\ card[i].no < frames
  BY DEF RecTypes, CardTypes, Numbered, On, LogFrames

LEMMA CursorNumbers ==
    ASSUME RecTypes
    PROVE  /\ cursor.seq \in Nat /\ cursor.since \in Nat /\ cursor.slot \in Slots /\ cursor.gen \in Gens
           /\ cursor.session \in Nat /\ hdr.seq \in Nat /\ hdr.slot \in Slots /\ hdr.gen \in Gens
           /\ fails \in Nat /\ life \in Nat /\ frames \in Nat /\ boots \in Nat
           /\ Margin \in Nat /\ SyncFrames \in Nat \ {0} /\ Margin = 2 * SyncFrames
  BY RecConstants DEF RecTypes, CardTypes, LoopTypeOK, Cursors, Headers

LEMMA RingKept ==
    ASSUME RecTypes, RingInv, UNCHANGED <<card, hdr, life, boots>>, fails' \in Nat, fails <= fails',
           cursor'.seq = cursor.seq, cursor'.since = cursor.since, cursor'.slot = cursor.slot,
           cursor'.gen = cursor.gen, open' => open /\ cursor'.session = cursor.session,
           pc # "boot", pc' # "boot",
           BootHeaderLost => ~open'
    PROVE  RingInv'
<1>1. card' = card /\ hdr' = hdr /\ life' = life /\ boots' = boots
  OBVIOUS
<1>2. \A i \in Slots : (Mine(i))' <=> Mine(i)
  BY <1>1 DEF Mine, On
<1>3. GenInv' /\ OrderInv' /\ AheadInv' /\ MarginInv' /\ PeriodInv'
  BY <1>1 DEF RingInv, GenInv, OrderInv, AheadInv, MarginInv, PeriodInv, Mine, On, Period
<1>4. ApartInv'
  <2>1. SUFFICES ASSUME open', NEW i \in Slots, (Mine(i))'
                 PROVE  (Ours(i))' \/ card'[i].seq + 1 < cursor'.seq
    BY DEF ApartInv
  <2>2. open /\ Mine(i) /\ cursor'.session = cursor.session
    BY <1>2, <2>1
  <2>3. Ours(i) \/ card[i].seq + 1 < cursor.seq
    BY <2>2 DEF RingInv, ApartInv
  <2>4. Ours(i) => (Ours(i))'
    BY <1>1, <2>2 DEF Ours
  <2> QED
    BY <1>1, <2>3, <2>4
<1>5. LagInv'
  <2>1. InStep \/ BootHeaderLost
    BY DEF RingInv, LagInv
  <2>2. InStep => InStep'
    BY <1>1, CursorNumbers DEF InStep
  <2>3. BootHeaderLost => BootHeaderLost'
    BY <1>1, CursorNumbers DEF BootHeaderLost
  <2> QED
    BY <2>1, <2>2, <2>3 DEF LagInv
<1> QED
  BY <1>3, <1>4, <1>5 DEF RingInv

LEMMA RingWritten ==
    ASSUME RecTypes, RingInv, NEW c \in Cursors, c.seq = cursor.seq, c.since = cursor.since,
           c.slot = cursor.slot, c.gen = cursor.gen, NEW str, NEW kind, NEW data,
           NEW force \in BOOLEAN, Lands(c, str, kind, data), HeaderToo(c) \/ HeaderLater(c, force),
           fails' <= 2, life' = life, boots' = boots, pc # "boot", pc' # "boot",
           kind # "session" => open /\ c.session = cursor.session,
           open \/ force,
           open' => open \/ HeaderToo(c)
    PROVE  RingInv'
<1> DEFINE f == FrameFrom(c, str, kind, data)
           k == c.slot
<1>1. /\ f.seq = cursor.seq /\ f.no = frames /\ f.life = life /\ f.sent = Sentinel(cursor.gen)
      /\ f.boot = boots /\ f.ses = c.session /\ f.kind = kind
  BY DEF FrameFrom
<1>2. /\ cursor'.seq = cursor.seq + 1 /\ cursor'.session = c.session /\ cursor'.gen = cursor.gen
      /\ cursor' \in Cursors /\ frames' = frames + 1
  BY DEF Lands
<1>3. \A i \in Slots : card'[i] = IF i = k THEN f ELSE card[i]
  BY CursorNumbers DEF Lands, RecTypes, CardTypes
<1>4. f # None
  BY DEF FrameFrom, None
<1> HIDE DEF f
<1>5. \A i \in Slots : (Mine(i))' <=> (i = k \/ Mine(i))
  BY <1>1, <1>3, <1>4 DEF Mine, On
<1>6. \A i \in Slots : Mine(i) /\ i # k =>
         /\ card'[i] = card[i] /\ card[i].seq \in Nat /\ card[i].seq < cursor.seq
         /\ card[i].no \in Nat /\ card[i].no < frames
  BY <1>3, FrameNumbers DEF RingInv, AheadInv, Mine
<1>7. cursor.gen = hdr.gen /\ hdr'.gen = hdr.gen
  BY DEF RingInv, GenInv, HeaderToo, HeaderLater
<1>8. GenInv'
  <2>1. ASSUME NEW i \in Slots, (On(i))', life <= card'[i].life + 4
        PROVE  \E g \in Gens : card'[i].sent = Sentinel(g) /\ hdr'.gen = Cyc(g + (life - card'[i].life))
    <3>1. CASE i = k
      <4>1. hdr.gen \in Gens /\ life - f.life = 0 /\ Cyc(hdr.gen + 0) = hdr.gen
        BY <1>1, CursorNumbers DEF Cyc, Gens
      <4> QED
        BY <1>1, <1>3, <1>7, <3>1, <4>1
    <3>2. CASE i # k
      <4>1. On(i) /\ card'[i] = card[i]
        BY <1>3, <2>1, <3>2 DEF On
      <4> QED
        BY <1>7, <2>1, <4>1 DEF RingInv, GenInv
    <3> QED
      BY <3>1, <3>2
  <2> QED
    BY <1>2, <1>7, <2>1 DEF GenInv
<1>9. OrderInv'
  <2>1. SUFFICES ASSUME NEW i \in Slots, NEW j \in Slots, (Mine(i))', (Mine(j))',
                        card'[i].no < card'[j].no
                 PROVE  card'[i].seq < card'[j].seq
    BY DEF OrderInv
  <2>2. CASE i # k /\ j # k
    BY <1>5, <1>6, <2>1, <2>2 DEF RingInv, OrderInv
  <2>3. CASE i # k /\ j = k
    BY <1>1, <1>3, <1>5, <1>6, <2>1, <2>3
  <2>4. CASE i = k
    <3>1. card'[i].no = frames
      BY <1>1, <1>3, <2>4
    <3>2. card'[j].no <= frames
      BY <1>1, <1>3, <1>5, <1>6, <2>1, CursorNumbers
    <3>3. card'[j].no \in Nat /\ frames \in Nat
      BY <1>1, <1>3, <1>5, <1>6, <2>1, CursorNumbers
    <3> QED
      BY <2>1, <3>1, <3>2, <3>3
  <2> QED
    BY <2>2, <2>3, <2>4
<1>10. \A i \in Slots : (Mine(i))' => card'[i].seq \in Nat /\ card'[i].seq <= cursor.seq
  BY <1>1, <1>3, <1>5, <1>6, CursorNumbers
<1>11. AheadInv'
  BY <1>2, <1>10, CursorNumbers DEF AheadInv
<1>12. ASSUME HeaderToo(c)
       PROVE  MarginInv' /\ LagInv'
  <2>1. hdr'.seq = cursor.seq + 1 /\ cursor'.since = 0 /\ fails' = fails
    BY <1>12 DEF HeaderToo
  <2>2. MarginInv'
    BY <1>10, <2>1, CursorNumbers DEF MarginInv
  <2>3. InStep'
    BY <1>2, <2>1, CursorNumbers DEF InStep
  <2> QED
    BY <2>2, <2>3 DEF LagInv
<1>13. ASSUME HeaderLater(c, force)
       PROVE  MarginInv' /\ LagInv'
  <2>1. /\ hdr' = hdr /\ cursor'.since = cursor.since + 1
        /\ Fails \/ (fails' = fails /\ ~force /\ cursor.since + 1 < SyncFrames)
    BY <1>13 DEF HeaderLater
  <2>2. InStep \/ BootHeaderLost
    BY DEF RingInv, LagInv
  <2>3. CASE InStep
    <3>1. cursor'.since <= SyncFrames - 1 + fails'
      BY <2>1, <2>3, CursorNumbers DEF InStep, Fails
    <3>2. InStep'
      BY <1>2, <2>1, <2>3, <3>1, CursorNumbers DEF InStep
    <3>3. cursor.seq < hdr.seq + Margin
      BY <2>1, <2>3, CursorNumbers DEF InStep, Fails
    <3>4. MarginInv'
      BY <1>10, <2>1, <3>3, CursorNumbers DEF MarginInv
    <3> QED
      BY <3>2, <3>4 DEF LagInv
  <2>4. CASE BootHeaderLost
    <3>1. force /\ ~open /\ cursor.seq = hdr.seq + Margin + cursor.since
      BY <2>4 DEF BootHeaderLost
    <3>2. Fails
      BY <2>1, <3>1
    <3>3. fails' = fails + 1 /\ cursor.since = 0 /\ fails >= 1 /\ k = hdr.slot
      BY <2>4, <3>2, CursorNumbers DEF BootHeaderLost, Fails
    <3>4. ~open'
      BY <2>1, <3>1, CursorNumbers DEF HeaderToo
    <3>5. BootHeaderLost'
      BY <1>2, <2>1, <3>1, <3>3, <3>4, CursorNumbers DEF BootHeaderLost
    <3>6. MarginInv'
      <4>1. ASSUME NEW i \in Slots, (Mine(i))'
            PROVE  card'[i].seq < hdr.seq + Margin \/ (i = hdr.slot /\ card'[i].seq = hdr.seq + Margin)
        <5>1. CASE i = k
          BY <1>1, <1>3, <3>1, <3>3, <5>1, CursorNumbers
        <5>2. CASE i # k
          BY <1>5, <1>6, <3>1, <3>3, <4>1, <5>2, CursorNumbers
        <5> QED
          BY <5>1, <5>2
      <4> QED
        BY <2>1, <4>1 DEF MarginInv
    <3> QED
      BY <3>5, <3>6 DEF LagInv
  <2> QED
    BY <2>2, <2>3, <2>4
<1>14. ApartInv'
  <2>1. SUFFICES ASSUME NEW i \in Slots, (Mine(i))'
                 PROVE  (Ours(i))' \/ card'[i].seq + 1 < cursor'.seq
    BY DEF ApartInv
  <2>2. CASE i = k
    BY <1>1, <1>2, <1>3, <2>2 DEF Ours
  <2>3. CASE i # k
    BY <1>2, <1>5, <1>6, <2>1, <2>3, CursorNumbers
  <2> QED
    BY <2>2, <2>3
<1>15. PeriodInv'
  <2>1. SUFFICES ASSUME NEW i \in Slots, NEW j \in Slots, (Mine(i))', (Mine(j))',
                        card'[j].kind # "session", card'[i].no < card'[j].no
                 PROVE  Period(card'[i], card'[j]) \/ card'[i].seq + 1 < card'[j].seq
    BY DEF PeriodInv
  <2>2. CASE i # k /\ j # k
    BY <1>5, <1>6, <2>1, <2>2 DEF RingInv, PeriodInv
  <2>3. CASE i # k /\ j = k
    <3>1. open /\ c.session = cursor.session
      BY <1>1, <1>3, <2>1, <2>3
    <3>2. Mine(i) /\ card'[i] = card[i] /\ card'[j] = f
      BY <1>3, <1>5, <1>6, <2>1, <2>3
    <3>3. Ours(i) \/ card[i].seq + 1 < cursor.seq
      BY <3>1, <3>2 DEF RingInv, ApartInv
    <3>4. Ours(i) => Period(card[i], f)
      BY <1>1, <3>1 DEF Ours, Period
    <3> QED
      BY <1>1, <3>2, <3>3, <3>4
  <2>4. CASE i = k
    <3>1. card'[i].no = frames
      BY <1>1, <1>3, <2>4
    <3>2. card'[j].no <= frames /\ card'[j].no \in Nat /\ frames \in Nat
      BY <1>1, <1>3, <1>5, <1>6, <2>1, CursorNumbers
    <3> QED
      BY <2>1, <3>1, <3>2
  <2> QED
    BY <2>2, <2>3, <2>4
<1>16. MarginInv' /\ LagInv'
  BY <1>12, <1>13
<1> QED
  BY <1>8, <1>9, <1>11, <1>14, <1>15, <1>16 DEF RingInv

LEMMA RingIdle ==
    ASSUME RecTypes, RingInv, UNCHANGED <<card, hdr, cursor, life, boots, open>>,
           fails' \in 0 .. MaxFails, fails <= fails', pc # "boot", pc' # "boot"
    PROVE  RingInv'
<1>1. fails' \in Nat
  BY RecConstants
<1>2. BootHeaderLost => ~open
  BY DEF BootHeaderLost
<1> QED
  BY <1>1, <1>2, RingKept

\* A frame of an open session.
LEMMA RingLogged ==
    ASSUME RecTypes, RingInv, open, open' = open, NEW str, NEW kind, NEW data,
           Logged(cursor, str, kind, data, FALSE), fails' <= 2, life' = life, boots' = boots,
           pc # "boot", pc' # "boot"
    PROVE  RingInv'
<1>1. cursor \in Cursors
  BY DEF RecTypes, CardTypes
<1>2. CASE NotWritten(cursor)
  <2>1. fails' \in 0 .. MaxFails /\ fails <= fails'
    BY <1>2, LoopTypes, RecConstants DEF NotWritten, Fails
  <2> QED
    BY <1>2, <2>1, RingIdle DEF NotWritten
<1>3. CASE Lands(cursor, str, kind, data) /\ (HeaderToo(cursor) \/ HeaderLater(cursor, FALSE))
  BY <1>1, <1>3, RingWritten
<1> QED
  BY <1>2, <1>3 DEF Logged

LEMMA StartRing ==
    ASSUME RecTypes, RingInv, SessionStart, fails' <= 2
    PROVE  RingInv'
<1> DEFINE c == [cursor EXCEPT !.session = @ + 1]
<1>1. /\ c \in Cursors /\ c.since = cursor.since /\ c.seq = cursor.seq /\ c.slot = cursor.slot
      /\ c.gen = cursor.gen
  BY NextSession
<1>2. pc = "start" /\ life' = life /\ boots' = boots /\ ~open
  BY DEF SessionStart, Rest, RecTypes, PhaseInv
<1> HIDE DEF c
<1>3. CASE /\ IF exists THEN CardFails ELSE CardWorks
           /\ Done
           /\ UNCHANGED <<st, card, hdr, frames, open, active, cursor>>
  <2>1. fails' \in 0 .. MaxFails /\ fails <= fails'
    BY <1>3, CardOutcome
  <2> QED
    BY <1>2, <1>3, <2>1, RingIdle DEF Done
<1>4. ASSUME NEW how \in Outcomes, RingWrite(c, how, "ctl", "session", <<>>, TRUE),
             IF how = "ok"
             THEN /\ open' = TRUE /\ active' = TRUE
                  /\ st' = [st EXCEPT !["imu"].tail = st["imu"].head]
                  /\ pc' = "events" /\ Stay
             ELSE Done /\ UNCHANGED <<open, active, st>>
      PROVE  RingInv'
  <2>1. pc' # "boot"
    BY <1>4 DEF Done
  <2>2. \/ how = "fail" /\ NotWritten(c)
        \/ /\ how # "fail" /\ Lands(c, "ctl", "session", <<>>)
           /\ (how = "ok" /\ HeaderToo(c)) \/ HeaderLater(c, TRUE)
           /\ IF how = "ok" THEN fails' = fails ELSE fails' = fails + 1
    BY <1>1, <1>4, RingWriteCases
  <2>3. CASE how = "fail" /\ NotWritten(c)
    <3>1. fails' \in Nat /\ fails <= fails'
      BY <2>3, CursorNumbers DEF NotWritten, Fails
    <3>2. ~open'
      BY <1>2, <1>4, <2>3
    <3>3. UNCHANGED <<card, hdr, life, boots>> /\ cursor' = c
      BY <1>2, <2>3 DEF NotWritten
    <3> QED
      BY <1>1, <1>2, <2>1, <3>1, <3>2, <3>3, RingKept
  <2>4. CASE /\ how # "fail" /\ Lands(c, "ctl", "session", <<>>)
             /\ (how = "ok" /\ HeaderToo(c)) \/ HeaderLater(c, TRUE)
             /\ IF how = "ok" THEN fails' = fails ELSE fails' = fails + 1
    <3>1. open' => HeaderToo(c)
      <4>1. CASE how = "ok"
        <5>1. ~HeaderLater(c, TRUE)
          BY <2>4, <4>1, CursorNumbers DEF HeaderLater, Fails
        <5> QED
          BY <2>4, <5>1
      <4>2. CASE how # "ok"
        BY <1>2, <1>4, <4>2
      <4> QED
        BY <4>1, <4>2
    <3>2. HeaderToo(c) \/ HeaderLater(c, TRUE)
      BY <2>4
    <3> QED
      BY <1>1, <1>2, <2>1, <2>4, <3>1, <3>2, RingWritten
  <2> QED
    BY <2>2, <2>3, <2>4
<1> QED
  BY <1>3, <1>4 DEF SessionStart, c

LEMMA CloseRing ==
    ASSUME RecTypes, RingInv, StopClose
    PROVE  RingInv'
<1>1. /\ pc = "stopP" /\ pc' = "idle" /\ open' = FALSE /\ life' = life /\ boots' = boots
      /\ card' = card
  BY DEF StopClose, Rest, Done
<1>2. CASE CardFails /\ UNCHANGED <<hdr, cursor>>
  <2>1. fails' \in Nat /\ fails <= fails'
    BY <1>2, CursorNumbers DEF CardFails
  <2> QED
    BY <1>1, <1>2, <2>1, RingKept
<1>3. CASE CardWorks /\ hdr' = Header(cursor) /\ cursor' = [cursor EXCEPT !.since = 0]
  <2>1. /\ cursor'.seq = cursor.seq /\ cursor'.slot = cursor.slot /\ cursor'.gen = cursor.gen
        /\ cursor'.since = 0 /\ hdr'.seq = cursor.seq /\ hdr'.gen = cursor.gen /\ fails' = fails
    BY <1>3, SyncedIs DEF Synced, CardWorks
  <2>2. hdr'.gen = hdr.gen
    BY <1>1, <2>1 DEF RingInv, GenInv
  <2>3. GenInv' /\ OrderInv' /\ PeriodInv' /\ AheadInv'
    BY <1>1, <2>1, <2>2 DEF RingInv, GenInv, OrderInv, PeriodInv, AheadInv, Mine, On, Period
  <2>4. ApartInv'
    BY <1>1 DEF ApartInv
  <2>5. InStep'
    BY <2>1, CursorNumbers DEF InStep
  <2>6. MarginInv'
    <3>1. ASSUME NEW i \in Slots, (Mine(i))'
          PROVE  card'[i].seq < hdr'.seq + Margin
      <4>1. Mine(i) /\ On(i)
        BY <1>1, <3>1 DEF Mine, On
      <4>2. card[i].seq \in Nat /\ card[i].seq <= cursor.seq
        BY <1>1, <4>1, FrameNumbers, CursorNumbers DEF RingInv, AheadInv
      <4> QED
        BY <1>1, <2>1, <4>2, CursorNumbers
    <3> QED
      BY <3>1 DEF MarginInv
  <2> QED
    BY <1>1, <2>3, <2>4, <2>5, <2>6 DEF RingInv, LagInv
<1> QED
  BY <1>2, <1>3 DEF StopClose

LEMMA RecorderRing ==
    ASSUME RecTypes, RingOK, Recorder
    PROVE  RingOK'
<1>1. SUFFICES ASSUME ~amnesia', fails' <= 2
               PROVE  RingInv'
  BY DEF RingOK
<1>2. amnesia' = amnesia /\ life' = life /\ boots' = boots
  BY DEF Recorder, Tick, FlushHead, Decide, SessionStart, Events, Drain, SessionStop, StopQueue,
         StopPartial, StopClear, StopClose, Rest
<1>3. fails' \in {fails, fails + 1}
  <2>1. Tick \/ FlushHead \/ Decide \/ SessionStop \/ StopClear => fails' = fails
    BY DEF Tick, FlushHead, Decide, SessionStop, StopClear
  <2>2. SessionStart \/ Events \/ Drain \/ StopQueue \/ StopPartial \/ StopClose =>
           fails' = fails \/ CardWorks \/ CardFails
    BY DEF SessionStart, Events, Drain, StopQueue, StopPartial, StopClose, WriteSector, RingWrite
  <2> QED
    BY <2>1, <2>2 DEF Recorder, CardWorks, CardFails
<1>4. fails <= 2 /\ fails <= fails' /\ RingInv
  <2>1. fails <= 2 /\ fails <= fails'
    BY <1>1, <1>3, CursorNumbers
  <2> QED
    BY <1>1, <1>2, <2>1 DEF RingOK
<1>5. pc # "boot" /\ pc' # "boot" /\ fails' \in 0 .. MaxFails
  <2>1. CoreTypes' /\ pc # "boot"
    BY RecorderTypes DEF Recorder, Tick, FlushHead, Decide, SessionStart, Events, Drain, SessionStop,
       StopQueue, StopPartial, StopClear, StopClose
  <2>2. pc' # "boot"
    BY <2>1 DEF Recorder, Tick, FlushHead, Decide, SessionStart, Events, Drain, SessionStop,
       StopQueue, StopPartial, StopClear, StopClose, Done
  <2> QED
    BY <2>1, <2>2 DEF CoreTypes, LoopTypeOK
<1>6. CASE Tick \/ FlushHead \/ Decide \/ SessionStop \/ StopClear
  <2>1. UNCHANGED <<card, hdr, cursor, open>>
    BY <1>6 DEF Tick, FlushHead, Decide, SessionStop, StopClear
  <2> QED
    BY <1>2, <1>4, <1>5, <2>1, RingIdle
<1>7. CASE SessionStart
  BY <1>1, <1>4, <1>7, StartRing
<1>8. CASE StopClose
  BY <1>4, <1>8, CloseRing
<1>9. CASE Events
  <2>1. open /\ open' = open
    BY <1>9 DEF Events, RecTypes, PhaseInv, InSession
  <2>2. CASE flight = ev
    BY <1>2, <1>4, <1>5, <1>9, <2>1, <2>2, RingIdle DEF Events
  <2>3. CASE flight # ev
    <3>1. PICK how \in Outcomes : RingWrite(cursor, how, "ctl", "event", <<>>, FALSE)
      BY <1>9, <2>3 DEF Events
    <3>2. Logged(cursor, "ctl", "event", <<>>, FALSE)
      BY <3>1, RingWriteCases DEF Logged, RecTypes, CardTypes
    <3> QED
      BY <1>1, <1>2, <1>4, <1>5, <2>1, <3>2, RingLogged
  <2> QED
    BY <2>2, <2>3
<1>10. ASSUME NEW how \in Outcomes, NEW s \in Streams, NEW i \in Places,
              WriteSector(how, s, st[s].buf[i]), open, open' = open
       PROVE  RingInv'
  <2>1. st[s].buf[i] \in Sectors
    BY StreamIs
  <2>2. Logged(cursor, s, SectorKind(st[s].buf[i]), SectorData(st[s].buf[i]), FALSE)
    BY <1>2, <1>10, <2>1, SectorCases
  <2> QED
    BY <1>1, <1>2, <1>4, <1>5, <1>10, <2>2, RingLogged
<1>11. CASE Drain
  <2>1. open /\ open' = open
    BY <1>11 DEF Drain, RecTypes, PhaseInv, InSession
  <2>2. CASE Waiting(1) = {}
    BY <1>2, <1>4, <1>5, <1>11, <2>1, <2>2, RingIdle DEF Drain
  <2>3. CASE Waiting(1) # {}
    <3>1. Order[Min(Waiting(1))] \in Streams
      BY <2>3, WaitingIn, FirstOf, OrderIs
    <3>2. st[Order[Min(Waiting(1))]].tail \in Places
      BY <3>1, StreamIs
    <3> QED
      BY <1>10, <1>11, <2>1, <2>3, <3>1, <3>2 DEF Drain
  <2> QED
    BY <2>2, <2>3
<1>12. CASE StopQueue
  <2>1. open /\ open' = open /\ at \in 1 .. 3
    BY <1>12 DEF StopQueue, RecTypes, PhaseInv, InSession
  <2>2. CASE Waiting(at) = {}
    BY <1>2, <1>4, <1>5, <1>12, <2>1, <2>2, RingIdle DEF StopQueue
  <2>3. CASE Waiting(at) # {}
    <3>1. Order[Min(Waiting(at))] \in Streams
      BY <2>1, <2>3, WaitingIn, FirstOf, OrderIs
    <3>2. st[Order[Min(Waiting(at))]].tail \in Places
      BY <3>1, StreamIs
    <3> QED
      BY <1>10, <1>12, <2>1, <2>3, <3>1, <3>2 DEF StopQueue
  <2> QED
    BY <2>2, <2>3
<1>13. CASE StopPartial
  <2>1. open /\ open' = open /\ at \in 1 .. 3 /\ Partial(at) # {}
    BY <1>13 DEF StopPartial, RecTypes, PhaseInv, InSession
  <2>2. Order[Min(Partial(at))] \in Streams
    BY <2>1, WaitingIn, FirstOf, OrderIs
  <2>3. st[Order[Min(Partial(at))]].head \in Places
    BY <2>2, StreamIs
  <2> QED
    BY <1>10, <1>13, <2>1, <2>2, <2>3 DEF StopPartial, AtHead
<1> QED
  BY <1>6, <1>7, <1>8, <1>9, <1>11, <1>12, <1>13 DEF Recorder

LEMMA BootRing ==
    ASSUME RecTypes, RingInv, BootInit, ~amnesia', fails' <= 2
    PROVE  RingInv'
<1>1. /\ pc = "boot" /\ pc' = "idle" /\ boots' = boots /\ fails <= fails' /\ fails' \in Nat
      /\ NoFile \/ Resumed \/ StartedOver
  BY BootCases, RecConstants
<1>2. ~open' /\ cursor.since = 0
  <2>1. ~open /\ open' = open
    BY <1>1 DEF BootInit, RecTypes, PhaseInv
  <2> QED
    BY <1>1, <2>1 DEF RingInv, LagInv
<1>3. ApartInv'
  BY <1>2 DEF ApartInv
<1>4. CASE Resumed
  <2>1. /\ cursor'.slot = hdr.slot /\ cursor'.seq = hdr.seq + Margin /\ cursor'.gen = hdr.gen
        /\ cursor'.since = 0 /\ card' = card /\ life' = life
        /\ \/ hdr'.seq = cursor'.seq /\ hdr'.gen = cursor'.gen
           \/ hdr' = hdr /\ fails' = fails + 1
    BY <1>2, <1>4 DEF Resumed
  <2>2. \A i \in Slots : (Mine(i))' <=> Mine(i)
    BY <2>1 DEF Mine, On
  <2>3. GenInv' /\ OrderInv' /\ PeriodInv'
    BY <2>1 DEF RingInv, GenInv, OrderInv, PeriodInv, Mine, On, Period
  <2>4. AheadInv'
    BY <2>1, <2>2 DEF RingInv, MarginInv, AheadInv
  <2>5. CASE hdr' = hdr /\ fails' = fails + 1
    <3>1. MarginInv'
      BY <2>1, <2>2, <2>5 DEF RingInv, MarginInv
    <3>2. BootHeaderLost'
      BY <1>1, <1>2, <2>1, <2>5, CursorNumbers DEF BootHeaderLost
    <3> QED
      BY <1>1, <1>3, <2>3, <2>4, <3>1, <3>2 DEF RingInv, LagInv
  <2>6. CASE hdr'.seq = cursor'.seq /\ hdr'.gen = cursor'.gen
    <3>1. MarginInv'
      <4>1. ASSUME NEW i \in Slots, (Mine(i))'
            PROVE  card'[i].seq < hdr'.seq + Margin
        <5>1. Mine(i) /\ On(i)
          BY <2>2, <4>1 DEF Mine
        <5>2. card[i].seq \in Nat /\ card[i].seq <= hdr.seq + Margin
          BY <5>1, FrameNumbers, CursorNumbers DEF RingInv, MarginInv
        <5> QED
          BY <2>1, <2>6, <5>2, CursorNumbers
      <4> QED
        BY <4>1 DEF MarginInv
    <3>2. InStep'
      BY <1>1, <2>1, <2>6, CursorNumbers DEF InStep
    <3> QED
      BY <1>1, <1>3, <2>3, <2>4, <3>1, <3>2 DEF RingInv, LagInv
  <2> QED
    BY <2>1, <2>5, <2>6
<1>5. CASE StartedOver
  <2>1. /\ cursor'.since = 0 /\ hdr'.seq = cursor'.seq /\ hdr'.gen = cursor'.gen /\ life' = life + 1
        /\ cursor' \in Cursors /\ cursor'.seq \in Nat
        /\ \/ cursor'.gen = Cyc(hdr.gen + 1) /\ card' = card
           \/ card' = [i \in Slots |-> None]
    BY <1>2, <1>5 DEF StartedOver, Cursors
  <2>2. \A i \in Slots : ~(Mine(i))'
    <3> TAKE i \in Slots
    <3>1. SUFFICES ASSUME (Mine(i))' PROVE FALSE
      OBVIOUS
    <3>2. card' = card
      BY <2>1, <3>1 DEF Mine, On
    <3>3. On(i) /\ card[i].life = life + 1
      BY <2>1, <3>1, <3>2 DEF Mine, On
    <3> QED
      BY <3>3, FrameNumbers, CursorNumbers
  <2>3. OrderInv' /\ AheadInv' /\ MarginInv' /\ PeriodInv'
    BY <2>2 DEF OrderInv, AheadInv, MarginInv, PeriodInv
  <2>4. InStep'
    BY <1>1, <2>1, CursorNumbers DEF InStep
  <2>5. GenInv'
    <3>1. ASSUME NEW i \in Slots, (On(i))', life' <= card'[i].life + 4
          PROVE  \E g \in Gens : card'[i].sent = Sentinel(g) /\ hdr'.gen = Cyc(g + (life' - card'[i].life))
      <4>1. card' = card /\ cursor'.gen = Cyc(hdr.gen + 1)
        BY <2>1, <3>1 DEF On
      <4>2. On(i) /\ card[i].life \in Nat /\ card[i].life <= life /\ life + 1 <= card[i].life + 4
        BY <2>1, <3>1, <4>1, FrameNumbers DEF On
      <4>3. life <= card[i].life + 4
        BY <4>2, CursorNumbers
      <4>4. PICK g \in Gens : card[i].sent = Sentinel(g) /\ hdr.gen = Cyc(g + (life - card[i].life))
        BY <4>2, <4>3 DEF RingInv, GenInv
      <4> DEFINE d == life - card[i].life
      <4>5. d \in 0 .. 3 /\ (life + 1) - card[i].life = d + 1
        BY <4>2, CursorNumbers
      <4> HIDE DEF d
      <4>6. Cyc(Cyc(g + d) + 1) = Cyc(g + (d + 1))
        BY <4>5 DEF Cyc, Gens
      <4>7. hdr'.gen = Cyc(g + (life' - card'[i].life))
        BY <2>1, <4>1, <4>4, <4>5, <4>6 DEF d
      <4> QED
        BY <4>1, <4>4, <4>7
    <3> QED
      BY <2>1, <3>1 DEF GenInv
  <2> QED
    BY <1>1, <1>3, <2>3, <2>4, <2>5 DEF RingInv, LagInv
<1> QED
  BY <1>1, <1>4, <1>5 DEF NoFile

LEMMA CrashRing == RecTypes /\ RingInv /\ Crash => RingInv'
<1> SUFFICES ASSUME RecTypes, RingInv, Crash PROVE RingInv'
  OBVIOUS
<1>1. /\ card' = card /\ hdr' = hdr /\ life' = life /\ pc' = "boot" /\ open' = FALSE
      /\ cursor' = [slot |-> 0, seq |-> 1, session |-> 0, gen |-> 0, since |-> 0]
  BY DEF Crash, LogReset, cardVars
<1>2. GenInv' /\ OrderInv' /\ MarginInv' /\ PeriodInv'
  BY <1>1 DEF RingInv, GenInv, OrderInv, MarginInv, PeriodInv, Mine, On, Period
<1>3. AheadInv' /\ ApartInv' /\ LagInv'
  BY <1>1 DEF AheadInv, ApartInv, LagInv
<1> QED
  BY <1>2, <1>3 DEF RingInv

LEMMA RingSame ==
    ASSUME RecTypes, RingInv, UNCHANGED <<card, hdr, cursor, life, boots, open, pc>>,
           fails' \in 0 .. MaxFails, fails <= fails'
    PROVE  RingInv'
<1>1. /\ card' = card /\ hdr' = hdr /\ cursor' = cursor /\ life' = life /\ boots' = boots
      /\ open' = open /\ pc' = pc
  OBVIOUS
<1>2. CASE pc = "boot"
  BY <1>1, <1>2 DEF RingInv, GenInv, OrderInv, AheadInv, MarginInv, LagInv, ApartInv, PeriodInv, Mine, On,
     Ours, Period
<1>3. CASE pc # "boot"
  BY <1>1, <1>3, RingIdle
<1> QED
  BY <1>2, <1>3

LEMMA RingSteps ==
    ASSUME RecTypes, RingOK, [Next]_vars
    PROVE  RingOK'
<1>1. CASE Recorder
  BY <1>1, RecorderRing
<1>2. ASSUME ~Recorder, ~amnesia', fails' <= 2
      PROVE  RingInv'
  <2>1. BootInit \/ Sample \/ Text \/ Crash \/ Untouched
    BY <1>2, StepKinds
  <2>2. fails' \in 0 .. MaxFails /\ fails <= fails' /\ (amnesia => amnesia')
    <3>1. CASE BootInit
      <4>1. amnesia => amnesia'
        BY <3>1, BootCases DEF NoFile, Resumed, StartedOver, BootInit
      <4> QED
        BY <3>1, <4>1, BootCases
    <3>2. CASE Sample \/ Text
      BY <3>2, LoopTypes DEF Sample, Text, loopVars, cardVars
    <3>3. CASE Crash
      BY <3>3, LoopTypes DEF Crash, cardVars
    <3>4. CASE Untouched
      BY <3>4 DEF Untouched
    <3> QED
      BY <2>1, <3>1, <3>2, <3>3, <3>4
  <2>3. RingInv
    <3>1. fails <= 2
      BY <1>2, <2>2, CursorNumbers, RecConstants
    <3> QED
      BY <1>2, <2>2, <3>1 DEF RingOK
  <2>4. CASE Sample \/ Text
    BY <2>2, <2>3, <2>4, RingSame DEF Sample, Text, loopVars, cardVars, taskVars
  <2>5. CASE Untouched
    BY <2>2, <2>3, <2>5, RingSame DEF Untouched
  <2> QED
    BY <1>2, <2>1, <2>3, <2>4, <2>5, BootRing, CrashRing
<1> QED
  BY <1>1, <1>2 DEF RingOK

LEMMA RingStarts == Init => RingOK
<1> SUFFICES ASSUME Init PROVE RingInv
  BY DEF RingOK
<1>1. RecTypes
  BY StartOf
<1>2. /\ card = [i \in 0 .. (Ring - 1) |-> None] /\ pc = "idle" /\ open = FALSE /\ hdr = Header(cursor)
      /\ fails = 0
  BY DEF Init, LogInit, LoopInit
<1>3. \A i \in Slots : ~On(i) /\ ~Mine(i)
  BY <1>2 DEF Slots, On, Mine
<1>4. cursor.since = 0
  BY DEF Init, LogInit
<1>5. hdr.seq = cursor.seq /\ hdr.gen = cursor.gen
  BY <1>1, <1>2, SyncedIs
<1>6. InStep
  BY <1>1, <1>2, <1>4, <1>5, CursorNumbers DEF InStep
<1> QED
  BY <1>2, <1>3, <1>5, <1>6 DEF RingInv, GenInv, OrderInv, AheadInv, MarginInv, LagInv, ApartInv, PeriodInv

\* What the reader accepts was written since the file was last started over.
LEMMA DecodedMine ==
    ASSUME RecTypes, RingInv, life <= 4, NEW a \in Decoded
    PROVE  \E i \in Slots : a = card[i] /\ Mine(i)
<1>1. PICK i \in Slots : a = card[i] /\ On(i) /\ card[i].sent = Sentinel(hdr.gen)
  BY DEF Decoded, Slots, On
<1>2. card[i].life \in Nat /\ card[i].life <= life /\ life \in Nat
  BY <1>1, FrameNumbers, CursorNumbers
<1>3. ASSUME card[i].life # life
      PROVE  FALSE
  <2> DEFINE d == life - card[i].life
  <2>1. d \in 1 .. 4 /\ life <= card[i].life + 4
    BY <1>2, <1>3
  <2>2. PICK g \in Gens : card[i].sent = Sentinel(g) /\ hdr.gen = Cyc(g + d)
    BY <1>1, <2>1 DEF RingInv, GenInv
  <2> HIDE DEF d
  <2> QED
    BY <1>1, <2>1, <2>2, SentinelsApart
<1> QED
  BY <1>1, <1>3 DEF Mine

LEMMA RingImplies ==
    ASSUME RecTypes, RingOK, fails <= 2, life <= 4
    PROVE  SeqExact /\ SessionsApart /\ NoForeign
<1> SUFFICES ASSUME RingInv, ~amnesia
             PROVE  SeqExact /\ SessionsApart /\ NoForeign
  BY DEF RingOK, SeqExact, SessionsApart, NoForeign
<1>1. NoForeign
  BY DecodedMine DEF NoForeign, Mine
<1>2. ASSUME NEW a \in Decoded, NEW b \in Decoded, a.no < b.no
      PROVE  a.seq < b.seq
  <2>1. PICK i \in Slots : a = card[i] /\ Mine(i)
    BY DecodedMine
  <2>2. PICK j \in Slots : b = card[j] /\ Mine(j)
    BY DecodedMine
  <2> QED
    BY <1>2, <2>1, <2>2 DEF RingInv, OrderInv
<1>3. ASSUME NEW a \in Decoded, NEW b \in Decoded, Joined(a, b)
      PROVE  a.boot = b.boot /\ a.ses = b.ses
  <2>1. PICK i \in Slots : a = card[i] /\ Mine(i)
    BY DecodedMine
  <2>2. PICK j \in Slots : b = card[j] /\ Mine(j)
    BY DecodedMine
  <2>3. b.seq = a.seq + 1 /\ b.kind # "session"
    BY <1>3 DEF Joined
  <2>4. a.seq \in Nat /\ b.seq \in Nat /\ a.no \in Nat /\ b.no \in Nat
    BY <2>1, <2>2, FrameNumbers DEF Mine
  <2>5. a.no # b.no
    <3>1. i # j
      BY <2>1, <2>2, <2>3, <2>4
    <3> QED
      BY <2>1, <2>2, <3>1 DEF RecTypes, CardTypes, Numbered, Mine
  <2>6. ~(b.no < a.no)
    BY <1>2, <2>3, <2>4
  <2>7. a.no < b.no
    BY <2>4, <2>5, <2>6
  <2>8. Period(a, b) \/ a.seq + 1 < b.seq
    BY <2>1, <2>2, <2>3, <2>7 DEF RingInv, PeriodInv
  <2> QED
    BY <2>3, <2>4, <2>8 DEF Period
<1> QED
  BY <1>1, <1>2, <1>3 DEF SeqExact, SessionsApart

-----------------------------------------------------------------------------
\* The ring of buffers of a stream: i is Dist(t, i) places behind t.
Dist(t, i) == IF i >= t THEN i - t ELSE i - t + Bufs
Queued(x, i) == Dist(x.tail, i) < Dist(x.tail, x.head)
Live(x, h, i) == Queued(x, i) \/ (h /\ i = x.head)
LastOf(d) == d[Len(d)]

Ordered(x, h) ==
    \A i, j \in Places :
       Live(x, h, i) /\ Live(x, h, j) /\ Dist(x.tail, i) < Dist(x.tail, j) =>
          LastOf(x.buf[i].data) < x.buf[j].data[1]

LEMMA DistIs ==
    ASSUME NEW t \in Places, NEW i \in Places
    PROVE  /\ Dist(t, i) \in 0 .. Bufs - 1 /\ (Dist(t, i) = 0 <=> i = t)
           /\ \A j \in Places : Dist(t, i) = Dist(t, j) => i = j
           /\ Next1(i) # t => Dist(t, Next1(i)) = Dist(t, i) + 1
           /\ i # t => Dist(Next1(t), i) = Dist(t, i) - 1
<1>1. /\ Next1(i) = (IF i = Bufs - 1 THEN 0 ELSE i + 1) /\ Next1(t) = (IF t = Bufs - 1 THEN 0 ELSE t + 1)
      /\ Next1(i) \in Places /\ Next1(t) \in Places
  BY NextPlace
<1> QED
  BY <1>1, RecConstants DEF Dist, Places

LEMMA HeadNotQueued ==
    ASSUME NEW x \in StreamStates
    PROVE  /\ ~Queued(x, x.head)
           /\ x.tail # x.head => Queued(x, x.tail)
           /\ \A i \in Places : Queued(x, i) => i # x.head /\ x.tail # x.head
           /\ \A i \in Places : Queued(x, i) => Dist(x.tail, i) < Dist(x.tail, x.head)
<1>1. x.head \in Places /\ x.tail \in Places
  BY DEF StreamStates
<1>2. Dist(x.tail, x.head) \in Nat /\ Dist(x.tail, x.tail) = 0 /\ \A i \in Places : Dist(x.tail, i) \in Nat
  BY <1>1, DistIs
<1>3. x.tail # x.head => Dist(x.tail, x.head) # 0
  BY <1>1, DistIs
<1> QED
  BY <1>1, <1>2, <1>3 DEF Queued

\* y is x with some buffers fewer.
Narrows(x, h, y, k) ==
    \A i \in Places : Live(y, k, i) =>
       /\ Live(x, h, i) /\ y.buf[i] = x.buf[i]
       /\ \A j \in Places : Live(y, k, j) /\ Dist(y.tail, i) < Dist(y.tail, j) =>
             Dist(x.tail, i) < Dist(x.tail, j)

LEMMA NarrowOrdered ==
    ASSUME NEW x, NEW h, NEW y, NEW k, Ordered(x, h), Narrows(x, h, y, k)
    PROVE  Ordered(y, k)
<1> SUFFICES ASSUME NEW i \in Places, NEW j \in Places, Live(y, k, i), Live(y, k, j),
                    Dist(y.tail, i) < Dist(y.tail, j)
             PROVE  LastOf(y.buf[i].data) < y.buf[j].data[1]
  BY DEF Ordered
<1>1. Live(x, h, i) /\ Live(x, h, j) /\ y.buf[i] = x.buf[i] /\ y.buf[j] = x.buf[j]
      /\ Dist(x.tail, i) < Dist(x.tail, j)
  BY DEF Narrows
<1> QED
  BY <1>1 DEF Ordered

LEMMA Without1Is ==
    ASSUME NEW x \in StreamStates, NEW t, NEW i \in Places, NEW f
    PROVE  LET y == Without1(x, t, i, f)
           IN  /\ y.head = x.head /\ y.tail = t /\ y.fill = f
               /\ \A j \in Places : j # i => y.buf[j] = x.buf[j]
               /\ y.buf[i].data = <<>>
<1>1. x.buf \in [Places -> Sectors] /\ x.buf[i] \in Sectors
  BY DEF StreamStates
<1>2. Emptied(x.buf[i]).data = <<>>
  BY <1>1, EmptiedType
<1> QED
  BY <1>1, <1>2 DEF Without1

LEMMA NarrowTake ==
    ASSUME NEW x \in StreamStates, x.tail # x.head, NEW h \in BOOLEAN
    PROVE  LET y == Without1(x, Next1(x.tail), x.tail, x.fill)
           IN  /\ Narrows(x, h, y, h)
               /\ \A i \in Places : Live(y, h, i) <=> Live(x, h, i) /\ i # x.tail
               /\ \A i \in Places : Queued(y, i) <=> Queued(x, i) /\ i # x.tail
               /\ \A i \in Places : Live(y, h, i) => Dist(x.tail, x.tail) < Dist(x.tail, i)
<1> DEFINE y == Without1(x, Next1(x.tail), x.tail, x.fill)
           t == x.tail
           u == Next1(t)
<1>1. x.head \in Places /\ t \in Places /\ u \in Places
  BY NextPlace DEF StreamStates
<1>2. /\ y.head = x.head /\ y.tail = u
      /\ \A j \in Places : j # t => y.buf[j] = x.buf[j]
  BY <1>1 DEF Without1, StreamStates
<1> HIDE DEF y, u
<1>3. \A i \in Places : /\ Dist(t, i) \in 0 .. Bufs - 1 /\ (Dist(t, i) = 0 <=> i = t)
                        /\ i # t => Dist(u, i) = Dist(t, i) - 1
                        /\ Dist(u, i) \in 0 .. Bufs - 1
  BY <1>1, DistIs DEF u
<1>4. Dist(u, t) = Bufs - 1
  <2>1. u = IF t = Bufs - 1 THEN 0 ELSE t + 1
    BY <1>1, NextPlace DEF u
  <2> QED
    BY <1>1, <2>1, RecConstants DEF Dist, Places
<1>5. Dist(u, x.head) = Dist(t, x.head) - 1
  BY <1>1, <1>3
<1>6. \A i \in Places : Queued(y, i) <=> Queued(x, i) /\ i # t
  <2> TAKE i \in Places
  <2>1. CASE i = t
    BY <1>1, <1>2, <1>3, <1>4, <1>5, <2>1, RecConstants DEF Queued
  <2>2. CASE i # t
    BY <1>1, <1>2, <1>3, <1>5, <2>2, RecConstants DEF Queued
  <2> QED
    BY <2>1, <2>2
<1>7. \A i \in Places : Live(y, h, i) <=> Live(x, h, i) /\ i # t
  BY <1>2, <1>6 DEF Live
<1>8. Narrows(x, h, y, h)
  BY <1>1, <1>2, <1>3, <1>7, RecConstants DEF Narrows
<1>9. \A i \in Places : Live(y, h, i) => Dist(t, t) < Dist(t, i)
  BY <1>1, <1>3, <1>7, RecConstants
<1> QED
  BY <1>6, <1>7, <1>8, <1>9 DEF y

\* The numbers of one buffer: no record that nobody made, and none missing.
Coh(x, m) ==
    /\ \A i \in Places : Range(x.buf[i].data) \subseteq m
    /\ \A i \in Places : Queued(x, i) => x.buf[i].data # <<>>
    /\ x.fill > 0 => Len(x.buf[x.head].data) = x.fill

Solid(B, m) == \A f \in B : f.data # <<>> /\ Range(f.data) \subseteq m

\* The blocks B of a stream on the card come before its live buffers, in the
\* order of writing.
Sorted(x, h, B) ==
    /\ Ordered(x, h)
    /\ \A f \in B, j \in Places : Live(x, h, j) => LastOf(f.data) < x.buf[j].data[1]
    /\ \A f, g \in B : f.no < g.no => LastOf(f.data) < g.data[1]

LEMMA NarrowSorted ==
    ASSUME NEW x, NEW h, NEW y, NEW k, NEW B, NEW C \in SUBSET B, Sorted(x, h, B), Narrows(x, h, y, k)
    PROVE  Sorted(y, k, C)
<1>1. Ordered(y, k)
  BY NarrowOrdered DEF Sorted
<1>2. \A f \in C, j \in Places : Live(y, k, j) => LastOf(f.data) < y.buf[j].data[1]
  BY DEF Sorted, Narrows
<1> QED
  BY <1>1, <1>2 DEF Sorted

\* A block of buffer j is written, the first live one, which is then taken.
LEMMA WrittenSorted ==
    ASSUME NEW x, NEW h, NEW y, NEW k, NEW B, NEW f, NEW C \in SUBSET (B \union {f}), NEW j \in Places,
           Sorted(x, h, B), Narrows(x, h, y, k), Live(x, h, j), f.data = x.buf[j].data, f.no \in Nat,
           \A g \in B : g.no \in Nat /\ g.no < f.no,
           \A i \in Places : Live(y, k, i) => Dist(x.tail, j) < Dist(x.tail, i)
    PROVE  Sorted(y, k, C)
<1>1. Ordered(y, k)
  BY NarrowOrdered DEF Sorted
<1>2. ASSUME NEW g \in C, NEW i \in Places, Live(y, k, i)
      PROVE  LastOf(g.data) < y.buf[i].data[1]
  <2>1. Live(x, h, i) /\ y.buf[i] = x.buf[i] /\ Dist(x.tail, j) < Dist(x.tail, i)
    BY <1>2 DEF Narrows
  <2>2. CASE g = f
    BY <2>1, <2>2 DEF Sorted, Ordered
  <2>3. CASE g \in B
    BY <2>1, <2>3 DEF Sorted
  <2> QED
    BY <2>2, <2>3
<1>3. ASSUME NEW a \in C, NEW b \in C, a.no < b.no
      PROVE  LastOf(a.data) < b.data[1]
  <2>1. CASE a \in B /\ b \in B
    BY <1>3, <2>1 DEF Sorted
  <2>2. CASE a \in B /\ b = f
    BY <2>2 DEF Sorted
  <2>3. CASE a = f
    <3>1. b \in B => ~(f.no < b.no)
      OBVIOUS
    <3> QED
      BY <1>3, <2>3, <3>1
  <2> QED
    BY <2>1, <2>2, <2>3
<1> QED
  BY <1>1, <1>2, <1>3 DEF Sorted

LEMMA DataIs ==
    ASSUME NEW d \in Seq(Nat), NEW m, Range(d) \subseteq m
    PROVE  /\ \A i \in 1 .. Len(d) : d[i] \in m
           /\ d # <<>> => LastOf(d) \in m /\ d[1] \in m
<1>1. DOMAIN d = 1 .. Len(d) /\ Len(d) \in Nat
  OBVIOUS
<1>2. \A i \in 1 .. Len(d) : d[i] \in m
  BY <1>1 DEF Range
<1>3. d # <<>> => Len(d) > 0
  BY <1>1, EmptySeq
<1> QED
  BY <1>1, <1>2, <1>3 DEF LastOf

\* stream_commit: the buffer of head ends with the new record, the others are
\* as they were.
LEMMA AppendLive ==
    ASSUME NEW x \in StreamStates, NEW r \in Nat \ {0}, Coh(x, 1 .. r - 1)
    PROVE  LET y == Committed(x, r)
               d == y.buf[x.head].data
           IN  /\ Len(d) = x.fill + 1 /\ LastOf(d) = r /\ d # <<>> /\ Range(d) \subseteq 1 .. r
               /\ IF x.fill = 0 THEN d[1] = r ELSE d[1] = x.buf[x.head].data[1]
               /\ y.tail = x.tail
               /\ \A i \in Places : i # x.head => y.buf[i] = x.buf[i]
               /\ \A i \in Places : Live(y, y.fill > 0, i) => i = x.head \/ Queued(x, i)
               /\ ~Overrun(x) => Live(y, y.fill > 0, x.head)
               /\ \A i \in Places : Queued(x, i) => Queued(y, i)
               /\ y.fill > 0 => y.head = x.head /\ y.fill = x.fill + 1
<1> DEFINE y == Committed(x, r)
           d == y.buf[x.head].data
           old == x.buf[x.head].data
<1>1. /\ x.head \in Places /\ x.tail \in Places /\ x.fill \in 0 .. Cap - 1
      /\ old \in Seq(Nat)
  BY DEF StreamStates, Sectors, Batches
<1>2. /\ y \in StreamStates /\ y.tail = x.tail
      /\ \A i \in Places : i # x.head => y.buf[i] = x.buf[i]
      /\ Len(d) = x.fill + 1 /\ d[x.fill + 1] = r
      /\ \A i \in 1 .. x.fill : d[i] = IF i <= Len(old) THEN old[i] ELSE 0
      /\ y.fill = (IF x.fill + 1 >= Cap THEN 0 ELSE x.fill + 1)
      /\ y.head = (IF x.fill + 1 >= Cap /\ Next1(x.head) # x.tail THEN Next1(x.head) ELSE x.head)
  BY CommittedShape
<1> HIDE DEF y
<1>3. d \in Seq(Nat)
  BY <1>1, <1>2 DEF StreamStates, Sectors, Batches
<1>4. x.fill > 0 => Len(old) = x.fill
  BY DEF Coh
<1>5. \A i \in 1 .. Len(old) : old[i] \in 1 .. r - 1
  BY <1>1, DataIs DEF Coh
<1> HIDE DEF old, d
<1>6. \A i \in 1 .. x.fill : d[i] = old[i]
  BY <1>1, <1>2, <1>4
<1>7. \A i \in 1 .. x.fill + 1 : d[i] \in 1 .. r
  <2> TAKE i \in 1 .. x.fill + 1
  <2>1. CASE i = x.fill + 1
    BY <1>2, <2>1
  <2>2. CASE i # x.fill + 1
    <3>1. i \in 1 .. x.fill /\ x.fill > 0
      BY <1>1, <2>2
    <3>2. d[i] \in 1 .. r - 1
      BY <1>4, <1>5, <1>6, <3>1
    <3> QED
      BY <3>2
  <2> QED
    BY <2>1, <2>2
<1>8. Range(d) \subseteq 1 .. r
  <2>1. DOMAIN d = 1 .. x.fill + 1
    BY <1>2, <1>3
  <2> QED
    BY <1>7, <2>1 DEF Range
<1>9. d # <<>> /\ LastOf(d) = r
  BY <1>1, <1>2, <1>3 DEF LastOf
<1>10. IF x.fill = 0 THEN d[1] = r ELSE d[1] = old[1]
  BY <1>1, <1>2, <1>6
<1> DEFINE t == x.tail
           n == Next1(x.head)
<1>11. Dist(t, x.head) \in Nat /\ (n # t => Dist(t, n) = Dist(t, x.head) + 1) /\ n \in Places
  BY <1>1, DistIs, NextPlace
<1>12. \A i \in Places : Dist(t, i) \in Nat /\ (Dist(t, i) = Dist(t, x.head) => i = x.head)
  BY <1>1, DistIs
<1> HIDE DEF t, n
<1>13. y.head = x.head \/ (y.head = n /\ n # t)
  BY <1>2 DEF n, t
<1>14. \A i \in Places : Queued(y, i) => i = x.head \/ Queued(x, i)
  BY <1>2, <1>11, <1>12, <1>13 DEF Queued, t
<1>15. \A i \in Places : Queued(x, i) => Queued(y, i)
  BY <1>2, <1>11, <1>12, <1>13 DEF Queued, t
<1>16. y.fill > 0 => y.head = x.head /\ y.fill = x.fill + 1
  BY <1>2
<1>17. \A i \in Places : Live(y, y.fill > 0, i) => i = x.head \/ Queued(x, i)
  BY <1>14, <1>16 DEF Live
<1>18. ~Overrun(x) => Live(y, y.fill > 0, x.head)
  <2>1. CASE x.fill + 1 >= Cap
    <3>1. ~Overrun(x) => y.head = n /\ n # t
      BY <1>2, <2>1 DEF Overrun, n, t
    <3> QED
      BY <1>2, <1>11, <3>1 DEF Live, Queued, t
  <2>2. CASE ~(x.fill + 1 >= Cap)
    <3>1. y.fill > 0 /\ y.head = x.head
      BY <1>1, <1>2, <2>2, RecConstants
    <3> QED
      BY <3>1 DEF Live
  <2> QED
    BY <2>1, <2>2
<1> QED
  BY <1>2, <1>8, <1>9, <1>10, <1>15, <1>16, <1>17, <1>18 DEF y, d, old

LEMMA AppendCoh ==
    ASSUME NEW x \in StreamStates, NEW r \in Nat \ {0}, Coh(x, 1 .. r - 1)
    PROVE  Coh(Committed(x, r), 1 .. r)
<1> DEFINE y == Committed(x, r)
           d == y.buf[x.head].data
<1>1. /\ Len(d) = x.fill + 1 /\ d # <<>> /\ Range(d) \subseteq 1 .. r
      /\ \A i \in Places : i # x.head => y.buf[i] = x.buf[i]
      /\ \A i \in Places : Live(y, y.fill > 0, i) => i = x.head \/ Queued(x, i)
      /\ y.fill > 0 => y.head = x.head /\ y.fill = x.fill + 1
  BY AppendLive
<1>2. 1 .. r - 1 \subseteq 1 .. r
  OBVIOUS
<1> HIDE DEF y
<1>3. \A i \in Places : Range(y.buf[i].data) \subseteq 1 .. r
  BY <1>1, <1>2 DEF Coh
<1>4. \A i \in Places : Queued(y, i) => y.buf[i].data # <<>>
  BY <1>1 DEF Coh, Live
<1>5. y.fill > 0 => Len(y.buf[y.head].data) = y.fill
  BY <1>1
<1> QED
  BY <1>3, <1>4, <1>5 DEF Coh, y

LEMMA AppendSorted ==
    ASSUME NEW x \in StreamStates, NEW r \in Nat \ {0}, Coh(x, 1 .. r - 1), NEW B,
           Solid(B, 1 .. r - 1), \A f \in B : f.data \in Seq(Nat), Sorted(x, x.fill > 0, B)
    PROVE  Sorted(Committed(x, r), Committed(x, r).fill > 0, B)
<1> DEFINE y == Committed(x, r)
           d == y.buf[x.head].data
           k == y.fill > 0
<1>1. /\ LastOf(d) = r /\ d # <<>>
      /\ IF x.fill = 0 THEN d[1] = r ELSE d[1] = x.buf[x.head].data[1]
      /\ y.tail = x.tail
      /\ \A i \in Places : i # x.head => y.buf[i] = x.buf[i]
      /\ \A i \in Places : Live(y, k, i) => i = x.head \/ Queued(x, i)
  BY AppendLive
<1>2. x.head \in Places /\ x.tail \in Places /\ x.fill \in Nat
      /\ \A i \in Places : x.buf[i].data \in Seq(Nat)
  BY DEF StreamStates, Sectors, Batches
<1>3. \A i \in Places : Queued(x, i) => i # x.head /\ Dist(x.tail, i) < Dist(x.tail, x.head)
  BY HeadNotQueued
<1>4. \A i \in Places : Queued(x, i) => LastOf(x.buf[i].data) \in 1 .. r - 1
  BY <1>2, DataIs DEF Coh
<1>5. \A f \in B : LastOf(f.data) \in 1 .. r - 1
  BY DataIs DEF Solid
<1>6. \A i \in Places : Dist(x.tail, i) \in Nat
  BY <1>2, DistIs
<1> HIDE DEF y, d, k
<1>7. ASSUME NEW i \in Places, Queued(x, i)
      PROVE  LastOf(x.buf[i].data) < d[1]
  <2>1. CASE x.fill = 0
    BY <1>1, <1>4, <1>7, <2>1
  <2>2. CASE x.fill # 0
    <3>1. Live(x, x.fill > 0, i) /\ Live(x, x.fill > 0, x.head)
      BY <1>2, <1>7, <2>2 DEF Live
    <3> QED
      BY <1>1, <1>2, <1>3, <1>7, <2>2, <3>1 DEF Sorted, Ordered
  <2> QED
    BY <2>1, <2>2
<1>8. ASSUME NEW f \in B
      PROVE  LastOf(f.data) < d[1]
  <2>1. CASE x.fill = 0
    BY <1>1, <1>5, <2>1
  <2>2. CASE x.fill # 0
    <3>1. Live(x, x.fill > 0, x.head)
      BY <1>2, <2>2 DEF Live
    <3> QED
      BY <1>1, <1>2, <2>2, <3>1 DEF Sorted
  <2> QED
    BY <2>1, <2>2
<1>9. \A i \in Places : Queued(x, i) => Live(x, x.fill > 0, i) /\ y.buf[i] = x.buf[i]
  BY <1>1, <1>3 DEF Live
<1>10. ASSUME NEW i \in Places, NEW j \in Places, Live(y, k, i), Live(y, k, j),
              Dist(y.tail, i) < Dist(y.tail, j)
       PROVE  LastOf(y.buf[i].data) < y.buf[j].data[1]
  <2>1. CASE i = x.head
    <3>1. Dist(x.tail, i) < Dist(x.tail, j) /\ (j = i \/ Dist(x.tail, j) < Dist(x.tail, i))
      BY <1>1, <1>3, <1>10, <2>1
    <3> QED
      BY <1>6, <3>1
  <2>2. CASE i # x.head /\ j = x.head
    BY <1>1, <1>7, <1>9, <1>10, <2>2 DEF d
  <2>3. CASE i # x.head /\ j # x.head
    BY <1>1, <1>9, <1>10, <2>3 DEF Sorted, Ordered
  <2> QED
    BY <2>1, <2>2, <2>3
<1>11. ASSUME NEW f \in B, NEW j \in Places, Live(y, k, j)
       PROVE  LastOf(f.data) < y.buf[j].data[1]
  <2>1. CASE j = x.head
    BY <1>8, <2>1 DEF d
  <2>2. CASE j # x.head
    BY <1>1, <1>9, <1>11, <2>2 DEF Sorted
  <2> QED
    BY <2>1, <2>2
<1>12. \A f, g \in B : f.no < g.no => LastOf(f.data) < g.data[1]
  BY DEF Sorted
<1>13. Ordered(y, k)
  BY <1>10 DEF Ordered
<1>14. Sorted(y, k, B)
  BY <1>11, <1>12, <1>13 DEF Sorted
<1> QED
  BY <1>14 DEF y, k

-----------------------------------------------------------------------------
\* The records of live buffers, and the bound on those that are nowhere.
Kept(x, h) == UNION {Range(x.buf[i].data) : i \in {j \in Places : Live(x, h, j)}}
Few(L, n) == IsFiniteSet(L) /\ Cardinality(L) <= Cap * n

LEMMA KeptIs ==
    ASSUME NEW x, NEW h, NEW i \in Places, Live(x, h, i)
    PROVE  Range(x.buf[i].data) \subseteq Kept(x, h)
  BY DEF Kept

LEMMA IntervalSize ==
    ASSUME NEW n \in Nat
    PROVE  IsFiniteSet(1 .. n) /\ Cardinality(1 .. n) = n
  BY FS_Interval

LEMMA NotMore ==
    ASSUME NEW L, NEW n \in Nat, Few(L, n), NEW M \in SUBSET L
    PROVE  Few(M, n)
<1>1. IsFiniteSet(M) /\ Cardinality(M) <= Cardinality(L)
  BY FS_Subset DEF Few
<1>2. Cardinality(M) \in Nat /\ Cardinality(L) \in Nat /\ Cap * n \in Nat
  BY <1>1, FS_CardinalityType, RecConstants DEF Few
<1> QED
  BY <1>1, <1>2 DEF Few

LEMMA OneSectorMore ==
    ASSUME NEW L, NEW n \in Nat, Few(L, n), NEW d \in Batches, NEW M \in SUBSET (L \union Range(d))
    PROVE  Few(M, n + 1)
<1> DEFINE R == Range(d)
<1>1. DOMAIN d = 1 .. Len(d) /\ Len(d) \in Nat /\ Len(d) <= Cap
  BY DEF Batches
<1>2. d \in Surjection(1 .. Len(d), R)
  <2>1. d \in [1 .. Len(d) -> R]
    <3>1. \A i \in 1 .. Len(d) : d[i] \in R
      BY <1>1 DEF Range
    <3>2. d = [i \in 1 .. Len(d) |-> d[i]]
      BY <1>1 DEF Batches
    <3> HIDE DEF R
    <3> QED
      BY <3>1, <3>2
  <2>2. \A y \in R : \E i \in 1 .. Len(d) : d[i] = y
    BY <1>1 DEF Range
  <2> HIDE DEF R
  <2> QED
    BY <2>1, <2>2 DEF Surjection
<1>3. IsFiniteSet(1 .. Len(d)) /\ Cardinality(1 .. Len(d)) = Len(d)
  BY <1>1, IntervalSize
<1> HIDE DEF R
<1>4. IsFiniteSet(R) /\ Cardinality(R) <= Len(d)
  BY <1>2, <1>3, FS_Surjection
<1>5. IsFiniteSet(L \union R) /\ Cardinality(L \union R) = Cardinality(L) + Cardinality(R) - Cardinality(L \cap R)
  BY <1>4, FS_Union DEF Few
<1>6. IsFiniteSet(L \cap R)
  BY <1>4, FS_Subset
<1>7. IsFiniteSet(M) /\ Cardinality(M) <= Cardinality(L \union R)
  BY <1>5, FS_Subset DEF R
<1>8. /\ Cardinality(M) \in Nat /\ Cardinality(L) \in Nat /\ Cardinality(R) \in Nat
      /\ Cardinality(L \cap R) \in Nat /\ Cardinality(L \union R) \in Nat
  BY <1>4, <1>5, <1>6, <1>7, FS_CardinalityType DEF Few
<1> DEFINE p == Cap * n
<1>9. Cap * (n + 1) = p + Cap /\ p \in Nat /\ Cap \in Nat /\ Cardinality(L) <= p
  BY RecConstants DEF Few
<1> HIDE DEF p
<1>10. Cardinality(M) <= p + Cap
  <2> DEFINE cm == Cardinality(M)
             cl == Cardinality(L)
             cr == Cardinality(R)
             cb == Cardinality(L \cap R)
             ca == Cardinality(L \union R)
  <2>1. cm \in Nat /\ cl \in Nat /\ cr \in Nat /\ cb \in Nat /\ ca \in Nat /\ ca = cl + cr - cb
        /\ cm <= ca /\ cr <= Len(d) /\ cl <= p
    BY <1>4, <1>5, <1>7, <1>8, <1>9
  <2> HIDE DEF cm, cl, cr, cb, ca
  <2>2. cm <= p + Cap
    BY <1>1, <1>9, <2>1
  <2> QED
    BY <2>2 DEF cm
<1> QED
  BY <1>7, <1>9, <1>10 DEF Few

\* A record more is kept, or its sector is counted as dropped.
LEMMA AppendLost ==
    ASSUME NEW x \in StreamStates, NEW r \in Nat \ {0}, Coh(x, 1 .. r - 1), NEW S, NEW n \in Nat,
           Few((1 .. r - 1) \ (S \union Kept(x, x.fill > 0)), n)
    PROVE  Few((1 .. r) \ (S \union Kept(Committed(x, r), Committed(x, r).fill > 0)),
               n + (IF Overrun(x) THEN 1 ELSE 0))
<1> DEFINE y == Committed(x, r)
           d == y.buf[x.head].data
           L == (1 .. r - 1) \ (S \union Kept(x, x.fill > 0))
           M == (1 .. r) \ (S \union Kept(y, y.fill > 0))
<1>1. /\ LastOf(d) = r /\ Len(d) = x.fill + 1 /\ Range(d) \subseteq 1 .. r
      /\ \A i \in Places : i # x.head => y.buf[i] = x.buf[i]
      /\ ~Overrun(x) => Live(y, y.fill > 0, x.head)
      /\ \A i \in Places : Queued(x, i) => Queued(y, i)
  BY AppendLive
<1>2. y \in StreamStates /\ d \in Batches /\ x.head \in Places /\ x.fill \in Nat
      /\ x.buf[x.head].data \in Seq(Nat) /\ d \in Seq(Nat)
  <2>1. y \in StreamStates
    BY CommittedShape
  <2>2. /\ x.head \in Places /\ x.fill \in Nat /\ x.buf[x.head].data \in Batches
    BY DEF StreamStates, Sectors
  <2> HIDE DEF y
  <2>3. d \in Batches
    BY <2>1, <2>2 DEF StreamStates, Sectors
  <2> QED
    BY <2>1, <2>2, <2>3 DEF Batches
<1>3. DOMAIN d = 1 .. x.fill + 1
  BY <1>1, <1>2
<1>4. r \in Range(d)
  <2>1. x.fill + 1 \in DOMAIN d /\ d[x.fill + 1] = r
    BY <1>1, <1>2, <1>3 DEF LastOf
  <2> QED
    BY <2>1 DEF Range
<1>5. x.fill > 0 => Range(x.buf[x.head].data) \subseteq Range(d)
  <2> SUFFICES ASSUME x.fill > 0 PROVE Range(x.buf[x.head].data) \subseteq Range(d)
    OBVIOUS
  <2>1. Len(x.buf[x.head].data) = x.fill /\ DOMAIN x.buf[x.head].data = 1 .. x.fill
    BY <1>2 DEF Coh
  <2>2. \A i \in 1 .. x.fill : d[i] = x.buf[x.head].data[i]
    BY <2>1, CommittedShape
  <2>3. 1 .. x.fill \subseteq DOMAIN d
    BY <1>2, <1>3
  <2> HIDE DEF d
  <2> QED
    BY <2>1, <2>2, <2>3 DEF Range
<1>6. \A v \in 1 .. r : v = r \/ v \in 1 .. r - 1
  OBVIOUS
<1> HIDE DEF y, d
<1>7. Kept(x, x.fill > 0) \subseteq Kept(y, y.fill > 0) \union Range(d)
  <2> SUFFICES ASSUME NEW v \in Kept(x, x.fill > 0) PROVE v \in Kept(y, y.fill > 0) \union Range(d)
    OBVIOUS
  <2>1. PICK i \in Places : Live(x, x.fill > 0, i) /\ v \in Range(x.buf[i].data)
    BY DEF Kept
  <2>2. CASE i = x.head /\ x.fill > 0
    BY <1>5, <2>1, <2>2
  <2>3. CASE Queued(x, i)
    <3>1. i # x.head
      BY <2>3, HeadNotQueued
    <3>2. Live(y, y.fill > 0, i) /\ y.buf[i] = x.buf[i]
      BY <1>1, <2>3, <3>1 DEF Live
    <3> QED
      BY <2>1, <3>2, KeptIs
  <2> QED
    BY <2>1, <2>2, <2>3 DEF Live
<1>8. M \subseteq L \union Range(d)
  BY <1>4, <1>6, <1>7
<1>9. CASE Overrun(x)
  <2> HIDE DEF M, L
  <2>1. Few(M, n + 1)
    BY <1>2, <1>8, OneSectorMore DEF L
  <2> QED
    BY <1>9, <2>1 DEF M, y
<1>10. CASE ~Overrun(x)
  <2>1. Range(d) \subseteq Kept(y, y.fill > 0)
    BY <1>1, <1>2, <1>10, KeptIs DEF d
  <2>2. M \subseteq L
    BY <1>8, <2>1
  <2> HIDE DEF M, L
  <2>3. Few(M, n)
    BY <2>2, NotMore DEF L
  <2> QED
    BY <1>10, <2>3 DEF M, y
<1> QED
  BY <1>9, <1>10

-----------------------------------------------------------------------------
\* The blocks of this boot on the card.
Block(i) == On(i) /\ card[i].boot = boots /\ card[i].kind = "block"
BlocksOf(s) == {card[i] : i \in {j \in Slots : Block(j) /\ card[j].str = s}}

\* The buffer at head is part of the stream: it is being filled, or has been
\* taken from its producer, and is not on the card yet.
Held(s) ==
    \/ pc = "flush" /\ s = "txt"
    \/ st[s].fill > 0 /\ ~(pc = "clear" /\ s = Order[at])

Lost == made["txt"] \ (stored["txt"] \union Kept(st["txt"], Held("txt")))

\* The buffers and the blocks hold what was recorded, and none is short.
CoherentInv ==
    /\ \A s \in Streams : Coh(st[s], made[s]) /\ Solid(BlocksOf(s), made[s])
    /\ \A i \in Slots : Block(i) => card[i].str \in Streams
    /\ pc = "flush" => st["txt"].fill = 0 /\ AtHead("txt").data # <<>>
    /\ pc = "clear" => st[Order[at]].fill > 0

\* session_stop leaves no published sector behind before it takes the partial
\* ones.
StopPlace ==
    /\ pc = "stopQ" => at \in 1 .. 2 /\ (at = 2 => ~Published("imu"))
    /\ pc \in {"stopP", "clear"} => ~Published("imu") /\ ~Published("txt")

\* While the card works: every stream is in order over its blocks on the card
\* and its buffers, and what is neither there nor stored was counted.
ExactInv ==
    /\ \A s \in Streams : Sorted(st[s], Held(s), BlocksOf(s))
    /\ StopPlace
    /\ Few(Lost, dropped)

LEMMA BlocksStay ==
    ASSUME UNCHANGED <<card, boots>>
    PROVE  /\ \A s \in Streams : (BlocksOf(s))' = BlocksOf(s)
           /\ \A i \in Slots : (Block(i))' <=> Block(i)
  BY DEF BlocksOf, Block, On

LEMMA BlockFacts ==
    ASSUME RecTypes, NEW s \in Streams
    PROVE  \A f \in BlocksOf(s) :
              f.data \in Seq(Nat) /\ f.no \in Nat /\ f.no < frames
<1> SUFFICES ASSUME NEW i \in Slots, Block(i)
             PROVE  card[i].data \in Seq(Nat) /\ card[i].no \in Nat /\ card[i].no < frames
  BY DEF BlocksOf
<1>1. On(i) /\ card[i] \in LogFrames
  BY DEF Block, On, RecTypes, CardTypes
<1> QED
  BY <1>1 DEF LogFrames, RecTypes, CardTypes, Numbered

\* A frame lands: it is the only new block, if it is one.
LEMMA BlocksLand ==
    ASSUME RecTypes, NEW c \in Cursors, NEW str \in {"imu", "txt", "ctl"}, NEW kind \in FrameKinds,
           NEW data \in Seq(Nat), Lands(c, str, kind, data), boots' = boots
    PROVE  LET f == FrameFrom(c, str, kind, data)
           IN  /\ f.data = data /\ f.no = frames
               /\ \A s \in Streams :
                     /\ (BlocksOf(s))' \subseteq BlocksOf(s) \union {f}
                     /\ (kind # "block" \/ s # str) => (BlocksOf(s))' \subseteq BlocksOf(s)
               /\ (\A i \in Slots : Block(i) => card[i].str \in Streams) /\ (kind = "block" => str \in Streams)
                     => \A i \in Slots : (Block(i))' => card'[i].str \in Streams
<1> DEFINE f == FrameFrom(c, str, kind, data)
<1>1. card \in [Slots -> LogFrames \union {None}] /\ c.slot \in Slots
  BY DEF RecTypes, CardTypes, Cursors
<1>2. card' = [card EXCEPT ![c.slot] = f]
  BY DEF Lands
<1>3. f.data = data /\ f.no = frames /\ f.kind = kind /\ f.str = str
  BY DEF FrameFrom
<1> HIDE DEF f
<1>4. \A i \in Slots : card'[i] = IF i = c.slot THEN f ELSE card[i]
  BY <1>1, <1>2
<1>5. \A i \in Slots : i # c.slot => ((Block(i))' <=> Block(i)) /\ card'[i] = card[i]
  BY <1>4 DEF Block, On
<1>6. (Block(c.slot))' => kind = "block" /\ card'[c.slot] = f
  BY <1>1, <1>3, <1>4 DEF Block
<1>7. ASSUME NEW s \in Streams, NEW i \in Slots, (Block(i))', card'[i].str = s
      PROVE  card'[i] \in BlocksOf(s) \/ (card'[i] = f /\ kind = "block" /\ s = str)
  <2>1. CASE i = c.slot
    BY <1>3, <1>6, <1>7, <2>1
  <2>2. CASE i # c.slot
    BY <1>5, <1>7, <2>2 DEF BlocksOf
  <2> QED
    BY <2>1, <2>2
<1>8. \A s \in Streams :
         /\ (BlocksOf(s))' \subseteq BlocksOf(s) \union {f}
         /\ (kind # "block" \/ s # str) => (BlocksOf(s))' \subseteq BlocksOf(s)
  <2> TAKE s \in Streams
  <2>1. \A b \in (BlocksOf(s))' : b \in BlocksOf(s) \/ (b = f /\ kind = "block" /\ s = str)
    BY <1>7 DEF BlocksOf
  <2> QED
    BY <2>1
<1>9. (\A i \in Slots : Block(i) => card[i].str \in Streams) /\ (kind = "block" => str \in Streams)
         => \A i \in Slots : (Block(i))' => card'[i].str \in Streams
  BY <1>3, <1>5, <1>6
<1> QED
  BY <1>3, <1>8, <1>9 DEF f

LEMMA SolidMore ==
    ASSUME NEW B, NEW m, NEW n, m \subseteq n, Solid(B, m), NEW C \in SUBSET B
    PROVE  Solid(C, n)
  BY DEF Solid

LEMMA SameNarrow ==
    ASSUME NEW x, NEW h, NEW y, NEW k, y.head = x.head, y.tail = x.tail, y.buf = x.buf, k => h
    PROVE  Narrows(x, h, y, k) /\ ((h => k) => Kept(y, k) = Kept(x, h))
<1>1. \A i \in Places : Queued(y, i) <=> Queued(x, i)
  BY DEF Queued
<1>2. \A i \in Places : Live(y, k, i) => Live(x, h, i)
  BY <1>1 DEF Live
<1>3. (h => k) => \A i \in Places : Live(y, k, i) <=> Live(x, h, i)
  BY <1>1 DEF Live
<1> QED
  BY <1>2, <1>3 DEF Narrows, Kept

\* A step that leaves the streams alone.
LEMMA Still ==
    ASSUME RecTypes, CoherentInv, UNCHANGED <<st, made, stored, dropped>>,
           \/ pc' = pc /\ at' = at
           \/ pc \notin {"flush", "clear"} /\ pc' \notin {"flush", "clear", "stopQ", "stopP"},
           \A s \in Streams : (BlocksOf(s))' \subseteq BlocksOf(s),
           \A i \in Slots : (Block(i))' => card'[i].str \in Streams
    PROVE  CoherentInv' /\ (ExactInv => ExactInv')
<1>1. \A s \in Streams : (Held(s))' <=> Held(s)
  BY DEF Held
<1>2. \A s \in Streams : Coh(st'[s], made'[s]) /\ Solid((BlocksOf(s))', made'[s])
  BY SolidMore DEF CoherentInv
<1>3. CoherentInv'
  BY <1>2 DEF CoherentInv, AtHead
<1>4. ASSUME ExactInv
      PROVE  ExactInv'
  <2>1. ASSUME NEW s \in Streams
        PROVE  Sorted(st'[s], (Held(s))', (BlocksOf(s))')
    <3>1. Narrows(st[s], Held(s), st'[s], (Held(s))')
      BY <1>1, SameNarrow
    <3> QED
      BY <1>4, <3>1, NarrowSorted DEF ExactInv
  <2>2. StopPlace'
    BY <1>4 DEF ExactInv, StopPlace, Published
  <2>3. Lost' = Lost
    <3>1. "txt" \in Streams
      BY DEF Streams
    <3>2. Kept(st'["txt"], (Held("txt"))') = Kept(st["txt"], Held("txt"))
      BY <1>1, <3>1, SameNarrow
    <3> QED
      BY <3>2 DEF Lost
  <2> QED
    BY <1>4, <2>1, <2>2, <2>3 DEF ExactInv
<1> QED
  BY <1>3, <1>4

\* What is left to show of a step that changes one stream and leaves the rest.
LEMMA OneStream ==
    ASSUME RecTypes, NEW s \in Streams, NEW y, st' = [st EXCEPT ![s] = y]
    PROVE  st'[s] = y /\ \A t \in Streams \ {s} : st'[t] = st[t]
<1>1. st \in [Streams -> StreamStates]
  BY StreamIs
<1> QED
  BY <1>1

LEMMA OthersSorted ==
    ASSUME RecTypes, ExactInv, NEW t \in Streams, st'[t] = st[t], (Held(t))' => Held(t),
           (BlocksOf(t))' \subseteq BlocksOf(t)
    PROVE  Sorted(st'[t], (Held(t))', (BlocksOf(t))')
<1>1. Narrows(st[t], Held(t), st'[t], (Held(t))')
  BY SameNarrow
<1> QED
  BY <1>1, NarrowSorted DEF ExactInv

LEMMA TickSound == RecTypes /\ CoherentInv /\ Tick => CoherentInv' /\ (ExactInv => ExactInv')
<1> SUFFICES ASSUME RecTypes, CoherentInv, Tick PROVE CoherentInv' /\ (ExactInv => ExactInv')
  OBVIOUS
<1>1. /\ pc = "idle" /\ UNCHANGED <<card, boots, made, stored, dropped>>
  BY DEF Tick, Rest
<1>2. /\ \A s \in Streams : (BlocksOf(s))' = BlocksOf(s)
      /\ \A i \in Slots : (Block(i))' => card'[i].str \in Streams
  BY <1>1, BlocksStay DEF CoherentInv
<1>3. CASE ~(idle /\ st["txt"].fill > 0)
  <2>1. st' = st /\ pc' = "decide"
    BY <1>3 DEF Tick
  <2> QED
    BY <1>1, <1>2, <2>1, Still
<1>4. CASE idle /\ st["txt"].fill > 0
  <2> DEFINE x == st["txt"]
             y == [x EXCEPT !.fill = 0]
  <2>1. "txt" \in Streams /\ x \in StreamStates /\ 0 \in 0 .. Cap - 1
    BY StreamIs, RecConstants DEF Streams
  <2>2. y.head = x.head /\ y.tail = x.tail /\ y.buf = x.buf /\ y.fill = 0
    BY <2>1, WithFill
  <2>3. st' = [st EXCEPT !["txt"] = y] /\ pc' = "flush"
    BY <1>4 DEF Tick
  <2>4. st'["txt"] = y /\ \A t \in Streams \ {"txt"} : st'[t] = st[t]
    BY <2>1, <2>3, OneStream
  <2> HIDE DEF y
  <2>5. x.buf[x.head].data # <<>>
    <3>1. Len(x.buf[x.head].data) > 0
      BY <1>4, <2>1 DEF CoherentInv, Coh
    <3> QED
      BY <3>1
  <2>6. Held("txt") /\ (Held("txt"))' /\ \A t \in Streams \ {"txt"} : (Held(t))' <=> Held(t)
    BY <1>1, <1>4, <2>3, <2>4 DEF Held
  <2>7. Coh(y, made'["txt"])
    BY <1>1, <2>1, <2>2 DEF CoherentInv, Coh, Queued
  <2>8. CoherentInv'
    <3>1. \A s \in Streams : Coh(st'[s], made'[s]) /\ Solid((BlocksOf(s))', made'[s])
      BY <1>1, <1>2, <2>4, <2>7 DEF CoherentInv
    <3> QED
      BY <1>2, <2>2, <2>3, <2>4, <2>5, <3>1 DEF CoherentInv, AtHead
  <2>9. ASSUME ExactInv PROVE ExactInv'
    <3>1. Narrows(x, Held("txt"), y, (Held("txt"))') /\ Kept(y, (Held("txt"))') = Kept(x, Held("txt"))
      BY <2>2, <2>6, SameNarrow
    <3>2. Sorted(y, (Held("txt"))', (BlocksOf("txt"))')
      BY <1>2, <2>1, <2>9, <3>1, NarrowSorted DEF ExactInv
    <3>3. \A s \in Streams : Sorted(st'[s], (Held(s))', (BlocksOf(s))')
      BY <1>2, <2>4, <2>6, <2>9, <3>2, OthersSorted
    <3>4. Lost' = Lost
      BY <1>1, <2>4, <3>1 DEF Lost
    <3> QED
      BY <1>1, <2>3, <2>9, <3>3, <3>4 DEF ExactInv, StopPlace
  <2> QED
    BY <2>8, <2>9
<1> QED
  BY <1>3, <1>4

LEMMA FlushSound == RecTypes /\ CoherentInv /\ FlushHead => CoherentInv' /\ (ExactInv => ExactInv')
<1> SUFFICES ASSUME RecTypes, CoherentInv, FlushHead PROVE CoherentInv' /\ (ExactInv => ExactInv')
  OBVIOUS
<1> DEFINE x == st["txt"]
           n == Next1(x.head)
           y == st'["txt"]
<1>1. /\ pc = "flush" /\ pc' = "decide" /\ UNCHANGED <<card, boots, made, stored>>
  BY DEF FlushHead, Rest
<1>2. /\ \A s \in Streams : (BlocksOf(s))' = BlocksOf(s)
      /\ \A i \in Slots : (Block(i))' => card'[i].str \in Streams
  BY <1>1, BlocksStay DEF CoherentInv
<1>3. /\ "txt" \in Streams /\ x \in StreamStates /\ x.head \in Places /\ x.tail \in Places
      /\ x.buf[x.head].data \in Batches /\ dropped \in Nat /\ n \in Places
  <2>1. "txt" \in Streams
    BY DEF Streams
  <2> QED
    BY <2>1, StreamIs, NextPlace DEF RecTypes, StreamTypes
<1>4. x.fill = 0 /\ x.buf[x.head].data # <<>> /\ Coh(x, made["txt"])
  BY <1>1, <1>3 DEF CoherentInv, AtHead
<1>5. /\ y.tail = x.tail /\ y.buf = x.buf /\ y.fill = x.fill
      /\ \A t \in Streams \ {"txt"} : st'[t] = st[t]
      /\ \/ n = x.tail /\ y.head = x.head /\ dropped' = dropped + 1
         \/ n # x.tail /\ y.head = n /\ dropped' = dropped
  <2>1. CASE n = x.tail
    BY <2>1 DEF FlushHead
  <2>2. CASE n # x.tail
    <3>1. st' = [st EXCEPT !["txt"] = [x EXCEPT !.head = n]] /\ dropped' = dropped
      BY <2>2 DEF FlushHead
    <3>2. st'["txt"] = [x EXCEPT !.head = n] /\ \A t \in Streams \ {"txt"} : st'[t] = st[t]
      BY <1>3, <3>1, OneStream
    <3> DEFINE z == [x EXCEPT !.head = n]
    <3>3. z.head = n /\ z.tail = x.tail /\ z.buf = x.buf /\ z.fill = x.fill
      BY <1>3, WithHead
    <3> HIDE DEF z, n, x
    <3> QED
      BY <2>2, <3>1, <3>2, <3>3 DEF z
  <2> QED
    BY <2>1, <2>2
<1> HIDE DEF n, y
<1>6. Held("txt") /\ ~(Held("txt"))' /\ \A t \in Streams \ {"txt"} : (Held(t))' <=> Held(t)
  <2>1. Held("txt") /\ ~(Held("txt"))'
    BY <1>1, <1>4, <1>5 DEF Held, y
  <2> QED
    BY <1>1, <1>5, <2>1 DEF Held
<1>7. \A i \in Places : Queued(y, i) => Queued(x, i) \/ (i = x.head /\ n # x.tail)
  <2>1. \A i \in Places : Dist(x.tail, i) \in Nat /\ (Dist(x.tail, i) = Dist(x.tail, x.head) => i = x.head)
    BY <1>3, DistIs
  <2>2. n # x.tail => Dist(x.tail, n) = Dist(x.tail, x.head) + 1
    BY <1>3, DistIs DEF n
  <2> QED
    BY <1>3, <1>5, <2>1, <2>2 DEF Queued
<1>8. n # x.tail => \A i \in Places : Live(x, TRUE, i) => Queued(y, i)
  <2>1. \A i \in Places : Dist(x.tail, i) \in Nat
    BY <1>3, DistIs
  <2>2. n # x.tail => Dist(x.tail, n) = Dist(x.tail, x.head) + 1
    BY <1>3, DistIs DEF n
  <2> QED
    BY <1>3, <1>5, <2>1, <2>2 DEF Queued, Live
<1>9. Coh(y, made'["txt"])
  BY <1>1, <1>3, <1>4, <1>5, <1>7 DEF Coh
<1>10. CoherentInv'
  <2>1. \A s \in Streams : Coh(st'[s], made'[s]) /\ Solid((BlocksOf(s))', made'[s])
    BY <1>1, <1>2, <1>5, <1>9 DEF CoherentInv, y
  <2> QED
    BY <1>1, <1>2, <2>1 DEF CoherentInv
<1>11. ASSUME ExactInv PROVE ExactInv'
  <2>1. \A i \in Places : Live(y, FALSE, i) => Live(x, TRUE, i)
    BY <1>7 DEF Live
  <2>2. Narrows(x, TRUE, y, FALSE)
    BY <1>5, <2>1 DEF Narrows
  <2>3. Sorted(x, TRUE, BlocksOf("txt"))
    BY <1>3, <1>6, <1>11 DEF ExactInv
  <2>4. Sorted(y, FALSE, (BlocksOf("txt"))')
    BY <1>2, <1>3, <2>2, <2>3, NarrowSorted
  <2>5. \A s \in Streams : Sorted(st'[s], (Held(s))', (BlocksOf(s))')
    <3> TAKE s \in Streams
    <3>1. CASE s = "txt"
      <4>1. (Held("txt"))' = FALSE
        BY <1>6 DEF Held
      <4> QED
        BY <2>4, <3>1, <4>1 DEF y
    <3>2. CASE s # "txt"
      BY <1>2, <1>5, <1>6, <1>11, <3>2, OthersSorted
    <3> QED
      BY <3>1, <3>2
  <2>6. Kept(x, TRUE) \subseteq Kept(y, FALSE) \union (IF n = x.tail THEN Range(x.buf[x.head].data) ELSE {})
    <3> SUFFICES ASSUME NEW v \in Kept(x, TRUE)
                 PROVE  v \in Kept(y, FALSE) \union (IF n = x.tail THEN Range(x.buf[x.head].data) ELSE {})
      OBVIOUS
    <3>1. PICK i \in Places : Live(x, TRUE, i) /\ v \in Range(x.buf[i].data)
      BY DEF Kept
    <3>2. CASE n # x.tail
      <4>1. Live(y, FALSE, i) /\ y.buf[i] = x.buf[i]
        BY <1>5, <1>8, <3>1, <3>2 DEF Live
      <4> QED
        BY <3>1, <4>1, KeptIs
    <3>3. CASE n = x.tail /\ i # x.head
      <4>1. Live(y, FALSE, i) /\ y.buf[i] = x.buf[i]
        BY <1>5, <3>1, <3>3 DEF Live, Queued
      <4> QED
        BY <3>1, <4>1, KeptIs
    <3>4. CASE n = x.tail /\ i = x.head
      BY <3>1, <3>4
    <3> QED
      BY <3>2, <3>3, <3>4
  <2>7. Lost = made["txt"] \ (stored["txt"] \union Kept(x, TRUE))
        /\ Lost' = made["txt"] \ (stored["txt"] \union Kept(y, FALSE))
    <3>1. Held("txt") = TRUE /\ (Held("txt"))' = FALSE
      BY <1>6 DEF Held
    <3> QED
      BY <1>1, <3>1 DEF Lost, y
  <2>8. Few(Lost', dropped')
    <3>1. Few(Lost, dropped)
      BY <1>11 DEF ExactInv
    <3>2. CASE n = x.tail
      <4>1. Lost' \subseteq Lost \union Range(x.buf[x.head].data)
        BY <2>6, <2>7, <3>2
      <4>2. dropped' = dropped + 1
        BY <1>5, <3>2
      <4> HIDE DEF x
      <4> QED
        BY <1>3, <3>1, <4>1, <4>2, OneSectorMore
    <3>3. CASE n # x.tail
      <4>1. Lost' \subseteq Lost /\ dropped' = dropped
        BY <1>5, <2>6, <2>7, <3>3
      <4> QED
        BY <1>3, <3>1, <4>1, NotMore
    <3> QED
      BY <3>2, <3>3
  <2> QED
    BY <1>1, <2>5, <2>8 DEF ExactInv, StopPlace
<1> QED
  BY <1>10, <1>11

\* A sector is written: what the card then has of the streams.
LEMMA BlockWritten ==
    ASSUME RecTypes, CoherentInv, NEW how \in Outcomes, NEW s \in Streams, NEW b \in Sectors,
           WriteSector(how, s, b), boots' = boots, life' = life, b.data # <<>>,
           Range(b.data) \subseteq made[s]
    PROVE  LET f == FrameFrom(cursor, s, SectorKind(b), b.data)
           IN  /\ f.data = b.data /\ f.no = frames
               /\ (BlocksOf(s))' \subseteq BlocksOf(s) \union {f}
               /\ \A t \in Streams \ {s} : (BlocksOf(t))' \subseteq BlocksOf(t)
               /\ \A t \in Streams : Solid((BlocksOf(t))', made[t])
               /\ \A i \in Slots : (Block(i))' => card'[i].str \in Streams
               /\ fails' = 0 => how = "ok" /\ fails = 0
               /\ how = "ok" => stored' = [stored EXCEPT ![s] = @ \union Range(b.data)]
<1> DEFINE f == FrameFrom(cursor, s, SectorKind(b), b.data)
<1>1. cursor \in Cursors /\ s \in {"imu", "txt", "ctl"} /\ SectorKind(b) \in FrameKinds /\ b.data \in Seq(Nat)
      /\ SectorData(b) = b.data
  BY SectorTypes DEF RecTypes, CardTypes, Streams, SectorData
<1>2. \/ how = "fail" /\ NotWritten(cursor) /\ stored' = stored
      \/ /\ how # "fail" /\ Lands(cursor, s, SectorKind(b), b.data)
         /\ stored' = [stored EXCEPT ![s] = @ \union Range(b.data)]
         /\ IF how = "ok" THEN fails' = fails ELSE fails' = fails + 1
  <2>1. \/ how = "fail" /\ NotWritten(cursor) /\ stored' = stored
        \/ /\ how # "fail" /\ Lands(cursor, s, SectorKind(b), SectorData(b))
           /\ stored' = [stored EXCEPT ![s] = @ \union Range(b.data)]
           /\ IF how = "ok" THEN fails' = fails ELSE fails' = fails + 1
    BY SectorCases
  <2> QED
    BY <1>1, <2>1
<1>3. fails \in Nat
  BY LoopTypes, RecConstants
<1>4. fails' = 0 => how = "ok" /\ fails = 0
  BY <1>2, <1>3 DEF NotWritten, Fails
<1>5. f.data = b.data /\ f.no = frames
  BY DEF FrameFrom
<1> HIDE DEF f
<1>6. /\ (BlocksOf(s))' \subseteq BlocksOf(s) \union {f}
      /\ \A t \in Streams \ {s} : (BlocksOf(t))' \subseteq BlocksOf(t)
      /\ \A i \in Slots : (Block(i))' => card'[i].str \in Streams
  <2>1. CASE how = "fail"
    <3>1. card' = card
      BY <1>2, <2>1 DEF NotWritten
    <3> QED
      BY <3>1, BlocksStay DEF CoherentInv
  <2>2. CASE how # "fail"
    <3>1. Lands(cursor, s, SectorKind(b), b.data)
      BY <1>2, <2>2
    <3>2. /\ \A t \in Streams :
                /\ (BlocksOf(t))' \subseteq BlocksOf(t) \union {f}
                /\ (SectorKind(b) # "block" \/ t # s) => (BlocksOf(t))' \subseteq BlocksOf(t)
          /\ (\A i \in Slots : Block(i) => card[i].str \in Streams) /\ (SectorKind(b) = "block" => s \in Streams)
                => \A i \in Slots : (Block(i))' => card'[i].str \in Streams
      BY <1>1, <3>1, BlocksLand DEF f
    <3> QED
      BY <3>2 DEF CoherentInv
  <2> QED
    BY <2>1, <2>2
<1>7. \A t \in Streams : Solid((BlocksOf(t))', made[t])
  <2> TAKE t \in Streams
  <2>1. Solid(BlocksOf(t), made[t])
    BY DEF CoherentInv
  <2>2. CASE t = s
    BY <1>5, <1>6, <2>1, <2>2 DEF Solid
  <2>3. CASE t # s
    BY <1>6, <2>1, <2>3, SolidMore
  <2> QED
    BY <2>2, <2>3
<1> QED
  BY <1>2, <1>4, <1>5, <1>6, <1>7 DEF f

\* A published sector is written and taken.
LEMMA TakeSound ==
    ASSUME RecTypes, CoherentInv, NEW how \in Outcomes, NEW s \in Streams, Published(s),
           WriteSector(how, s, st[s].buf[st[s].tail]), boots' = boots, life' = life,
           (how = "ok" => st' = Take(s)) /\ (how # "ok" => st' = st),
           UNCHANGED <<made, dropped>>, pc \notin {"flush", "clear"}, pc' \notin {"flush", "clear"}
    PROVE  /\ CoherentInv'
           /\ ExactInv /\ fails' = 0 /\ StopPlace' => ExactInv'
           /\ fails' = 0 => how = "ok"
           /\ \A t \in Streams \ {s} : st'[t] = st[t]
<1> DEFINE x == st[s]
           b == x.buf[x.tail]
           f == FrameFrom(cursor, s, SectorKind(b), b.data)
           y == Without1(x, Next1(x.tail), x.tail, x.fill)
           h == x.fill > 0
<1>1. x \in StreamStates /\ x.tail \in Places /\ b \in Sectors /\ x.tail # x.head /\ Coh(x, made[s])
  BY StreamIs DEF Published, CoherentInv
<1>2. Queued(x, x.tail)
  BY <1>1, HeadNotQueued
<1>3. b.data # <<>> /\ Range(b.data) \subseteq made[s]
  BY <1>1, <1>2 DEF Coh
<1>4. /\ f.data = b.data /\ f.no = frames
      /\ (BlocksOf(s))' \subseteq BlocksOf(s) \union {f}
      /\ \A t \in Streams \ {s} : (BlocksOf(t))' \subseteq BlocksOf(t)
      /\ \A t \in Streams : Solid((BlocksOf(t))', made[t])
      /\ \A i \in Slots : (Block(i))' => card'[i].str \in Streams
      /\ fails' = 0 => how = "ok" /\ fails = 0
      /\ how = "ok" => stored' = [stored EXCEPT ![s] = @ \union Range(b.data)]
  BY <1>1, <1>3, BlockWritten
<1>5. how = "ok" => st'[s] = y /\ \A t \in Streams \ {s} : st'[t] = st[t]
  <2> SUFFICES ASSUME how = "ok" PROVE st'[s] = y /\ \A t \in Streams \ {s} : st'[t] = st[t]
    OBVIOUS
  <2>1. st' = [st EXCEPT ![s] = y]
    BY TakeIs
  <2> HIDE DEF y
  <2> QED
    BY <2>1, OneStream
<1>6. y.head = x.head /\ y.fill = x.fill /\ y.tail = Next1(x.tail)
      /\ (\A j \in Places : j # x.tail => y.buf[j] = x.buf[j]) /\ y.buf[x.tail].data = <<>>
  BY <1>1, EmptiedType DEF Without1, StreamStates
<1>7. /\ Narrows(x, h, y, h)
      /\ \A i \in Places : Live(y, h, i) <=> Live(x, h, i) /\ i # x.tail
      /\ \A i \in Places : Queued(y, i) <=> Queued(x, i) /\ i # x.tail
      /\ \A i \in Places : Live(y, h, i) => Dist(x.tail, x.tail) < Dist(x.tail, i)
  <2>1. h \in BOOLEAN
    OBVIOUS
  <2> HIDE DEF h
  <2> QED
    BY <1>1, <2>1, NarrowTake
<1>8. \A t \in Streams : Held(t) = (st[t].fill > 0) /\ (Held(t))' = (st'[t].fill > 0)
  <2> TAKE t \in Streams
  <2>1. (Held(t) <=> st[t].fill > 0) /\ ((Held(t))' <=> st'[t].fill > 0)
    BY DEF Held
  <2>2. Held(t) \in BOOLEAN /\ (Held(t))' \in BOOLEAN
    BY DEF Held
  <2> QED
    BY <2>1, <2>2
<1> HIDE DEF y, f
<1>9. Coh(y, made[s])
  <2>1. Range(<<>>) = {}
    BY DEF Range
  <2>2. \A i \in Places : Range(y.buf[i].data) \subseteq made[s]
    BY <1>1, <1>6, <2>1 DEF Coh
  <2>3. \A i \in Places : Queued(y, i) => y.buf[i].data # <<>>
    BY <1>1, <1>6, <1>7 DEF Coh
  <2>4. x.head \in Places
    BY <1>1 DEF StreamStates
  <2>5. y.fill > 0 => Len(y.buf[y.head].data) = y.fill
    BY <1>1, <1>6, <2>4 DEF Coh
  <2> QED
    BY <2>2, <2>3, <2>5 DEF Coh
<1>10. \A t \in Streams : Coh(st'[t], made'[t])
  <2> TAKE t \in Streams
  <2>1. CASE how = "ok" /\ t = s
    BY <1>5, <1>9, <2>1
  <2>2. CASE how = "ok" /\ t # s
    BY <1>5, <2>2 DEF CoherentInv
  <2>3. CASE how # "ok"
    BY <2>3 DEF CoherentInv
  <2> QED
    BY <2>1, <2>2, <2>3
<1>11. CoherentInv'
  BY <1>4, <1>10 DEF CoherentInv
<1>12. ASSUME ExactInv, fails' = 0, StopPlace'
       PROVE  ExactInv'
  <2>1. /\ how = "ok" /\ st'[s] = y /\ (\A t \in Streams \ {s} : st'[t] = st[t])
        /\ stored' = [stored EXCEPT ![s] = @ \union Range(b.data)]
    BY <1>4, <1>5, <1>12
  <2>2. Sorted(x, h, BlocksOf(s))
    BY <1>8, <1>12 DEF ExactInv
  <2>3. Live(x, h, x.tail)
    BY <1>2 DEF Live
  <2>4. (\A g \in BlocksOf(s) : g.no \in Nat /\ g.no < f.no) /\ f.no \in Nat
    BY <1>4, BlockFacts DEF RecTypes, CardTypes
  <2>5. Sorted(y, h, (BlocksOf(s))')
    <3>1. (BlocksOf(s))' \in SUBSET (BlocksOf(s) \union {f}) /\ f.data = x.buf[x.tail].data
      BY <1>4
    <3> HIDE DEF x, h
    <3> QED
      BY <1>1, <1>7, <2>2, <2>3, <2>4, <3>1, WrittenSorted
  <2>6. (Held(s))' = h
    BY <1>6, <1>8, <2>1
  <2>7. \A t \in Streams : Sorted(st'[t], (Held(t))', (BlocksOf(t))')
    <3> TAKE t \in Streams
    <3>1. CASE t = s
      BY <2>1, <2>5, <2>6, <3>1
    <3>2. CASE t # s
      <4>1. (Held(t))' => Held(t)
        BY <1>8, <2>1, <3>2
      <4> QED
        BY <1>4, <1>12, <2>1, <3>2, <4>1, OthersSorted
    <3> QED
      BY <3>1, <3>2
  <2>8. Lost' \subseteq Lost
    <3>0. "txt" \in Streams /\ stored \in [Streams -> SUBSET Nat]
      BY StreamIs DEF Streams
    <3>1. CASE s = "txt"
      <4>1. Kept(x, h) \subseteq Kept(y, h) \union Range(b.data)
        <5> SUFFICES ASSUME NEW v \in Kept(x, h) PROVE v \in Kept(y, h) \union Range(b.data)
          OBVIOUS
        <5>1. PICK i \in Places : Live(x, h, i) /\ v \in Range(x.buf[i].data)
          BY DEF Kept
        <5>2. CASE i = x.tail
          BY <5>1, <5>2
        <5>3. CASE i # x.tail
          <6>1. Live(y, h, i) /\ y.buf[i] = x.buf[i]
            BY <1>6, <1>7, <5>1, <5>3
          <6> QED
            BY <5>1, <6>1, KeptIs
        <5> QED
          BY <5>2, <5>3
      <4>2. Held("txt") = h /\ (Held("txt"))' = h
        BY <1>8, <2>6, <3>1
      <4>3. stored'["txt"] = stored["txt"] \union Range(b.data)
        BY <2>1, <3>0, <3>1
      <4>4. Lost = made["txt"] \ (stored["txt"] \union Kept(x, h))
            /\ Lost' = made["txt"] \ (stored'["txt"] \union Kept(y, h))
        BY <2>1, <3>1, <4>2 DEF Lost
      <4> QED
        BY <4>1, <4>3, <4>4
    <3>2. CASE s # "txt"
      <4>1. st'["txt"] = st["txt"] /\ (Held("txt"))' = Held("txt") /\ stored'["txt"] = stored["txt"]
        BY <1>8, <2>1, <3>0, <3>2
      <4> QED
        BY <4>1 DEF Lost
    <3> QED
      BY <3>1, <3>2
  <2>9. Few(Lost', dropped')
    BY <1>12, <2>8, NotMore DEF ExactInv, RecTypes, StreamTypes
  <2> QED
    BY <1>12, <2>7, <2>9 DEF ExactInv
<1>13. \A t \in Streams \ {s} : st'[t] = st[t]
  BY <1>5
<1> QED
  BY <1>4, <1>11, <1>12, <1>13

\* A frame that is no block is written, or none.
LEMMA NoBlockWritten ==
    ASSUME RecTypes, CoherentInv, NEW c \in Cursors, c.since = cursor.since, NEW how \in Outcomes,
           NEW kind \in {"session", "event"}, NEW force \in BOOLEAN,
           RingWrite(c, how, "ctl", kind, <<>>, force), boots' = boots
    PROVE  /\ \A s \in Streams : (BlocksOf(s))' \subseteq BlocksOf(s)
           /\ \A i \in Slots : (Block(i))' => card'[i].str \in Streams
<1>1. \/ how = "fail" /\ NotWritten(c)
      \/ how # "fail" /\ Lands(c, "ctl", kind, <<>>)
  BY RingWriteCases
<1>2. kind \in FrameKinds /\ kind # "block"
  BY DEF FrameKinds
<1>3. CASE how = "fail"
  <2>1. card' = card
    BY <1>1, <1>3 DEF NotWritten
  <2> QED
    BY <2>1, BlocksStay DEF CoherentInv
<1>4. CASE how # "fail"
  <2>1. /\ \A s \in Streams : kind # "block" \/ s # "ctl" => (BlocksOf(s))' \subseteq BlocksOf(s)
        /\ (\A i \in Slots : Block(i) => card[i].str \in Streams) /\ (kind = "block" => "ctl" \in Streams)
              => \A i \in Slots : (Block(i))' => card'[i].str \in Streams
    BY <1>1, <1>2, <1>4, EmptyBatch, BlocksLand
  <2> QED
    BY <1>2, <2>1 DEF CoherentInv
<1> QED
  BY <1>3, <1>4

LEMMA StartSound == RecTypes /\ CoherentInv /\ SessionStart => CoherentInv' /\ (ExactInv => ExactInv')
<1> SUFFICES ASSUME RecTypes, CoherentInv, SessionStart PROVE CoherentInv' /\ (ExactInv => ExactInv')
  OBVIOUS
<1> DEFINE c == [cursor EXCEPT !.session = @ + 1]
           x == st["imu"]
           y == [x EXCEPT !.tail = x.head]
<1>1. c \in Cursors /\ c.since = cursor.since
  BY NextSession
<1>2. pc = "start" /\ UNCHANGED <<boots, made, stored, dropped>>
  BY DEF SessionStart, Rest
<1>3. "imu" \in Streams /\ x \in StreamStates /\ x.head \in Places
  BY StreamIs DEF Streams
<1>4. y.head = x.head /\ y.tail = x.head /\ y.buf = x.buf /\ y.fill = x.fill
  BY <1>3, WithTail
<1> HIDE DEF c, y
<1>5. CASE Done /\ UNCHANGED <<st, card>>
  BY <1>2, <1>5, BlocksStay, Still DEF Done, CoherentInv
<1>6. ASSUME NEW how \in Outcomes, RingWrite(c, how, "ctl", "session", <<>>, TRUE),
             IF how = "ok"
             THEN /\ open' = TRUE /\ active' = TRUE
                  /\ st' = [st EXCEPT !["imu"].tail = st["imu"].head]
                  /\ pc' = "events" /\ Stay
             ELSE Done /\ UNCHANGED <<open, active, st>>
      PROVE  CoherentInv' /\ (ExactInv => ExactInv')
  <2>1. /\ \A s \in Streams : (BlocksOf(s))' \subseteq BlocksOf(s)
        /\ \A i \in Slots : (Block(i))' => card'[i].str \in Streams
    BY <1>1, <1>2, <1>6, NoBlockWritten
  <2>2. CASE how # "ok"
    <3>1. st' = st /\ pc' = "idle"
      BY <1>6, <2>2 DEF Done
    <3> QED
      BY <1>2, <2>1, <3>1, Still
  <2>3. CASE how = "ok"
    <3>1. st' = [st EXCEPT !["imu"] = y] /\ pc' = "events"
      BY <1>6, <2>3 DEF y
    <3>2. st'["imu"] = y /\ \A t \in Streams \ {"imu"} : st'[t] = st[t]
      BY <1>3, <3>1, OneStream
    <3>3. \A t \in Streams : (Held(t))' <=> Held(t)
      BY <1>2, <1>4, <3>1, <3>2 DEF Held
    <3>4. \A i \in Places : ~Queued(y, i)
      <4>1. Dist(x.head, x.head) = 0 /\ \A i \in Places : Dist(x.head, i) \in Nat
        BY <1>3, DistIs
      <4> QED
        BY <1>4, <4>1 DEF Queued
    <3>5. Coh(y, made["imu"])
      BY <1>3, <1>4, <3>4 DEF CoherentInv, Coh
    <3>6. CoherentInv'
      <4>1. \A t \in Streams : Coh(st'[t], made'[t]) /\ Solid((BlocksOf(t))', made'[t])
        BY <1>2, <2>1, <3>2, <3>5, SolidMore DEF CoherentInv
      <4> QED
        BY <2>1, <3>1, <4>1 DEF CoherentInv
    <3>7. ASSUME ExactInv PROVE ExactInv'
      <4>1. \A i \in Places : Live(y, (Held("imu"))', i) => Live(x, Held("imu"), i) /\ i = x.head
        BY <1>3, <1>4, <3>3, <3>4 DEF Live
      <4>2. \A i \in Places : ~(Dist(y.tail, i) < Dist(y.tail, i))
        BY <1>3, <1>4, DistIs
      <4>3. Narrows(x, Held("imu"), y, (Held("imu"))')
        BY <1>3, <1>4, <4>1, <4>2 DEF Narrows
      <4>4. Sorted(y, (Held("imu"))', (BlocksOf("imu"))')
        BY <1>3, <2>1, <3>7, <4>3, NarrowSorted DEF ExactInv
      <4>5. \A t \in Streams : Sorted(st'[t], (Held(t))', (BlocksOf(t))')
        BY <2>1, <3>2, <3>3, <3>7, <4>4, OthersSorted
      <4>6. Lost' = Lost
        <5>1. "txt" \in Streams \ {"imu"}
          BY DEF Streams
        <5>2. Kept(st'["txt"], (Held("txt"))') = Kept(st["txt"], Held("txt"))
          BY <3>2, <3>3, <5>1, SameNarrow
        <5> QED
          BY <1>2, <5>2 DEF Lost
      <4> QED
        BY <1>2, <3>1, <3>7, <4>5, <4>6 DEF ExactInv, StopPlace
    <3> QED
      BY <3>6, <3>7
  <2> QED
    BY <2>2, <2>3
<1> QED
  BY <1>5, <1>6 DEF SessionStart, c

LEMMA QuietStepsSound ==
    ASSUME RecTypes, CoherentInv, Decide \/ Events \/ StopClose \/ BootInit \/ Untouched
    PROVE  CoherentInv' /\ (ExactInv => ExactInv')
<1>1. CASE Decide
  <2>1. pc = "decide" /\ pc' \in {"endEvents", "idle", "events", "start"}
    BY <1>1 DEF Decide, Done
  <2>2. UNCHANGED <<st, made, stored, dropped, card, boots>>
    BY <1>1 DEF Decide, Rest, streamVars
  <2> QED
    BY <2>1, <2>2, BlocksStay, Still DEF CoherentInv
<1>2. CASE Events
  <2>1. pc \in {"events", "endEvents"} /\ pc' \in {"drain", "stop"}
        /\ UNCHANGED <<st, made, stored, dropped, boots>>
    BY <1>2 DEF Events, Rest, streamVars
  <2>2. /\ \A s \in Streams : (BlocksOf(s))' \subseteq BlocksOf(s)
        /\ \A i \in Slots : (Block(i))' => card'[i].str \in Streams
    <3>1. CASE flight = ev
      BY <1>2, <2>1, <3>1, BlocksStay DEF Events, CoherentInv
    <3>2. CASE flight # ev
      <4>1. PICK how \in Outcomes : RingWrite(cursor, how, "ctl", "event", <<>>, FALSE)
        BY <1>2, <3>2 DEF Events
      <4> QED
        BY <2>1, <4>1, NoBlockWritten DEF RecTypes, CardTypes
    <3> QED
      BY <3>1, <3>2
  <2> QED
    BY <2>1, <2>2, Still
<1>3. CASE StopClose
  <2>1. pc = "stopP" /\ pc' = "idle" /\ UNCHANGED <<st, made, stored, dropped, card, boots>>
    BY <1>3 DEF StopClose, Rest, streamVars, Done
  <2> QED
    BY <2>1, BlocksStay, Still DEF CoherentInv
<1>4. CASE Untouched
  <2>1. UNCHANGED <<st, made, stored, dropped, card, boots, pc, at>>
    BY <1>4 DEF Untouched
  <2> QED
    BY <2>1, BlocksStay, Still DEF CoherentInv
<1>5. CASE BootInit
  <2>1. pc = "boot" /\ pc' = "idle" /\ UNCHANGED <<st, made, stored, dropped, boots>>
    BY <1>5 DEF BootInit, streamVars
  <2>2. card' = card \/ card' = [i \in Slots |-> None]
    BY <1>5, BootCases DEF NoFile, Resumed, StartedOver
  <2>3. CASE card' = card
    BY <2>1, <2>3, BlocksStay, Still DEF CoherentInv
  <2>4. CASE card' = [i \in Slots |-> None]
    <3>1. \A i \in Slots : ~(Block(i))'
      BY <2>4 DEF Block, On
    <3>2. \A s \in Streams : (BlocksOf(s))' = {}
      BY <3>1 DEF BlocksOf
    <3> QED
      BY <2>1, <3>1, <3>2, Still
  <2> QED
    BY <2>2, <2>3, <2>4
<1> QED
  BY <1>1, <1>2, <1>3, <1>4, <1>5

LEMMA DrainSound ==
    ASSUME RecTypes, CoherentInv, Drain
    PROVE  CoherentInv' /\ (ExactInv /\ fails' = 0 => ExactInv')
<1>1. pc = "drain" /\ UNCHANGED <<boots, life, made, dropped>>
  BY DEF Drain, Rest
<1>2. CASE Waiting(1) = {}
  <2>1. UNCHANGED <<st, card, stored>> /\ pc' = "idle"
    BY <1>2 DEF Drain, Done
  <2> QED
    BY <1>1, <2>1, BlocksStay, Still DEF CoherentInv
<1>3. CASE Waiting(1) # {}
  <2> DEFINE s == Order[Min(Waiting(1))]
  <2>1. PICK how \in Outcomes :
           /\ WriteSector(how, s, st[s].buf[st[s].tail])
           /\ st' = IF how = "ok" THEN Take(s) ELSE st
           /\ pc' = (IF how = "ok" THEN pc ELSE "stop") /\ Stay
    BY <1>3 DEF Drain
  <2>2. s \in Streams /\ Published(s)
    <3>1. Waiting(1) \in SUBSET (1 .. 2)
      BY WaitingIn
    <3>2. Min(Waiting(1)) \in Waiting(1) /\ Min(Waiting(1)) \in 1 .. 2
      BY <1>3, <3>1, FirstOf
    <3> QED
      BY <3>2, OrderIs DEF Waiting
  <2>3. pc' \in {"drain", "stop"}
    BY <1>1, <2>1
  <2>4. StopPlace'
    BY <2>3 DEF StopPlace
  <2> HIDE DEF s
  <2> QED
    BY <1>1, <2>1, <2>2, <2>3, <2>4, TakeSound
<1> QED
  BY <1>2, <1>3

LEMMA QueueSound ==
    ASSUME RecTypes, CoherentInv, StopQueue
    PROVE  CoherentInv' /\ (ExactInv /\ fails' = 0 => ExactInv')
<1>1. pc = "stopQ" /\ UNCHANGED <<boots, life, made, dropped>> /\ at \in 1 .. 3
  BY DEF StopQueue, Rest, RecTypes, PhaseInv
<1>2. CASE Waiting(at) = {}
  <2>1. UNCHANGED <<st, card, stored>> /\ pc' = "stopP"
    BY <1>2 DEF StopQueue
  <2>2. /\ \A s \in Streams : (BlocksOf(s))' = BlocksOf(s)
        /\ \A i \in Slots : (Block(i))' => card'[i].str \in Streams
    BY <1>1, <2>1, BlocksStay DEF CoherentInv
  <2>3. \A s \in Streams : (Held(s))' <=> Held(s)
    BY <1>1, <2>1 DEF Held
  <2>4. CoherentInv'
    <3>1. \A s \in Streams : Coh(st'[s], made'[s]) /\ Solid((BlocksOf(s))', made'[s])
      BY <1>1, <2>1, <2>2 DEF CoherentInv
    <3> QED
      BY <2>1, <2>2, <3>1 DEF CoherentInv
  <2>5. ASSUME ExactInv PROVE ExactInv'
    <3>1. ~Published("imu") /\ ~Published("txt")
      <4>1. at \in 1 .. 2 /\ (at = 2 => ~Published("imu"))
        BY <1>1, <2>5 DEF ExactInv, StopPlace
      <4>2. \A j \in at .. 2 : ~Published(Order[j])
        BY <1>2, OrderIs DEF Waiting
      <4>3. 2 \in at .. 2 /\ (at # 2 => 1 \in at .. 2)
        BY <4>1
      <4> QED
        BY <4>1, <4>2, <4>3, OrderIs
    <3>2. StopPlace'
      BY <2>1, <3>1 DEF StopPlace, Published
    <3>3. \A s \in Streams : Sorted(st'[s], (Held(s))', (BlocksOf(s))')
      BY <2>1, <2>2, <2>3, <2>5, OthersSorted
    <3>4. Lost' = Lost
      <4>1. Kept(st'["txt"], (Held("txt"))') = Kept(st["txt"], Held("txt"))
        <5>1. "txt" \in Streams
          BY DEF Streams
        <5> QED
          BY <2>1, <2>3, <5>1, SameNarrow
      <4> QED
        BY <1>1, <2>1, <4>1 DEF Lost
    <3> QED
      BY <1>1, <2>5, <3>2, <3>3, <3>4 DEF ExactInv
  <2> QED
    BY <2>4, <2>5
<1>3. CASE Waiting(at) # {}
  <2> DEFINE i == Min(Waiting(at))
             s == Order[i]
  <2>1. PICK how \in Outcomes :
           /\ WriteSector(how, s, st[s].buf[st[s].tail])
           /\ st' = IF how = "ok" THEN Take(s) ELSE st
           /\ at' = (IF how = "ok" THEN i ELSE i + 1)
           /\ pc' = pc
    BY <1>3 DEF StopQueue
  <2>2. i \in 1 .. 2 /\ s \in Streams /\ Published(s) /\ \A j \in Waiting(at) : i <= j
    <3>1. Waiting(at) \in SUBSET (1 .. 2)
      BY <1>1, WaitingIn
    <3>2. i \in Waiting(at) /\ i \in 1 .. 2 /\ \A j \in Waiting(at) : i <= j
      BY <1>3, <3>1, FirstOf
    <3> QED
      BY <3>2, OrderIs DEF Waiting
  <2> HIDE DEF i
  <2>3. /\ CoherentInv'
        /\ ExactInv /\ fails' = 0 /\ StopPlace' => ExactInv'
        /\ fails' = 0 => how = "ok"
        /\ \A t \in Streams \ {s} : st'[t] = st[t]
    <3> HIDE DEF s
    <3> QED
      BY <1>1, <2>1, <2>2, TakeSound
  <2>4. ASSUME ExactInv, fails' = 0 PROVE StopPlace'
    <3>1. at' = i /\ pc' = "stopQ"
      BY <1>1, <2>1, <2>3, <2>4
    <3>2. i = 2 => ~(Published("imu"))'
      <4> SUFFICES ASSUME i = 2 PROVE ~(Published("imu"))'
        OBVIOUS
      <4>1. s = "txt" /\ st'["imu"] = st["imu"]
        BY <2>3, OrderIs DEF Streams
      <4>2. ~Published("imu")
        <5>1. CASE at = 1
          <6>1. 1 \notin Waiting(at)
            BY <2>2
          <6> QED
            BY <5>1, <6>1, OrderIs DEF Waiting
        <5>2. CASE at = 2
          BY <1>1, <2>4, <5>2 DEF ExactInv, StopPlace
        <5>3. at \in 1 .. 2
          BY <1>1, <2>4 DEF ExactInv, StopPlace
        <5> QED
          BY <5>1, <5>2, <5>3
      <4> QED
        BY <4>1, <4>2 DEF Published
    <3> QED
      BY <2>2, <3>1, <3>2 DEF StopPlace
  <2> QED
    BY <2>3, <2>4
<1> QED
  BY <1>2, <1>3

\* A record is added to stream s, whose buffer at head is its producer's.
LEMMA AppendSound ==
    ASSUME RecTypes, CoherentInv, NEW s \in Streams, Append1(s), UNCHANGED <<card, boots, stored>>,
           Held(s) <=> st[s].fill > 0, (Held(s))' <=> st'[s].fill > 0,
           \A t \in Streams \ {s} : (Held(t))' <=> Held(t),
           pc' # "clear", pc' = "flush" => pc = "flush" /\ s # "txt"
    PROVE  CoherentInv' /\ (ExactInv /\ StopPlace' => ExactInv')
<1>1. PICK r \in Nat \ {0} :
         /\ made[s] = 1 .. r - 1 /\ made'[s] = 1 .. r
         /\ \A t \in Streams \ {s} : made'[t] = made[t] /\ st'[t] = st[t]
         /\ st'[s] = Committed(st[s], r)
         /\ dropped' = dropped + (IF Overrun(st[s]) THEN 1 ELSE 0)
  BY AppendIs
<1> DEFINE x == st[s]
           y == Committed(x, r)
<1>2. x \in StreamStates /\ Coh(x, 1 .. r - 1) /\ Solid(BlocksOf(s), 1 .. r - 1)
  BY <1>1, StreamIs DEF CoherentInv
<1>3. /\ \A t \in Streams : (BlocksOf(t))' = BlocksOf(t)
      /\ \A i \in Slots : (Block(i))' => card'[i].str \in Streams
  BY BlocksStay DEF CoherentInv
<1>4. Coh(y, 1 .. r) /\ 1 .. r - 1 \subseteq 1 .. r
  BY <1>2, AppendCoh
<1>5. Held(s) = (x.fill > 0) /\ (Held(s))' = (y.fill > 0)
  <2>1. (Held(s) <=> x.fill > 0) /\ ((Held(s))' <=> y.fill > 0)
    BY <1>1
  <2>2. Held(s) \in BOOLEAN /\ (Held(s))' \in BOOLEAN
    BY DEF Held
  <2> HIDE DEF y
  <2> QED
    BY <2>1, <2>2
<1> HIDE DEF y
<1>6. \A t \in Streams : Coh(st'[t], made'[t]) /\ Solid((BlocksOf(t))', made'[t])
  <2> TAKE t \in Streams
  <2>1. CASE t = s
    BY <1>1, <1>2, <1>3, <1>4, <2>1, SolidMore DEF y
  <2>2. CASE t # s
    BY <1>1, <1>3, <2>2 DEF CoherentInv
  <2> QED
    BY <2>1, <2>2
<1>7. CoherentInv'
  <2>1. pc' = "flush" => st'["txt"] = st["txt"] /\ pc = "flush"
    BY <1>1 DEF Streams
  <2> QED
    BY <1>3, <1>6, <2>1 DEF CoherentInv, AtHead
<1>8. ASSUME ExactInv, StopPlace' PROVE ExactInv'
  <2>1. Sorted(x, x.fill > 0, BlocksOf(s))
    BY <1>5, <1>8 DEF ExactInv
  <2>2. Sorted(y, y.fill > 0, BlocksOf(s))
    <3>1. \A f \in BlocksOf(s) : f.data \in Seq(Nat)
      BY BlockFacts
    <3> HIDE DEF x
    <3> QED
      BY <1>2, <2>1, <3>1, AppendSorted DEF y
  <2>3. \A t \in Streams : Sorted(st'[t], (Held(t))', (BlocksOf(t))')
    <3> TAKE t \in Streams
    <3>1. CASE t = s
      BY <1>1, <1>3, <1>5, <2>2, <3>1 DEF y
    <3>2. CASE t # s
      BY <1>1, <1>3, <1>8, <3>2, OthersSorted
    <3> QED
      BY <3>1, <3>2
  <2>4. dropped \in Nat /\ Few(Lost, dropped) /\ "txt" \in Streams
    BY <1>8 DEF ExactInv, RecTypes, StreamTypes, Streams
  <2>5. CASE s = "txt"
    <3>1. Lost = (1 .. r - 1) \ (stored["txt"] \union Kept(x, x.fill > 0))
          /\ Lost' = (1 .. r) \ (stored["txt"] \union Kept(y, y.fill > 0))
      BY <1>1, <1>5, <2>5 DEF Lost, y
    <3>2. Few(Lost', dropped')
      <4> HIDE DEF x
      <4>1. Few((1 .. r) \ (stored["txt"] \union Kept(y, y.fill > 0)), dropped + (IF Overrun(x) THEN 1 ELSE 0))
        BY <1>2, <2>4, <3>1, AppendLost DEF y
      <4> QED
        BY <1>1, <3>1, <4>1 DEF x
    <3> QED
      BY <1>8, <2>3, <3>2 DEF ExactInv
  <2>6. CASE s # "txt"
    <3>1. st'["txt"] = st["txt"] /\ made'["txt"] = made["txt"]
      BY <1>1, <2>4, <2>6
    <3>2. Kept(st'["txt"], (Held("txt"))') = Kept(st["txt"], Held("txt"))
      BY <2>4, <2>6, <3>1, SameNarrow
    <3>3. Lost' = Lost
      BY <3>1, <3>2 DEF Lost
    <3>4. Few(Lost, dropped + 1)
      <4>1. <<>> \in Batches /\ Lost \subseteq Lost \union Range(<<>>)
        BY RecConstants DEF Batches
      <4> QED
        BY <2>4, <4>1, OneSectorMore
    <3>5. Few(Lost', dropped')
      BY <1>1, <2>4, <3>3, <3>4
    <3> QED
      BY <1>8, <2>3, <3>5 DEF ExactInv
  <2> QED
    BY <2>5, <2>6
<1> QED
  BY <1>7, <1>8

LEMMA StopSound ==
    ASSUME RecTypes, CoherentInv, SessionStop
    PROVE  CoherentInv' /\ (ExactInv => ExactInv')
<1>1. /\ pc = "stop" /\ pc' = "stopQ" /\ at' = 1 /\ Append1("txt") /\ "txt" \in Streams
      /\ UNCHANGED <<card, boots, stored>>
  BY DEF SessionStop, Rest, Streams
<1>2. \A t \in Streams \ {"txt"} : st'[t] = st[t]
  BY <1>1, AppendIs
<1>3. /\ Held("txt") <=> st["txt"].fill > 0
      /\ (Held("txt"))' <=> st'["txt"].fill > 0
      /\ \A t \in Streams \ {"txt"} : (Held(t))' <=> Held(t)
  BY <1>1, <1>2 DEF Held
<1>4. StopPlace'
  BY <1>1 DEF StopPlace
<1> QED
  BY <1>1, <1>3, <1>4, AppendSound

LEMMA RecordSound ==
    ASSUME RecTypes, CoherentInv, Sample \/ Text, ~raced'
    PROVE  CoherentInv' /\ (ExactInv => ExactInv')
<1>1. UNCHANGED <<pc, at, card, boots, stored>>
  BY DEF Sample, Text, loopVars, cardVars, taskVars
<1>2. CASE Sample
  <2>1. Append1("imu") /\ active /\ "imu" \in Streams
    BY <1>2 DEF Sample, Gate, ArmedOnly, Streams
  <2>2. pc \notin {"stopQ", "stopP", "clear"}
    BY <2>1 DEF RecTypes, PhaseInv
  <2>3. \A t \in Streams \ {"imu"} : st'[t] = st[t]
    BY <2>1, AppendIs
  <2>4. /\ Held("imu") <=> st["imu"].fill > 0
        /\ (Held("imu"))' <=> st'["imu"].fill > 0
        /\ \A t \in Streams \ {"imu"} : (Held(t))' <=> Held(t)
    BY <1>1, <2>2, <2>3 DEF Held
  <2>5. StopPlace'
    BY <1>1, <2>2 DEF StopPlace
  <2> QED
    BY <1>1, <2>1, <2>2, <2>4, <2>5, AppendSound
<1>3. CASE Text
  <2>1. Append1("txt") /\ "txt" \in Streams /\ pc \notin {"flush", "stopP", "clear"}
    BY <1>3 DEF Text, InFlush, Streams
  <2>2. \A t \in Streams \ {"txt"} : st'[t] = st[t]
    BY <2>1, AppendIs
  <2>3. /\ Held("txt") <=> st["txt"].fill > 0
        /\ (Held("txt"))' <=> st'["txt"].fill > 0
        /\ \A t \in Streams \ {"txt"} : (Held(t))' <=> Held(t)
    BY <1>1, <2>1, <2>2 DEF Held
  <2>4. ASSUME ExactInv PROVE StopPlace'
    <3>1. st'["imu"] = st["imu"]
      BY <2>2 DEF Streams
    <3> QED
      BY <1>1, <2>1, <2>4, <3>1 DEF ExactInv, StopPlace, Published
  <2> QED
    BY <1>1, <2>1, <2>3, <2>4, AppendSound
<1> QED
  BY <1>2, <1>3

LEMMA PartialSound ==
    ASSUME RecTypes, CoherentInv, StopPartial
    PROVE  CoherentInv' /\ (ExactInv /\ fails' = 0 => ExactInv')
<1>1. /\ pc = "stopP" /\ pc' = "clear" /\ at' = Min(Partial(at)) /\ at \in 1 .. 3 /\ Partial(at) # {}
      /\ UNCHANGED <<st, made, dropped, boots, life>>
  BY DEF StopPartial, Rest, streamVars, RecTypes, PhaseInv
<1>2. PICK i \in 1 .. 2 : i = Min(Partial(at)) /\ i \in Partial(at)
  <2>1. Partial(at) \in SUBSET (1 .. 2)
    BY <1>1, WaitingIn
  <2> QED
    BY <1>1, <2>1, FirstOf
<1> DEFINE s == Order[i]
           x == st[s]
           b == AtHead(s)
           f == FrameFrom(cursor, s, SectorKind(b), b.data)
<1>3. s \in Streams /\ x.fill > 0
  BY <1>2, OrderIs DEF Partial
<1>4. at' = i /\ s = Order[at']
  BY <1>1, <1>2
<1>0. PICK how \in Outcomes : WriteSector(how, s, b)
  BY <1>2 DEF StopPartial
<1> HIDE DEF s
<1>5. /\ x \in StreamStates /\ x.head \in Places /\ x.tail \in Places /\ b \in Sectors
      /\ b = x.buf[x.head] /\ Coh(x, made[s])
  BY <1>3, StreamIs DEF AtHead, CoherentInv
<1>6. b.data # <<>> /\ Range(b.data) \subseteq made[s]
  <2>1. Len(b.data) > 0
    BY <1>3, <1>5 DEF Coh
  <2> QED
    BY <1>5, <2>1 DEF Coh
<1>7. /\ f.data = b.data /\ f.no = frames
      /\ (BlocksOf(s))' \subseteq BlocksOf(s) \union {f}
      /\ \A t \in Streams \ {s} : (BlocksOf(t))' \subseteq BlocksOf(t)
      /\ \A t \in Streams : Solid((BlocksOf(t))', made[t])
      /\ \A k \in Slots : (Block(k))' => card'[k].str \in Streams
      /\ fails' = 0 => how = "ok" /\ fails = 0
      /\ how = "ok" => stored' = [stored EXCEPT ![s] = @ \union Range(b.data)]
  <2> HIDE DEF b
  <2> QED
    BY <1>0, <1>1, <1>3, <1>5, <1>6, BlockWritten
<1>8. CoherentInv'
  <2>1. \A t \in Streams : Coh(st'[t], made'[t]) /\ Solid((BlocksOf(t))', made'[t])
    BY <1>1, <1>7 DEF CoherentInv
  <2>2. st'[Order[at']].fill > 0
    BY <1>1, <1>3, <1>4, OrderIs
  <2> QED
    BY <1>1, <1>7, <2>1, <2>2 DEF CoherentInv
<1>9. Held(s) /\ ~(Held(s))' /\ \A t \in Streams \ {s} : (Held(t))' <=> Held(t)
  BY <1>1, <1>3, <1>4 DEF Held
<1> HIDE DEF f, b
<1>10. ASSUME ExactInv, fails' = 0 PROVE ExactInv'
  <2>1. \A t \in Streams : ~Published(t)
    BY <1>1, <1>10 DEF ExactInv, StopPlace, Streams
  <2>2. x.tail = x.head
    BY <1>3, <2>1 DEF Published
  <2>3. \A j \in Places : ~Queued(x, j)
    BY <1>5, <2>2, HeadNotQueued
  <2>4. \A j \in Places : ~Live(x, FALSE, j)
    BY <2>3 DEF Live
  <2>5. Live(x, TRUE, x.head)
    BY DEF Live
  <2>6. Sorted(x, TRUE, BlocksOf(s))
    <3>1. Held(s) = TRUE
      BY <1>9 DEF Held
    <3> QED
      BY <1>3, <1>10, <3>1 DEF ExactInv
  <2>7. Narrows(x, TRUE, x, FALSE)
    BY <2>4 DEF Narrows
  <2>8. (\A g \in BlocksOf(s) : g.no \in Nat /\ g.no < f.no) /\ f.no \in Nat
    BY <1>3, <1>7, BlockFacts DEF RecTypes, CardTypes
  <2>9. Sorted(x, FALSE, (BlocksOf(s))')
    <3>1. (BlocksOf(s))' \in SUBSET (BlocksOf(s) \union {f}) /\ f.data = x.buf[x.head].data
      BY <1>5, <1>7
    <3> HIDE DEF x
    <3> QED
      BY <1>5, <2>4, <2>5, <2>6, <2>7, <2>8, <3>1, WrittenSorted
  <2>10. \A t \in Streams : Sorted(st'[t], (Held(t))', (BlocksOf(t))')
    <3> TAKE t \in Streams
    <3>1. CASE t = s
      <4>1. (Held(s))' = FALSE /\ st'[s] = x
        BY <1>1, <1>9 DEF Held
      <4> QED
        BY <2>9, <3>1, <4>1
    <3>2. CASE t # s
      BY <1>1, <1>7, <1>9, <1>10, <3>2, OthersSorted
    <3> QED
      BY <3>1, <3>2
  <2>11. StopPlace'
    BY <1>1, <1>10 DEF ExactInv, StopPlace, Published
  <2>12. Lost' \subseteq Lost
    <3>1. "txt" \in Streams /\ stored \in [Streams -> SUBSET Nat]
      BY StreamIs DEF Streams
    <3>2. CASE s = "txt"
      <4>1. Kept(x, TRUE) \subseteq Range(b.data)
        <5> SUFFICES ASSUME NEW j \in Places, Live(x, TRUE, j)
                     PROVE  Range(x.buf[j].data) \subseteq Range(b.data)
          BY DEF Kept
        <5>1. j = x.head
          BY <2>3 DEF Live
        <5> QED
          BY <1>5, <5>1
      <4>2. Held("txt") = TRUE
        BY <1>9, <3>2 DEF Held
      <4>3. stored'["txt"] = stored["txt"] \union Range(b.data)
        BY <1>7, <1>10, <3>1, <3>2
      <4>4. Lost = made["txt"] \ (stored["txt"] \union Kept(x, TRUE))
        BY <3>2, <4>2 DEF Lost
      <4>5. Lost' \subseteq made["txt"] \ stored'["txt"]
        BY <1>1 DEF Lost
      <4> QED
        BY <4>1, <4>3, <4>4, <4>5
    <3>3. CASE s # "txt"
      <4>1. Kept(st'["txt"], (Held("txt"))') = Kept(st["txt"], Held("txt"))
        BY <1>1, <1>9, <3>1, <3>3, SameNarrow
      <4>2. stored'["txt"] = stored["txt"]
        BY <1>7, <1>10, <3>1, <3>3
      <4> QED
        BY <1>1, <4>1, <4>2 DEF Lost
    <3> QED
      BY <3>2, <3>3
  <2>13. Few(Lost', dropped')
    BY <1>1, <1>10, <2>12, NotMore DEF ExactInv, RecTypes, StreamTypes
  <2> QED
    BY <2>10, <2>11, <2>13 DEF ExactInv
<1> QED
  BY <1>8, <1>10

LEMMA ClearSound ==
    ASSUME RecTypes, CoherentInv, StopClear
    PROVE  CoherentInv' /\ (ExactInv => ExactInv')
<1>1. /\ pc = "clear" /\ pc' = "stopP"
      /\ UNCHANGED <<made, dropped, boots, card, stored>>
      /\ st' = [st EXCEPT ![Order[at]].fill = 0,
                          ![Order[at]].buf[st[Order[at]].head].data = <<>>]
  BY DEF StopClear, Rest
<1>2. PICK s \in Streams : s = Order[at]
  BY <1>1, OrderIs DEF RecTypes, PhaseInv
<1> DEFINE x == st[s]
           y == Without1(x, x.tail, x.head, 0)
<1>3. x \in StreamStates /\ x.head \in Places /\ Coh(x, made[s])
  BY <1>2, StreamIs DEF CoherentInv
<1>4. st'[s] = y /\ \A t \in Streams \ {s} : st'[t] = st[t]
  <2>1. st' = [st EXCEPT ![s] = y]
    BY <1>1, <1>2, ClearIs
  <2> HIDE DEF y
  <2> QED
    BY <2>1, OneStream
<1>5. /\ y.head = x.head /\ y.tail = x.tail /\ y.fill = 0
      /\ \A j \in Places : j # x.head => y.buf[j] = x.buf[j]
      /\ y.buf[x.head].data = <<>>
  <2>1. x.buf \in [Places -> Sectors] /\ x.buf[x.head] \in Sectors
    BY <1>3 DEF StreamStates
  <2> QED
    BY <1>3, <2>1, EmptiedType DEF Without1
<1> HIDE DEF y
<1>6. \A i \in Places : (Queued(y, i) <=> Queued(x, i)) /\ (Queued(x, i) => i # x.head)
  BY <1>3, <1>5, HeadNotQueued DEF Queued
<1>7. Held(s) = FALSE /\ (Held(s))' = FALSE /\ \A t \in Streams \ {s} : (Held(t))' <=> Held(t)
  <2>1. ~(Held(s)) /\ ~(Held(s))'
    BY <1>1, <1>2, <1>4, <1>5 DEF Held
  <2>2. \A t \in Streams \ {s} : (Held(t))' <=> Held(t)
    BY <1>1, <1>2, <1>4 DEF Held
  <2> QED
    BY <2>1, <2>2 DEF Held
<1>8. /\ \A t \in Streams : (BlocksOf(t))' = BlocksOf(t)
      /\ \A i \in Slots : (Block(i))' => card'[i].str \in Streams
  BY <1>1, BlocksStay DEF CoherentInv
<1>9. Coh(y, made[s])
  <2>1. Range(<<>>) = {}
    BY DEF Range
  <2>2. \A i \in Places : Range(y.buf[i].data) \subseteq made[s]
    BY <1>3, <1>5, <2>1 DEF Coh
  <2>3. \A i \in Places : Queued(y, i) => y.buf[i].data # <<>>
    BY <1>3, <1>5, <1>6 DEF Coh
  <2> QED
    BY <1>5, <2>2, <2>3 DEF Coh
<1>10. CoherentInv'
  <2>1. \A t \in Streams : Coh(st'[t], made'[t]) /\ Solid((BlocksOf(t))', made'[t])
    <3> TAKE t \in Streams
    <3>1. CASE t = s
      BY <1>1, <1>4, <1>8, <1>9, <3>1 DEF CoherentInv
    <3>2. CASE t # s
      BY <1>1, <1>4, <1>8, <3>2 DEF CoherentInv
    <3> QED
      BY <3>1, <3>2
  <2> QED
    BY <1>1, <1>8, <2>1 DEF CoherentInv
<1>11. ASSUME ExactInv PROVE ExactInv'
  <2>1. \A i \in Places : (Live(y, FALSE, i) <=> Live(x, FALSE, i))
                          /\ (Live(y, FALSE, i) => y.buf[i] = x.buf[i])
    BY <1>5, <1>6 DEF Live
  <2>2. Narrows(x, FALSE, y, FALSE)
    BY <1>5, <2>1 DEF Narrows
  <2>3. Sorted(y, FALSE, (BlocksOf(s))')
    BY <1>2, <1>7, <1>8, <1>11, <2>2, NarrowSorted DEF ExactInv
  <2>4. \A t \in Streams : Sorted(st'[t], (Held(t))', (BlocksOf(t))')
    <3> TAKE t \in Streams
    <3>1. CASE t = s
      BY <1>4, <1>7, <2>3, <3>1
    <3>2. CASE t # s
      BY <1>4, <1>7, <1>8, <1>11, <3>2, OthersSorted
    <3> QED
      BY <3>1, <3>2
  <2>5. StopPlace'
    <3>1. \A t \in Streams : st'[t].head = st[t].head /\ st'[t].tail = st[t].tail
      <4> TAKE t \in Streams
      <4>1. CASE t = s
        BY <1>4, <1>5, <4>1
      <4>2. CASE t # s
        BY <1>4, <4>2
      <4> QED
        BY <4>1, <4>2
    <3>2. "imu" \in Streams /\ "txt" \in Streams
      BY DEF Streams
    <3> QED
      BY <1>1, <1>11, <3>1, <3>2 DEF ExactInv, StopPlace, Published
  <2>6. Lost' = Lost
    <3>0. "txt" \in Streams
      BY DEF Streams
    <3>1. CASE s = "txt"
      <4>1. Kept(y, FALSE) = Kept(x, FALSE)
        BY <2>1 DEF Kept
      <4>2. /\ Held("txt") = FALSE /\ (Held("txt"))' = FALSE
            /\ st["txt"] = x /\ st'["txt"] = y
        BY <1>4, <1>7, <3>1
      <4> QED
        BY <1>1, <4>1, <4>2 DEF Lost
    <3>2. CASE s # "txt"
      <4>1. Kept(st'["txt"], (Held("txt"))') = Kept(st["txt"], Held("txt"))
        BY <1>4, <1>7, <3>0, <3>2, SameNarrow
      <4> QED
        BY <1>1, <4>1 DEF Lost
    <3> QED
      BY <3>1, <3>2
  <2> QED
    BY <1>1, <1>11, <2>4, <2>5, <2>6 DEF ExactInv
<1> QED
  BY <1>10, <1>11

\* Nothing is recorded yet, and no frame is of this boot.
LEMMA FreshParts ==
    /\ Coh(EmptyStream, {})
    /\ \A i \in Places : ~Live(EmptyStream, FALSE, i)
    /\ Few({}, 0) /\ EmptyStream.fill = 0
<1> DEFINE x == EmptyStream
<1>1. /\ x.head = 0 /\ x.tail = 0 /\ x.fill = 0 /\ 0 \in Places
      /\ \A i \in Places : x.buf[i].data = <<>>
  BY RecConstants DEF EmptyStream, Places
<1>2. Dist(0, 0) = 0 /\ \A i \in Places : Dist(0, i) \in Nat
  BY <1>1, DistIs
<1> HIDE DEF x
<1>3. \A i \in Places : ~Queued(x, i)
  BY <1>1, <1>2 DEF Queued
<1>4. Range(<<>>) = {}
  BY DEF Range
<1>5. Coh(x, {})
  BY <1>1, <1>3, <1>4 DEF Coh
<1>6. \A i \in Places : ~Live(x, FALSE, i)
  BY <1>3 DEF Live
<1>7. Few({}, 0)
  <2>1. IsFiniteSet({}) /\ Cardinality({}) = 0
    BY FS_EmptySet
  <2> QED
    BY <2>1, RecConstants DEF Few
<1> QED
  BY <1>1, <1>5, <1>6, <1>7 DEF x

LEMMA FreshSorted == Sorted(EmptyStream, FALSE, {})
  BY FreshParts DEF Sorted, Ordered

LEMMA CrashSound == RecTypes /\ Crash => CoherentInv' /\ ExactInv'
<1> SUFFICES ASSUME RecTypes, Crash PROVE CoherentInv' /\ ExactInv'
  OBVIOUS
<1>1. /\ boots' = boots + 1 /\ card' = card
      /\ st' = [s \in Streams |-> EmptyStream] /\ made' = [s \in Streams |-> {}]
      /\ dropped' = 0 /\ pc' = "boot"
  BY DEF Crash, LogReset, cardVars
<1>2. \A i \in Slots : ~(Block(i))'
  <2> TAKE i \in Slots
  <2>1. On(i) => card[i].boot \in Nat /\ card[i].boot <= boots /\ boots \in Nat
    BY LoopTypes, RecConstants DEF On, RecTypes, CardTypes, Numbered, LogFrames
  <2> QED
    BY <1>1, <2>1 DEF Block, On
<1>3. \A s \in Streams : (BlocksOf(s))' = {}
  BY <1>2 DEF BlocksOf
<1>4. \A s \in Streams : st'[s] = EmptyStream /\ made'[s] = {}
  BY <1>1
<1>5. \A s \in Streams : (Held(s))' = FALSE
  BY <1>1, <1>4, FreshParts DEF Held
<1>6. "txt" \in Streams
  BY DEF Streams
<1>7. CoherentInv'
  BY <1>1, <1>2, <1>3, <1>4, FreshParts DEF CoherentInv, Solid
<1>8. \A s \in Streams : Sorted(st'[s], (Held(s))', (BlocksOf(s))')
  BY <1>3, <1>4, <1>5, FreshSorted
<1>9. Few(Lost', dropped')
  <2>1. Lost' = {}
    BY <1>4, <1>6 DEF Lost
  <2> QED
    BY <1>1, <2>1, FreshParts
<1> QED
  BY <1>1, <1>7, <1>8, <1>9 DEF ExactInv, StopPlace

LEMMA StreamStarts == Init => CoherentInv /\ ExactInv
<1> SUFFICES ASSUME Init PROVE CoherentInv /\ ExactInv
  OBVIOUS
<1>1. /\ card = [i \in 0 .. (Ring - 1) |-> None]
      /\ st = [s \in Streams |-> EmptyStream] /\ made = [s \in Streams |-> {}]
      /\ dropped = 0 /\ pc = "idle"
  BY DEF Init, LogInit
<1>2. \A i \in Slots : ~Block(i)
  BY <1>1 DEF Block, On, Slots
<1>3. \A s \in Streams : BlocksOf(s) = {}
  BY <1>2 DEF BlocksOf
<1>4. \A s \in Streams : st[s] = EmptyStream /\ made[s] = {}
  BY <1>1
<1>5. \A s \in Streams : Held(s) = FALSE
  BY <1>1, <1>4, FreshParts DEF Held
<1>6. "txt" \in Streams
  BY DEF Streams
<1>7. CoherentInv
  BY <1>1, <1>2, <1>3, <1>4, FreshParts DEF CoherentInv, Solid
<1>8. \A s \in Streams : Sorted(st[s], Held(s), BlocksOf(s))
  BY <1>3, <1>4, <1>5, FreshSorted
<1>9. Few(Lost, dropped)
  <2>1. Lost = {}
    BY <1>4, <1>6 DEF Lost
  <2> QED
    BY <1>1, <2>1, FreshParts
<1> QED
  BY <1>1, <1>7, <1>8, <1>9 DEF ExactInv, StopPlace

\* The inductive invariant of the recorder.  Three faults may leave the header
\* further behind than the margin, hence the bound in RingOK.
RecInv ==
    /\ RecTypes
    /\ RingOK
    /\ ~raced => CoherentInv
    /\ ~raced /\ fails = 0 => ExactInv

\* A flush that was disturbed stays so until the power is cut, a fault for
\* ever.
LEMMA FaultsStay ==
    ASSUME RecTypes, [Next]_vars, ~Crash
    PROVE  (raced => raced') /\ (fails' = 0 => fails = 0)
<1>1. raced \in BOOLEAN /\ fails \in 0 .. MaxFails /\ MaxFails \in Nat
  BY LoopTypes, RecConstants DEF RecTypes, StreamTypes
<1>2. CASE Recorder
  <2>1. raced' = raced
    BY <1>2 DEF Recorder, Tick, FlushHead, Decide, SessionStart, Events, Drain, SessionStop, StopQueue,
                StopPartial, StopClear, StopClose, streamVars
  <2>2. fails' = fails \/ CardWorks \/ CardFails
    <3>1. \A c, str, kind, data, force :
             \A how \in Outcomes : RingWrite(c, how, str, kind, data, force) => CardWorks \/ CardFails
      BY DEF RingWrite
    <3>2. \A s, b : \A how \in Outcomes : WriteSector(how, s, b) => CardWorks \/ CardFails
      BY <3>1 DEF WriteSector
    <3>3. CASE Tick \/ FlushHead \/ Decide \/ SessionStop \/ StopClear
      BY <3>3 DEF Tick, FlushHead, Decide, SessionStop, StopClear
    <3>4. CASE SessionStart
      BY <3>1, <3>4 DEF SessionStart
    <3>5. CASE Events
      BY <3>1, <3>5 DEF Events
    <3>6. CASE Drain
      BY <3>2, <3>6 DEF Drain
    <3>7. CASE StopQueue
      BY <3>2, <3>7 DEF StopQueue
    <3>8. CASE StopPartial
      BY <3>2, <3>8 DEF StopPartial
    <3>9. CASE StopClose
      BY <3>9 DEF StopClose
    <3> QED
      BY <1>2, <3>3, <3>4, <3>5, <3>6, <3>7, <3>8, <3>9 DEF Recorder
  <2>3. fails <= fails'
    BY <2>2, CardOutcome, LoopTypes
  <2>4. fails' \in 0 .. MaxFails
    BY <2>2, CardOutcome, LoopTypes
  <2> QED
    BY <1>1, <2>1, <2>3, <2>4
<1>3. CASE BootInit
  <2>1. raced' = raced /\ fails' \in 0 .. MaxFails /\ fails <= fails'
    BY <1>3, BootCases DEF BootInit, streamVars
  <2> QED
    BY <1>1, <2>1
<1>4. CASE Sample \/ Text
  <2>1. fails' = fails
    BY <1>4 DEF Sample, Text, loopVars
  <2>2. raced' = raced \/ raced' = (raced \/ InFlush)
    BY <1>4 DEF Sample, Text
  <2>3. raced => raced'
    BY <2>2
  <2> QED
    BY <2>1, <2>3
<1>5. CASE Untouched
  <2>1. raced' = raced /\ fails' \in 0 .. MaxFails /\ fails <= fails'
    BY <1>5 DEF Untouched
  <2> QED
    BY <1>1, <2>1
<1> QED
  BY <1>2, <1>3, <1>4, <1>5, StepKinds

LEMMA StreamSteps ==
    ASSUME RecTypes, [Next]_vars, CoherentInv, ~raced', ~Crash
    PROVE  CoherentInv' /\ (ExactInv /\ fails' = 0 => ExactInv')
<1>1. CASE Recorder
  BY <1>1, TickSound, FlushSound, StartSound, QuietStepsSound, DrainSound, StopSound, QueueSound,
     PartialSound, ClearSound DEF Recorder
<1>2. CASE BootInit \/ Untouched
  BY <1>2, QuietStepsSound
<1>3. CASE Sample \/ Text
  BY <1>3, RecordSound
<1> QED
  BY <1>1, <1>2, <1>3, StepKinds

LEMMA RecSteps == RecInv /\ [Next]_vars => RecInv'
<1> SUFFICES ASSUME RecInv, [Next]_vars PROVE RecInv'
  OBVIOUS
<1>1. RecTypes /\ RingOK
  BY DEF RecInv
<1>2. RecTypes' /\ RingOK'
  BY <1>1, TypeSteps, RingSteps
<1>3. CASE Crash
  BY <1>1, <1>2, <1>3, CrashSound DEF RecInv
<1>4. CASE ~Crash
  <2>1. (raced => raced') /\ (fails' = 0 => fails = 0)
    BY <1>1, <1>4, FaultsStay
  <2>2. ~raced' => CoherentInv'
    BY <1>1, <1>4, <2>1, StreamSteps DEF RecInv
  <2>3. ~raced' /\ fails' = 0 => ExactInv'
    BY <1>1, <1>4, <2>1, StreamSteps DEF RecInv
  <2> QED
    BY <1>2, <2>2, <2>3 DEF RecInv
<1> QED
  BY <1>3, <1>4

LEMMA DecodedBlocks ==
    ASSUME RecTypes, CoherentInv, NEW a \in {f \in Decoded : f.boot = boots /\ f.kind = "block"}
    PROVE  a.str \in Streams /\ a \in BlocksOf(a.str)
<1>1. PICK i \in Slots : a = card[i] /\ On(i)
  BY DEF Decoded, Slots, On
<1>2. Block(i)
  BY <1>1 DEF Block
<1> QED
  BY <1>1, <1>2 DEF CoherentInv, BlocksOf

LEMMA RecordsFollow == RecInv => RecordsExact
<1> SUFFICES ASSUME RecInv, ~raced,
                    NEW a \in {f \in Decoded : f.boot = boots /\ f.kind = "block"},
                    NEW b \in {f \in Decoded : f.boot = boots /\ f.kind = "block"}
             PROVE  /\ \A i \in 1..Len(a.data) : a.data[i] \in made[a.str]
                    /\ fails = 0 /\ a.str = b.str /\ a.no < b.no => a.data[Len(a.data)] < b.data[1]
  BY DEF RecordsExact
<1>1. RecTypes /\ CoherentInv
  BY DEF RecInv
<1>2. a.str \in Streams /\ a \in BlocksOf(a.str) /\ b.str \in Streams /\ b \in BlocksOf(b.str)
  BY <1>1, DecodedBlocks
<1>3. \A i \in 1..Len(a.data) : a.data[i] \in made[a.str]
  <2>1. a.data \in Seq(Nat) /\ Range(a.data) \subseteq made[a.str]
    BY <1>1, <1>2, BlockFacts DEF CoherentInv, Solid
  <2> QED
    BY <2>1, DataIs
<1>4. ASSUME fails = 0, a.str = b.str, a.no < b.no
      PROVE  a.data[Len(a.data)] < b.data[1]
  <2>1. Sorted(st[a.str], Held(a.str), BlocksOf(a.str))
    BY <1>2, <1>4 DEF RecInv, ExactInv
  <2> QED
    BY <1>2, <1>4, <2>1 DEF Sorted, LastOf
<1> QED
  BY <1>3, <1>4

LEMMA LossFollows == RecInv => LossCounted
<1> SUFFICES ASSUME RecInv, ~raced, fails = 0
             PROVE  Cardinality(made["txt"] \ (stored["txt"] \union Buffered("txt"))) <= Cap * dropped
  BY DEF LossCounted
<1> DEFINE M == made["txt"] \ (stored["txt"] \union Buffered("txt"))
<1>1. Few(Lost, dropped) /\ dropped \in Nat
  BY DEF RecInv, ExactInv, RecTypes, StreamTypes
<1>2. Kept(st["txt"], Held("txt")) \subseteq Buffered("txt")
  BY DEF Kept, Buffered, Places
<1>3. M \subseteq Lost
  BY <1>2 DEF Lost
<1> HIDE DEF M
<1>4. Few(M, dropped)
  BY <1>1, <1>3, NotMore
<1> QED
  BY <1>4 DEF Few, M

\* The inductive invariant of the recorder (imu_hs_log.c) in the loop it shares
\* with the other work of fs_owner_task.
THEOREM RecorderInvariant == Spec => []RecInv
<1>1. Init => RecInv
  BY StartOf, RingStarts, StreamStarts DEF RecInv
<1> QED
  BY <1>1, RecSteps, PTL DEF Spec

\* For any number of faults, power cuts and laps (imu_hs_log_drain, session_stop,
\* wire_idle_flush): unless a producer came between two steps of a flush, the
\* card holds only records that were made, and while it works none twice, none
\* out of place and none missing that the drop counter did not count.
THEOREM RecordsAreExact == Spec => [](RecordsExact /\ LossCounted)
<1>1. RecInv => RecordsExact /\ LossCounted
  BY RecordsFollow, LossFollows
<1> QED
  BY <1>1, RecorderInvariant, PTL

\* The whole property (ring_write, imu_hs_log_boot_init): until the third fault
\* of the card and the fifth restart of the ring, the order of the sequence
\* numbers is the order of writing, two periods are never joined and no frame
\* of an earlier generation is accepted, through laps and power cuts.
THEOREM RecordingIsSound == Spec => [](fails <= 2 /\ life <= 4 => RecordingSound)
<1>1. RecInv => (fails <= 2 /\ life <= 4 => RecordingSound)
  <2> SUFFICES ASSUME RecInv, fails <= 2, life <= 4 PROVE RecordingSound
    OBVIOUS
  <2>1. RecTypes /\ RingOK
    BY DEF RecInv
  <2>2. LoopTypeOK /\ LogTypeOK
    BY <2>1, TypesImply
  <2>3. SeqExact /\ SessionsApart /\ NoForeign
    BY <2>1, RingImplies
  <2> QED
    BY <2>2, <2>3, RecordsFollow, LossFollows DEF RecordingSound
<1> QED
  BY <1>1, RecorderInvariant, PTL
=============================================================================
