---------------------------- MODULE SensorProofs ----------------------------
(***************************************************************************)
(* The path of a sample, for every value of the bounds.                    *)
(*                                                                         *)
(* 1. SensorPath, from the hub to the estimators: the pipeline refines     *)
(*    SampleFlow, and no overwritten message, stall or wrap of the cycle   *)
(*    counter loses time, hides a drop, or lets a slow reading be used for *)
(*    what it is not.                                                      *)
(* 2. ImuBus, from the chip to the hub: the acquisition chain of           *)
(*    bmx160_initiate_read is one token wherever a burst is lost, late or  *)
(*    refused, a section of the DMA buffer only gets bytes of its own      *)
(*    operation, and a snapshot that was overwritten while it was decoded  *)
(*    is decoded again.                                                    *)
(*                                                                         *)
(* They meet in the acquisition of a sample only, so each has its own      *)
(* specification (Spec and ImuSpec).                                       *)
(***************************************************************************)
EXTENDS SensorPath, ImuBus, SequenceTheorems, TLAPS

(***************************************************************************)
(* 1. SensorPath.                                                          *)
(***************************************************************************)

\* A message of a pipe: the number of a sample, or an input of the vertical task.
VertInputs == [t : Nat, dt : Nat]
Msgs == Nat \union VertInputs

Entries == [q : Seq(Msgs), gone : Nat, published : Nat, popped : Nat,
            missed : Nat, evicted : Nat, peak : 0 .. U16Max]
Pipes == [Topics -> Entries]

\* What the counters of a polled pipe say: a message published was popped, was
\* overwritten, or waits, and evicted counts the overwritten ones and perhaps
\* more.
Size(p) == Len(p.q)
Accounted(p) ==
    /\ Size(p) = p.published - p.popped - p.missed - p.gone
    /\ p.evicted >= p.missed + p.gone

\* The pipes are well typed, no fuller than their slots, and accounted for.
GoodEntry(p, t) == Size(p) <= Slots[t] /\ (t \in Counted => Accounted(p))
GoodPipes(pp) == pp \in Pipes /\ \A t \in Topics : GoodEntry(pp[t], t)

----------------------------------------------------------------------------
(* The pipes *)

\* A pipe that stores m: the new message is the last, the others keep their
\* order, and what does not fit is lost at the head.
NewQ(q, m, slots) == IF Len(q) < slots THEN Append(q, m) ELSE Append(Tail(q), m)
NewGone(p, slots) == IF Len(p.q) < slots THEN p.gone ELSE p.gone + 1

LEMMA NewQAt ==
    ASSUME NEW q \in Seq(Msgs), NEW m \in Msgs, NEW slots \in Nat \ {0}
    PROVE  /\ NewQ(q, m, slots) \in Seq(Msgs)
           /\ NewQ(q, m, slots) # <<>>
           /\ Len(NewQ(q, m, slots)) = IF Len(q) < slots THEN Len(q) + 1 ELSE Len(q)
           /\ NewQ(q, m, slots)[Len(NewQ(q, m, slots))] = m
           /\ \A i \in 1 .. Len(NewQ(q, m, slots)) - 1 :
                NewQ(q, m, slots)[i] = IF Len(q) < slots THEN q[i] ELSE q[i + 1]
<1>1. Len(q) \in Nat
  BY LenProperties
<1>2. CASE Len(q) < slots
  <2> DEFINE n == Append(q, m)
  <2>1. /\ n \in Seq(Msgs) /\ n # <<>> /\ Len(n) = Len(q) + 1 /\ n[Len(q) + 1] = m
        /\ \A i \in 1 .. Len(q) : n[i] = q[i]
    BY AppendProperties
  <2>2. NewQ(q, m, slots) = n
    BY <1>2 DEF NewQ
  <2> HIDE DEF n
  <2> QED
    BY <1>1, <1>2, <2>1, <2>2
<1>3. CASE ~(Len(q) < slots)
  <2>1. q # <<>>
    BY <1>1, <1>3, EmptySeq
  <2> DEFINE u == Tail(q)
  <2>2. u \in Seq(Msgs) /\ Len(u) = Len(q) - 1 /\ \A i \in 1 .. Len(u) : u[i] = q[i + 1]
    BY <2>1, HeadTailProperties
  <2>3. NewQ(q, m, slots) = Append(u, m)
    BY <1>3 DEF NewQ
  <2> HIDE DEF u
  <2> DEFINE n == Append(u, m)
  <2>4. /\ n \in Seq(Msgs) /\ n # <<>> /\ Len(n) = Len(u) + 1 /\ n[Len(u) + 1] = m
        /\ \A i \in 1 .. Len(u) : n[i] = u[i]
    BY <2>2, AppendProperties
  <2> HIDE DEF n
  <2> QED
    BY <1>1, <1>3, <2>2, <2>3, <2>4 DEF n
<1> QED
  BY <1>2, <1>3

\* A pipe that loses its head keeps the rest in place.
LEMMA TailAt ==
    ASSUME NEW q \in Seq(Msgs), q # <<>>
    PROVE  /\ Head(q) = q[1] /\ q[1] \in Msgs
           /\ Tail(q) \in Seq(Msgs) /\ Len(Tail(q)) = Len(q) - 1
           /\ Len(q) \in Nat \ {0} /\ Len(Tail(q)) \in Nat
           /\ \A i \in 1 .. Len(q) - 1 : Tail(q)[i] = q[i + 1]
<1>1. Len(q) \in Nat \ {0}
  BY EmptySeq
<1>2. Head(q) = q[1]
  BY <1>1
<1> QED
  BY <1>1, <1>2, HeadTailProperties, LenProperties

\* Storing a message changes the queue and what is to be reported, nothing else.
LEMMA StoredType ==
    ASSUME NEW p \in Entries, NEW m \in Msgs, NEW slots \in Nat \ {0}
    PROVE  /\ Stored(p, m, slots) \in Entries
           /\ Stored(p, m, slots).q = NewQ(p.q, m, slots)
           /\ Stored(p, m, slots).gone = NewGone(p, slots)
           /\ Stored(p, m, slots).missed = p.missed
           /\ Stored(p, m, slots).popped = p.popped
           /\ Stored(p, m, slots).published = p.published
           /\ Stored(p, m, slots).evicted = p.evicted
           /\ Stored(p, m, slots).peak = p.peak
<1> DEFINE q == NewQ(p.q, m, slots)
           g == NewGone(p, slots)
<1>0. p.q \in Seq(Msgs) /\ p.gone \in Nat
  BY DEF Entries
<1>1. Len(p.q) \in Nat
  BY <1>0, LenProperties
<1>2. q \in Seq(Msgs)
  BY <1>0, NewQAt
<1>3. g \in Nat
  BY <1>0 DEF NewGone
<1>4. Stored(p, m, slots) = [p EXCEPT !.q = q, !.gone = g]
  BY DEF Stored, NewQ, NewGone, Entries
<1> HIDE DEF q, g
<1>5. [p EXCEPT !.q = q, !.gone = g] \in Entries
  BY <1>2, <1>3 DEF Entries
<1>6. Stored(p, m, slots).q = q /\ Stored(p, m, slots).gone = g
  BY <1>4 DEF Entries
<1> QED
  BY <1>4, <1>5, <1>6 DEF Entries, q, g

\* All that the proofs need of the bound.
LEMMA U16Type == U16Max \in Nat
  BY DEF U16Max

\* The counters move with a publication; the queue does not.
LEMMA StatPublishedType ==
    ASSUME NEW p \in Entries, NEW slots \in Nat \ {0}
    PROVE  /\ StatPublished(p, slots) \in Entries
           /\ StatPublished(p, slots).q = p.q
           /\ StatPublished(p, slots).gone = p.gone
           /\ StatPublished(p, slots).missed = p.missed
           /\ StatPublished(p, slots).popped = p.popped
           /\ StatPublished(p, slots).published = p.published + 1
           /\ StatPublished(p, slots).evicted =
                IF p.published + 1 - p.popped > slots THEN p.evicted + 1 ELSE p.evicted
<1> DEFINE pub == p.published + 1
           ev == IF pub - p.popped > slots THEN p.evicted + 1 ELSE p.evicted
           live == pub - p.popped - ev
           pk == IF live > p.peak \/ live < 0 THEN live % (U16Max + 1) ELSE p.peak
<1>0. p.published \in Nat /\ p.evicted \in Nat /\ p.popped \in Nat /\ p.peak \in 0 .. U16Max
  BY DEF Entries
<1>1. pub \in Nat /\ ev \in Nat /\ live \in Int
  BY <1>0
<1>2. pk \in 0 .. U16Max
  <2> HIDE DEF live
  <2> QED
    BY <1>0, <1>1, U16Type
<1>3. StatPublished(p, slots) = [p EXCEPT !.published = pub, !.evicted = ev, !.peak = pk]
  BY DEF StatPublished, Entries
<1>4. pub = p.published + 1
  OBVIOUS
<1>5. ev = IF p.published + 1 - p.popped > slots THEN p.evicted + 1 ELSE p.evicted
  BY <1>0
<1> HIDE DEF pk, ev, pub, live
<1>6. [p EXCEPT !.published = pub, !.evicted = ev, !.peak = pk] \in Entries
  BY <1>1, <1>2 DEF Entries
<1>7. /\ StatPublished(p, slots).published = pub
      /\ StatPublished(p, slots).evicted = ev
      /\ StatPublished(p, slots).peak = pk
  BY <1>3 DEF Entries
<1>8. /\ StatPublished(p, slots).q = p.q
      /\ StatPublished(p, slots).gone = p.gone
      /\ StatPublished(p, slots).missed = p.missed
      /\ StatPublished(p, slots).popped = p.popped
  BY <1>3 DEF Entries
<1> QED
  BY <1>2, <1>3, <1>4, <1>5, <1>6, <1>7, <1>8

\* Pushed stores the message in the topics it is for, and nowhere else.
LEMMA PushedAt ==
    ASSUME NEW pp \in Pipes, NEW ts \in SUBSET Topics, NEW m \in Msgs
    PROVE  /\ Pushed(pp, ts, m) \in Pipes
           /\ \A t \in Topics \ ts : Pushed(pp, ts, m)[t] = pp[t]
           /\ \A t \in ts :
                /\ Pushed(pp, ts, m)[t].q = NewQ(pp[t].q, m, Slots[t])
                /\ Pushed(pp, ts, m)[t].gone = NewGone(pp[t], Slots[t])
                /\ Pushed(pp, ts, m)[t].missed = pp[t].missed
                /\ Pushed(pp, ts, m)[t].popped = pp[t].popped
           /\ \A t \in ts \intersect Counted :
                /\ Pushed(pp, ts, m)[t].published = pp[t].published + 1
                /\ Pushed(pp, ts, m)[t].evicted =
                     IF pp[t].published + 1 - pp[t].popped > Slots[t]
                     THEN pp[t].evicted + 1 ELSE pp[t].evicted
<1>1. \A t \in Topics : pp[t] \in Entries /\ Slots[t] \in Nat \ {0}
  BY SensorConstants DEF Pipes
<1>2. \A t \in Topics : Pushed(pp, ts, m)[t] =
          IF t \notin ts THEN pp[t]
          ELSE IF t \in Counted THEN StatPublished(Stored(pp[t], m, Slots[t]), Slots[t])
          ELSE Stored(pp[t], m, Slots[t])
  BY DEF Pushed
<1>3. \A t \in Topics : Pushed(pp, ts, m)[t] \in Entries
  BY <1>1, <1>2, StoredType, StatPublishedType
<1>4. Pushed(pp, ts, m) \in Pipes
  BY <1>3 DEF Pipes, Pushed
<1>5. \A t \in Topics \ ts : Pushed(pp, ts, m)[t] = pp[t]
  BY <1>2
<1>6. ASSUME NEW t \in ts
      PROVE  /\ Pushed(pp, ts, m)[t].q = NewQ(pp[t].q, m, Slots[t])
             /\ Pushed(pp, ts, m)[t].gone = NewGone(pp[t], Slots[t])
             /\ Pushed(pp, ts, m)[t].missed = pp[t].missed
             /\ Pushed(pp, ts, m)[t].popped = pp[t].popped
  <2> DEFINE s == Stored(pp[t], m, Slots[t])
  <2>1. t \in Topics
    OBVIOUS
  <2>2. s \in Entries /\ s.q = NewQ(pp[t].q, m, Slots[t]) /\ s.gone = NewGone(pp[t], Slots[t])
        /\ s.missed = pp[t].missed /\ s.popped = pp[t].popped
    BY <1>1, <2>1, StoredType
  <2>3. Pushed(pp, ts, m)[t] = IF t \in Counted THEN StatPublished(s, Slots[t]) ELSE s
    BY <1>2, <2>1
  <2> HIDE DEF s
  <2>4. CASE t \in Counted
    BY <2>1, <2>2, <2>3, <2>4, <1>1, StatPublishedType
  <2>5. CASE t \notin Counted
    BY <2>2, <2>3, <2>5
  <2> QED
    BY <2>4, <2>5
<1>7. ASSUME NEW t \in ts \intersect Counted
      PROVE  /\ Pushed(pp, ts, m)[t].published = pp[t].published + 1
             /\ Pushed(pp, ts, m)[t].evicted =
                  IF pp[t].published + 1 - pp[t].popped > Slots[t]
                  THEN pp[t].evicted + 1 ELSE pp[t].evicted
  <2> DEFINE s == Stored(pp[t], m, Slots[t])
  <2>1. t \in Topics
    OBVIOUS
  <2>2. s \in Entries /\ s.published = pp[t].published /\ s.evicted = pp[t].evicted
        /\ s.popped = pp[t].popped
    BY <1>1, <2>1, StoredType
  <2>3. Pushed(pp, ts, m)[t] = StatPublished(s, Slots[t])
    BY <1>2, <2>1
  <2> HIDE DEF s
  <2> QED
    BY <2>1, <2>2, <2>3, <1>1, StatPublishedType
<1> QED
  BY <1>4, <1>5, <1>6, <1>7

\* Storing one more message, and taking one out, keep the account.
LEMMA AccountedPush ==
    ASSUME NEW p \in Entries, NEW r \in Entries, NEW slots \in Nat \ {0},
           Accounted(p), Size(p) \in Nat, Size(p) <= slots,
           Size(r) = IF Size(p) < slots THEN Size(p) + 1 ELSE Size(p),
           r.gone = IF Size(p) < slots THEN p.gone ELSE p.gone + 1,
           r.missed = p.missed, r.popped = p.popped, r.published = p.published + 1,
           r.evicted = IF p.published + 1 - p.popped > slots THEN p.evicted + 1 ELSE p.evicted
    PROVE  Accounted(r)
<1>1. Size(p) = p.published - p.popped - p.missed - p.gone /\ p.evicted >= p.missed + p.gone
  BY DEF Accounted
<1>2. /\ p.published \in Nat /\ p.popped \in Nat /\ p.missed \in Nat
      /\ p.gone \in Nat /\ p.evicted \in Nat
  BY DEF Entries
<1>3. Size(r) = r.published - r.popped - r.missed - r.gone
  BY <1>1, <1>2
<1>4. r.evicted >= r.missed + r.gone
  BY <1>1, <1>2
<1> QED
  BY <1>3, <1>4 DEF Accounted

LEMMA AccountedPop ==
    ASSUME NEW p \in Entries, NEW r \in Entries,
           Accounted(p), Size(p) \in Nat, Size(r) = Size(p) - 1,
           r.gone = 0, r.missed = p.missed + p.gone,
           r.popped = p.popped + 1, r.published = p.published, r.evicted = p.evicted
    PROVE  Accounted(r)
<1>1. Size(p) = p.published - p.popped - p.missed - p.gone /\ p.evicted >= p.missed + p.gone
  BY DEF Accounted
<1>2. /\ p.published \in Nat /\ p.popped \in Nat /\ p.missed \in Nat
      /\ p.gone \in Nat /\ p.evicted \in Nat
  BY DEF Entries
<1>3. Size(r) = r.published - r.popped - r.missed - r.gone
  BY <1>1, <1>2
<1>4. r.evicted >= r.missed + r.gone
  BY <1>1, <1>2
<1> QED
  BY <1>3, <1>4 DEF Accounted

\* A publication keeps every pipe within its slots and accounted for.
LEMMA PushedGood ==
    ASSUME NEW pp, GoodPipes(pp), NEW ts \in SUBSET Topics, NEW m \in Msgs
    PROVE  GoodPipes(Pushed(pp, ts, m))
<1> DEFINE new == Pushed(pp, ts, m)
<1>1. new \in Pipes /\ \A t \in Topics \ ts : new[t] = pp[t]
  BY PushedAt DEF GoodPipes
<1> HIDE DEF new
<1>2. ASSUME NEW t \in Topics
      PROVE  GoodEntry(new[t], t)
  <2>1. GoodEntry(pp[t], t) /\ pp[t] \in Entries /\ pp[t].q \in Seq(Msgs)
    BY DEF GoodPipes, Pipes, Entries
  <2>2. CASE t \notin ts
    BY <1>1, <2>1, <2>2
  <2>3. CASE t \in ts
    <3>1. Slots[t] \in Nat \ {0} /\ Size(pp[t]) \in Nat
      BY <2>1, SensorConstants, LenProperties DEF Size
    <3>2. /\ new[t].q = NewQ(pp[t].q, m, Slots[t])
          /\ new[t].gone = IF Size(pp[t]) < Slots[t] THEN pp[t].gone ELSE pp[t].gone + 1
          /\ new[t].missed = pp[t].missed
          /\ new[t].popped = pp[t].popped
      BY <2>3, PushedAt DEF GoodPipes, new, NewGone, Size
    <3>3. Size(new[t]) = IF Size(pp[t]) < Slots[t] THEN Size(pp[t]) + 1 ELSE Size(pp[t])
      BY <2>1, <3>1, <3>2, NewQAt DEF Size
    <3>4. ASSUME t \in Counted
          PROVE  Accounted(new[t])
      <4>1. /\ new[t].published = pp[t].published + 1
            /\ new[t].evicted = IF pp[t].published + 1 - pp[t].popped > Slots[t]
                                 THEN pp[t].evicted + 1 ELSE pp[t].evicted
        BY <2>3, <3>4, PushedAt DEF GoodPipes, new
      <4>2. Accounted(pp[t]) /\ Size(pp[t]) <= Slots[t] /\ new[t] \in Entries
        BY <1>1, <2>1, <3>4 DEF GoodEntry, Pipes
      <4> QED
        BY <2>1, <3>1, <3>2, <3>3, <4>1, <4>2, AccountedPush
    <3>5. Size(new[t]) <= Slots[t]
      BY <2>1, <3>1, <3>3 DEF GoodEntry
    <3> QED
      BY <3>4, <3>5 DEF GoodEntry
  <2> QED
    BY <2>2, <2>3
<1> QED
  BY <1>1, <1>2 DEF GoodPipes, new

\* What a reader writes into the entry of its pipe.
ReadOut(p, a, b) == [p EXCEPT !.q = Tail(p.q), !.popped = a, !.missed = b, !.gone = 0]
LEMMA ReadEntry ==
    ASSUME NEW p \in Entries, Tail(p.q) \in Seq(Msgs), NEW a \in Nat, NEW b \in Nat
    PROVE  /\ ReadOut(p, a, b) \in Entries
           /\ ReadOut(p, a, b).q = Tail(p.q) /\ ReadOut(p, a, b).popped = a
           /\ ReadOut(p, a, b).missed = b /\ ReadOut(p, a, b).gone = 0
           /\ ReadOut(p, a, b).published = p.published
           /\ ReadOut(p, a, b).evicted = p.evicted
<1>1. ReadOut(p, a, b) \in Entries
  BY DEF Entries, ReadOut
<1>2. /\ ReadOut(p, a, b).q = Tail(p.q) /\ ReadOut(p, a, b).popped = a
      /\ ReadOut(p, a, b).missed = b /\ ReadOut(p, a, b).gone = 0
  BY DEF Entries, ReadOut
<1>3. ReadOut(p, a, b).published = p.published /\ ReadOut(p, a, b).evicted = p.evicted
  BY DEF Entries, ReadOut
<1> QED
  BY <1>1, <1>2, <1>3

\* A reader that takes the head of a pipe is told what was overwritten before it.
LEMMA PoppedGood ==
    ASSUME GoodPipes(pipe), NEW t \in Counted \union {"est.perf"}, pipe[t].q # <<>>
    PROVE  /\ GoodPipes(Popped(pipe, t))
           /\ \A u \in Topics \ {t} : Popped(pipe, t)[u] = pipe[u]
<1> DEFINE p == pipe[t]
           new == Popped(pipe, t)
<1>1. t \in Topics /\ p \in Entries /\ p.q \in Seq(Msgs) /\ p.q # <<>> /\ pipe \in Pipes
  BY DEF GoodPipes, Pipes, Entries, Topics
<1>2. Tail(p.q) \in Seq(Msgs) /\ Len(Tail(p.q)) = Size(p) - 1 /\ Size(p) \in Nat \ {0}
  BY <1>1, TailAt DEF Size
<1>3. \A u \in Topics \ {t} : new[u] = pipe[u]
  BY <1>1 DEF Popped, Pipes
<1>4. new \in [Topics -> {new[u] : u \in Topics}]
  BY <1>1 DEF Popped, Pipes
<1>7. new[t] = IF t \in Counted
               THEN ReadOut(p, p.popped + 1, p.missed + p.gone)
               ELSE ReadOut(p, p.popped, p.missed)
  <2>1. new[t] = IF t \in Counted THEN StatPopped(pipe[t])
                 ELSE [p EXCEPT !.q = Tail(p.q), !.gone = 0]
    BY <1>1 DEF Popped, Pipes
  <2>2. CASE t \in Counted
    BY <1>1, <2>1, <2>2 DEF StatPopped, Entries, ReadOut
  <2>3. CASE t \notin Counted
    BY <1>1, <2>1, <2>3 DEF Entries, ReadOut
  <2> QED
    BY <2>2, <2>3
<1>9. /\ p.published \in Nat /\ p.popped \in Nat /\ p.missed \in Nat
      /\ p.gone \in Nat /\ p.evicted \in Nat /\ Slots[t] \in Nat
  BY <1>1, SensorConstants DEF Entries
<1>8. \A u \in Topics : GoodEntry(pipe[u], u) /\ pipe[u] \in Entries
  BY DEF GoodPipes, Pipes
<1> HIDE DEF p, new
<1>5. CASE t \in Counted
  <2>2. /\ new[t] \in Entries
        /\ new[t].q = Tail(p.q) /\ new[t].gone = 0 /\ new[t].missed = p.missed + p.gone
        /\ new[t].published = p.published /\ new[t].popped = p.popped + 1
        /\ new[t].evicted = p.evicted /\ Size(new[t]) = Size(p) - 1
    <3>1. p.popped + 1 \in Nat /\ p.missed + p.gone \in Nat
      BY <1>9
    <3>2. p \in Entries /\ Tail(p.q) \in Seq(Msgs)
      BY <1>1, <1>2
    <3>3. new[t] = ReadOut(p, p.popped + 1, p.missed + p.gone)
      BY <1>5, <1>7
    <3>4. new[t].q = Tail(p.q) => Size(new[t]) = Size(p) - 1
      BY <1>2 DEF Size
    <3> HIDE DEF Size
    <3> QED
      BY <3>1, <3>2, <3>3, <3>4, ReadEntry
  <2>3. GoodEntry(p, t)
    BY <1>1 DEF GoodPipes, p
  <2>5. GoodEntry(new[t], t)
    BY <1>1, <1>2, <1>5, <2>2, <2>3, <1>9, AccountedPop DEF GoodEntry
  <2> QED
    BY <1>3, <1>4, <1>8, <2>2, <2>5 DEF GoodPipes, Pipes, new
<1>6. CASE t \notin Counted
  <2>2. new[t] \in Entries /\ Size(new[t]) = Size(p) - 1
    <3>1. p \in Entries /\ Tail(p.q) \in Seq(Msgs) /\ p.popped \in Nat /\ p.missed \in Nat
      BY <1>1, <1>2, <1>9
    <3>2. new[t] = ReadOut(p, p.popped, p.missed)
      BY <1>6, <1>7
    <3>3. new[t].q = Tail(p.q) => Size(new[t]) = Size(p) - 1
      BY <1>2 DEF Size
    <3> QED
      BY <3>1, <3>2, <3>3, ReadEntry
  <2>3. GoodEntry(p, t) /\ Slots[t] \in Nat
    BY <1>1, SensorConstants DEF GoodPipes, p
  <2>4. GoodEntry(new[t], t)
    BY <1>2, <1>6, <2>2, <2>3 DEF GoodEntry
  <2> QED
    BY <1>3, <1>4, <1>8, <2>2, <2>4 DEF GoodPipes, Pipes, new
<1> QED
  BY <1>3, <1>5, <1>6 DEF new

\* So is a task that waits on one.
LEMMA TakenGood ==
    ASSUME GoodPipes(pipe), NEW t \in Waited, pipe[t].q # <<>>
    PROVE  /\ GoodPipes(Taken(t))
           /\ \A u \in Topics \ {t} : Taken(t)[u] = pipe[u]
           /\ Taken(t)[t].q = Tail(pipe[t].q)
           /\ Taken(t)[t].gone = 0
           /\ Taken(t)[t].missed = pipe[t].missed + pipe[t].gone
<1> DEFINE p == pipe[t]
           new == Taken(t)
<1>1. t \in Topics /\ t \notin Counted /\ p \in Entries /\ p.q \in Seq(Msgs) /\ p.q # <<>>
      /\ pipe \in Pipes
  BY DEF GoodPipes, Pipes, Entries, Topics, Waited, Counted
<1>2. Tail(p.q) \in Seq(Msgs) /\ Len(Tail(p.q)) = Size(p) - 1 /\ Size(p) \in Nat \ {0}
  BY <1>1, TailAt DEF Size
<1>3. \A u \in Topics \ {t} : new[u] = pipe[u]
  BY <1>1 DEF Taken, Pipes
<1>4. new \in [Topics -> {new[u] : u \in Topics}]
  BY <1>1 DEF Taken, Pipes
<1>5. new[t] = ReadOut(p, p.popped, p.missed + p.gone)
  BY <1>1 DEF Taken, Pipes, Entries, ReadOut
<1>12. p.popped \in Nat /\ p.missed + p.gone \in Nat
  BY <1>1 DEF Entries
<1>9. GoodEntry(p, t) /\ Slots[t] \in Nat
  BY <1>1, SensorConstants DEF GoodPipes
<1>10. \A u \in Topics : GoodEntry(pipe[u], u) /\ pipe[u] \in Entries
  BY DEF GoodPipes, Pipes
<1> HIDE DEF p, new
<1>13. new[t].q = Tail(p.q) => Size(new[t]) = Size(p) - 1
  BY <1>2 DEF Size
<1>6. /\ new[t] \in Entries /\ Size(new[t]) = Size(p) - 1
      /\ new[t].q = Tail(p.q) /\ new[t].gone = 0 /\ new[t].missed = p.missed + p.gone
  BY <1>1, <1>2, <1>5, <1>12, <1>13, ReadEntry
<1>8. GoodEntry(new[t], t)
  BY <1>1, <1>2, <1>6, <1>9 DEF GoodEntry
<1>11. GoodPipes(new)
  BY <1>3, <1>4, <1>6, <1>8, <1>10 DEF GoodPipes, Pipes
<1> QED
  BY <1>3, <1>6, <1>11 DEF new, p

----------------------------------------------------------------------------
(* The stamps *)

\* The remainder is what is left over the quotient.
LEMMA Remainder ==
    ASSUME NEW w \in Nat, w > 0, NEW a \in Int
    PROVE  /\ a % w \in 0 .. w - 1
           /\ \E k \in Int : a = w * k + (a % w)
<1>1. a % w \in 0 .. w - 1
  OBVIOUS
<1>2. a \div w \in Int
  OBVIOUS
<1>3. a = w * (a \div w) + (a % w)
  BY SMTT(30)
<1> QED
  BY <1>1, <1>2, <1>3

\* There is only one.
LEMMA RemainderUnique ==
    ASSUME NEW w \in Nat, w > 0, NEW k \in Int, NEW r \in 0 .. w - 1, NEW s \in 0 .. w - 1,
           w * k + r = s
    PROVE  r = s
<1>1. CASE k >= 1
  <2>1. w * k >= w
    BY <1>1
  <2> QED
    BY <2>1
<1>2. CASE k <= -1
  <2>1. w * k <= -w
    BY <1>2
  <2> QED
    BY <2>1
<1> QED
  BY <1>1, <1>2

\* vayu_dt_from_cycles gives the exact distance of two samples no further apart
\* than its ceiling, wherever the counter wrapped between them.
LEMMA DtExact ==
    ASSUME NEW a \in Nat, NEW b \in Nat, b < a, a - b <= DtMax
    PROVE  DtFromCycles(a, b) = a - b
<1> DEFINE ra == a % Wrap
           rb == b % Wrap
           x  == ra - rb
           y  == x % Wrap
<1>0. Wrap \in Nat /\ Wrap > 0 /\ DtMax \in Nat /\ DtMax < Wrap
  BY SensorConstants
<1>9. a \in Int /\ b \in Int
  OBVIOUS
<1>1. PICK i \in Int : a = Wrap * i + ra
  BY <1>0, <1>9, Remainder, Zenon
<1>2. PICK j \in Int : b = Wrap * j + rb
  BY <1>0, <1>9, Remainder, Zenon
<1>3. ra \in Int /\ rb \in Int /\ x \in Int
  BY <1>0
<1>4. y \in 0 .. Wrap - 1
  BY <1>0, <1>3, Remainder
<1>5. PICK k \in Int : x = Wrap * k + y
  BY <1>0, <1>3, Remainder, Zenon
<1> HIDE DEF ra, rb, y
<1>6. Wrap * (i - j + k) + y = a - b
  BY <1>0, <1>1, <1>2, <1>3, <1>4, <1>5
<1>7. y = a - b
  <2>1. a - b \in 0 .. Wrap - 1 /\ i - j + k \in Int
    BY <1>0
  <2> QED
    BY <1>0, <1>4, <1>6, <2>1, RemainderUnique
<1>8. DtFromCycles(a, b) = IF y < 1 THEN 1 ELSE IF y > DtMax THEN DtMax ELSE y
  BY DEF DtFromCycles, ra, rb, y
<1> QED
  BY <1>0, <1>7, <1>8

\* Whatever the stamps, it gives between one sample and the ceiling.
LEMMA DtType ==
    ASSUME NEW a \in Nat, NEW b \in Nat
    PROVE  DtFromCycles(a, b) \in Nat
<1> DEFINE y == ((a % Wrap) - (b % Wrap)) % Wrap
<1>0. Wrap \in Nat /\ Wrap > 0 /\ DtMax \in Nat
  BY SensorConstants
<1>1. y \in Int
  BY <1>0
<1> HIDE DEF y
<1>2. DtFromCycles(a, b) = IF y < 1 THEN 1 ELSE IF y > DtMax THEN DtMax ELSE y
  BY DEF DtFromCycles, y
<1> QED
  BY <1>0, <1>1, <1>2

----------------------------------------------------------------------------
(* What waits in the two pipes the tasks block on *)

\* The samples waiting for the attitude task: later than the one it last took,
\* in the order they were acquired, none from the future.
Ascending(q, from, upto) ==
    /\ \A i \in 1 .. Len(q) : q[i] \in Nat /\ from < q[i] /\ q[i] <= upto
    /\ \A i, j \in 1 .. Len(q) : i < j => q[i] < q[j]

LEMMA AscendingPush ==
    ASSUME NEW q \in Seq(Msgs), NEW slots \in Nat \ {0}, NEW from \in Nat, NEW upto \in Nat,
           NEW m \in Nat, Ascending(q, from, upto), from < m, upto < m
    PROVE  Ascending(NewQ(q, m, slots), from, m)
<1> DEFINE n == NewQ(q, m, slots)
           k == Len(n)
           l == Len(q)
<1>1. m \in Msgs
  BY DEF Msgs
<1>2. /\ k = IF l < slots THEN l + 1 ELSE l
      /\ n[k] = m
      /\ \A i \in 1 .. k - 1 : n[i] = IF l < slots THEN q[i] ELSE q[i + 1]
  BY <1>1, NewQAt
<1>3. l \in Nat
  BY LenProperties
<1>4. /\ \A i \in 1 .. l : q[i] \in Nat /\ from < q[i] /\ q[i] <= upto
      /\ \A i, j \in 1 .. l : i < j => q[i] < q[j]
  BY DEF Ascending
<1> HIDE DEF n, k, l
<1>5. \A i \in 1 .. k - 1 : n[i] \in Nat /\ from < n[i] /\ n[i] <= upto
  <2>1. CASE l < slots
    BY <1>2, <1>3, <1>4, <2>1
  <2>2. CASE ~(l < slots)
    <3> TAKE i \in 1 .. k - 1
    <3>1. i + 1 \in 1 .. l /\ n[i] = q[i + 1]
      BY <1>2, <1>3, <2>2
    <3> QED
      BY <1>4, <3>1
  <2> QED
    BY <2>1, <2>2
<1>6. \A i, j \in 1 .. k - 1 : i < j => n[i] < n[j]
  <2>1. CASE l < slots
    BY <1>2, <1>3, <1>4, <2>1
  <2>2. CASE ~(l < slots)
    <3> TAKE i, j \in 1 .. k - 1
    <3>1. /\ i + 1 \in 1 .. l /\ n[i] = q[i + 1]
          /\ j + 1 \in 1 .. l /\ n[j] = q[j + 1]
      BY <1>2, <1>3, <2>2
    <3>2. i < j => i + 1 < j + 1
      OBVIOUS
    <3> QED
      BY <1>4, <3>1, <3>2
  <2> QED
    BY <2>1, <2>2
<1>7. \A i \in 1 .. k : n[i] \in Nat /\ from < n[i] /\ n[i] <= m
  <2> TAKE i \in 1 .. k
  <2>1. i \in 1 .. k - 1 \/ i = k
    BY <1>2, <1>3
  <2> QED
    BY <1>2, <1>5, <2>1
<1>8. \A i, j \in 1 .. k : i < j => n[i] < n[j]
  <2> TAKE i, j \in 1 .. k
  <2> SUFFICES ASSUME i < j PROVE n[i] < n[j]
    OBVIOUS
  <2>1. i \in 1 .. k - 1 /\ (j \in 1 .. k - 1 \/ j = k)
    BY <1>2, <1>3
  <2> QED
    BY <1>2, <1>5, <1>6, <2>1
<1> QED
  BY <1>7, <1>8 DEF Ascending, n, k

LEMMA AscendingTake ==
    ASSUME NEW q \in Seq(Msgs), q # <<>>, NEW from \in Nat, NEW upto \in Nat,
           Ascending(q, from, upto)
    PROVE  /\ Head(q) \in Nat /\ from < Head(q) /\ Head(q) <= upto
           /\ Ascending(Tail(q), Head(q), upto)
<1> DEFINE l == Len(q)
           u == Tail(q)
           k == Len(u)
<1>1. /\ l \in Nat \ {0} /\ k = l - 1 /\ Head(q) = q[1]
      /\ \A i \in 1 .. l - 1 : u[i] = q[i + 1]
  BY TailAt
<1>2. /\ \A i \in 1 .. l : q[i] \in Nat /\ from < q[i] /\ q[i] <= upto
      /\ \A i, j \in 1 .. l : i < j => q[i] < q[j]
  BY DEF Ascending
<1> HIDE DEF l, u, k
<1>3. q[1] \in Nat /\ from < q[1] /\ q[1] <= upto
  BY <1>1, <1>2
<1>4. \A i \in 1 .. k : i + 1 \in 1 .. l /\ u[i] = q[i + 1] /\ 1 < i + 1 /\ 1 \in 1 .. l
  BY <1>1
<1>5. \A i \in 1 .. k : u[i] \in Nat /\ q[1] < u[i] /\ u[i] <= upto
  BY <1>2, <1>4
<1>6. \A i, j \in 1 .. k : i < j => u[i] < u[j]
  <2> TAKE i, j \in 1 .. k
  <2>1. i < j => i + 1 < j + 1
    BY <1>1
  <2> QED
    BY <1>2, <1>4, <2>1
<1> QED
  BY <1>1, <1>3, <1>5, <1>6 DEF Ascending, u, k

\* The inputs waiting for the vertical task: later than the one it last took,
\* in order, the last of them of the newest estimate; none waits only when the
\* task has caught up.
InputsFor(q, from, upto) ==
    /\ \A i \in 1 .. Len(q) : q[i] \in VertInputs /\ from < q[i].t /\ q[i].t <= upto
    /\ \A i, j \in 1 .. Len(q) : i < j => q[i].t < q[j].t
    /\ q # <<>> => q[Len(q)].t = upto
    /\ q = <<>> => from = upto

\* Each carries the time since the one before it.
Linked(q) == \A i \in 1 .. Len(q) - 1 : q[i + 1].dt = q[i + 1].t - q[i].t

LEMMA InputsPush ==
    ASSUME NEW q \in Seq(Msgs), NEW slots \in Nat \ {0}, NEW from \in Nat, NEW upto \in Nat,
           NEW m \in VertInputs, InputsFor(q, from, upto), from <= upto, upto < m.t
    PROVE  /\ InputsFor(NewQ(q, m, slots), from, m.t)
           /\ Linked(q) /\ (q # <<>> => m.dt = m.t - q[Len(q)].t) => Linked(NewQ(q, m, slots))
<1> DEFINE n == NewQ(q, m, slots)
           k == Len(n)
           l == Len(q)
<1>0. m.t \in Nat /\ m \in Msgs
  BY DEF Msgs, VertInputs
<1>1. /\ k = IF l < slots THEN l + 1 ELSE l
      /\ n[k] = m
      /\ n # <<>>
      /\ \A i \in 1 .. k - 1 : n[i] = IF l < slots THEN q[i] ELSE q[i + 1]
  BY <1>0, NewQAt
<1>2. l \in Nat /\ (q # <<>> <=> l # 0)
  BY LenProperties, EmptySeq
<1>3. /\ \A i \in 1 .. l : q[i] \in VertInputs /\ from < q[i].t /\ q[i].t <= upto
      /\ \A i, j \in 1 .. l : i < j => q[i].t < q[j].t
  BY DEF InputsFor
<1> HIDE DEF n, k, l
<1>4. \A i \in 1 .. k - 1 : n[i] \in VertInputs /\ from < n[i].t /\ n[i].t <= upto
  <2>1. CASE l < slots
    BY <1>1, <1>2, <1>3, <2>1
  <2>2. CASE ~(l < slots)
    <3> TAKE i \in 1 .. k - 1
    <3>1. i + 1 \in 1 .. l /\ n[i] = q[i + 1]
      BY <1>1, <1>2, <2>2
    <3> QED
      BY <1>3, <3>1
  <2> QED
    BY <2>1, <2>2
<1>5. \A i, j \in 1 .. k - 1 : i < j => n[i].t < n[j].t
  <2>1. CASE l < slots
    BY <1>1, <1>2, <1>3, <2>1
  <2>2. CASE ~(l < slots)
    <3> TAKE i, j \in 1 .. k - 1
    <3>1. /\ i + 1 \in 1 .. l /\ n[i] = q[i + 1]
          /\ j + 1 \in 1 .. l /\ n[j] = q[j + 1]
      BY <1>1, <1>2, <2>2
    <3>2. i < j => i + 1 < j + 1
      OBVIOUS
    <3> QED
      BY <1>3, <3>1, <3>2
  <2> QED
    BY <2>1, <2>2
<1>6. \A i \in 1 .. k : n[i] \in VertInputs /\ from < n[i].t /\ n[i].t <= m.t
  <2> TAKE i \in 1 .. k
  <2>1. i \in 1 .. k - 1 \/ i = k
    BY <1>1, <1>2
  <2>2. \A v \in VertInputs : v.t \in Nat
    BY DEF VertInputs
  <2> QED
    BY <1>0, <1>1, <1>4, <2>1, <2>2
<1>7. \A i, j \in 1 .. k : i < j => n[i].t < n[j].t
  <2> TAKE i, j \in 1 .. k
  <2> SUFFICES ASSUME i < j PROVE n[i].t < n[j].t
    OBVIOUS
  <2>1. i \in 1 .. k - 1 /\ (j \in 1 .. k - 1 \/ j = k)
    BY <1>1, <1>2
  <2>2. \A v \in VertInputs : v.t \in Nat
    BY DEF VertInputs
  <2> QED
    BY <1>0, <1>1, <1>4, <1>5, <2>1, <2>2
<1>8. InputsFor(n, from, m.t)
  BY <1>1, <1>6, <1>7 DEF InputsFor, k
<1>9. ASSUME \A i \in 1 .. l - 1 : q[i + 1].dt = q[i + 1].t - q[i].t,
             l # 0 => m.dt = m.t - q[l].t,
             NEW i \in 1 .. k - 1
      PROVE  n[i + 1].dt = n[i + 1].t - n[i].t
  <2>1. CASE l < slots
    <3>1. CASE i = k - 1
      <4>1. k = l + 1 /\ i = l /\ n[i + 1] = m /\ n[i] = q[l]
        BY <1>1, <1>2, <2>1, <3>1
      <4> QED
        BY <1>2, <1>9, <4>1
    <3>2. CASE i # k - 1
      <4>1. i \in 1 .. l - 1 /\ n[i + 1] = q[i + 1] /\ n[i] = q[i]
        BY <1>1, <1>2, <2>1, <3>2
      <4> QED
        BY <1>9, <4>1
    <3> QED
      BY <3>1, <3>2
  <2>2. CASE ~(l < slots)
    <3>1. CASE i = k - 1
      <4>1. k = l /\ n[i + 1] = m /\ n[i] = q[l]
        BY <1>1, <1>2, <2>2, <3>1
      <4> QED
        BY <1>2, <1>9, <4>1
    <3>2. CASE i # k - 1
      <4>1. i + 1 \in 1 .. l - 1 /\ n[i + 1] = q[i + 2] /\ n[i] = q[i + 1] /\ i + 2 = (i + 1) + 1
        BY <1>1, <1>2, <2>2, <3>2
      <4> QED
        BY <1>9, <4>1
    <3> QED
      BY <3>1, <3>2
  <2> QED
    BY <2>1, <2>2
<1>10. Linked(q) /\ (q # <<>> => m.dt = m.t - q[Len(q)].t) => Linked(n)
  BY <1>2, <1>9 DEF Linked, l, k
<1> QED
  BY <1>8, <1>10 DEF n

LEMMA InputsTake ==
    ASSUME NEW q \in Seq(Msgs), q # <<>>, NEW from \in Nat, NEW upto \in Nat,
           InputsFor(q, from, upto)
    PROVE  /\ Head(q) = q[1] /\ q[1] \in VertInputs /\ from < q[1].t /\ q[1].t <= upto
           /\ InputsFor(Tail(q), q[1].t, upto)
           /\ Linked(q) => /\ Linked(Tail(q))
                           /\ Tail(q) # <<>> => Tail(q)[1].dt = Tail(q)[1].t - q[1].t
<1> DEFINE l == Len(q)
           u == Tail(q)
           k == Len(u)
<1>1. /\ l \in Nat \ {0} /\ k = l - 1 /\ Head(q) = q[1] /\ u \in Seq(Msgs)
      /\ \A i \in 1 .. l - 1 : u[i] = q[i + 1]
  BY TailAt
<1>2. /\ \A i \in 1 .. l : q[i] \in VertInputs /\ from < q[i].t /\ q[i].t <= upto
      /\ \A i, j \in 1 .. l : i < j => q[i].t < q[j].t
      /\ q[l].t = upto
  BY DEF InputsFor
<1>3. u # <<>> <=> k # 0
  BY <1>1, EmptySeq
<1> HIDE DEF l, u, k
<1>4. q[1] \in VertInputs /\ from < q[1].t /\ q[1].t <= upto
  BY <1>1, <1>2
<1>5. \A i \in 1 .. k : i + 1 \in 1 .. l /\ u[i] = q[i + 1] /\ 1 < i + 1 /\ 1 \in 1 .. l
  BY <1>1
<1>6. \A i \in 1 .. k : u[i] \in VertInputs /\ q[1].t < u[i].t /\ u[i].t <= upto
  BY <1>2, <1>5
<1>7. \A i, j \in 1 .. k : i < j => u[i].t < u[j].t
  <2> TAKE i, j \in 1 .. k
  <2>1. i < j => i + 1 < j + 1
    BY <1>1
  <2> QED
    BY <1>2, <1>5, <2>1
<1>8. u # <<>> => u[k].t = upto
  BY <1>1, <1>2, <1>3
<1>9. u = <<>> => q[1].t = upto
  BY <1>1, <1>2, <1>3
<1>10. InputsFor(u, q[1].t, upto)
  BY <1>6, <1>7, <1>8, <1>9 DEF InputsFor, k
<1>11. ASSUME \A i \in 1 .. l - 1 : q[i + 1].dt = q[i + 1].t - q[i].t
       PROVE  /\ \A i \in 1 .. k - 1 : u[i + 1].dt = u[i + 1].t - u[i].t
              /\ u # <<>> => u[1].dt = u[1].t - q[1].t
  <2>1. \A i \in 1 .. k - 1 : /\ i + 1 \in 1 .. l - 1 /\ u[i] = q[i + 1]
                              /\ u[i + 1] = q[(i + 1) + 1]
    BY <1>1
  <2>2. \A i \in 1 .. k - 1 : u[i + 1].dt = u[i + 1].t - u[i].t
    BY <1>11, <2>1
  <2>3. u # <<>> => 1 \in 1 .. l - 1 /\ u[1] = q[1 + 1]
    BY <1>1, <1>3
  <2>4. u # <<>> => u[1].dt = u[1].t - q[1].t
    BY <1>11, <2>3
  <2> QED
    BY <2>2, <2>4
<1>12. Linked(q) => /\ Linked(u)
                    /\ u # <<>> => u[1].dt = u[1].t - q[1].t
  BY <1>11 DEF Linked, l, k
<1> QED
  BY <1>1, <1>4, <1>10, <1>12 DEF u

----------------------------------------------------------------------------
(* The inductive invariant *)

AttType == [prev : Nat, n : 0 .. Decim - 1, dtSum : Nat, out : Nat, perf : 0 .. PerfEvery - 1]
VertType == [seeded : BOOLEAN, baroStamp : Nat \union {None}, tofStamp : Nat \union {None},
             tofAge : 0 .. StaleSteps, tofDt : Nat, havePrev : BOOLEAN]
VsType == [seq : Nat, popped : Nat, t : Nat, tofValid : BOOLEAN, valid : BOOLEAN]
Pairs == [dt : Nat, real : Int, hole : BOOLEAN]
HistType == [cut : BOOLEAN, start : Nat, attTotal : Nat, vertTotal : Nat, vertT : Nat,
             corrections : Nat, sent : Nat, pair : Seq(Pairs), fed : Nat,
             hole : BOOLEAN, seen : 0 .. StaleSteps]
HealthType == [rejecting : BOOLEAN, since : Nat, degraded : BOOLEAN]

DriverTypes ==
    /\ platform \in Platforms /\ now \in 0 .. MaxSamples
    /\ mag.dir \in Dirs \union {None} /\ lastMag \in Dirs \union {None}
    /\ rhallOk \in BOOLEAN /\ calib \in BOOLEAN /\ health \in HealthType
    /\ baro \in Nat /\ range \in Nat /\ badRun \in Nat /\ events \in Nat
TaskTypes == att \in AttType /\ vert \in VertType /\ vs \in VsType /\ hist \in HistType

\* What waits for the attitude task.
SampleInv == Ascending(pipe["imu.attitude"].q, att.prev, now)

\* What attitude_task knows of time: all of it, and the part since its last
\* estimate.
AttInv ==
    /\ att.prev <= now /\ att.out <= att.prev
    /\ att.prev = 0 => att.dtSum = 0 /\ hist.attTotal = 0 /\ hist.start = 0
    /\ AttitudeTimeExact
    /\ ~hist.cut /\ att.prev # 0 =>
          att.dtSum = att.prev - (IF att.out = 0 THEN hist.start ELSE att.out)

\* What waits for the vertical task, and that the times it carries are those
\* between the estimates: the first one counts from the last input taken,
\* unless one was overwritten in between.
In == pipe["vert.input"]
Since == IF hist.vertT = 0 THEN hist.start ELSE hist.vertT
VertOrder ==
    /\ vs.t = hist.vertT /\ hist.vertT <= att.out
    /\ InputsFor(In.q, hist.vertT, att.out)
    /\ In.q = <<>> => In.gone = 0
VertChain ==
    ~hist.cut =>
        /\ Linked(In.q)
        /\ In.q # <<>> /\ In.gone = 0 => In.q[1].dt = In.q[1].t - Since
        /\ In.missed = 0 =>
              hist.vertTotal = hist.vertT - (IF hist.vertT = 0 THEN 0 ELSE hist.start)

\* While the chain of range readings holds there was no hole, and the time
\* since the last one fed is known.
RangeInv ==
    /\ vert.havePrev => /\ ~hist.hole /\ hist.vertT # 0
                        /\ ~hist.cut /\ In.missed = 0 => vert.tofDt = hist.vertT - hist.fed
    /\ RangePairHonest

\* The age of the range reading is the history's, once there is a reading.
AgeInv ==
    /\ IF vert.tofStamp = None THEN vert.tofAge = StaleSteps
                               ELSE vert.tofAge = hist.seen /\ range # 0
    /\ DeadRangeDropped

SlowInv ==
    /\ hist.corrections <= IF vert.baroStamp = None THEN 0 ELSE vert.baroStamp
    /\ vert.baroStamp <= baro
    /\ hist.sent <= vs.popped /\ vs.popped <= vs.seq

\* A run of rejected samples began no later than its length says.
HealthInv ==
    /\ health.since <= now
    /\ badRun > 0 => health.rejecting /\ health.since + badRun - 1 <= now
    /\ DegradedOnTime

Types == DriverTypes /\ TaskTypes /\ GoodPipes(pipe)
TimeInv == SampleInv /\ AttInv /\ VertOrder /\ VertChain
IInv == Types /\ TimeInv /\ RangeInv /\ AgeInv /\ SlowInv /\ HealthInv

----------------------------------------------------------------------------
(* The initial state *)

LEMMA InitTypes == Init => Types
<1> SUFFICES ASSUME Init PROVE Types
  OBVIOUS
<1>1. DriverTypes
  <2>1. now \in 0 .. MaxSamples /\ platform \in Platforms
    BY SensorConstants DEF Init
  <2>2. health \in HealthType
    BY DEF Init, HealthType
  <2>3. mag.dir \in Dirs \union {None} /\ lastMag \in Dirs \union {None}
    BY DEF Init, EmptyMag
  <2> QED
    BY <2>1, <2>2, <2>3 DEF Init, DriverTypes
<1>2. att \in AttType
  BY SensorConstants DEF Init, AttType
<1>3. vert \in VertType
  BY SensorConstants DEF Init, VertType
<1>4. vs \in VsType
  BY DEF Init, VsType
<1>5. hist \in HistType
  <2>1. <<>> \in Seq(Pairs) /\ 0 \in 0 .. StaleSteps
    BY SensorConstants, EmptySeq
  <2> QED
    BY <2>1 DEF Init, HistType
<1>6. NewTopic \in Entries /\ Size(NewTopic) = 0 /\ Accounted(NewTopic)
  <2>1. <<>> \in Seq(Msgs) /\ Len(<<>>) = 0
    BY EmptySeq
  <2>2. NewTopic \in Entries
    BY <2>1, U16Type DEF NewTopic, Entries
  <2>3. Size(NewTopic) = 0
    BY <2>1 DEF NewTopic, Size
  <2> QED
    BY <2>2, <2>3 DEF NewTopic, Accounted
<1>7. GoodPipes(pipe)
  <2>1. pipe = [t \in Topics |-> NewTopic]
    BY DEF Init
  <2>2. \A t \in Topics : Slots[t] \in Nat
    BY SensorConstants
  <2> QED
    BY <1>6, <2>1, <2>2 DEF GoodPipes, GoodEntry, Pipes
<1> QED
  BY <1>1, <1>2, <1>3, <1>4, <1>5, <1>7 DEF Types, TaskTypes

LEMMA InitInv == Init => IInv
<1> SUFFICES ASSUME Init PROVE IInv
  OBVIOUS
<1>1. Types
  BY InitTypes
<1>2. \A t \in Topics : pipe[t].q = <<>> /\ pipe[t].gone = 0 /\ pipe[t].missed = 0
  BY DEF Init, NewTopic
<1>3. In.q = <<>> /\ In.gone = 0 /\ In.missed = 0 /\ pipe["imu.attitude"].q = <<>>
  BY <1>2 DEF In, Topics, Waited
<1>4. Len(<<>>) = 0
  BY EmptySeq
<1>5. SampleInv
  BY <1>3, <1>4 DEF SampleInv, Ascending
<1>6. AttInv
  BY DEF Init, AttInv, AttitudeTimeExact
<1>7. VertOrder
  BY <1>3, <1>4 DEF Init, VertOrder, InputsFor
<1>8. VertChain
  BY <1>3, <1>4 DEF Init, VertChain, Linked
<1>9. RangeInv /\ AgeInv
  BY <1>4 DEF Init, RangeInv, RangePairHonest, AgeInv, DeadRangeDropped
<1>10. SlowInv /\ HealthInv
  BY SensorConstants DEF Init, SlowInv, HealthInv, DegradedOnTime, None
<1> QED
  BY <1>1, <1>5, <1>6, <1>7, <1>8, <1>9, <1>10 DEF IInv, TimeInv

----------------------------------------------------------------------------
(* The producers *)

\* What a sample does to the pipes: it is stored in some, and never in
\* vert.input.
LEMMA SampleShape ==
    ASSUME Sample \/ HostSample
    PROVE  /\ now < MaxSamples /\ now' = now + 1
           /\ \E ts \in SUBSET (Topics \ {"vert.input"}) : pipe' = Pushed(pipe, ts, now + 1)
           /\ UNCHANGED <<baro, range, calib, tasks, platform>>
<1>1. {"imu.telemetry", "imu.control"} \in SUBSET (Topics \ {"vert.input"})
  BY DEF Topics, Counted, Waited
<1>2. {"imu.telemetry", "imu.control", "imu.attitude"} \in SUBSET (Topics \ {"vert.input"})
  BY DEF Topics, Counted, Waited
<1>3. {"imu.control", "imu.telemetry", "imu.attitude"} \in SUBSET (Topics \ {"vert.input"})
  BY <1>2
<1>4. CASE Sample
  BY <1>1, <1>2, <1>4 DEF Sample
<1>5. CASE HostSample
  BY <1>3, <1>5 DEF HostSample
<1> QED
  BY <1>4, <1>5

\* The drivers' own variables stay typed, and events with them.
LEMMA HappensType ==
    ASSUME events \in Nat, NEW n \in Nat, Happens(n)
    PROVE  events' \in Nat
  BY DEF Happens

LEMMA SampleDriver ==
    ASSUME DriverTypes, Sample \/ HostSample
    PROVE  DriverTypes'
<1>1. now' \in 0 .. MaxSamples /\ platform' \in Platforms /\ baro' \in Nat /\ range' \in Nat
      /\ calib' \in BOOLEAN
  BY SampleShape, SensorConstants DEF DriverTypes
<1>2. CASE Sample
  <2>1. /\ mag'.dir \in Dirs \union {None} /\ lastMag' \in Dirs \union {None}
        /\ rhallOk' \in BOOLEAN /\ events' \in Nat
    <3>1. CASE UNCHANGED <<mag, lastMag, rhallOk>> /\ Happens(0)
      BY <3>1, HappensType DEF DriverTypes
    <3>2. ASSUME NEW dir \in Dirs, NEW inBand \in BOOLEAN, Happens(1),
                 rhallOk' \in BOOLEAN, ProcessMag(dir, rhallOk' /\ inBand)
          PROVE  /\ mag'.dir \in Dirs \union {None} /\ lastMag' \in Dirs \union {None}
                 /\ rhallOk' \in BOOLEAN /\ events' \in Nat
      BY <3>2, HappensType DEF DriverTypes, ProcessMag
    <3> QED
      BY <1>2, <3>1, <3>2 DEF Sample
  <2>2. health' \in HealthType /\ badRun' \in Nat
    <3>1. CASE calib
      BY <1>2, <3>1 DEF Sample, DriverTypes
    <3>2. CASE ~calib
      <4>1. /\ health' = MarkSample(health, rhallOk', now + 1)
            /\ badRun' = IF rhallOk' THEN 0 ELSE badRun + 1
        BY <1>2, <3>2 DEF Sample
      <4>2. health' \in HealthType
        <5>1. now + 1 \in Nat /\ health \in HealthType
          BY SensorConstants DEF DriverTypes
        <5>2. MarkSample(health, rhallOk', now + 1) \in HealthType
          <6>1. CASE rhallOk'
            BY <6>1 DEF MarkSample, HealthType
          <6>2. CASE ~rhallOk' /\ ~health.rejecting
            BY <5>1, <6>2 DEF MarkSample, HealthType
          <6>3. CASE ~rhallOk' /\ health.rejecting
            BY <5>1, <6>3 DEF MarkSample, HealthType
          <6> QED
            BY <6>1, <6>2, <6>3
        <5> QED
          BY <4>1, <5>2
      <4> QED
        BY <4>1, <4>2 DEF DriverTypes
    <3> QED
      BY <3>1, <3>2
  <2> QED
    BY <1>1, <2>1, <2>2 DEF DriverTypes
<1>3. CASE HostSample
  <2>1. PICK dir \in Dirs, n \in {0, 1} : Happens(n) /\ mag' = [valid |-> TRUE, dir |-> dir]
    BY <1>3 DEF HostSample
  <2>2. events' \in Nat
    BY <2>1, HappensType DEF DriverTypes
  <2>3. mag'.dir \in Dirs
    BY <2>1
  <2> QED
    BY <1>1, <1>3, <2>2, <2>3 DEF DriverTypes, HostSample
<1> QED
  BY <1>2, <1>3

LEMMA SampleHealth ==
    ASSUME DriverTypes, HealthInv, Sample \/ HostSample
    PROVE  HealthInv'
<1>1. now' = now + 1 /\ now \in Nat /\ badRun \in Nat /\ RejectLimit \in Nat
  BY SampleShape, SensorConstants DEF DriverTypes
<1>2. health.since \in Nat /\ health.rejecting \in BOOLEAN /\ health.degraded \in BOOLEAN
  BY DEF DriverTypes, HealthType
<1>3. CASE health' = health /\ badRun' = badRun
  BY <1>1, <1>2, <1>3 DEF HealthInv, DegradedOnTime
<1>4. CASE /\ health' = MarkSample(health, rhallOk', now + 1)
           /\ badRun' = IF rhallOk' THEN 0 ELSE badRun + 1
  <2>1. CASE rhallOk'
    BY <1>1, <1>4, <2>1 DEF HealthInv, DegradedOnTime, MarkSample
  <2>2. CASE ~rhallOk' /\ ~health.rejecting
    <3>1. badRun = 0 /\ badRun' = 1
      BY <1>1, <1>4, <2>2 DEF HealthInv
    <3>2. health'.rejecting /\ health'.since = now + 1
      BY <1>4, <2>2 DEF MarkSample, DriverTypes, HealthType
    <3> QED
      BY <1>1, <3>1, <3>2 DEF HealthInv, DegradedOnTime
  <2>3. CASE ~rhallOk' /\ health.rejecting
    <3>1. /\ health'.rejecting /\ health'.since = health.since
          /\ health'.degraded <=> health.degraded \/ now + 1 - health.since > RejectLimit
      BY <1>4, <2>3 DEF MarkSample, DriverTypes, HealthType
    <3>2. badRun' = badRun + 1
      BY <1>4, <2>3
    <3> QED
      BY <1>1, <1>2, <3>1, <3>2 DEF HealthInv, DegradedOnTime
  <2> QED
    BY <2>1, <2>2, <2>3
<1> QED
  BY <1>3, <1>4 DEF Sample, HostSample

\* A sample leaves what the tasks hold alone, and is later than what waits.
LEMMA SampleInvariant ==
    ASSUME IInv, Sample \/ HostSample
    PROVE  IInv'
<1>0. Types /\ TimeInv /\ GoodPipes(pipe) /\ TaskTypes /\ DriverTypes
  BY DEF IInv, Types
<1>1. /\ now' = now + 1 /\ now \in Nat
      /\ UNCHANGED <<baro, range, att, vert, vs, hist>>
  BY <1>0, SampleShape, SensorConstants DEF DriverTypes, tasks
<1>2. PICK ts \in SUBSET (Topics \ {"vert.input"}) : pipe' = Pushed(pipe, ts, now + 1)
  BY SampleShape
<1>3. now + 1 \in Msgs /\ now + 1 \in Nat
  BY <1>1 DEF Msgs
<1>4. GoodPipes(pipe')
  BY <1>0, <1>2, <1>3, PushedGood
<1>5. Types'
  BY <1>0, <1>1, <1>4, SampleDriver DEF Types, TaskTypes
<1>6. In' = In
  <2>1. "vert.input" \in Topics \ ts
    BY DEF Topics, Waited
  <2> QED
    BY <1>0, <1>2, <1>3, <2>1, PushedAt DEF GoodPipes, In
<1>7. SampleInv'
  <2> DEFINE q == pipe["imu.attitude"].q
  <2>1. /\ "imu.attitude" \in Topics /\ q \in Seq(Msgs)
        /\ Slots["imu.attitude"] \in Nat \ {0}
    BY <1>0, SensorConstants DEF GoodPipes, Pipes, Entries, Topics, Waited
  <2>2. att.prev \in Nat /\ att.prev <= now
    BY <1>0 DEF TaskTypes, AttType, TimeInv, AttInv
  <2>3. Ascending(q, att.prev, now)
    BY <1>0 DEF TimeInv, SampleInv
  <2>4. CASE "imu.attitude" \in ts
    <3>1. pipe'["imu.attitude"].q = NewQ(q, now + 1, Slots["imu.attitude"])
      BY <1>0, <1>2, <1>3, <2>4, PushedAt DEF GoodPipes
    <3>2. Ascending(NewQ(q, now + 1, Slots["imu.attitude"]), att.prev, now + 1)
      BY <1>1, <1>3, <2>1, <2>2, <2>3, AscendingPush
    <3> QED
      BY <1>1, <3>1, <3>2 DEF SampleInv
  <2>5. CASE "imu.attitude" \notin ts
    <3>1. pipe'["imu.attitude"].q = q
      <4>1. "imu.attitude" \in Topics \ ts /\ ts \in SUBSET Topics /\ pipe \in Pipes
        BY <1>0, <2>1, <2>5 DEF GoodPipes
      <4> QED
        BY <1>2, <1>3, <4>1, PushedAt
    <3>2. Ascending(q, att.prev, now + 1)
      BY <1>1, <2>3 DEF Ascending
    <3> QED
      BY <1>1, <3>1, <3>2 DEF SampleInv
  <2> QED
    BY <2>4, <2>5
<1>8. AttInv'
  <2>1. att.prev \in Nat
    BY <1>0 DEF TaskTypes, AttType
  <2> QED
    BY <1>0, <1>1, <2>1 DEF TimeInv, AttInv, AttitudeTimeExact
<1>9. VertOrder' /\ VertChain'
  BY <1>0, <1>1, <1>6 DEF TimeInv, VertOrder, VertChain, Since
<1>10. RangeInv' /\ AgeInv' /\ SlowInv'
  BY <1>1, <1>6 DEF IInv, RangeInv, RangePairHonest, AgeInv, DeadRangeDropped, SlowInv, In
<1>11. HealthInv'
  BY <1>0, SampleHealth DEF IInv
<1> QED
  BY <1>5, <1>7, <1>8, <1>9, <1>10, <1>11 DEF IInv, TimeInv

\* A slow reading, or a calibration that takes or gives back the sensor.
LEMMA SlowInvariant ==
    ASSUME IInv, BaroReading \/ RangeReading \/ CalibSwitch
    PROVE  IInv'
<1>1. /\ UNCHANGED <<platform, now, pipe, mag, lastMag, rhallOk, health, badRun, att, vert, vs, hist>>
      /\ baro \in Nat /\ range \in Nat
      /\ baro' \in Nat /\ range' \in Nat /\ calib' \in BOOLEAN /\ events' \in Nat
      /\ baro <= baro' /\ (range # 0 => range' # 0)
  <2>1. Happens(1) \/ Happens(0)
    BY DEF BaroReading, RangeReading, CalibSwitch
  <2>2. events' \in Nat
    BY <2>1, HappensType DEF IInv, Types, DriverTypes
  <2>3. baro \in Nat /\ range \in Nat /\ calib \in BOOLEAN
    BY DEF IInv, Types, DriverTypes
  <2>4. CASE BaroReading
    BY <2>2, <2>3, <2>4 DEF BaroReading, driver, tasks
  <2>5. CASE RangeReading
    BY <2>2, <2>3, <2>5 DEF RangeReading, driver, tasks
  <2>6. CASE CalibSwitch
    BY <2>2, <2>3, <2>6 DEF CalibSwitch, tasks
  <2> QED
    BY <2>4, <2>5, <2>6
<1>2. Types'
  BY <1>1 DEF IInv, Types, DriverTypes, TaskTypes
<1>3. TimeInv' /\ RangeInv'
  BY <1>1 DEF IInv, TimeInv, SampleInv, AttInv, AttitudeTimeExact, VertOrder, VertChain,
              Since, In, RangeInv, RangePairHonest
<1>4. AgeInv' /\ HealthInv'
  BY <1>1 DEF IInv, AgeInv, DeadRangeDropped, HealthInv, DegradedOnTime
<1>5. SlowInv'
  <2>1. vert.baroStamp \in Nat \union {None} /\ None \in Int
    BY DEF IInv, Types, TaskTypes, VertType, None
  <2> QED
    BY <1>1, <2>1 DEF IInv, SlowInv
<1> QED
  BY <1>2, <1>3, <1>4, <1>5 DEF IInv

\* A polling reader touches its own pipe only.
LEMMA PollInvariant ==
    ASSUME IInv, NEW t \in Polled, Poll(t)
    PROVE  IInv'
<1>1. GoodPipes(pipe) /\ t \in Counted \union {"est.perf"}
  BY SensorConstants DEF IInv, Types
<1>2. /\ UNCHANGED <<platform, now, driver, slowVars, tasks>>
      /\ pipe' = Popped(pipe, t) /\ pipe[t].q # <<>>
  BY DEF Poll
<1>3. /\ GoodPipes(pipe')
      /\ \A u \in Topics \ {t} : pipe'[u] = pipe[u]
  BY <1>1, <1>2, PoppedGood
<1>4. {"imu.attitude", "vert.input"} \subseteq Topics \ {t}
  BY <1>1 DEF Topics, Waited, Counted
<1>5. In' = In /\ pipe'["imu.attitude"] = pipe["imu.attitude"]
  BY <1>3, <1>4 DEF In
<1>6. UNCHANGED <<now, baro, range, badRun, events, mag, lastMag, rhallOk, calib, health, platform>>
  BY <1>2 DEF driver, slowVars
<1>7. UNCHANGED <<att, vert, vs, hist>>
  BY <1>2 DEF tasks
<1>8. Types'
  BY <1>3, <1>6, <1>7 DEF IInv, Types, DriverTypes, TaskTypes
<1>9. TimeInv' /\ RangeInv'
  BY <1>5, <1>6, <1>7 DEF IInv, TimeInv, SampleInv, AttInv, AttitudeTimeExact, VertOrder, VertChain,
              Since, RangeInv, RangePairHonest, In
<1>10. AgeInv' /\ HealthInv' /\ SlowInv'
  BY <1>6, <1>7 DEF IInv, AgeInv, DeadRangeDropped, HealthInv, DegradedOnTime, SlowInv
<1> QED
  BY <1>8, <1>9, <1>10 DEF IInv

\* Telemetry sends a vertical state it has not sent.
LEMMA VertPopInvariant ==
    ASSUME IInv, VertPop
    PROVE  IInv'
<1>1. vs \in VsType /\ hist \in HistType /\ vs.popped <= vs.seq /\ hist.sent <= vs.popped
  BY DEF IInv, Types, TaskTypes, SlowInv
<1>2. /\ vs.seq # vs.popped /\ vs' = [vs EXCEPT !.popped = vs.seq]
      /\ hist' = [hist EXCEPT !.sent = hist.sent + 1]
      /\ UNCHANGED <<platform, now, pipe, driver, slowVars, att, vert>>
  BY DEF VertPop
<1>3. vs' \in VsType /\ vs'.seq = vs.seq /\ vs'.popped = vs.seq /\ vs'.t = vs.t
      /\ vs'.tofValid = vs.tofValid
  BY <1>1, <1>2 DEF VsType
<1>4. hist' \in HistType
  BY <1>1, <1>2 DEF HistType
<1>5. /\ hist'.sent = hist.sent + 1 /\ hist'.cut = hist.cut /\ hist'.start = hist.start
      /\ hist'.attTotal = hist.attTotal /\ hist'.vertTotal = hist.vertTotal
      /\ hist'.vertT = hist.vertT /\ hist'.corrections = hist.corrections
      /\ hist'.pair = hist.pair /\ hist'.fed = hist.fed /\ hist'.hole = hist.hole
      /\ hist'.seen = hist.seen
  BY <1>1, <1>2 DEF HistType
<1>6. UNCHANGED <<now, baro, range, badRun, events, mag, lastMag, rhallOk, calib, health, platform>>
  BY <1>2 DEF driver, slowVars
<1>7. Types'
  BY <1>2, <1>3, <1>4, <1>6 DEF IInv, Types, DriverTypes, TaskTypes
<1>8. TimeInv' /\ RangeInv'
  BY <1>2, <1>3, <1>5, <1>6 DEF IInv, TimeInv, SampleInv, AttInv, AttitudeTimeExact, VertOrder,
              VertChain, Since, RangeInv, RangePairHonest, In
<1>9. AgeInv' /\ HealthInv'
  BY <1>2, <1>3, <1>5, <1>6 DEF IInv, AgeInv, DeadRangeDropped, HealthInv, DegradedOnTime
<1>10. SlowInv'
  <2>1. hist.sent \in Nat /\ vs.popped \in Nat /\ vs.seq \in Nat
    BY <1>1 DEF HistType, VsType
  <2>2. hist.sent + 1 <= vs.seq
    BY <1>1, <1>2, <2>1
  <2> QED
    BY <1>2, <1>3, <1>5, <1>6, <2>1, <2>2 DEF IInv, SlowInv
<1> QED
  BY <1>7, <1>8, <1>9, <1>10 DEF IInv

----------------------------------------------------------------------------
(* attitude_task *)

\* The sample it takes is later than the last one, its dt is exact unless the
\* gap is cut, and what still waits is later.
LEMMA AttitudeHead ==
    ASSUME IInv, NEW t, t = Received("imu.attitude"), pipe["imu.attitude"].q # <<>>
    PROVE  /\ t \in Nat /\ att.prev < t /\ t <= now /\ AttDt(t) \in Nat /\ StepDt(t) \in Nat
           /\ att.prev = 0 => AttDt(t) = 1 /\ ~Cut(t)
           /\ att.prev # 0 /\ ~Cut(t) => AttDt(t) = t - att.prev
           /\ Ascending(Tail(pipe["imu.attitude"].q), t, now)
           /\ GoodPipes(Taken("imu.attitude"))
           /\ Taken("imu.attitude")["imu.attitude"].q = Tail(pipe["imu.attitude"].q)
           /\ Taken("imu.attitude")["vert.input"] = In
<1> DEFINE q == pipe["imu.attitude"].q
<1>1. /\ GoodPipes(pipe) /\ q \in Seq(Msgs) /\ att.prev \in Nat /\ att.dtSum \in Nat /\ now \in Nat
      /\ Ascending(q, att.prev, now)
  BY SensorConstants DEF IInv, Types, DriverTypes, TaskTypes, GoodPipes, Pipes, Entries, Topics, Waited,
         AttType, TimeInv, SampleInv
<1>2. t \in Nat /\ att.prev < t /\ t <= now /\ Ascending(Tail(q), t, now)
  BY <1>1, AscendingTake DEF Received
<1>3. AttDt(t) \in Nat
  BY <1>1, <1>2, DtType DEF AttDt
<1>4. att.prev # 0 /\ ~Cut(t) => AttDt(t) = t - att.prev
  <2> SUFFICES ASSUME att.prev # 0, ~Cut(t) PROVE AttDt(t) = t - att.prev
    OBVIOUS
  <2>1. t - att.prev <= DtMax
    BY <1>1, <1>2, SensorConstants DEF Cut
  <2> QED
    BY <1>1, <1>2, <2>1, DtExact DEF AttDt
<1>5. /\ GoodPipes(Taken("imu.attitude"))
      /\ Taken("imu.attitude")["imu.attitude"].q = Tail(q)
      /\ Taken("imu.attitude")["vert.input"] = In
  <2>1. "imu.attitude" \in Waited /\ "vert.input" \in Topics \ {"imu.attitude"}
    BY DEF Topics, Waited
  <2> QED
    BY <1>1, <2>1, TakenGood DEF In
<1> QED
  BY <1>1, <1>2, <1>3, <1>4, <1>5 DEF StepDt, AttDt, Cut

\* What both steps of the task write into the history.
AttHist(t, total) ==
    [hist EXCEPT !.cut = hist.cut \/ Cut(t),
                 !.start = IF att.prev = 0 THEN t - 1 ELSE hist.start,
                 !.attTotal = total]
LEMMA AttHistType ==
    ASSUME TaskTypes, NEW t \in Nat, att.prev < t, NEW total \in Nat, hist' = AttHist(t, total)
    PROVE  /\ hist' \in HistType
           /\ hist'.cut <=> hist.cut \/ Cut(t)
           /\ hist'.start = IF att.prev = 0 THEN t - 1 ELSE hist.start
           /\ hist'.attTotal = total
           /\ hist'.vertTotal = hist.vertTotal /\ hist'.vertT = hist.vertT
           /\ hist'.corrections = hist.corrections /\ hist'.sent = hist.sent
           /\ hist'.pair = hist.pair /\ hist'.fed = hist.fed /\ hist'.hole = hist.hole
           /\ hist'.seen = hist.seen
<1> DEFINE c == hist.cut \/ Cut(t)
           s == IF att.prev = 0 THEN t - 1 ELSE hist.start
<1>1. hist \in HistType /\ att.prev \in Nat
  BY DEF TaskTypes, AttType
<1>2. c \in BOOLEAN /\ s \in Nat
  BY <1>1 DEF HistType
<1>3. hist' = [hist EXCEPT !.cut = c, !.start = s, !.attTotal = total]
  BY DEF AttHist
<1>4. (c <=> hist.cut \/ Cut(t)) /\ s = IF att.prev = 0 THEN t - 1 ELSE hist.start
  BY <1>1 DEF HistType
<1> HIDE DEF c, s
<1>5. hist' \in HistType
  BY <1>1, <1>2, <1>3 DEF HistType
<1>6. hist'.cut = c /\ hist'.start = s /\ hist'.attTotal = total
  BY <1>1, <1>3 DEF HistType
<1>7. /\ hist'.vertTotal = hist.vertTotal /\ hist'.vertT = hist.vertT
      /\ hist'.corrections = hist.corrections /\ hist'.sent = hist.sent
      /\ hist'.pair = hist.pair /\ hist'.fed = hist.fed /\ hist'.hole = hist.hole
      /\ hist'.seen = hist.seen
  BY <1>1, <1>3 DEF HistType
<1> QED
  BY <1>4, <1>5, <1>6, <1>7

\* The window of an estimate is the time since the last one, or since the first
\* sample; the windows add up.
LEMMA WindowExact ==
    ASSUME IInv, NEW t, t = Received("imu.attitude"), pipe["imu.attitude"].q # <<>>,
           ~hist.cut, ~Cut(t)
    PROVE  LET start == IF att.prev = 0 THEN t - 1 ELSE hist.start
           IN  /\ StepDt(t) = t - (IF att.out = 0 THEN start ELSE att.out)
               /\ hist.attTotal + StepDt(t) = t - start
<1> DEFINE prev == att.prev
           out == att.out
           dt == AttDt(t)
           sum == att.dtSum
           total == hist.attTotal
           first == hist.start
<1>1. /\ t \in Nat /\ prev < t /\ dt \in Nat
      /\ prev = 0 => dt = 1
      /\ prev # 0 => dt = t - prev
  BY AttitudeHead
<1>2. prev \in Nat /\ sum \in Nat /\ out \in Nat /\ first \in Nat /\ total \in Nat
  BY DEF IInv, Types, TaskTypes, AttType, HistType
<1>3. /\ out <= prev
      /\ prev = 0 => sum = 0 /\ total = 0
      /\ total + sum = prev - first
      /\ prev # 0 => sum = prev - (IF out = 0 THEN first ELSE out)
  BY DEF IInv, TimeInv, AttInv, AttitudeTimeExact
<1>4. StepDt(t) = sum + dt
  BY DEF StepDt
<1> HIDE DEF prev, out, dt, sum, total, first
<1> DEFINE start == IF prev = 0 THEN t - 1 ELSE first
<1>5. /\ sum + dt = t - (IF out = 0 THEN start ELSE out)
      /\ total + (sum + dt) = t - start
  <2>1. start = IF prev = 0 THEN t - 1 ELSE first
    OBVIOUS
  <2> HIDE DEF start
  <2>2. CASE prev = 0
    <3>1. out = 0 /\ start = t - 1 /\ sum = 0 /\ total = 0 /\ dt = 1
      BY <1>1, <1>2, <1>3, <2>1, <2>2
    <3> QED
      BY <3>1, <1>1
  <2>3. CASE prev # 0
    <3>1. start = first /\ dt = t - prev /\ total + sum = prev - first
      BY <1>1, <1>3, <2>1, <2>3
    <3>2. sum = prev - (IF out = 0 THEN start ELSE out)
      BY <1>3, <2>3, <3>1
    <3>3. /\ t \in Int /\ prev \in Int /\ sum \in Int /\ total \in Int /\ first \in Int /\ out \in Int
          /\ dt \in Int /\ start \in Int
      BY <1>1, <1>2, <3>1
    <3>4. total + (sum + dt) = t - start
      BY <3>1, <3>3
    <3>5. sum + dt = t - (IF out = 0 THEN start ELSE out)
      <4>1. CASE out = 0
        BY <3>1, <3>2, <3>3, <4>1
      <4>2. CASE out # 0
        BY <3>1, <3>2, <3>3, <4>2
      <4> QED
        BY <4>1, <4>2
    <3> QED
      BY <3>4, <3>5
  <2> QED
    BY <2>2, <2>3
<1> QED
  BY <1>4, <1>5 DEF prev, out, dt, sum, total, first

\* Before the first estimate nothing waits for the vertical task.
LEMMA NothingYet ==
    ASSUME IInv
    PROVE  /\ In.q \in Seq(Msgs) /\ In.gone \in Nat /\ In.missed \in Nat
           /\ In.q # <<>> => att.out # 0 /\ att.prev # 0
           /\ hist.vertT # 0 => att.out # 0 /\ att.prev # 0
<1>1. In.q \in Seq(Msgs) /\ In.gone \in Nat /\ In.missed \in Nat
  BY DEF IInv, Types, GoodPipes, Pipes, Entries, Topics, Waited, In
<1>2. /\ InputsFor(In.q, hist.vertT, att.out) /\ hist.vertT <= att.out /\ att.out <= att.prev
      /\ hist.vertT \in Nat /\ att.out \in Nat /\ att.prev \in Nat
  BY DEF IInv, TimeInv, VertOrder, AttInv, Types, TaskTypes, AttType, HistType
<1>3. In.q # <<>> => hist.vertT < In.q[1].t /\ In.q[1].t <= att.out /\ In.q[1] \in VertInputs
  BY <1>1, <1>2, InputsTake
<1>4. In.q # <<>> => In.q[1].t \in Nat
  BY <1>3 DEF VertInputs
<1> QED
  BY <1>1, <1>2, <1>3, <1>4

\* A sample before the estimate is due.
LEMMA AccumulateInvariant ==
    ASSUME IInv, AttitudeAccumulate
    PROVE  IInv'
<1> DEFINE t == Received("imu.attitude")
<1>0. pipe["imu.attitude"].q # <<>>
  BY DEF AttitudeAccumulate
<1>1. /\ t \in Nat /\ att.prev < t /\ t <= now /\ AttDt(t) \in Nat
      /\ Ascending(Tail(pipe["imu.attitude"].q), t, now)
      /\ GoodPipes(pipe')
      /\ pipe'["imu.attitude"].q = Tail(pipe["imu.attitude"].q)
      /\ In' = In
  BY <1>0, AttitudeHead DEF AttitudeAccumulate, In
<1>2. /\ att \in AttType /\ att.n + 1 < Decim /\ hist \in HistType /\ TaskTypes
      /\ att' = [att EXCEPT !.prev = t, !.n = att.n + 1, !.dtSum = att.dtSum + AttDt(t)]
  BY DEF AttitudeAccumulate, IInv, Types, TaskTypes
<1>3. hist' = AttHist(t, hist.attTotal)
  BY <1>2 DEF AttitudeAccumulate, AttHist, HistType
<1>4. UNCHANGED <<platform, now, mag, lastMag, rhallOk, calib, health, badRun, baro, range, events, vert, vs>>
  BY DEF AttitudeAccumulate, driver, slowVars
<1> HIDE DEF t
<1>5. att' \in AttType
  <2> DEFINE n == att.n + 1
             d == att.dtSum + AttDt(t)
  <2>1. n \in 0 .. Decim - 1 /\ d \in Nat
    BY <1>1, <1>2, SensorConstants DEF AttType
  <2> HIDE DEF n, d
  <2>2. att' = [att EXCEPT !.prev = t, !.n = n, !.dtSum = d]
    BY <1>2 DEF n, d
  <2> QED
    BY <1>1, <1>2, <2>1, <2>2 DEF AttType
<1>6. /\ att'.prev = t /\ att'.dtSum = StepDt(t) /\ att'.out = att.out
  BY <1>1, <1>2 DEF AttType, StepDt
<1>7. hist.attTotal \in Nat
  BY <1>2 DEF HistType
<1>8. /\ hist' \in HistType
      /\ hist'.cut <=> hist.cut \/ Cut(t)
      /\ hist'.start = IF att.prev = 0 THEN t - 1 ELSE hist.start
      /\ hist'.attTotal = hist.attTotal
      /\ hist'.vertTotal = hist.vertTotal /\ hist'.vertT = hist.vertT
      /\ hist'.corrections = hist.corrections /\ hist'.sent = hist.sent
      /\ hist'.pair = hist.pair /\ hist'.fed = hist.fed /\ hist'.hole = hist.hole
      /\ hist'.seen = hist.seen
  BY <1>1, <1>2, <1>3, <1>7, AttHistType
<1>9. Types'
  BY <1>1, <1>2, <1>4, <1>5, <1>8 DEF IInv, Types, DriverTypes, TaskTypes
<1>10. SampleInv'
  BY <1>1, <1>4, <1>6 DEF SampleInv
<1>11. AttInv'
  <2>1. ~hist'.cut => /\ StepDt(t) = t - (IF att.out = 0 THEN hist'.start ELSE att.out)
                      /\ hist.attTotal + StepDt(t) = t - hist'.start
    BY <1>0, <1>8, WindowExact DEF t
  <2>2. att.out <= att.prev /\ att.out \in Nat /\ att.prev \in Nat
    BY <1>2 DEF IInv, TimeInv, AttInv, AttType
  <2> QED
    BY <1>1, <1>4, <1>6, <1>8, <2>1, <2>2 DEF AttInv, AttitudeTimeExact
<1>12. VertOrder'
  BY <1>1, <1>4, <1>6, <1>8 DEF IInv, TimeInv, VertOrder
<1>13. VertChain'
  <2>1. /\ In.q # <<>> => hist'.start = hist.start
        /\ hist.vertT # 0 => hist'.start = hist.start
    BY <1>8, NothingYet
  <2>2. ~hist'.cut => VertChain /\ ~hist.cut
    BY <1>8 DEF IInv, TimeInv
  <2> QED
    BY <1>1, <1>8, <2>1, <2>2 DEF VertChain, Since
<1>14. RangeInv'
  BY <1>1, <1>4, <1>8 DEF IInv, RangeInv, RangePairHonest, In
<1>15. AgeInv' /\ SlowInv' /\ HealthInv'
  BY <1>4, <1>8 DEF IInv, AgeInv, DeadRangeDropped, SlowInv, HealthInv, DegradedOnTime
<1> QED
  BY <1>9, <1>10, <1>11, <1>12, <1>13, <1>14, <1>15 DEF IInv, TimeInv

\* A publication in topics no task waits on.
LEMMA ElsewherePushed ==
    ASSUME NEW pp, GoodPipes(pp), NEW ts \in SUBSET (Topics \ Waited), NEW m \in Msgs
    PROVE  /\ GoodPipes(Pushed(pp, ts, m))
           /\ Pushed(pp, ts, m)["imu.attitude"] = pp["imu.attitude"]
           /\ Pushed(pp, ts, m)["vert.input"] = pp["vert.input"]
<1>1. pp \in Pipes /\ ts \in SUBSET Topics /\ {"imu.attitude", "vert.input"} \subseteq Topics \ ts
  BY DEF GoodPipes, Topics, Waited
<1>2. GoodPipes(Pushed(pp, ts, m))
  BY <1>1, PushedGood
<1>3. \A t \in Topics \ ts : Pushed(pp, ts, m)[t] = pp[t]
  BY <1>1, PushedAt
<1> QED
  BY <1>1, <1>2, <1>3

\* The estimator step publishes the estimate elsewhere, and its window to the
\* vertical task.
LEMMA StepShape ==
    ASSUME IInv, AttitudeStep, NEW t, t = Received("imu.attitude")
    PROVE  /\ GoodPipes(pipe')
           /\ pipe'["imu.attitude"].q = Tail(pipe["imu.attitude"].q)
           /\ In'.q = NewQ(In.q, VertInput(t), Slots["vert.input"])
           /\ In'.gone = NewGone(In, Slots["vert.input"])
           /\ In'.missed = In.missed
           /\ VertInput(t) \in VertInputs
<1> DEFINE due == att.perf + 1 = PerfEvery
           read == Taken("imu.attitude")
           perf == IF due THEN Pushed(read, {"est.perf"}, t) ELSE read
           euler == Pushed(perf, {"att.telemetry", "att.control"}, t)
<1>0. pipe["imu.attitude"].q # <<>> /\ pipe' = Pushed(euler, {"vert.input"}, VertInput(t))
  BY DEF AttitudeStep
<1>1. t \in Nat /\ StepDt(t) \in Nat /\ GoodPipes(read)
      /\ read["imu.attitude"].q = Tail(pipe["imu.attitude"].q) /\ read["vert.input"] = In
  BY <1>0, AttitudeHead
<1>2. t \in Msgs /\ VertInput(t) \in VertInputs /\ VertInput(t) \in Msgs
  BY <1>1 DEF Msgs, VertInputs, VertInput
<1>3. {"est.perf"} \in SUBSET (Topics \ Waited)
      /\ {"att.telemetry", "att.control"} \in SUBSET (Topics \ Waited)
      /\ "vert.input" \in Topics /\ "imu.attitude" \in Topics \ {"vert.input"}
  BY DEF Topics, Waited, Counted
<1> HIDE DEF read
<1>4. GoodPipes(perf) /\ perf["imu.attitude"] = read["imu.attitude"] /\ perf["vert.input"] = In
  <2>1. CASE due
    BY <1>1, <1>2, <1>3, <2>1, ElsewherePushed
  <2>2. CASE ~due
    BY <1>1, <2>2
  <2> QED
    BY <2>1, <2>2
<1> HIDE DEF perf
<1>5. GoodPipes(euler) /\ euler["imu.attitude"] = read["imu.attitude"] /\ euler["vert.input"] = In
  BY <1>2, <1>3, <1>4, ElsewherePushed
<1> HIDE DEF euler
<1>6. /\ GoodPipes(pipe')
      /\ pipe'["imu.attitude"] = euler["imu.attitude"]
      /\ pipe'["vert.input"].q = NewQ(In.q, VertInput(t), Slots["vert.input"])
      /\ pipe'["vert.input"].gone = NewGone(In, Slots["vert.input"])
      /\ pipe'["vert.input"].missed = In.missed
  <2>1. {"vert.input"} \in SUBSET Topics /\ "vert.input" \in {"vert.input"} /\ euler \in Pipes
    BY <1>3, <1>5 DEF GoodPipes
  <2>2. GoodPipes(pipe')
    BY <1>0, <1>2, <1>5, <2>1, PushedGood
  <2> DEFINE new == Pushed(euler, {"vert.input"}, VertInput(t))
  <2>3. /\ \A u \in Topics \ {"vert.input"} : new[u] = euler[u]
        /\ \A u \in {"vert.input"} :
                /\ new[u].q = NewQ(euler[u].q, VertInput(t), Slots[u])
                /\ new[u].gone = NewGone(euler[u], Slots[u])
                /\ new[u].missed = euler[u].missed
    BY <1>2, <2>1, PushedAt
  <2> HIDE DEF new
  <2>4. pipe' = new
    BY <1>0 DEF new
  <2> QED
    BY <1>3, <1>5, <2>2, <2>3, <2>4
<1> QED
  BY <1>1, <1>2, <1>5, <1>6 DEF In

\* The estimator step.
LEMMA StepInvariant ==
    ASSUME IInv, AttitudeStep
    PROVE  IInv'
<1> DEFINE t == Received("imu.attitude")
           m == VertInput(t)
           q == In.q
           slots == Slots["vert.input"]
<1>0. pipe["imu.attitude"].q # <<>>
  BY DEF AttitudeStep
<1>1. /\ t \in Nat /\ att.prev < t /\ t <= now /\ StepDt(t) \in Nat
      /\ Ascending(Tail(pipe["imu.attitude"].q), t, now)
  BY <1>0, AttitudeHead
<1>2. /\ GoodPipes(pipe')
      /\ pipe'["imu.attitude"].q = Tail(pipe["imu.attitude"].q)
      /\ In'.q = NewQ(q, m, slots)
      /\ In'.gone = NewGone(In, slots)
      /\ In'.missed = In.missed
      /\ m \in VertInputs /\ m.t = t /\ m.dt = StepDt(t)
  BY StepShape DEF VertInput
<1>3. att \in AttType /\ hist \in HistType /\ TaskTypes /\ hist.attTotal \in Nat
  BY DEF IInv, Types, TaskTypes, HistType
<1>4. /\ att' = [prev |-> t, n |-> 0, dtSum |-> 0, out |-> t,
                  perf |-> IF att.perf + 1 = PerfEvery THEN 0 ELSE att.perf + 1]
      /\ UNCHANGED <<platform, now, mag, lastMag, rhallOk, calib, health, badRun, baro, range,
                     events, vert, vs>>
  BY DEF AttitudeStep, driver, slowVars
<1>5. hist' = AttHist(t, hist.attTotal + StepDt(t))
  BY <1>3 DEF AttitudeStep, AttHist, HistType
<1>6. q \in Seq(Msgs) /\ slots \in Nat \ {0} /\ In.gone \in Nat
  BY SensorConstants, NothingYet DEF Topics, Waited
<1>20. /\ ~hist.cut /\ ~Cut(t) =>
            LET start == IF att.prev = 0 THEN t - 1 ELSE hist.start
            IN  /\ StepDt(t) = t - (IF att.out = 0 THEN start ELSE att.out)
                /\ hist.attTotal + StepDt(t) = t - start
  BY <1>0, WindowExact
<1> HIDE DEF t, m, q, slots
<1>7. att' \in AttType /\ att'.prev = t /\ att'.out = t /\ att'.dtSum = 0
  <2>1. (IF att.perf + 1 = PerfEvery THEN 0 ELSE att.perf + 1) \in 0 .. PerfEvery - 1
    BY <1>3, SensorConstants DEF AttType
  <2>2. 0 \in 0 .. Decim - 1
    BY SensorConstants
  <2> QED
    BY <1>1, <1>4, <2>1, <2>2 DEF AttType
<1>8. /\ hist' \in HistType
      /\ hist'.cut <=> hist.cut \/ Cut(t)
      /\ hist'.start = IF att.prev = 0 THEN t - 1 ELSE hist.start
      /\ hist'.attTotal = hist.attTotal + StepDt(t)
      /\ hist'.vertTotal = hist.vertTotal /\ hist'.vertT = hist.vertT
      /\ hist'.corrections = hist.corrections /\ hist'.sent = hist.sent
      /\ hist'.pair = hist.pair /\ hist'.fed = hist.fed /\ hist'.hole = hist.hole
      /\ hist'.seen = hist.seen
  <2>1. hist.attTotal + StepDt(t) \in Nat
    BY <1>1, <1>3
  <2> QED
    BY <1>1, <1>3, <1>5, <2>1, AttHistType
<1>9. Types'
  BY <1>2, <1>3, <1>4, <1>7, <1>8 DEF IInv, Types, DriverTypes, TaskTypes
<1>10. SampleInv'
  BY <1>1, <1>2, <1>4, <1>7 DEF SampleInv
<1>11. ~hist'.cut => /\ StepDt(t) = t - (IF att.out = 0 THEN hist'.start ELSE att.out)
                     /\ hist'.attTotal = t - hist'.start
  BY <1>8, <1>20
<1>12. AttInv'
  <2>1. ~hist'.cut => hist'.attTotal + 0 = t - hist'.start
    <3>1. hist'.attTotal \in Nat
      BY <1>8 DEF HistType
    <3> QED
      BY <1>11, <3>1
  <2>2. 0 = t - t /\ t # 0 /\ now' = now
    BY <1>1, <1>3, <1>4 DEF AttType
  <2> QED
    BY <1>1, <1>7, <2>1, <2>2 DEF AttInv, AttitudeTimeExact
<1>13. /\ hist.vertT <= att.out /\ att.out < t /\ hist.vertT \in Nat /\ att.out \in Nat
       /\ InputsFor(q, hist.vertT, att.out) /\ vs.t = hist.vertT
       /\ q = <<>> => In.gone = 0
  BY <1>1, <1>3 DEF IInv, TimeInv, VertOrder, AttInv, AttType, HistType, q
<1>14. /\ InputsFor(NewQ(q, m, slots), hist.vertT, t)
       /\ Linked(q) /\ (q # <<>> => m.dt = m.t - q[Len(q)].t) => Linked(NewQ(q, m, slots))
  BY <1>2, <1>6, <1>13, InputsPush
<1>15. m \in Msgs
  BY <1>2 DEF Msgs
<1>16. NewQ(q, m, slots) # <<>>
  BY <1>6, <1>15, NewQAt
<1>17. VertOrder'
  BY <1>1, <1>2, <1>4, <1>7, <1>8, <1>13, <1>14, <1>16 DEF VertOrder
<1>18. VertChain'
  <2> SUFFICES ASSUME ~hist'.cut PROVE VertChain'
    BY DEF VertChain
  <2>0. VertChain /\ ~hist.cut
    BY <1>8 DEF IInv, TimeInv
  <2>1. /\ q # <<>> => att.out # 0 /\ hist'.start = hist.start
        /\ hist.vertT # 0 => att.out # 0 /\ hist'.start = hist.start
    BY <1>8, NothingYet DEF q
  <2>2. Linked(NewQ(q, m, slots))
    <3>1. q # <<>> => q[Len(q)].t = att.out
      BY <1>13 DEF InputsFor
    <3>2. q # <<>> => m.dt = m.t - q[Len(q)].t
      BY <1>2, <1>11, <2>1, <3>1
    <3>3. Linked(q)
      BY <2>0 DEF VertChain, q
    <3> QED
      BY <1>14, <3>2, <3>3
  <2>3. ASSUME In'.gone = 0
        PROVE  NewQ(q, m, slots)[1].dt = NewQ(q, m, slots)[1].t - Since'
    <3>1. Size(In) < slots /\ In.gone = 0 /\ Size(In) = Len(q)
      BY <1>2, <1>6, <2>3 DEF NewGone, Size, q
    <3>2. CASE q = <<>>
      <4>1. NewQ(q, m, slots)[1] = m
        <5>1. Len(q) = 0
          BY <3>2, EmptySeq
        <5>2. Len(NewQ(q, m, slots)) = 1
          <6> DEFINE l == Len(q)
                     k == Len(NewQ(q, m, slots))
          <6>1. k = IF l < slots THEN l + 1 ELSE l
            BY <1>6, <1>15, NewQAt
          <6> HIDE DEF k
          <6>2. k = IF 0 < slots THEN 0 + 1 ELSE 0
            BY <5>1, <6>1
          <6>3. k = 1
            BY <1>6, <6>2
          <6> QED
            BY <6>3 DEF k
        <5>3. NewQ(q, m, slots)[Len(NewQ(q, m, slots))] = m
          BY <1>6, <1>15, NewQAt
        <5> QED
          BY <5>2, <5>3
      <4>2. hist.vertT = att.out
        BY <1>13, <3>2 DEF InputsFor
      <4> QED
        BY <1>2, <1>8, <1>11, <4>1, <4>2 DEF Since
    <3>3. CASE q # <<>>
      <4>1. NewQ(q, m, slots)[1] = q[1]
        <5> DEFINE l == Len(q)
        <5>1. l \in Nat \ {0} /\ l < slots
          BY <1>6, <3>1, <3>3, EmptySeq
        <5>2. Len(NewQ(q, m, slots)) = l + 1
              /\ \A i \in 1 .. Len(NewQ(q, m, slots)) - 1 : NewQ(q, m, slots)[i] = q[i]
          BY <1>6, <1>15, <5>1, NewQAt
        <5> HIDE DEF l
        <5> QED
          BY <5>1, <5>2
      <4>2. q[1].dt = q[1].t - Since
        BY <2>0, <3>1, <3>3 DEF VertChain, q
      <4> QED
        BY <1>8, <2>1, <3>3, <4>1, <4>2 DEF Since
    <3> QED
      BY <3>2, <3>3
  <2>4. In'.missed = 0 =>
           hist'.vertTotal = hist'.vertT - (IF hist'.vertT = 0 THEN 0 ELSE hist'.start)
    BY <1>2, <1>8, <2>0, <2>1 DEF VertChain
  <2> QED
    BY <1>2, <2>2, <2>3, <2>4 DEF VertChain
<1>19. RangeInv'
  BY <1>2, <1>4, <1>8 DEF IInv, RangeInv, RangePairHonest, In
<1>21. AgeInv' /\ SlowInv' /\ HealthInv'
  BY <1>4, <1>8 DEF IInv, AgeInv, DeadRangeDropped, SlowInv, HealthInv, DegradedOnTime
<1> QED
  BY <1>9, <1>10, <1>12, <1>17, <1>18, <1>19, <1>21 DEF IInv, TimeInv

----------------------------------------------------------------------------
(* vertical_estimator_task *)

\* The input it takes.
LEMMA VerticalHead ==
    ASSUME IInv, NEW in, in = Received("vert.input"), In.q # <<>>
    PROVE  /\ in = In.q[1] /\ in \in VertInputs /\ in.t \in Nat /\ in.dt \in Nat
           /\ hist.vertT < in.t /\ in.t <= att.out
           /\ InputsFor(Tail(In.q), in.t, att.out)
           /\ Linked(In.q) => /\ Linked(Tail(In.q))
                              /\ Tail(In.q) # <<>> => Tail(In.q)[1].dt = Tail(In.q)[1].t - in.t
           /\ GoodPipes(Taken("vert.input"))
           /\ Taken("vert.input")["imu.attitude"] = pipe["imu.attitude"]
           /\ Taken("vert.input")["vert.input"].q = Tail(In.q)
           /\ Taken("vert.input")["vert.input"].gone = 0
           /\ Taken("vert.input")["vert.input"].missed = In.missed + In.gone
<1>1. /\ In.q \in Seq(Msgs) /\ hist.vertT \in Nat /\ att.out \in Nat
      /\ InputsFor(In.q, hist.vertT, att.out) /\ GoodPipes(pipe)
  BY NothingYet DEF IInv, Types, TaskTypes, AttType, HistType, TimeInv, VertOrder
<1>2. in = Head(In.q)
  BY DEF Received, In
<1>3. /\ in = In.q[1] /\ in \in VertInputs /\ hist.vertT < in.t /\ in.t <= att.out
      /\ InputsFor(Tail(In.q), in.t, att.out)
      /\ Linked(In.q) => /\ Linked(Tail(In.q))
                         /\ Tail(In.q) # <<>> => Tail(In.q)[1].dt = Tail(In.q)[1].t - in.t
  BY <1>1, <1>2, InputsTake
<1>4. in.t \in Nat /\ in.dt \in Nat
  BY <1>3 DEF VertInputs
<1>5. "vert.input" \in Waited /\ "imu.attitude" \in Topics \ {"vert.input"}
  BY DEF Topics, Waited
<1>6. /\ GoodPipes(Taken("vert.input"))
      /\ Taken("vert.input")["imu.attitude"] = pipe["imu.attitude"]
      /\ Taken("vert.input")["vert.input"].q = Tail(In.q)
      /\ Taken("vert.input")["vert.input"].gone = 0
      /\ Taken("vert.input")["vert.input"].missed = In.missed + In.gone
  BY <1>1, <1>5, TakenGood DEF In
<1> QED
  BY <1>3, <1>4, <1>6

\* What a turn of the task writes into the history.
VertHist(total, t, corrections, pair, fed, hole, seen) ==
    [hist EXCEPT !.vertTotal = total, !.vertT = t, !.corrections = corrections,
                 !.pair = pair, !.fed = fed, !.hole = hole, !.seen = seen]
\* A turn of the task, field by field: a reading is fed to the filter when it is
\* trusted and new, and a pair needs an unbroken chain.
FedIn(tofValid) == tofValid /\ RangeFresh
TurnDt(in) == vert.tofDt + in.dt
PairedIn(tofValid, in) ==
    FedIn(tofValid) /\ (IF BaroDue THEN TRUE ELSE vert.seeded) /\ TurnDt(in) <= MaxGap /\ vert.havePrev
PairOf(tofValid, in) ==
    IF PairedIn(tofValid, in)
    THEN <<[dt |-> TurnDt(in), real |-> in.t - hist.fed, hole |-> hist.hole]>> ELSE <<>>

LEMMA TurnVert ==
    ASSUME vert \in VertType, baro \in Nat, range \in Nat,
           NEW tofValid \in BOOLEAN, NEW velOk \in BOOLEAN,
           VerticalTurn(tofValid, velOk), NEW in, in = Received("vert.input"),
           in.t \in Nat, in.dt \in Nat
    PROVE  /\ vert' \in VertType
           /\ vert'.baroStamp = IF BaroDue THEN baro ELSE vert.baroStamp
           /\ vert'.tofStamp = IF RangeFresh THEN range ELSE vert.tofStamp
           /\ vert'.tofAge = TofAge
           /\ vert'.tofDt = IF FedIn(tofValid) THEN 0 ELSE TurnDt(in)
           /\ vert'.havePrev /\ ~FedIn(tofValid) => tofValid /\ vert.havePrev
<1> DEFINE fed == FedIn(tofValid)
           seeded == IF BaroDue THEN TRUE ELSE vert.seeded
           baroStamp == IF BaroDue THEN baro ELSE vert.baroStamp
           tofStamp == IF RangeFresh THEN range ELSE vert.tofStamp
           age == TofAge
           tofDt == IF fed THEN 0 ELSE TurnDt(in)
           chained == Chained(fed, tofValid, seeded, TurnDt(in), velOk)
<1>1. vert' = [seeded |-> seeded, baroStamp |-> baroStamp, tofStamp |-> tofStamp,
               tofAge |-> age, tofDt |-> tofDt, havePrev |-> chained]
  BY DEF VerticalTurn, FedIn, TurnDt
<1>2. seeded \in BOOLEAN
  BY DEF VertType
<1>3. baroStamp \in Nat \union {None} /\ tofStamp \in Nat \union {None}
  BY DEF VertType
<1>4. age \in 0 .. StaleSteps
  BY SensorConstants DEF TofAge, VertType
<1>5. tofDt \in Nat
  BY DEF VertType, TurnDt
<1>6. chained \in BOOLEAN
  <2> HIDE DEF seeded, fed
  <2> QED
    BY <1>2 DEF Chained, VertType
<1>7. chained /\ ~fed => tofValid /\ vert.havePrev
  <2> HIDE DEF seeded, fed
  <2> QED
    BY DEF Chained
<1> HIDE DEF seeded, baroStamp, tofStamp, age, tofDt, chained
<1>8. vert' \in VertType
  BY <1>1, <1>2, <1>3, <1>4, <1>5, <1>6 DEF VertType
<1>9. /\ vert'.baroStamp = baroStamp /\ vert'.tofStamp = tofStamp /\ vert'.tofAge = age
      /\ vert'.tofDt = tofDt /\ vert'.havePrev = chained
  BY <1>1
<1> QED
  BY <1>7, <1>8, <1>9 DEF baroStamp, tofStamp, age, tofDt

LEMMA TurnVs ==
    ASSUME vs \in VsType, vert \in VertType,
           NEW tofValid \in BOOLEAN, NEW velOk \in BOOLEAN,
           VerticalTurn(tofValid, velOk), NEW in, in = Received("vert.input"), in.t \in Nat
    PROVE  /\ vs' \in VsType /\ vs'.t = in.t /\ vs'.tofValid = tofValid
           /\ vs'.seq = vs.seq + 1 /\ vs'.popped = vs.popped
<1> DEFINE seeded == IF BaroDue THEN TRUE ELSE vert.seeded
<1>1. vs' = [seq |-> vs.seq + 1, popped |-> vs.popped, t |-> in.t,
             tofValid |-> tofValid, valid |-> seeded]
  BY DEF VerticalTurn, VertPush
<1>2. seeded \in BOOLEAN
  BY DEF VertType
<1> HIDE DEF seeded
<1> QED
  BY <1>1, <1>2 DEF VsType

LEMMA TurnHist ==
    ASSUME hist \in HistType, vert \in VertType,
           NEW tofValid \in BOOLEAN, NEW velOk \in BOOLEAN,
           VerticalTurn(tofValid, velOk), NEW in, in = Received("vert.input"),
           in.t \in Nat, in.dt \in Nat
    PROVE  /\ hist' \in HistType
           /\ hist'.vertTotal = hist.vertTotal + in.dt /\ hist'.vertT = in.t
           /\ hist'.corrections = IF BaroDue THEN hist.corrections + 1 ELSE hist.corrections
           /\ hist'.pair = PairOf(tofValid, in)
           /\ hist'.fed = IF FedIn(tofValid) THEN in.t ELSE hist.fed
           /\ hist'.hole <=> IF FedIn(tofValid) THEN FALSE ELSE tofValid => hist.hole
           /\ hist'.seen = IF RangeFresh THEN 0
                           ELSE IF hist.seen < StaleSteps THEN hist.seen + 1 ELSE hist.seen
           /\ hist'.cut = hist.cut /\ hist'.start = hist.start
           /\ hist'.attTotal = hist.attTotal /\ hist'.sent = hist.sent
<1> DEFINE total == hist.vertTotal + in.dt
           corrections == IF BaroDue THEN hist.corrections + 1 ELSE hist.corrections
           fed == IF FedIn(tofValid) THEN in.t ELSE hist.fed
           hole == IF FedIn(tofValid) THEN FALSE ELSE IF tofValid THEN hist.hole ELSE TRUE
           seen == IF RangeFresh THEN 0
                   ELSE IF hist.seen < StaleSteps THEN hist.seen + 1 ELSE hist.seen
           pair == PairOf(tofValid, in)
<1>1. hist' = VertHist(total, in.t, corrections, pair, fed, hole, seen)
  BY DEF VerticalTurn, VertHist, PairOf, PairedIn, FedIn, TurnDt
<1>2. total \in Nat /\ corrections \in Nat /\ fed \in Nat
  BY DEF HistType
<1>7. hole \in BOOLEAN
  BY DEF HistType
<1>3. seen \in 0 .. StaleSteps
  BY SensorConstants DEF HistType
<1>4. pair \in Seq(Pairs)
  <2> DEFINE p == [dt |-> TurnDt(in), real |-> in.t - hist.fed, hole |-> hist.hole]
  <2>1. p \in Pairs
    <3>1. TurnDt(in) \in Nat
      BY DEF TurnDt, VertType
    <3>2. in.t - hist.fed \in Int /\ hist.hole \in BOOLEAN
      BY DEF HistType
    <3> QED
      BY <3>1, <3>2 DEF Pairs
  <2> HIDE DEF p
  <2>2. <<p>> \in Seq(Pairs) /\ <<>> \in Seq(Pairs)
    BY <2>1, EmptySeq
  <2>3. pair = IF PairedIn(tofValid, in) THEN <<p>> ELSE <<>>
    BY DEF PairOf, p
  <2> QED
    BY <2>2, <2>3
<1>5. hole <=> IF FedIn(tofValid) THEN FALSE ELSE tofValid => hist.hole
  BY DEF HistType
<1> HIDE DEF total, corrections, fed, hole, seen, pair
<1>6. hist' \in HistType
  BY <1>1, <1>2, <1>3, <1>4, <1>7 DEF VertHist, HistType
<1>8. /\ hist'.vertTotal = total /\ hist'.vertT = in.t /\ hist'.corrections = corrections
      /\ hist'.pair = pair /\ hist'.fed = fed /\ hist'.hole = hole /\ hist'.seen = seen
  BY <1>1 DEF VertHist, HistType
<1>9. /\ hist'.cut = hist.cut /\ hist'.start = hist.start
      /\ hist'.attTotal = hist.attTotal /\ hist'.sent = hist.sent
  BY <1>1 DEF VertHist, HistType
<1> QED
  BY <1>5, <1>6, <1>8, <1>9 DEF total, corrections, fed, seen, pair

\* A turn of the vertical task.
LEMMA VerticalInvariant ==
    ASSUME IInv, VerticalStep
    PROVE  IInv'
<1> DEFINE in == Received("vert.input")
           q == In.q
<1>0. q # <<>> /\ pipe' = Taken("vert.input")
  BY DEF VerticalStep, In
<1>1. /\ in = q[1] /\ in.t \in Nat /\ in.dt \in Nat
      /\ hist.vertT < in.t /\ in.t <= att.out
      /\ InputsFor(Tail(q), in.t, att.out)
      /\ Linked(q) => /\ Linked(Tail(q))
                      /\ Tail(q) # <<>> => Tail(q)[1].dt = Tail(q)[1].t - in.t
      /\ GoodPipes(pipe')
      /\ pipe'["imu.attitude"] = pipe["imu.attitude"]
      /\ In'.q = Tail(q) /\ In'.gone = 0 /\ In'.missed = In.missed + In.gone
  BY <1>0, VerticalHead DEF In
<1>2. /\ vert \in VertType /\ vs \in VsType /\ hist \in HistType /\ att \in AttType
      /\ baro \in Nat /\ range \in Nat
  BY DEF IInv, Types, DriverTypes, TaskTypes
<1>3. PICK tofValid \in BOOLEAN, velOk \in BOOLEAN :
          /\ tofValid => RangeSeen /\ TofAge < StaleSteps
          /\ VerticalTurn(tofValid, velOk)
  BY DEF VerticalStep
<1>4. UNCHANGED <<platform, now, mag, lastMag, rhallOk, calib, health, badRun, baro, range, events, att>>
  BY DEF VerticalStep, driver, slowVars
<1>5. /\ vert' \in VertType
      /\ vert'.baroStamp = IF BaroDue THEN baro ELSE vert.baroStamp
      /\ vert'.tofStamp = IF RangeFresh THEN range ELSE vert.tofStamp
      /\ vert'.tofAge = TofAge
      /\ vert'.tofDt = IF FedIn(tofValid) THEN 0 ELSE TurnDt(in)
      /\ vert'.havePrev /\ ~FedIn(tofValid) => tofValid /\ vert.havePrev
  BY <1>1, <1>2, <1>3, TurnVert
<1>6. /\ vs' \in VsType /\ vs'.t = in.t /\ vs'.tofValid = tofValid
      /\ vs'.seq = vs.seq + 1 /\ vs'.popped = vs.popped
  BY <1>1, <1>2, <1>3, TurnVs
<1>7. /\ hist' \in HistType
      /\ hist'.vertTotal = hist.vertTotal + in.dt /\ hist'.vertT = in.t
      /\ hist'.corrections = IF BaroDue THEN hist.corrections + 1 ELSE hist.corrections
      /\ hist'.pair = PairOf(tofValid, in)
      /\ hist'.fed = IF FedIn(tofValid) THEN in.t ELSE hist.fed
      /\ hist'.hole <=> IF FedIn(tofValid) THEN FALSE ELSE tofValid => hist.hole
      /\ hist'.seen = IF RangeFresh THEN 0
                      ELSE IF hist.seen < StaleSteps THEN hist.seen + 1 ELSE hist.seen
      /\ hist'.cut = hist.cut /\ hist'.start = hist.start
      /\ hist'.attTotal = hist.attTotal /\ hist'.sent = hist.sent
  BY <1>1, <1>2, <1>3, TurnHist
<1> HIDE DEF in, q
<1>8. Types'
  BY <1>1, <1>4, <1>5, <1>6, <1>7 DEF IInv, Types, DriverTypes, TaskTypes
<1>9. SampleInv' /\ AttInv'
  BY <1>1, <1>4, <1>7 DEF IInv, TimeInv, SampleInv, AttInv, AttitudeTimeExact
<1>10. VertOrder'
  BY <1>1, <1>4, <1>6, <1>7 DEF VertOrder
\* The time of the input taken is known when none was lost before it.
<1>11. /\ In.missed \in Nat /\ In.gone \in Nat
       /\ hist.vertT \in Nat /\ hist.vertTotal \in Nat /\ hist.start \in Nat
       /\ hist.vertT = 0 => att.out # 0
  <2>1. In.missed \in Nat /\ In.gone \in Nat
    BY NothingYet
  <2>2. hist.vertT \in Nat /\ hist.vertTotal \in Nat /\ hist.start \in Nat /\ att.out \in Nat
    BY <1>2 DEF HistType, AttType
  <2>3. hist.vertT < in.t /\ in.t <= att.out /\ in.t \in Nat
    BY <1>1
  <2> QED
    BY <2>1, <2>2, <2>3
<1>12. ASSUME ~hist.cut, In'.missed = 0
       PROVE  /\ In.missed = 0 /\ in.dt = in.t - Since
              /\ hist.vertTotal = hist.vertT - (IF hist.vertT = 0 THEN 0 ELSE hist.start)
  <2>1. In.missed = 0 /\ In.gone = 0
    BY <1>1, <1>11, <1>12
  <2>2. VertChain
    BY DEF IInv, TimeInv
  <2> QED
    BY <1>0, <1>1, <1>12, <2>1, <2>2 DEF VertChain, q
<1>13. VertChain'
  <2> SUFFICES ASSUME ~hist'.cut PROVE VertChain'
    BY DEF VertChain
  <2>1. Linked(q) /\ ~hist.cut
    BY <1>7 DEF IInv, TimeInv, VertChain, q
  <2>2. hist'.vertT # 0
    BY <1>1, <1>7, <1>11
  <2>3. Linked(In'.q) /\ (In'.q # <<>> => In'.q[1].dt = In'.q[1].t - Since')
    BY <1>1, <1>7, <2>1, <2>2 DEF Since
  <2>4. ASSUME In'.missed = 0
        PROVE  hist'.vertTotal = hist'.vertT - hist'.start
    <3> DEFINE total == hist.vertTotal
               was == hist.vertT
               start == hist.start
               dt == in.dt
               t == in.t
    <3>1. /\ dt = t - (IF was = 0 THEN start ELSE was)
          /\ total = was - (IF was = 0 THEN 0 ELSE start)
      BY <1>12, <2>1, <2>4 DEF Since
    <3>2. total \in Nat /\ was \in Nat /\ start \in Nat /\ t \in Nat /\ dt \in Nat
      BY <1>1, <1>11
    <3>3. hist'.vertTotal = total + dt /\ hist'.vertT = t /\ hist'.start = start
      BY <1>7
    <3> HIDE DEF total, was, start, dt, t
    <3>4. total + dt = t - start
      BY <3>1, <3>2
    <3> QED
      BY <3>3, <3>4
  <2> QED
    BY <2>2, <2>3, <2>4 DEF VertChain
<1>14. vert.havePrev => /\ ~hist.hole /\ hist.vertT # 0
                        /\ ~hist.cut /\ In.missed = 0 => vert.tofDt = hist.vertT - hist.fed
  BY DEF IInv, RangeInv
<1>15. ASSUME vert.havePrev, ~hist.cut, In'.missed = 0
       PROVE  TurnDt(in) = in.t - hist.fed
  <2>1. in.dt = in.t - hist.vertT /\ vert.tofDt = hist.vertT - hist.fed
    BY <1>12, <1>14, <1>15 DEF Since
  <2>2. hist.fed \in Nat
    BY <1>2 DEF HistType
  <2> QED
    BY <1>1, <1>11, <2>1, <2>2 DEF TurnDt
<1>16. RangePairHonest'
  <2> DEFINE p == [dt |-> TurnDt(in), real |-> in.t - hist.fed, hole |-> hist.hole]
  <2>1. CASE PairedIn(tofValid, in)
    <3>1. vert.havePrev
      BY <2>1 DEF PairedIn
    <3>2. ~p.hole
      BY <1>14, <3>1
    <3>3. ~hist'.cut /\ In'.missed = 0 => p.dt = p.real
      BY <1>7, <1>15, <3>1
    <3>4. hist'.pair = <<p>>
      BY <1>7, <2>1 DEF PairOf
    <3> HIDE DEF p
    <3>5. \A i \in DOMAIN hist'.pair : hist'.pair[i] = p
      BY <3>4
    <3> QED
      BY <3>2, <3>3, <3>5 DEF RangePairHonest, In
  <2>2. CASE ~PairedIn(tofValid, in)
    <3>1. hist'.pair = <<>>
      BY <1>7, <2>2 DEF PairOf
    <3>2. DOMAIN hist'.pair = {}
      BY <3>1
    <3> QED
      BY <3>2 DEF RangePairHonest
  <2> QED
    BY <2>1, <2>2
<1>17. RangeInv'
  <2>1. ASSUME vert'.havePrev
        PROVE  /\ ~hist'.hole /\ hist'.vertT # 0
               /\ ~hist'.cut /\ In'.missed = 0 => vert'.tofDt = hist'.vertT - hist'.fed
    <3>1. hist'.vertT # 0 /\ in.t \in Nat
      BY <1>1, <1>7, <1>11
    <3>2. CASE FedIn(tofValid)
      <4>1. ~hist'.hole /\ vert'.tofDt = 0 /\ hist'.vertT = in.t /\ hist'.fed = in.t
        BY <1>5, <1>7, <3>2
      <4> QED
        BY <3>1, <4>1
    <3>3. CASE ~FedIn(tofValid)
      <4>1. tofValid /\ vert.havePrev
        BY <1>5, <2>1, <3>3
      <4>2. ~hist'.hole
        BY <1>7, <1>14, <3>3, <4>1
      <4>3. vert'.tofDt = TurnDt(in) /\ hist'.vertT = in.t /\ hist'.fed = hist.fed /\ hist'.cut = hist.cut
        BY <1>5, <1>7, <3>3
      <4> QED
        BY <1>15, <3>1, <4>1, <4>2, <4>3
    <3> QED
      BY <3>2, <3>3
  <2> QED
    BY <1>16, <2>1 DEF RangeInv
<1>18. AgeInv'
  <2>0. /\ IF vert.tofStamp = None THEN vert.tofAge = StaleSteps
                                    ELSE vert.tofAge = hist.seen /\ range # 0
        /\ vert.tofAge \in 0 .. StaleSteps /\ hist.seen \in 0 .. StaleSteps /\ StaleSteps \in Nat
    BY <1>2, SensorConstants DEF IInv, AgeInv, VertType, HistType
  <2>1. CASE RangeSeen
    <3>1. range # 0 /\ range # None /\ range' = range
      BY <1>2, <1>4, <2>1 DEF RangeSeen, None
    <3>2. CASE RangeFresh
      <4>1. vert'.tofStamp = range /\ vert'.tofAge = 0 /\ hist'.seen = 0
        BY <1>5, <1>7, <2>1, <3>2 DEF TofAge
      <4> QED
        BY <2>0, <3>1, <4>1, SensorConstants DEF AgeInv, DeadRangeDropped
    <3>3. CASE ~RangeFresh
      <4>1. vert.tofStamp = range /\ vert'.tofStamp = range
        BY <1>5, <2>1, <3>3 DEF RangeFresh
      <4>2. vert.tofAge = hist.seen
        BY <2>0, <3>1, <4>1
      <4>3. vert'.tofAge = hist'.seen
        BY <1>5, <1>7, <2>1, <3>3, <4>2 DEF TofAge
      <4>4. vs'.tofValid => hist'.seen < StaleSteps
        BY <1>3, <1>5, <1>6, <4>3
      <4> QED
        BY <3>1, <4>1, <4>3, <4>4 DEF AgeInv, DeadRangeDropped
    <3> QED
      BY <3>2, <3>3
  <2>2. CASE ~RangeSeen
    <3>1. range = 0 /\ ~RangeFresh /\ ~tofValid
      BY <1>3, <2>2 DEF RangeSeen, RangeFresh
    <3>2. vert'.tofStamp = vert.tofStamp /\ vert'.tofAge = vert.tofAge /\ ~vs'.tofValid
      BY <1>5, <1>6, <2>2, <3>1 DEF TofAge
    <3>3. vert.tofStamp = None
      BY <2>0, <3>1
    <3> QED
      BY <2>0, <3>2, <3>3 DEF AgeInv, DeadRangeDropped
  <2> QED
    BY <2>1, <2>2
<1>19. SlowInv'
  <2>0. /\ hist.corrections <= IF vert.baroStamp = None THEN 0 ELSE vert.baroStamp
        /\ vert.baroStamp <= baro /\ vert.baroStamp \in Nat \union {None} /\ None \in Int
        /\ hist.corrections \in Nat /\ hist.sent \in Nat /\ vs.popped \in Nat /\ vs.seq \in Nat
        /\ hist.sent <= vs.popped /\ vs.popped <= vs.seq
    BY <1>2 DEF IInv, SlowInv, VertType, HistType, VsType, None
  <2>1. hist'.sent <= vs'.popped /\ vs'.popped <= vs'.seq
    BY <1>6, <1>7, <2>0
  <2>2. CASE BaroDue
    <3>1. baro # 0 /\ vert.baroStamp # baro /\ baro # None /\ baro' = baro
      BY <1>2, <1>4, <2>2 DEF BaroDue, None
    <3>2. vert'.baroStamp = baro /\ hist'.corrections = hist.corrections + 1
      BY <1>5, <1>7, <2>2
    <3>3. hist.corrections + 1 <= baro
      BY <1>2, <2>0, <3>1
    <3> QED
      BY <1>2, <2>1, <3>1, <3>2, <3>3 DEF SlowInv
  <2>3. CASE ~BaroDue
    BY <1>4, <1>5, <1>7, <2>0, <2>1, <2>3 DEF SlowInv
  <2> QED
    BY <2>2, <2>3
<1>20. HealthInv'
  BY <1>4 DEF IInv, HealthInv, DegradedOnTime
<1> QED
  BY <1>8, <1>9, <1>10, <1>13, <1>17, <1>18, <1>19, <1>20 DEF IInv, TimeInv

----------------------------------------------------------------------------
(* The theorems *)

LEMMA StutterInvariant ==
    ASSUME IInv, UNCHANGED vars
    PROVE  IInv'
<1>1. UNCHANGED <<platform, now, pipe, mag, lastMag, rhallOk, calib, health, badRun, baro, range,
                 events, att, vert, vs, hist>>
  BY DEF vars, driver, slowVars, tasks
<1>2. Types'
  BY <1>1 DEF IInv, Types, DriverTypes, TaskTypes
<1>3. TimeInv' /\ RangeInv'
  BY <1>1 DEF IInv, TimeInv, SampleInv, AttInv, AttitudeTimeExact, VertOrder, VertChain, Since,
              RangeInv, RangePairHonest, In
<1>4. AgeInv' /\ SlowInv' /\ HealthInv'
  BY <1>1 DEF IInv, AgeInv, DeadRangeDropped, SlowInv, HealthInv, DegradedOnTime
<1> QED
  BY <1>2, <1>3, <1>4 DEF IInv

LEMMA NextInvariant == IInv /\ [Next]_vars => IInv'
<1> SUFFICES ASSUME IInv, [Next]_vars PROVE IInv'
  OBVIOUS
<1>1. CASE Sample \/ HostSample
  BY <1>1, SampleInvariant
<1>2. CASE BaroReading \/ RangeReading \/ CalibSwitch
  BY <1>2, SlowInvariant
<1>3. CASE AttitudeAccumulate
  BY <1>3, AccumulateInvariant
<1>4. CASE AttitudeStep
  BY <1>4, StepInvariant
<1>5. CASE VerticalStep
  BY <1>5, VerticalInvariant
<1>6. CASE VertPop
  BY <1>6, VertPopInvariant
<1>7. ASSUME NEW t \in Polled, Poll(t) PROVE IInv'
  BY <1>7, PollInvariant
<1>8. CASE UNCHANGED vars
  BY <1>8, StutterInvariant
<1> QED
  BY <1>1, <1>2, <1>3, <1>4, <1>5, <1>6, <1>7, <1>8 DEF Next

\* Every reachable state satisfies the inductive invariant, on either platform,
\* whatever the depth of the queues, the period of the cycle counter and the
\* interleaving of the producers and the tasks.
THEOREM PathInvariant == Spec => []IInv
<1> QED
  BY InitInv, NextInvariant, PTL DEF Spec

\* Neither attitude_task nor vertical_estimator_task loses or invents time over
\* dropped samples, stalls and wraps of the stamp, and estimator_mark_sample
\* raises the degraded flag in time.
THEOREM TimeIsExact == Spec => []TimeExact
<1>1. IInv => TimeExact
  <2> SUFFICES ASSUME IInv PROVE TimeExact
    OBVIOUS
  <2>1. AttitudeTimeExact /\ DegradedOnTime
    BY DEF IInv, TimeInv, AttInv, HealthInv
  <2>2. VerticalTimeExact
    BY DEF IInv, TimeInv, VertChain, VerticalTimeExact, In
  <2> QED
    BY <2>1, <2>2 DEF TimeExact
<1> QED
  BY <1>1, PathInvariant, PTL

\* vertical_state_queue_pop hands out no state twice, and the FIFOS report never
\* hides a message a reader lost.
THEOREM StreamIsHonest == Spec => []StreamHonest
<1>1. IInv => StreamHonest
  <2> SUFFICES ASSUME IInv PROVE StreamHonest
    OBVIOUS
  <2>1. ASSUME NEW t \in Topics
        PROVE  /\ Len(pipe[t].q) <= Slots[t] /\ pipe[t].peak \in 0 .. U16Max
               /\ pipe[t].missed \in Nat /\ pipe[t].gone \in Nat /\ pipe[t].evicted \in Nat
               /\ t \in Counted => pipe[t].evicted >= pipe[t].missed + pipe[t].gone
    BY DEF IInv, Types, GoodPipes, GoodEntry, Accounted, Size, Pipes, Entries
  <2>2. /\ platform \in Platforms /\ now \in 0 .. MaxSamples
        /\ mag.dir \in Dirs \union {None} /\ lastMag \in Dirs \union {None}
        /\ calib \in BOOLEAN /\ health.degraded \in BOOLEAN
    BY DEF IInv, Types, DriverTypes, HealthType
  <2>3. att.n \in 0 .. Decim - 1 /\ att.perf \in 0 .. PerfEvery - 1 /\ vert.tofAge \in 0 .. StaleSteps
    BY DEF IInv, Types, TaskTypes, AttType, VertType
  <2>4. /\ vs.popped \in Nat /\ vs.seq \in Nat /\ hist.sent \in Nat
        /\ hist.sent <= vs.popped /\ vs.popped <= vs.seq
    BY DEF IInv, Types, TaskTypes, SlowInv, VsType, HistType
  <2>5. TypeOK
    <3>1. \A t \in Topics : pipe[t].peak <= U16Max
      BY <2>1, U16Type
    <3> QED
      BY <2>1, <2>2, <2>3, <2>4, <3>1 DEF TypeOK
  <2>6. StalledStreamStops
    BY <2>4 DEF StalledStreamStops
  <2>7. DropsNeverHidden
    <3> SUFFICES ASSUME NEW t \in Counted
                 PROVE  LET hole == pipe[t].missed + pipe[t].gone
                        IN  PerfRow(t).drops >= IF hole > U16Max THEN U16Max ELSE hole
      BY DEF DropsNeverHidden
    <3> DEFINE ev == pipe[t].evicted
               hole == pipe[t].missed + pipe[t].gone
    <3>1. ev \in Nat /\ hole \in Nat /\ ev >= hole
      BY <2>1 DEF Topics
    <3>2. PerfRow(t).drops = IF ev > U16Max THEN U16Max ELSE ev
      BY DEF PerfRow
    <3> HIDE DEF ev, hole
    <3>3. (IF ev > U16Max THEN U16Max ELSE ev) >= IF hole > U16Max THEN U16Max ELSE hole
      <4>1. CASE ev > U16Max
        BY <3>1, <4>1, U16Type
      <4>2. CASE ev <= U16Max
        BY <3>1, <4>2, U16Type
      <4> QED
        BY <3>1, <4>1, <4>2, U16Type
    <3> QED
      BY <3>2, <3>3 DEF hole
  <2> QED
    BY <2>5, <2>6, <2>7 DEF StreamHonest
<1> QED
  BY <1>1, PathInvariant, PTL

\* bmx160_process_mag moves the reference of the disturbance gate only to a
\* neighbouring direction, in any step.
LEMMA ReferenceStep ==
    ASSUME IInv, Next
    PROVE  lastMag' = lastMag \/ lastMag = None \/ Neighbours(lastMag, lastMag')
<1>1. CASE Sample
  <2>1. CASE lastMag' = lastMag
    BY <2>1
  <2>2. ASSUME NEW dir \in Dirs, NEW ok \in BOOLEAN, ProcessMag(dir, ok), lastMag' # lastMag
        PROVE  lastMag = None \/ Neighbours(lastMag, lastMag')
    <3>1. MagAccepts(dir, ok) /\ lastMag' = dir
      BY <2>2 DEF ProcessMag
    <3>2. lastMag = None \/ dir - lastMag \in {-1, 0, 1}
      BY <3>1 DEF MagAccepts, Neighbours
    <3>3. dir \in Int /\ (lastMag = None \/ lastMag \in Int)
      BY SensorConstants DEF IInv, Types, DriverTypes, None
    <3>4. lastMag = None \/ lastMag - dir \in {-1, 0, 1}
      BY <3>2, <3>3
    <3> QED
      BY <3>1, <3>4 DEF Neighbours
  <2>3. lastMag' = lastMag \/ \E dir \in Dirs, ok \in BOOLEAN : ProcessMag(dir, ok)
    BY <1>1 DEF Sample
  <2> QED
    BY <2>1, <2>2, <2>3
<1>2. CASE ~Sample
  BY <1>2 DEF Next, HostSample, BaroReading, RangeReading, CalibSwitch, AttitudeAccumulate,
              AttitudeStep, VerticalStep, VertPop, Poll, driver
<1> QED
  BY <1>1, <1>2

\* The slow readings are used for what they are: a barometer reading corrects
\* the filter once, a velocity comes from two consecutive trusted ranges and the
\* time between them, a dead rangefinder is dropped, and the magnetic reference
\* does not jump.
THEOREM ReadingsAreHonest == Spec => ReadingsHonest
<1>1. IInv => BaroUsedOnce /\ RangePairHonest /\ DeadRangeDropped
  <2> SUFFICES ASSUME IInv PROVE BaroUsedOnce /\ RangePairHonest /\ DeadRangeDropped
    OBVIOUS
  <2>1. /\ hist.corrections <= IF vert.baroStamp = None THEN 0 ELSE vert.baroStamp
        /\ vert.baroStamp <= baro /\ vert.baroStamp \in Nat \union {None}
        /\ baro \in Nat /\ hist.corrections \in Nat
    BY DEF IInv, SlowInv, Types, TaskTypes, DriverTypes, VertType, HistType
  <2>2. BaroUsedOnce
    BY <2>1 DEF BaroUsedOnce
  <2> QED
    BY <2>2 DEF IInv, RangeInv, AgeInv
<1>2. IInv /\ [Next]_vars => [lastMag' = lastMag \/ lastMag = None \/ Neighbours(lastMag, lastMag')]_vars
  BY ReferenceStep
<1> QED
  BY <1>1, <1>2, PathInvariant, PTL DEF Spec, ReadingsHonest, MagReferenceContinuous

\* Whatever is overwritten on the way, the pipeline implements SampleFlow: a
\* sample acquired, an estimate of a later sample, a vertical estimate that
\* follows it, or a step SampleFlow does not see.
THEOREM ReadersInOrder == Spec => InOrder
<1>1. Init => Flow!Init
  BY DEF Init, Flow!Init
<1>2. IInv /\ [Next]_vars => [Flow!Next]_(Flow!flow)
  <2> SUFFICES ASSUME IInv, [Next]_vars PROVE [Flow!Next]_(Flow!flow)
    OBVIOUS
  <2> USE DEF Flow!Next, Flow!flow
  <2>0. now \in Nat /\ att \in AttType /\ hist \in HistType /\ vs \in VsType
        /\ att.out <= att.prev /\ vs.t = hist.vertT
        /\ att.out \in Nat /\ att.prev \in Nat /\ vs.t \in Nat
    BY SensorConstants DEF IInv, Types, DriverTypes, TaskTypes, TimeInv, AttInv, VertOrder, AttType, VsType
  <2>1. CASE Sample \/ HostSample
    BY <2>1, SampleShape DEF Flow!Acquire, tasks
  <2>2. CASE AttitudeAccumulate
    <3>1. att' = [att EXCEPT !.prev = Received("imu.attitude"), !.n = att.n + 1,
                             !.dtSum = att.dtSum + AttDt(Received("imu.attitude"))]
      BY <2>2 DEF AttitudeAccumulate
    <3>2. att'.out = att.out
      BY <2>0, <3>1 DEF AttType
    <3> QED
      BY <2>2, <3>2 DEF AttitudeAccumulate
  <2>3. CASE AttitudeStep
    <3> DEFINE t == Received("imu.attitude")
    <3>1. t \in Nat /\ att.prev < t /\ t <= now
      BY <2>3, AttitudeHead DEF AttitudeStep
    <3>2. att'.out = t /\ now' = now /\ vs' = vs
      BY <2>3 DEF AttitudeStep
    <3> HIDE DEF t
    <3>3. t \in (att.out + 1) .. now
      BY <2>0, <3>1
    <3> QED
      BY <3>2, <3>3 DEF Flow!Estimate
  <2>4. CASE VerticalStep
    <3> DEFINE in == Received("vert.input")
    <3>1. /\ in.t \in Nat /\ vs.t < in.t /\ in.t <= att.out
      BY <2>0, <2>4, VerticalHead DEF VerticalStep, In
    <3>2. vs'.t = in.t /\ now' = now /\ att' = att
      BY <2>4 DEF VerticalStep, VerticalTurn, VertPush
    <3> HIDE DEF in
    <3>3. in.t \in (vs.t + 1) .. att.out
      BY <2>0, <3>1
    <3> QED
      BY <3>2, <3>3 DEF Flow!Follow
  <2>5. CASE VertPop
    <3>1. vs'.t = vs.t
      BY <2>0, <2>5 DEF VertPop, VsType
    <3> QED
      BY <2>5, <3>1 DEF VertPop
  <2>6. CASE BaroReading \/ RangeReading \/ CalibSwitch
    BY <2>6 DEF BaroReading, RangeReading, CalibSwitch, tasks
  <2>7. ASSUME NEW t \in Polled, Poll(t) PROVE UNCHANGED Flow!flow
    BY <2>7 DEF Poll, tasks
  <2>8. CASE UNCHANGED vars
    BY <2>8 DEF vars, tasks
  <2> QED
    BY <2>1, <2>2, <2>3, <2>4, <2>5, <2>6, <2>7, <2>8 DEF Next
<1> QED
  BY <1>1, <1>2, PathInvariant, PTL DEF Spec, InOrder, Flow!Spec

(***************************************************************************)
(* 2. ImuBus.                                                              *)
(***************************************************************************)

(***************************************************************************)
(* The inductive invariant.                                                *)
(***************************************************************************)

\* Where the token of the chain may be: in ready_sema, on the bus, or in the
\* task, which carries it from its wake to the claim of the bus.
Carrying == pc \in {"process", "issue", "pace", "acquire"}
OnBus    == IF trans = "BLANK" THEN 0 ELSE 1
InTask   == IF Carrying THEN 1 ELSE 0
Tokens   == ready + OnBus + InTask

\* What the manager's flags say of the burst that runs: it is the claimed one,
\* unless the recovery has just disowned it.
ManagerInv ==
    /\ busy <=> trans # "BLANK"
    /\ dma # "NONE" => trans = dma \/ (pc = "reset" /\ ready = 0)
    /\ irq > 0 => dma = "NONE"
    /\ irq > 0 /\ trans # "BLANK" => rx = trans
    /\ \A s \in DOMAIN buf : buf[s] \in {s, "NONE"}

\* Where the task stands, seen from the bus.
StageInv ==
    /\ pc \in {"start", "rstart"} => trans = op /\ dma = "NONE" /\ irq = 0
    /\ pc = "rstart" => op = "FAST"
    /\ pc \in {"reset", "restart"} => trans = "BLANK"
    /\ pc = "restart" => dma = "NONE" /\ irq = 0 /\ pins = "i2c"

\* One token, two after a restart that met a late completion, and none while
\* the pins are general-purpose outputs.
TokenInv ==
    /\ Tokens <= 2
    /\ pc \in {"recover", "reset", "restart"} => Tokens <= 1
    /\ ~collided => /\ Tokens <= 1
                    /\ pc = "failed" => Tokens = 0 /\ dma = "NONE"
                    /\ pins = "gpio" => Tokens = 0 /\ dma = "NONE" /\ pc \in {"take", "recover", "reset"}

\* A ride is only scheduled for a device that is there.
RideInv ==
    /\ "RIDE" \in {nextOp, op, trans, dma} => Rides[nextRide] \in present
    /\ "RIDE" \in {op, trans, dma} => Rides[active] \in present

\* While sensor_probe_all runs, nothing else does.
BootInv ==
    boot # <<>> => /\ pc = "take" /\ trans = "BLANK" /\ dma = "NONE" /\ irq = 0 /\ pins = "i2c"
                   /\ ~collided
                   /\ \A d \in Devices : decode[d] = "idle"

\* A decode task that was overtaken finds its flag set again.
DecodeInv == \A d \in Devices : decode[d] = "mixed" => fresh[d]

BusInv == /\ ImuTypeOK
          /\ ManagerInv /\ StageInv /\ TokenInv
          /\ RideInv /\ BootInv /\ DecodeInv /\ MagBurstAtData

----------------------------------------------------------------------------
(* Lemmas about the model's operators. *)

\* The limits are numbers.
LEMMA Limits == /\ SlowEvery \in Nat \ {0} /\ SlotWrap \in Nat \ {0} /\ SemaMax \in Nat \ {0}
                /\ StallTimeouts \in Nat /\ ErrLimit \in Nat /\ MaxFaults \in Nat
  BY BusConstants

\* A counter that is kept modulo n.
LEMMA Wraps ==
    ASSUME NEW a \in Nat, NEW n \in Nat \ {0}
    PROVE  (a + 1) % n \in 0 .. n - 1
OBVIOUS

\* bmx160_set_mag_conf leaves the pointer at the data registers unless its last
\* write is the one that was lost.
LEMMA PointerAfterOne ==
    ASSUME NEW l \in DOMAIN MagConfPointers \union {0}
    PROVE  PointerAfter({l}) = IF l = Len(MagConfPointers) THEN "chip_id" ELSE "data"
<1>1. DOMAIN MagConfPointers = 1 .. 5 /\ Len(MagConfPointers) = 5
  BY DEF MagConfPointers
<1> DEFINE done == {i \in DOMAIN MagConfPointers : i \notin {l}}
<1>2. CASE l # 5
  <2>1. (CHOOSE i \in done : \A j \in done : j <= i) = 5
    <3>1. 5 \in done /\ \A j \in done : j <= 5
      BY <1>1, <1>2
    <3>2. \A i \in done : (\A j \in done : j <= i) => i = 5
      BY <1>1, <3>1
    <3> HIDE DEF done
    <3> QED
      BY <3>1, <3>2
  <2>2. done # {}
    BY <1>1, <1>2
  <2> QED
    BY <1>1, <1>2, <2>1, <2>2 DEF PointerAfter, MagConfPointers
<1>3. CASE l = 5
  <2>1. (CHOOSE i \in done : \A j \in done : j <= i) = 4
    <3>1. 4 \in done /\ \A j \in done : j <= 4
      BY <1>1, <1>3
    <3>2. \A i \in done : (\A j \in done : j <= i) => i = 4
      BY <1>1, <3>1
    <3> HIDE DEF done
    <3> QED
      BY <3>1, <3>2
  <2>2. done # {}
    BY <1>1, <1>3
  <2> QED
    BY <1>1, <1>3, <2>1, <2>2 DEF PointerAfter, MagConfPointers
<1> QED
  BY <1>2, <1>3

LEMMA ReaderKeeps ==
    ASSUME BusInv, Reader
    PROVE  BusInv'
<1>1. CASE ReaderTake
  <2>1. ImuTypeOK'
    BY <1>1, Limits
    DEF BusInv, ImuTypeOK, StageInv, Ops, ReaderTake, Runs, bootVars, busVars, isrVars, taskVars, rideVars
  <2>2. ManagerInv' /\ StageInv'
    BY <1>1
    DEF BusInv, ImuTypeOK, ManagerInv, StageInv, TokenInv, Tokens, OnBus, InTask, Carrying, Ops,
      ReaderTake, Runs, bootVars, busVars, isrVars, taskVars, rideVars
  <2>3. TokenInv'
    BY <1>1
    DEF BusInv, ImuTypeOK, ManagerInv, StageInv, TokenInv, Tokens, OnBus, InTask, Carrying, Ops,
      ReaderTake, Runs, bootVars, busVars, isrVars, taskVars, rideVars
  <2>4. RideInv' /\ BootInv' /\ DecodeInv' /\ MagBurstAtData'
    BY <1>1
    DEF BusInv, ManagerInv, StageInv, RideInv, BootInv, DecodeInv, MagBurstAtData,
      ReaderTake, Runs, bootVars, busVars, isrVars, taskVars, rideVars
  <2> QED
    BY <2>1, <2>2, <2>3, <2>4 DEF BusInv
<1>2. CASE ReaderProcess
  <2>1. ImuTypeOK'
    BY <1>2, Limits
    DEF BusInv, ImuTypeOK, StageInv, Ops, ReaderProcess, Runs, bootVars, busVars, isrVars, taskVars, rideVars
  <2>2. ManagerInv' /\ StageInv'
    BY <1>2
    DEF BusInv, ImuTypeOK, ManagerInv, StageInv, TokenInv, Tokens, OnBus, InTask, Carrying, Ops,
      ReaderProcess, Runs, bootVars, busVars, isrVars, taskVars, rideVars
  <2>3. TokenInv'
    BY <1>2
    DEF BusInv, ImuTypeOK, ManagerInv, StageInv, TokenInv, Tokens, OnBus, InTask, Carrying, Ops,
      ReaderProcess, Runs, bootVars, busVars, isrVars, taskVars, rideVars
  <2>4. RideInv' /\ BootInv' /\ DecodeInv' /\ MagBurstAtData'
    BY <1>2
    DEF BusInv, ManagerInv, StageInv, RideInv, BootInv, DecodeInv, MagBurstAtData,
      ReaderProcess, Runs, bootVars, busVars, isrVars, taskVars, rideVars
  <2> QED
    BY <2>1, <2>2, <2>3, <2>4 DEF BusInv
<1>3. CASE ReaderIssue
  <2>1. ImuTypeOK'
    BY <1>3, Limits
    DEF BusInv, ImuTypeOK, StageInv, Ops, ReaderIssue, Runs, bootVars, busVars, isrVars, taskVars, rideVars
  <2>2. ManagerInv' /\ StageInv'
    BY <1>3
    DEF BusInv, ImuTypeOK, ManagerInv, StageInv, TokenInv, Tokens, OnBus, InTask, Carrying, Ops,
      ReaderIssue, Runs, bootVars, busVars, isrVars, taskVars, rideVars
  <2>3. TokenInv'
    BY <1>3
    DEF BusInv, ImuTypeOK, ManagerInv, StageInv, TokenInv, Tokens, OnBus, InTask, Carrying, Ops,
      ReaderIssue, Runs, bootVars, busVars, isrVars, taskVars, rideVars
  <2>4. RideInv' /\ BootInv' /\ DecodeInv' /\ MagBurstAtData'
    BY <1>3
    DEF BusInv, ManagerInv, StageInv, RideInv, BootInv, DecodeInv, MagBurstAtData,
      ReaderIssue, Runs, bootVars, busVars, isrVars, taskVars, rideVars
  <2> QED
    BY <2>1, <2>2, <2>3, <2>4 DEF BusInv
<1>4. CASE ReaderPace
  <2>1. ImuTypeOK'
    BY <1>4, Limits
    DEF BusInv, ImuTypeOK, StageInv, Ops, ReaderPace, Runs, bootVars, busVars, isrVars, taskVars, rideVars
  <2>2. ManagerInv' /\ StageInv'
    BY <1>4
    DEF BusInv, ImuTypeOK, ManagerInv, StageInv, TokenInv, Tokens, OnBus, InTask, Carrying, Ops,
      ReaderPace, Runs, bootVars, busVars, isrVars, taskVars, rideVars
  <2>3. TokenInv'
    BY <1>4
    DEF BusInv, ImuTypeOK, ManagerInv, StageInv, TokenInv, Tokens, OnBus, InTask, Carrying, Ops,
      ReaderPace, Runs, bootVars, busVars, isrVars, taskVars, rideVars
  <2>4. RideInv' /\ BootInv' /\ DecodeInv' /\ MagBurstAtData'
    BY <1>4
    DEF BusInv, ManagerInv, StageInv, RideInv, BootInv, DecodeInv, MagBurstAtData,
      ReaderPace, Runs, bootVars, busVars, isrVars, taskVars, rideVars
  <2> QED
    BY <2>1, <2>2, <2>3, <2>4 DEF BusInv
<1>5. CASE ReaderAcquire
  <2>1. CASE Acquired(op)
    <3>1. ImuTypeOK'
      BY <1>5, <2>1, Limits
      DEF BusInv, ImuTypeOK, StageInv, Ops, ReaderAcquire, Runs, Acquired, bootVars, busVars, isrVars, taskVars, rideVars
    <3>2. ManagerInv' /\ StageInv'
      BY <1>5, <2>1
      DEF BusInv, ImuTypeOK, ManagerInv, StageInv, TokenInv, Tokens, OnBus, InTask, Carrying, Ops,
        ReaderAcquire, Runs, Acquired, bootVars, busVars, isrVars, taskVars, rideVars
    <3>3. TokenInv'
      <4>1. /\ OnBus = 0 /\ InTask = 1 /\ OnBus' = 1 /\ InTask' = 0
            /\ ready' = ready /\ collided' = collided /\ pc' = "start" /\ pc = "acquire" /\ pins' = pins
        BY <1>5, <2>1
        DEF BusInv, ImuTypeOK, ManagerInv, StageInv, OnBus, InTask, Carrying, Ops,
          ReaderAcquire, Runs, Acquired, AcquireFailed
      <4>2. ready \in Nat /\ OnBus \in {0, 1} /\ InTask \in {0, 1}
        BY Limits DEF BusInv, ImuTypeOK, OnBus, InTask
      <4> QED
        BY <4>1, <4>2 DEF BusInv, TokenInv, Tokens
    <3>4. RideInv' /\ BootInv' /\ DecodeInv' /\ MagBurstAtData'
      BY <1>5, <2>1
      DEF BusInv, ManagerInv, StageInv, RideInv, BootInv, DecodeInv, MagBurstAtData,
        ReaderAcquire, Runs, Acquired, bootVars, busVars, isrVars, taskVars, rideVars
    <3> QED
      BY <3>1, <3>2, <3>3, <3>4 DEF BusInv
  <2>2. CASE AcquireFailed
    <3>0. /\ errs' \in 0 .. ErrLimit
          /\ \/ trans' = "BLANK" /\ busy' = FALSE /\ dma' = "NONE" /\ late' = FALSE /\ pins' = "i2c"
             \/ UNCHANGED <<trans, busy, dma, late, pins>>
      <4>1. errs \in 0 .. ErrLimit
        BY DEF BusInv, ImuTypeOK
      <4>2. CASE errs + 1 > ErrLimit
        <5>1. /\ errs' = 0 /\ trans' = "BLANK" /\ busy' = FALSE
              /\ dma' = "NONE" /\ late' = FALSE /\ pins' = "i2c"
          BY <2>2, <4>2, Zenon DEF AcquireFailed
        <5> QED
          BY <5>1, Limits
      <4>3. CASE ~(errs + 1 > ErrLimit)
        <5>1. errs' = errs + 1 /\ UNCHANGED <<trans, busy, dma, late, pins>>
          BY <2>2, <4>3, Zenon DEF AcquireFailed
        <5> QED
          BY <4>1, <4>3, <5>1, Limits
      <4> QED
        BY <4>2, <4>3
    <3>a. /\ UNCHANGED <<bootVars, isrVars, lastOp, active, op, quiet, collided, ready, rideVars>>
          /\ busy /\ pc' = "failed" /\ irq = 0 /\ UNCHANGED <<faults, rx, irq>>
      BY <1>5, <2>2 DEF ReaderAcquire, Acquired, AcquireFailed, Runs
    <3>1. ImuTypeOK'
      BY <3>0, <3>a DEF BusInv, ImuTypeOK, bootVars, isrVars, rideVars
    <3>2. ManagerInv' /\ StageInv'
      BY <3>0, <3>a DEF BusInv, ManagerInv, StageInv, isrVars
    <3>3. TokenInv'
      BY <1>5, <2>2
      DEF BusInv, ImuTypeOK, ManagerInv, StageInv, TokenInv, Tokens, OnBus, InTask, Carrying, Ops,
        ReaderAcquire, Runs, AcquireFailed, bootVars, busVars, isrVars, taskVars, rideVars
    <3>4. RideInv' /\ BootInv' /\ DecodeInv' /\ MagBurstAtData'
      BY <1>5, <2>2
      DEF BusInv, ManagerInv, StageInv, RideInv, BootInv, DecodeInv, MagBurstAtData,
        ReaderAcquire, Runs, AcquireFailed, bootVars, busVars, isrVars, taskVars, rideVars
    <3> QED
      BY <3>1, <3>2, <3>3, <3>4 DEF BusInv
  <2> QED
    BY <1>5, <2>1, <2>2 DEF ReaderAcquire
<1>6. CASE ReaderStart
  <2>1. CASE Started(op)
    <3>1. ImuTypeOK'
      BY <1>6, <2>1, Limits
      DEF BusInv, ImuTypeOK, StageInv, Ops, ReaderStart, Runs, Started, bootVars, busVars, isrVars, taskVars, rideVars
    <3>2. ManagerInv' /\ StageInv'
      BY <1>6, <2>1
      DEF BusInv, ImuTypeOK, ManagerInv, StageInv, TokenInv, Tokens, OnBus, InTask, Carrying, Ops,
        ReaderStart, Runs, Started, bootVars, busVars, isrVars, taskVars, rideVars
    <3>3. TokenInv'
      <4>1. /\ OnBus = 1 /\ InTask = 0 /\ OnBus' = 1 /\ InTask' = 0
            /\ ready' = ready /\ collided' = collided /\ pc' = "take" /\ pc = "start" /\ pins' = pins
        BY <1>6, <2>1
        DEF BusInv, ImuTypeOK, ManagerInv, StageInv, OnBus, InTask, Carrying, Ops,
          ReaderStart, Runs, Started, StartFailed
      <4>2. ready \in Nat /\ OnBus \in {0, 1} /\ InTask \in {0, 1}
        BY Limits DEF BusInv, ImuTypeOK, OnBus, InTask
      <4> QED
        BY <4>1, <4>2 DEF BusInv, TokenInv, Tokens
    <3>4. RideInv' /\ BootInv' /\ DecodeInv' /\ MagBurstAtData'
      BY <1>6, <2>1
      DEF BusInv, ManagerInv, StageInv, RideInv, BootInv, DecodeInv, MagBurstAtData,
        ReaderStart, Runs, Started, bootVars, busVars, isrVars, taskVars, rideVars
    <3> QED
      BY <3>1, <3>2, <3>3, <3>4 DEF BusInv
  <2>2. CASE StartFailed
    <3>1. ImuTypeOK'
      <4>1. faults' \in 0 .. MaxFaults
        BY <2>2, Limits DEF BusInv, ImuTypeOK, StartFailed
      <4>2. ImuTypeOK /\ pc' \in {"take", "failed"}
        BY <1>6 DEF BusInv, ReaderStart
      <4>3. /\ UNCHANGED <<bootVars, isrVars, lastOp, active, op, quiet, collided, ready, rideVars>>
            /\ busy' = FALSE /\ trans' = "BLANK" /\ pins' = "i2c"
            /\ dma' = "NONE" /\ late' = FALSE /\ UNCHANGED <<rx, irq, errs>>
        BY <1>6, <2>2 DEF ReaderStart, StartFailed
      <4> QED
        BY <4>1, <4>2, <4>3 DEF ImuTypeOK, bootVars, isrVars, rideVars
    <3>2. ManagerInv' /\ StageInv'
      BY <1>6, <2>2
      DEF BusInv, ImuTypeOK, ManagerInv, StageInv, TokenInv, Tokens, OnBus, InTask, Carrying, Ops,
        ReaderStart, Runs, StartFailed, bootVars, busVars, isrVars, taskVars, rideVars
    <3>3. TokenInv'
      BY <1>6, <2>2
      DEF BusInv, ImuTypeOK, ManagerInv, StageInv, TokenInv, Tokens, OnBus, InTask, Carrying, Ops,
        ReaderStart, Runs, StartFailed, bootVars, busVars, isrVars, taskVars, rideVars
    <3>4. RideInv' /\ BootInv' /\ DecodeInv' /\ MagBurstAtData'
      BY <1>6, <2>2
      DEF BusInv, ManagerInv, StageInv, RideInv, BootInv, DecodeInv, MagBurstAtData,
        ReaderStart, Runs, StartFailed, bootVars, busVars, isrVars, taskVars, rideVars
    <3> QED
      BY <3>1, <3>2, <3>3, <3>4 DEF BusInv
  <2> QED
    BY <1>6, <2>1, <2>2 DEF ReaderStart
<1>7. CASE ReaderFailed
  <2>1. ImuTypeOK'
    BY <1>7, Limits
    DEF BusInv, ImuTypeOK, StageInv, Ops, ReaderFailed, Runs, Unstick, bootVars, busVars, isrVars, taskVars, rideVars
  <2>2. ManagerInv' /\ StageInv'
    BY <1>7
    DEF BusInv, ImuTypeOK, ManagerInv, StageInv, TokenInv, Tokens, OnBus, InTask, Carrying, Ops,
      ReaderFailed, Runs, Unstick, bootVars, busVars, isrVars, taskVars, rideVars
  <2>3. TokenInv'
    BY <1>7
    DEF BusInv, ImuTypeOK, ManagerInv, StageInv, TokenInv, Tokens, OnBus, InTask, Carrying, Ops,
      ReaderFailed, Runs, Unstick, bootVars, busVars, isrVars, taskVars, rideVars
  <2>4. RideInv' /\ BootInv' /\ DecodeInv' /\ MagBurstAtData'
    BY <1>7
    DEF BusInv, ManagerInv, StageInv, RideInv, BootInv, DecodeInv, MagBurstAtData,
      ReaderFailed, Runs, Unstick, bootVars, busVars, isrVars, taskVars, rideVars
  <2> QED
    BY <2>1, <2>2, <2>3, <2>4 DEF BusInv
<1>8. CASE ReaderTimeout
  <2>1. ImuTypeOK'
    BY <1>8, Limits
    DEF BusInv, ImuTypeOK, StageInv, Ops, ReaderTimeout, Runs, bootVars, busVars, isrVars, taskVars, rideVars
  <2>2. ManagerInv' /\ StageInv'
    BY <1>8
    DEF BusInv, ImuTypeOK, ManagerInv, StageInv, TokenInv, Tokens, OnBus, InTask, Carrying, Ops,
      ReaderTimeout, Runs, bootVars, busVars, isrVars, taskVars, rideVars
  <2>3. TokenInv'
    BY <1>8
    DEF BusInv, ImuTypeOK, ManagerInv, StageInv, TokenInv, Tokens, OnBus, InTask, Carrying, Ops,
      ReaderTimeout, Runs, bootVars, busVars, isrVars, taskVars, rideVars
  <2>4. RideInv' /\ BootInv' /\ DecodeInv' /\ MagBurstAtData'
    BY <1>8
    DEF BusInv, ManagerInv, StageInv, RideInv, BootInv, DecodeInv, MagBurstAtData,
      ReaderTimeout, Runs, bootVars, busVars, isrVars, taskVars, rideVars
  <2> QED
    BY <2>1, <2>2, <2>3, <2>4 DEF BusInv
<1>9. CASE ReaderRecover
  <2>1. ImuTypeOK'
    BY <1>9, Limits
    DEF BusInv, ImuTypeOK, StageInv, Ops, ReaderRecover, Runs, RecoverFlags, bootVars, busVars, isrVars, taskVars, rideVars
  <2>2. ManagerInv' /\ StageInv'
    BY <1>9
    DEF BusInv, ImuTypeOK, ManagerInv, StageInv, TokenInv, Tokens, OnBus, InTask, Carrying, Ops,
      ReaderRecover, Runs, RecoverFlags, bootVars, busVars, isrVars, taskVars, rideVars
  <2>3. TokenInv'
    BY <1>9
    DEF BusInv, ImuTypeOK, ManagerInv, StageInv, TokenInv, Tokens, OnBus, InTask, Carrying, Ops,
      ReaderRecover, Runs, RecoverFlags, bootVars, busVars, isrVars, taskVars, rideVars
  <2>4. RideInv' /\ BootInv' /\ DecodeInv' /\ MagBurstAtData'
    BY <1>9
    DEF BusInv, ManagerInv, StageInv, RideInv, BootInv, DecodeInv, MagBurstAtData,
      ReaderRecover, Runs, RecoverFlags, bootVars, busVars, isrVars, taskVars, rideVars
  <2> QED
    BY <2>1, <2>2, <2>3, <2>4 DEF BusInv
<1>10. CASE ReaderReset
  <2>1. ImuTypeOK'
    BY <1>10, Limits
    DEF BusInv, ImuTypeOK, StageInv, Ops, ReaderReset, Runs, RecoverHardware, bootVars, busVars, isrVars, taskVars, rideVars
  <2>2. ManagerInv' /\ StageInv'
    BY <1>10
    DEF BusInv, ImuTypeOK, ManagerInv, StageInv, TokenInv, Tokens, OnBus, InTask, Carrying, Ops,
      ReaderReset, Runs, RecoverHardware, bootVars, busVars, isrVars, taskVars, rideVars
  <2>3. TokenInv'
    BY <1>10
    DEF BusInv, ImuTypeOK, ManagerInv, StageInv, TokenInv, Tokens, OnBus, InTask, Carrying, Ops,
      ReaderReset, Runs, RecoverHardware, bootVars, busVars, isrVars, taskVars, rideVars
  <2>4. RideInv' /\ BootInv' /\ DecodeInv' /\ MagBurstAtData'
    BY <1>10
    DEF BusInv, ManagerInv, StageInv, RideInv, BootInv, DecodeInv, MagBurstAtData,
      ReaderReset, Runs, RecoverHardware, bootVars, busVars, isrVars, taskVars, rideVars
  <2> QED
    BY <2>1, <2>2, <2>3, <2>4 DEF BusInv
<1>11. CASE ReaderRestart
  <2>1. ImuTypeOK'
    BY <1>11, Limits
    DEF BusInv, ImuTypeOK, StageInv, Ops, ReaderRestart, Runs, Acquired, bootVars, busVars, isrVars, taskVars, rideVars
  <2>2. ManagerInv' /\ StageInv'
    BY <1>11
    DEF BusInv, ImuTypeOK, ManagerInv, StageInv, TokenInv, Tokens, OnBus, InTask, Carrying, Ops,
      ReaderRestart, Runs, Acquired, bootVars, busVars, isrVars, taskVars, rideVars
  <2>3. TokenInv'
    <3>1. /\ OnBus = 0 /\ InTask = 0 /\ OnBus' = 1 /\ InTask' = 0 /\ ready' = ready
          /\ (~collided' => ~collided /\ ~(ready > 0)) /\ pc' = "rstart" /\ pc = "restart"
          /\ pins' = "i2c"
      BY <1>11
      DEF BusInv, ImuTypeOK, ManagerInv, StageInv, OnBus, InTask, Carrying, Ops, ReaderRestart, Runs, Acquired
    <3>2. ready \in Nat /\ OnBus \in {0, 1} /\ InTask \in {0, 1}
      BY Limits DEF BusInv, ImuTypeOK, OnBus, InTask
    <3> QED
      BY <3>1, <3>2 DEF BusInv, TokenInv, Tokens
  <2>4. RideInv' /\ BootInv' /\ DecodeInv' /\ MagBurstAtData'
    BY <1>11
    DEF BusInv, ManagerInv, StageInv, RideInv, BootInv, DecodeInv, MagBurstAtData,
      ReaderRestart, Runs, Acquired, bootVars, busVars, isrVars, taskVars, rideVars
  <2> QED
    BY <2>1, <2>2, <2>3, <2>4 DEF BusInv
<1>12. CASE ReaderRestartDma
  <2>1. CASE Started("FAST")
    <3>1. ImuTypeOK'
      BY <1>12, <2>1, Limits
      DEF BusInv, ImuTypeOK, StageInv, Ops, ReaderRestartDma, Runs, Started, bootVars, busVars, isrVars, taskVars, rideVars
    <3>2. ManagerInv' /\ StageInv'
      BY <1>12, <2>1
      DEF BusInv, ImuTypeOK, ManagerInv, StageInv, TokenInv, Tokens, OnBus, InTask, Carrying, Ops,
        ReaderRestartDma, Runs, Started, bootVars, busVars, isrVars, taskVars, rideVars
    <3>3. TokenInv'
      BY <1>12, <2>1
      DEF BusInv, ImuTypeOK, ManagerInv, StageInv, TokenInv, Tokens, OnBus, InTask, Carrying, Ops,
        ReaderRestartDma, Runs, Started, bootVars, busVars, isrVars, taskVars, rideVars
    <3>4. RideInv' /\ BootInv' /\ DecodeInv' /\ MagBurstAtData'
      BY <1>12, <2>1
      DEF BusInv, ManagerInv, StageInv, RideInv, BootInv, DecodeInv, MagBurstAtData,
        ReaderRestartDma, Runs, Started, bootVars, busVars, isrVars, taskVars, rideVars
    <3> QED
      BY <3>1, <3>2, <3>3, <3>4 DEF BusInv
  <2>2. CASE StartFailed
    <3>1. ImuTypeOK'
      <4>1. faults' \in 0 .. MaxFaults
        BY <2>2, Limits DEF BusInv, ImuTypeOK, StartFailed
      <4>2. ImuTypeOK /\ pc' \in {"take", "failed"}
        BY <1>12 DEF BusInv, ReaderRestartDma
      <4>3. /\ UNCHANGED <<bootVars, isrVars, lastOp, active, op, quiet, collided, ready, rideVars>>
            /\ busy' = FALSE /\ trans' = "BLANK" /\ pins' = "i2c"
            /\ dma' = "NONE" /\ late' = FALSE /\ UNCHANGED <<rx, irq, errs>>
        BY <1>12, <2>2 DEF ReaderRestartDma, StartFailed
      <4> QED
        BY <4>1, <4>2, <4>3 DEF ImuTypeOK, bootVars, isrVars, rideVars
    <3>2. ManagerInv' /\ StageInv'
      BY <1>12, <2>2
      DEF BusInv, ImuTypeOK, ManagerInv, StageInv, TokenInv, Tokens, OnBus, InTask, Carrying, Ops,
        ReaderRestartDma, Runs, StartFailed, bootVars, busVars, isrVars, taskVars, rideVars
    <3>3. TokenInv'
      BY <1>12, <2>2
      DEF BusInv, ImuTypeOK, ManagerInv, StageInv, TokenInv, Tokens, OnBus, InTask, Carrying, Ops,
        ReaderRestartDma, Runs, StartFailed, bootVars, busVars, isrVars, taskVars, rideVars
    <3>4. RideInv' /\ BootInv' /\ DecodeInv' /\ MagBurstAtData'
      BY <1>12, <2>2
      DEF BusInv, ManagerInv, StageInv, RideInv, BootInv, DecodeInv, MagBurstAtData,
        ReaderRestartDma, Runs, StartFailed, bootVars, busVars, isrVars, taskVars, rideVars
    <3> QED
      BY <3>1, <3>2, <3>3, <3>4 DEF BusInv
  <2> QED
    BY <1>12, <2>1, <2>2 DEF ReaderRestartDma
<1> QED
  BY <1>1, <1>2, <1>3, <1>4, <1>5, <1>6, <1>7, <1>8, <1>9, <1>10, <1>11, <1>12 DEF Reader


\* A give raises the count by at most one, and never above the capacity.
LEMMA GiveType ==
    ASSUME NEW n \in 0 .. SemaMax
    PROVE  Give(n) \in 0 .. SemaMax /\ Give(n) \in {n, n + 1}
  BY Limits DEF Give

\* Wherever the token goes, it is not multiplied.
LEMMA TokenMoves ==
    ASSUME NEW r \in Nat, NEW n \in {r, r + 1}, NEW t \in {0, 1}
    PROVE  n + 0 + t <= r + 1 + t /\ r + 1 + t \in Nat /\ n + 0 + t \in Nat /\ r + 1 + t >= 1
OBVIOUS

\* What the completion callbacks do to the buffer, the cursor of the chain and
\* the drivers that ride along: each stores what was received in the section of
\* its own operation, and schedules only what is there.
LEMMA CallbackKeeps ==
    ASSUME BusInv, trans # "BLANK", rx = trans, Callback(trans), UNCHANGED <<active, present>>
    PROVE  /\ buf' \in [{"FAST", "MAG", "TEMP"} -> Ops \union {"NONE"}]
           /\ \A s \in DOMAIN buf' : buf'[s] \in {s, "NONE"}
           /\ nextOp' \in Ops /\ nextRide' \in 1 .. Len(Rides) \union {1}
           /\ "RIDE" \in {nextOp', trans} \/ Rides[nextRide] \in present => Rides[nextRide'] \in present
           /\ slow' \in 0 .. SlowEvery - 1 /\ slot' \in 0 .. SlotWrap - 1 /\ magFresh' \in BOOLEAN
           /\ fresh' \in [Devices -> BOOLEAN]
           /\ decode' \in [Devices -> {"idle", "copying", "mixed"}]
           /\ \A d \in Devices : decode[d] = "idle" => decode'[d] = "idle"
           /\ \A d \in Devices : decode'[d] = "mixed" => fresh'[d]
<1>0. /\ buf \in [{"FAST", "MAG", "TEMP"} -> Ops \union {"NONE"}]
      /\ \A s \in {"FAST", "MAG", "TEMP"} : buf[s] \in {s, "NONE"}
      /\ trans \in Ops /\ rx \in Ops /\ nextRide \in 1 .. Len(Rides) \union {1}
      /\ slow \in 0 .. SlowEvery - 1 /\ slot \in 0 .. SlotWrap - 1 /\ magFresh \in BOOLEAN
      /\ fresh \in [Devices -> BOOLEAN] /\ decode \in [Devices -> {"idle", "copying", "mixed"}]
      /\ DecodeInv /\ (trans = "RIDE" => Rides[nextRide] \in present)
  BY DEF BusInv, ImuTypeOK, ManagerInv, RideInv, Ops
<1>1. (slow + 1) % SlowEvery \in 0 .. SlowEvery - 1 /\ (slot + 1) % SlotWrap \in 0 .. SlotWrap - 1
  BY <1>0, Wraps, Limits
<1>2. CASE trans = "FAST"
  <2>1. CallbackFast
    BY <1>2, Zenon DEF Callback
  <2>2. /\ buf' = [buf EXCEPT !["FAST"] = "FAST"] /\ slow' = (slow + 1) % SlowEvery
        /\ nextOp' \in {"MAG", "FAST"} /\ UNCHANGED <<nextRide, slot, magFresh, fresh, decode>>
    BY <1>2, <2>1 DEF CallbackFast, rideVars
  <2> QED
    BY <1>0, <1>1, <1>2, <2>2 DEF Ops, DecodeInv
<1>3. CASE trans = "MAG"
  <2>1. CallbackMag
    BY <1>3, Zenon DEF Callback
  <2>2. /\ buf' = [buf EXCEPT !["MAG"] = "MAG"] /\ magFresh' = TRUE /\ nextOp' = "TEMP"
        /\ UNCHANGED <<nextRide, slow, slot, fresh, decode>>
    BY <1>3, <2>1 DEF CallbackMag, rideVars
  <2> QED
    BY <1>0, <1>3, <2>2 DEF Ops, DecodeInv
<1>4. CASE trans = "TEMP"
  <2>1. CallbackTemp
    BY <1>4, Zenon DEF Callback
  <2>2. /\ buf' = [buf EXCEPT !["TEMP"] = "TEMP"] /\ slot' = (slot + 1) % SlotWrap
        /\ \/ nextOp' = "FAST" /\ nextRide' = nextRide
           \/ nextOp' = "RIDE" /\ nextRide' \in DueRide(slot')
        /\ UNCHANGED <<slow, magFresh, fresh, decode>>
    BY <1>4, <2>1 DEF CallbackTemp, rideVars
  <2>3. \A i \in DueRide(slot') : i \in 1 .. Len(Rides) /\ Rides[i] \in present
    BY DEF DueRide, Due
  <2> QED
    BY <1>0, <1>1, <1>4, <2>2, <2>3 DEF Ops, DecodeInv
<1>5. CASE trans = "RIDE"
  <2> DEFINE d == Rides[active]
  <2>1. CallbackRide
    BY <1>5, Zenon DEF Callback
  <2>2. /\ fresh' = [fresh EXCEPT ![d] = TRUE]
        /\ decode' = [decode EXCEPT ![d] = IF @ = "copying" THEN "mixed" ELSE @]
        /\ nextOp' = "FAST" /\ UNCHANGED <<buf, nextRide, slow, slot, magFresh>>
    BY <2>1 DEF CallbackRide, Ingest
  <2> HIDE DEF d
  <2>3. fresh' \in [Devices -> BOOLEAN]
    BY <1>0, <2>2, Zenon
  <2>4. /\ decode' \in [Devices -> {"idle", "copying", "mixed"}]
        /\ \A e \in Devices : e # d => decode'[e] = decode[e]
        /\ d \in Devices => decode'[d] = IF decode[d] = "copying" THEN "mixed" ELSE decode[d]
    BY <1>0, <2>2
  <2>5. \A e \in Devices : (e = d => fresh'[e]) /\ (e # d => fresh'[e] = fresh[e])
    BY <1>0, <2>2
  <2> QED
    BY <1>0, <1>5, <2>2, <2>3, <2>4, <2>5 DEF Ops, DecodeInv
<1> QED
  BY <1>0, <1>2, <1>3, <1>4, <1>5 DEF Ops

\* The completion interrupt: the first one serves the burst that was claimed, a
\* repeated one finds nothing to serve.
LEMMA IsrKeeps ==
    ASSUME BusInv, Isr
    PROVE  BusInv'
<1>0. /\ ImuTypeOK /\ irq = 1 /\ irq' \in {0, 1} /\ dma = "NONE" /\ (trans # "BLANK" => rx = trans)
      /\ boot = <<>> /\ pc \notin {"start", "rstart", "restart"}
      /\ UNCHANGED <<bootVars, pins, dma, late, faults, rx, errs, taskVars>>
  <2>1. irq \in 0 .. 1 /\ irq > 0 /\ (irq' = irq \/ irq' = irq - 1)
    BY DEF Isr, BusInv, ImuTypeOK
  <2>2. irq = 1 /\ irq' \in {0, 1}
    BY <2>1
  <2> QED
    BY <2>1, <2>2 DEF Isr, BusInv, ManagerInv, StageInv, BootInv
<1>1. CASE trans = "BLANK"
  <2>1. UNCHANGED <<busy, trans, isrVars, ready, rideVars>>
    BY <1>1 DEF Isr
  <2>2. ImuTypeOK' /\ ManagerInv' /\ StageInv'
    BY <1>0, <1>1, <2>1
    DEF BusInv, ImuTypeOK, ManagerInv, StageInv, bootVars, taskVars, isrVars, rideVars
  <2>3. TokenInv'
    BY <1>0, <2>1
    DEF BusInv, TokenInv, Tokens, OnBus, InTask, Carrying, taskVars
  <2>4. RideInv' /\ BootInv' /\ DecodeInv' /\ MagBurstAtData'
    BY <1>0, <2>1 DEF BusInv, RideInv, BootInv, DecodeInv, MagBurstAtData, bootVars, taskVars, isrVars,
      rideVars
  <2> QED
    BY <2>2, <2>3, <2>4 DEF BusInv
<1>2. CASE trans # "BLANK"
  <2>1. trans' = "BLANK" /\ busy' = FALSE /\ Callback(trans) /\ ready' = Give(ready)
    BY <1>2 DEF Isr
  <2>2. ready \in 0 .. SemaMax /\ ready' \in 0 .. SemaMax /\ ready' \in {ready, ready + 1}
    BY <1>0, <2>1, GiveType DEF ImuTypeOK
  <2>3. /\ buf' \in [{"FAST", "MAG", "TEMP"} -> Ops \union {"NONE"}]
        /\ \A s \in DOMAIN buf' : buf'[s] \in {s, "NONE"}
        /\ nextOp' \in Ops /\ nextRide' \in 1 .. Len(Rides) \union {1}
        /\ "RIDE" \in {nextOp', trans} \/ Rides[nextRide] \in present => Rides[nextRide'] \in present
        /\ slow' \in 0 .. SlowEvery - 1 /\ slot' \in 0 .. SlotWrap - 1 /\ magFresh' \in BOOLEAN
        /\ fresh' \in [Devices -> BOOLEAN]
        /\ decode' \in [Devices -> {"idle", "copying", "mixed"}]
        /\ \A d \in Devices : decode[d] = "idle" => decode'[d] = "idle"
        /\ \A d \in Devices : decode'[d] = "mixed" => fresh'[d]
    BY <1>0, <1>2, <2>1, CallbackKeeps DEF bootVars, taskVars
  <2>4. ImuTypeOK'
    <3>1. /\ UNCHANGED <<bootVars, pins, dma, late, faults, rx, errs, taskVars>>
          /\ irq' \in 0 .. 1 /\ trans' = "BLANK" /\ busy' = FALSE /\ ImuTypeOK
      BY <1>0, <2>1
    <3>2. {magFresh', collided'} \subseteq BOOLEAN /\ imuUp' \in BOOLEAN /\ lost' \in BOOLEAN
          /\ busy' \in BOOLEAN /\ late' \in BOOLEAN
      BY <2>3, <3>1, Zenon DEF ImuTypeOK, bootVars, taskVars
    <3>3. {dma', rx'} \subseteq Ops \union {"NONE"} /\ {nextOp', lastOp', op'} \subseteq Ops
          /\ {nextRide', active'} \subseteq 1 .. Len(Rides) \union {1}
      BY <2>3, <3>1 DEF ImuTypeOK, taskVars
    <3> QED
      BY <2>2, <2>3, <3>1, <3>2, <3>3 DEF ImuTypeOK, bootVars, taskVars
  <2>5. ManagerInv' /\ StageInv'
    BY <1>0, <1>2, <2>1, <2>3 DEF BusInv, ManagerInv, StageInv, taskVars
  <2>6. TokenInv'
    <3>1. /\ OnBus = 1 /\ OnBus' = 0 /\ InTask' = InTask /\ InTask \in {0, 1}
      BY <1>0, <1>2, <2>1 DEF OnBus, InTask, Carrying, taskVars
    <3>2. ready \in Nat /\ ready' \in Nat
      BY <2>2, Limits
    <3>3. Tokens' <= Tokens /\ Tokens \in Nat /\ Tokens' \in Nat /\ Tokens >= 1
      <4>1. Tokens = ready + 1 + InTask /\ Tokens' = ready' + 0 + InTask
        BY <3>1, Zenon DEF Tokens
      <4> QED
        BY <2>2, <3>1, <3>2, <4>1, TokenMoves, Zenon
    <3> QED
      BY <1>0, <3>3 DEF BusInv, TokenInv, taskVars
  <2>7. RideInv' /\ BootInv' /\ DecodeInv' /\ MagBurstAtData'
    BY <1>0, <1>2, <2>1, <2>3
    DEF BusInv, RideInv, BootInv, DecodeInv, MagBurstAtData, bootVars, taskVars
  <2> QED
    BY <2>4, <2>5, <2>6, <2>7 DEF BusInv
<1> QED
  BY <1>1, <1>2


\* sensor_probe_all: the chain's token is given once, to a bus that is idle.
LEMMA BootKeeps ==
    ASSUME BusInv, ProbeImu \/ ProbeBaro \/ ProbeRange
    PROVE  BusInv'
<1>0. /\ ImuTypeOK /\ boot # <<>> /\ pc = "take" /\ trans = "BLANK" /\ dma = "NONE" /\ irq = 0
      /\ pins = "i2c" /\ ~collided /\ \A d \in Devices : decode[d] = "idle"
  BY DEF ProbeImu, ProbeBaro, ProbeRange, ProbeRide, BusInv, BootInv
<1>1. boot' \in Seq({"imu", "baro", "range"})
  <2>1. boot' = Tail(boot) /\ boot \in Seq({"imu", "baro", "range"})
    BY <1>0 DEF ProbeImu, ProbeBaro, ProbeRange, ProbeRide, ImuTypeOK
  <2> QED
    BY <1>0, <2>1
<1>2. CASE ProbeImu
  <2>1. /\ nextOp' = "FAST" /\ lastOp' = "FAST"
        /\ UNCHANGED <<present, pins, busy, trans, dma, late, rx, irq, errs, buf, nextRide, slow,
                       slot, magFresh, active, pc, op, quiet, collided, rideVars>>
    BY <1>2 DEF ProbeImu
  <2>2. /\ imuUp' \in BOOLEAN /\ lost' \in BOOLEAN /\ faults' \in 0 .. MaxFaults
        /\ window' \in {"none"} \union ToSet(MagConfPointers) /\ MagBurstAtData'
        /\ ready' \in {ready, 1}
    <3>1. CASE UNCHANGED <<imuUp, window, lost, ready, faults>>
      BY <1>0, <3>1 DEF ImuTypeOK, BusInv, MagBurstAtData
    <3>2. ASSUME NEW l \in DOMAIN MagConfPointers \union {0}, imuUp' = TRUE, ready' = 1,
                 window' = PointerAfter({l}), lost' = (l = Len(MagConfPointers)),
                 l # 0 => faults < MaxFaults, faults' = IF l = 0 THEN faults ELSE faults + 1
          PROVE  <2>2!:
      <4>1. window' = IF l = Len(MagConfPointers) THEN "chip_id" ELSE "data"
        BY <3>2, PointerAfterOne
      <4>2. {"chip_id", "data"} \subseteq ToSet(MagConfPointers)
        BY DEF ToSet, MagConfPointers
      <4>3. faults' \in 0 .. MaxFaults
        <5>1. faults \in 0 .. MaxFaults
          BY <1>0 DEF ImuTypeOK
        <5> QED
          BY <3>2, <5>1, Limits
      <4>4. MagBurstAtData'
        BY <3>2, <4>1 DEF MagBurstAtData
      <4>5. lost' \in BOOLEAN
        BY <3>2
      <4> QED
        BY <3>2, <4>1, <4>2, <4>3, <4>4, <4>5
    <3> QED
      BY <1>2, <3>1, <3>2 DEF ProbeImu
  <2>3. ready' \in 0 .. SemaMax
    BY <1>0, <2>2, Limits DEF ImuTypeOK
  <2>4. ImuTypeOK'
    BY <1>0, <1>1, <2>1, <2>2, <2>3 DEF ImuTypeOK, Ops, rideVars
  <2>5. ManagerInv' /\ StageInv' /\ BootInv' /\ DecodeInv'
    BY <1>0, <2>1 DEF BusInv, ManagerInv, StageInv, BootInv, DecodeInv, rideVars
  <2>6. TokenInv'
    <3>1. OnBus' = 0 /\ InTask' = 0 /\ OnBus = 0 /\ InTask = 0
      BY <1>0, <2>1 DEF OnBus, InTask, Carrying
    <3>2. Tokens = ready /\ Tokens' = ready' /\ ready <= 1
      <4>1. ready \in Nat /\ ready' \in Nat /\ Tokens <= 1
        BY <1>0, <2>2, Limits DEF BusInv, TokenInv, ImuTypeOK
      <4>2. Tokens = ready + 0 + 0 /\ Tokens' = ready' + 0 + 0
        BY <3>1, Zenon DEF Tokens
      <4>3. \A n \in Nat : n + 0 + 0 = n
        OBVIOUS
      <4>4. Tokens = ready /\ Tokens' = ready'
        BY <4>1, <4>2, <4>3, Zenon
      <4> QED
        BY <4>1, <4>4
    <3>3. ready \in Nat /\ ready' \in Nat
      BY <1>0, <2>2, Limits DEF ImuTypeOK
    <3>4. Tokens' <= 1 /\ Tokens' \in Nat
      BY <2>2, <3>2, <3>3
    <3> QED
      BY <1>0, <2>1, <3>2, <3>4 DEF TokenInv
  <2>7. RideInv'
    BY <1>0, <2>1 DEF BusInv, RideInv
  <2> QED
    BY <2>2, <2>4, <2>5, <2>6, <2>7 DEF BusInv
<1>3. ASSUME NEW kind, NEW e, ProbeRide(kind, e)
      PROVE  BusInv'
  <2>1. /\ present \subseteq present' /\ present' \subseteq Devices
        /\ UNCHANGED <<imuUp, window, lost, busVars, isrVars, taskVars, ready, decode>>
        /\ fresh' \in [Devices -> BOOLEAN]
    <3>1. fresh' = [d \in Devices |-> IF d = e THEN FALSE ELSE fresh[d]]
      BY <1>3 DEF ProbeRide
    <3>2. fresh' \in [Devices -> BOOLEAN]
      BY <1>0, <3>1, Zenon DEF ImuTypeOK
    <3> QED
      BY <1>0, <1>3, <3>2 DEF ProbeRide, ImuTypeOK
  <2>2. ImuTypeOK'
    BY <1>0, <1>1, <2>1 DEF ImuTypeOK, busVars, isrVars, taskVars
  <2>3. ManagerInv' /\ StageInv' /\ MagBurstAtData'
    BY <2>1 DEF BusInv, ManagerInv, StageInv, MagBurstAtData, busVars, isrVars, taskVars
  <2>4. TokenInv'
    BY <2>1 DEF BusInv, TokenInv, Tokens, OnBus, InTask, Carrying, busVars, taskVars
  <2>5. RideInv' /\ BootInv' /\ DecodeInv'
    BY <1>0, <2>1 DEF BusInv, RideInv, BootInv, DecodeInv, busVars, isrVars, taskVars
  <2> QED
    BY <2>2, <2>3, <2>4, <2>5 DEF BusInv
<1> QED
  BY <1>2, <1>3 DEF ProbeBaro, ProbeRange

\* The peripheral and the decode tasks.
LEMMA HardwareKeeps ==
    ASSUME BusInv, DmaDone \/ DmaFault
    PROVE  BusInv'
<1>0. /\ ImuTypeOK /\ dma # "NONE" /\ boot = <<>> /\ irq = 0
      /\ UNCHANGED <<bootVars, pins, busy, trans, errs, isrVars, taskVars, ready, rideVars>>
  BY DEF DmaDone, DmaFault, BusInv, BootInv, ManagerInv, ImuTypeOK
<1>1. CASE DmaDone
  <2>1. rx' = dma /\ dma' = "NONE" /\ late' = FALSE /\ irq' = 1 /\ faults' = faults
    BY <1>1 DEF DmaDone
  <2>2. ImuTypeOK'
    <3>1. {dma', rx'} \subseteq Ops \union {"NONE"} /\ irq' \in 0 .. 1
      BY <1>0, <2>1 DEF ImuTypeOK
    <3>2. late' \in BOOLEAN
      BY <2>1, Zenon
    <3> QED
      BY <1>0, <2>1, <3>1, <3>2 DEF ImuTypeOK, bootVars, isrVars, taskVars, rideVars
  <2>3. ManagerInv' /\ StageInv'
    BY <1>0, <2>1 DEF BusInv, ManagerInv, StageInv, isrVars, taskVars
  <2>4. TokenInv'
    BY <1>0, <2>1 DEF BusInv, TokenInv, Tokens, OnBus, InTask, Carrying, taskVars
  <2>5. RideInv' /\ BootInv' /\ DecodeInv' /\ MagBurstAtData'
    BY <1>0, <2>1
    DEF BusInv, RideInv, BootInv, DecodeInv, MagBurstAtData, bootVars, isrVars, taskVars, rideVars
  <2> QED
    BY <2>2, <2>3, <2>4, <2>5 DEF BusInv
<1>2. CASE DmaFault
  <2>1. /\ rx' = rx /\ dma' \in {dma, "NONE"} /\ late' \in BOOLEAN /\ irq' = irq
        /\ faults' \in 0 .. MaxFaults
    <3>1. faults \in 0 .. MaxFaults /\ late \in BOOLEAN
      BY <1>0 DEF ImuTypeOK
    <3>2. faults' \in 0 .. MaxFaults
      BY <1>2, <3>1, Limits DEF DmaFault
    <3> QED
      BY <1>2, <3>1, <3>2, Zenon DEF DmaFault
  <2>2. ImuTypeOK'
    BY <1>0, <2>1 DEF ImuTypeOK, bootVars, isrVars, taskVars, rideVars
  <2>3. ManagerInv' /\ StageInv'
    BY <1>0, <2>1 DEF BusInv, ManagerInv, StageInv, isrVars, taskVars
  <2>4. TokenInv'
    BY <1>0, <2>1 DEF BusInv, TokenInv, Tokens, OnBus, InTask, Carrying, taskVars
  <2>5. RideInv' /\ BootInv' /\ DecodeInv' /\ MagBurstAtData'
    BY <1>0, <2>1
    DEF BusInv, RideInv, BootInv, DecodeInv, MagBurstAtData, bootVars, isrVars, taskVars, rideVars
  <2> QED
    BY <2>2, <2>3, <2>4, <2>5 DEF BusInv
<1> QED
  BY <1>1, <1>2

LEMMA DecodeKeeps ==
    ASSUME BusInv, NEW d \in Devices, DecodeTake(d) \/ DecodePublish(d)
    PROVE  BusInv'
<1>0. ImuTypeOK /\ boot = <<>> /\ UNCHANGED <<bootVars, busVars, isrVars, taskVars, ready>>
  BY DEF DecodeTake, DecodePublish, BusInv, ReaderSleeps
<1>1. /\ fresh' \in [Devices -> BOOLEAN]
      /\ decode' \in [Devices -> {"idle", "copying", "mixed"}]
      /\ DecodeInv'
  <2>1. CASE DecodeTake(d)
    <3>1. fresh' = [fresh EXCEPT ![d] = FALSE] /\ decode' = [decode EXCEPT ![d] = "copying"]
      BY <2>1 DEF DecodeTake
    <3>2. fresh' \in [Devices -> BOOLEAN]
      BY <1>0, <3>1, Zenon DEF ImuTypeOK
    <3> QED
      BY <1>0, <3>1, <3>2 DEF ImuTypeOK, BusInv, DecodeInv
  <2>2. CASE DecodePublish(d)
    BY <1>0, <2>2 DEF DecodePublish, ImuTypeOK, BusInv, DecodeInv
  <2> QED
    BY <2>1, <2>2
<1>2. ImuTypeOK'
  BY <1>0, <1>1 DEF ImuTypeOK, bootVars, busVars, isrVars, taskVars
<1>3. ManagerInv' /\ StageInv' /\ MagBurstAtData' /\ RideInv' /\ BootInv'
  BY <1>0 DEF BusInv, ManagerInv, StageInv, MagBurstAtData, RideInv, BootInv, bootVars, busVars,
    isrVars, taskVars
<1>4. TokenInv'
  BY <1>0 DEF BusInv, TokenInv, Tokens, OnBus, InTask, Carrying, busVars, taskVars
<1> QED
  BY <1>1, <1>2, <1>3, <1>4 DEF BusInv

----------------------------------------------------------------------------
(* The theorems. *)

LEMMA BusInitial == ImuInit => BusInv
<1> SUFFICES ASSUME ImuInit PROVE BusInv
  OBVIOUS
<1>1. 0 \in 0 .. MaxFaults /\ 0 \in 0 .. ErrLimit /\ 0 \in 0 .. SlowEvery - 1
      /\ 0 \in 0 .. SlotWrap - 1 /\ 0 \in 0 .. SemaMax /\ 0 \in 0 .. StallTimeouts
  BY Limits
<1>2. fresh \in [Devices -> BOOLEAN] /\ buf \in [{"FAST", "MAG", "TEMP"} -> Ops \union {"NONE"}]
      /\ decode \in [Devices -> {"idle", "copying", "mixed"}]
  BY DEF ImuInit
<1>3. ImuTypeOK
  <2>1. {magFresh, collided} \subseteq BOOLEAN /\ imuUp \in BOOLEAN /\ lost \in BOOLEAN
        /\ busy \in BOOLEAN /\ late \in BOOLEAN
    BY Zenon DEF ImuInit
  <2>2. boot \in Seq({"imu", "baro", "range"})
    BY DEF ImuInit, Kinds
  <2> QED
    BY <1>1, <1>2, <2>1, <2>2 DEF ImuInit, ImuTypeOK, Ops
<1>4. ManagerInv /\ StageInv /\ RideInv /\ BootInv /\ DecodeInv /\ MagBurstAtData
  BY DEF ImuInit, ManagerInv, StageInv, RideInv, BootInv, DecodeInv, MagBurstAtData
<1>5. TokenInv
  BY DEF ImuInit, TokenInv, Tokens, OnBus, InTask, Carrying
<1> QED
  BY <1>3, <1>4, <1>5 DEF BusInv

LEMMA BusStep == BusInv /\ [ImuNext]_imuVars => BusInv'
<1> SUFFICES ASSUME BusInv, [ImuNext]_imuVars PROVE BusInv'
  OBVIOUS
<1>1. CASE UNCHANGED imuVars
  BY <1>1 DEF BusInv, ImuTypeOK, ManagerInv, StageInv, TokenInv, Tokens, OnBus, InTask, Carrying, RideInv,
    BootInv, DecodeInv, MagBurstAtData, imuVars, bootVars, busVars, isrVars, taskVars, rideVars
<1> QED
  BY <1>1, BootKeeps, IsrKeeps, HardwareKeeps, ReaderKeeps, DecodeKeeps DEF ImuNext

\* The inductive invariant holds of the bus whatever its devices, periods,
\* limits and faults are: i2c_manager's flags describe the burst that runs.
THEOREM BusInvariant == ImuSpec => []BusInv
  BY BusInitial, BusStep, PTL DEF ImuSpec

\* The acquisition chain of bmx160_initiate_read stays one token through
\* refused, lost and late bursts, the watchdog and repeated interrupts; when a
\* restart meets a late completion there are two, and never more.
THEOREM ChainIsSound == ImuSpec => []ChainSound
<1>1. BusInv => ChainSound
  <2> SUFFICES ASSUME BusInv PROVE ChainSound
    OBVIOUS
  <2>1. ready \in Nat /\ OnBus \in {0, 1} /\ InTask \in {0, 1} /\ Tokens = ready + OnBus + InTask
    BY Limits DEF BusInv, ImuTypeOK, OnBus, InTask, Tokens
  <2>2. NoGiveStorm
    <3>1. NoGiveStorm <=> ready + OnBus <= 2
      BY DEF NoGiveStorm, OnBus
    <3> QED
      BY <2>1, <3>1 DEF BusInv, TokenInv
  <2>3. ASSUME ~collided, ready > 0
        PROVE  ready = 1 /\ trans = "BLANK" /\ dma = "NONE"
               /\ pc \in {"take", "recover", "reset", "restart"}
    <3>1. Tokens <= 1
      BY <2>3 DEF BusInv, TokenInv
    <3>2. ready = 1 /\ OnBus = 0 /\ InTask = 0 /\ Tokens # 0
      BY <2>1, <2>3, <3>1
    <3> QED
      BY <2>3, <3>2
      DEF BusInv, ImuTypeOK, ManagerInv, StageInv, TokenInv, OnBus, InTask, Carrying, Ops
  <2>4. ASSUME ~collided, pc = "process"
        PROVE  dma = "NONE" /\ trans = "BLANK"
    <3>1. Tokens <= 1 /\ InTask = 1
      BY <2>4 DEF BusInv, TokenInv, InTask, Carrying
    <3>2. OnBus = 0
      BY <2>1, <3>1
    <3> QED
      BY <2>4, <3>2 DEF BusInv, ImuTypeOK, Ops, ManagerInv, OnBus
  <2>5. ASSUME ~collided, dma # "NONE"
        PROVE  pins = "i2c"
    BY <2>5 DEF BusInv, ImuTypeOK, TokenInv
  <2> QED
    BY <2>2, <2>3, <2>4, <2>5 DEF ChainSound, SingleToken, BusInv
<1> QED
  BY <1>1, BusInvariant, PTL

\* What is read is what it is taken for: a section of the DMA buffer only gets
\* bytes of its own operation, no absent device is addressed, and the automatic
\* magnetometer burst starts at the data registers.
THEOREM BusIsHonest == ImuSpec => []BusHonest
<1>1. BusInv => BusHonest
  BY DEF BusInv, ManagerInv, RideInv, BusHonest, BytesInTheirSection, AbsentNeverRead
<1> QED
  BY <1>1, BusInvariant, PTL

\* bme280_read_task, vl53l0x_read_task: a snapshot that the interrupt overwrote
\* in the middle of the copy is decoded again.
THEOREM MixedIsTakenAgain == ImuSpec => MixedIsRedone
<1>1. BusInv /\ [ImuNext]_imuVars
      => [\A d \in Devices : decode[d] = "mixed" /\ decode'[d] = "idle" => fresh'[d]]_imuVars
  <2> SUFFICES ASSUME BusInv, ImuNext, NEW d \in Devices, decode[d] = "mixed", decode'[d] = "idle"
               PROVE  fresh'[d]
    OBVIOUS
  <2>1. fresh[d] /\ boot = <<>>
    BY DEF BusInv, DecodeInv, BootInv
  <2>2. CASE ProbeImu \/ ProbeBaro \/ ProbeRange \/ DmaDone \/ DmaFault
    BY <2>2 DEF ProbeImu, ProbeBaro, ProbeRange, ProbeRide, DmaDone, DmaFault, rideVars
  <2>3. CASE Reader
    BY <2>3 DEF Reader, ReaderTake, ReaderProcess, ReaderIssue, ReaderPace, ReaderAcquire, ReaderStart,
      ReaderFailed, ReaderTimeout, ReaderRecover, ReaderReset, ReaderRestart, ReaderRestartDma, rideVars
  <2>4. CASE Isr
    <3>1. CASE UNCHANGED rideVars
      BY <3>1 DEF rideVars
    <3>2. CASE ~(UNCHANGED rideVars)
      <4>1. trans # "BLANK" /\ Callback(trans)
        BY <2>4, <3>2 DEF Isr
      <4>2. CallbackRide
        BY <3>2, <4>1 DEF Callback, CallbackFast, CallbackMag, CallbackTemp, BusInv, ImuTypeOK, Ops
      <4>3. decode' = [decode EXCEPT ![Rides[active]] = IF @ = "copying" THEN "mixed" ELSE @]
        BY <4>2 DEF CallbackRide, Ingest
      <4> QED
        BY <4>3 DEF BusInv, ImuTypeOK
    <3> QED
      BY <3>1, <3>2
  <2>5. ASSUME NEW e \in Devices, DecodeTake(e) \/ DecodePublish(e)
        PROVE  fresh'[d]
    <3>1. CASE DecodePublish(e)
      BY <2>1, <3>1 DEF DecodePublish
    <3>2. CASE DecodeTake(e)
      BY <3>2 DEF DecodeTake, BusInv, ImuTypeOK
    <3> QED
      BY <2>5, <3>1, <3>2
  <2> QED
    BY <2>2, <2>3, <2>4, <2>5 DEF ImuNext
<1> QED
  BY <1>1, BusInvariant, PTL DEF ImuSpec, MixedIsRedone
=============================================================================
