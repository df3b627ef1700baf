---------------------------- MODULE ControlProofs ----------------------------
(***************************************************************************)
(* The inner loop (RateLoop) for every FIFO, period, excitation and        *)
(* capture: stale motor commands are bounded and the mixer keeps roll and  *)
(* pitch, the integrator holds only this arming's errors, and a capture, a *)
(* dump and a notch frame are served whole.  And the simulator's step      *)
(* around the flight code (Sitl): every step settles, and other threads    *)
(* neither tear its pose nor are switched into its tasks.                  *)
(***************************************************************************)
EXTENDS RateLoop, Sitl, FiniteSetTheorems, SequenceTheorems, WellFoundedInduction, TLAPS

(***************************************************************************)
(* The mixer.                                                              *)
(***************************************************************************)

LEMMA LeastIs ==
    ASSUME NEW S, NEW x \in S, S \subseteq Int, \A y \in S : x <= y
    PROVE  Least(S) = x
<1>1. \A z \in S : (\A y \in S : z <= y) => z = x
  OBVIOUS
<1> QED
  BY <1>1 DEF Least

LEMMA GreatestIs ==
    ASSUME NEW S, NEW x \in S, S \subseteq Int, \A y \in S : x >= y
    PROVE  Greatest(S) = x
<1>1. \A z \in S : (\A y \in S : z >= y) => z = x
  OBVIOUS
<1> QED
  BY <1>1 DEF Greatest

\* A set of numbers with both ends.
Ended(S) == /\ S \subseteq Int
            /\ \E x \in S : \A y \in S : x <= y
            /\ \E x \in S : \A y \in S : x >= y

LEMMA EndedAdd ==
    ASSUME NEW S, Ended(S), NEW x \in Int, NEW T \in SUBSET {x}
    PROVE  Ended(S \cup T)
<1>1. PICK l \in S : \A y \in S : l <= y
  BY DEF Ended
<1>2. PICK g \in S : \A y \in S : g >= y
  BY DEF Ended
<1>3. S \subseteq Int
  BY DEF Ended
<1>4. CASE T = {}
  BY <1>4
<1>5. CASE T = {x}
  <2>1. S \cup T \subseteq Int
    BY <1>3, <1>5
  <2>2. \E z \in S \cup T : \A y \in S \cup T : z <= y
    <3>1. CASE l <= x
      BY <1>1, <1>3, <1>5, <3>1
    <3>2. CASE x < l
      <4>1. \A y \in S \cup T : x <= y
        BY <1>1, <1>3, <1>5, <3>2
      <4> QED
        BY <4>1, <1>5
    <3> QED
      BY <3>1, <3>2, <1>3
  <2>3. \E z \in S \cup T : \A y \in S \cup T : z >= y
    <3>1. CASE g >= x
      BY <1>2, <1>3, <1>5, <3>1
    <3>2. CASE x > g
      <4>1. \A y \in S \cup T : x >= y
        BY <1>2, <1>3, <1>5, <3>2
      <4> QED
        BY <4>1, <1>5
    <3> QED
      BY <3>1, <3>2, <1>3
  <2> QED
    BY <2>1, <2>2, <2>3 DEF Ended
<1> QED
  BY <1>4, <1>5

LEMMA EndedEnds ==
    ASSUME NEW S, Ended(S)
    PROVE  Least(S) \in Int /\ Greatest(S) \in Int
<1>1. PICK l \in S : \A y \in S : l <= y
  BY DEF Ended
<1>2. PICK g \in S : \A y \in S : g >= y
  BY DEF Ended
<1>3. S \subseteq Int
  BY DEF Ended
<1>4. Least(S) = l
  BY <1>1, <1>3, LeastIs
<1>5. Greatest(S) = g
  BY <1>2, <1>3, GreatestIs
<1> QED
  BY <1>3, <1>4, <1>5

\* Four motor commands.
Commands4 == [Motors -> Int]
Directions == {MixRoll, MixPitch, MixYaw, MixThrust}

LEMMA DirectionsType ==
    /\ MixRoll \in Commands4 /\ MixPitch \in Commands4
    /\ MixYaw \in Commands4 /\ MixThrust \in Commands4
BY DEF Commands4, Motors, MixRoll, MixPitch, MixYaw, MixThrust

\* The corrections desat_gain chooses between.
Lows(m, dir, lo) == {(lo - m[i]) * dir[i] : i \in {j \in Motors : m[j] < lo}}
Highs(m, dir) == {(OutMax - m[i]) * dir[i] : i \in {j \in Motors : m[j] > OutMax}}
GainChoices(m, dir, lo) == {0} \cup Lows(m, dir, lo) \cup Highs(m, dir)

LEMMA GainOfChoices ==
    ASSUME NEW m, NEW dir, NEW lo
    PROVE  DesatGain(m, dir, lo) = Least(GainChoices(m, dir, lo)) + Greatest(GainChoices(m, dir, lo))
BY DEF DesatGain, GainChoices, Lows, Highs

LEMMA GainType ==
    ASSUME NEW m \in Commands4, NEW dir \in Commands4, NEW lo \in Int
    PROVE  DesatGain(m, dir, lo) \in Int
<1> DEFINE L(i) == {(lo - m[j]) * dir[j] : j \in {k \in {i} : m[k] < lo}}
           H(i) == {(OutMax - m[j]) * dir[j] : j \in {k \in {i} : m[k] > OutMax}}
<1>1. \A i \in Motors : /\ (lo - m[i]) * dir[i] \in Int
                        /\ (OutMax - m[i]) * dir[i] \in Int
  BY DEF Commands4, OutMax
<1>2. \A i \in Motors : /\ L(i) \in SUBSET {(lo - m[i]) * dir[i]}
                        /\ H(i) \in SUBSET {(OutMax - m[i]) * dir[i]}
  OBVIOUS
<1>3. GainChoices(m, dir, lo) = {0} \cup L(1) \cup L(2) \cup L(3) \cup L(4)
                                \cup H(1) \cup H(2) \cup H(3) \cup H(4)
  <2>1. Lows(m, dir, lo) = L(1) \cup L(2) \cup L(3) \cup L(4)
    BY DEF Lows, Motors
  <2>2. Highs(m, dir) = H(1) \cup H(2) \cup H(3) \cup H(4)
    BY DEF Highs, Motors
  <2> HIDE DEF L, H
  <2> QED
    BY <2>1, <2>2 DEF GainChoices
<1> HIDE DEF L, H
<1>4. Ended({0})
  BY DEF Ended
<1>5. 1 \in Motors /\ 2 \in Motors /\ 3 \in Motors /\ 4 \in Motors
  BY DEF Motors
<1>6. ASSUME NEW S, Ended(S), NEW i \in Motors
      PROVE  Ended(S \cup L(i)) /\ Ended(S \cup H(i))
  BY <1>1, <1>2, <1>6, EndedAdd
<1>7. Ended({0} \cup L(1))
  BY <1>5, <1>6, <1>4
<1>8. Ended({0} \cup L(1) \cup L(2))
  BY <1>5, <1>6, <1>7
<1>9. Ended({0} \cup L(1) \cup L(2) \cup L(3))
  BY <1>5, <1>6, <1>8
<1>10. Ended({0} \cup L(1) \cup L(2) \cup L(3) \cup L(4))
  BY <1>5, <1>6, <1>9
<1>11. Ended({0} \cup L(1) \cup L(2) \cup L(3) \cup L(4) \cup H(1))
  BY <1>5, <1>6, <1>10
<1>12. Ended({0} \cup L(1) \cup L(2) \cup L(3) \cup L(4) \cup H(1) \cup H(2))
  BY <1>5, <1>6, <1>11
<1>13. Ended({0} \cup L(1) \cup L(2) \cup L(3) \cup L(4) \cup H(1) \cup H(2) \cup H(3))
  BY <1>5, <1>6, <1>12
<1>14. Ended(GainChoices(m, dir, lo))
  BY <1>3, <1>5, <1>6, <1>13
<1> QED
  BY <1>14, GainOfChoices, EndedEnds

LEMMA ShiftType ==
    ASSUME NEW m \in Commands4, NEW k \in Int, NEW dir \in Commands4
    PROVE  Shift(m, k, dir) \in Commands4
BY DEF Shift, Commands4

\* What the quad-X asks of the four motors before it is fitted.
Nominal(roll, pitch, yaw, thr) ==
    [i \in Motors |-> roll * MixRoll[i] + pitch * MixPitch[i] + yaw * MixYaw[i] + thr]

LEMMA NominalType ==
    ASSUME NEW roll \in Int, NEW pitch \in Int, NEW yaw \in Int, NEW thr \in Int
    PROVE  Nominal(roll, pitch, yaw, thr) \in Commands4
BY DirectionsType DEF Nominal, Commands4

\* The commands that leave the mixer in flight.
LEMMA FlyingAllocates ==
    ASSUME NEW roll, NEW pitch, NEW yaw, NEW thr
    PROVE  Allocate(Flying, roll, pitch, yaw, thr)
           = [i \in Motors |->
                Clamp(Desaturated(Nominal(roll, pitch, yaw, thr), IdleFloor)[i], IdleFloor, OutMax)]
BY DEF Allocate, Flying, Nominal

\* No demand drives a motor out of its range.
LEMMA AllocateInRange ==
    ASSUME NEW roll \in Int, NEW pitch \in Int, NEW yaw \in Int, NEW thr \in Int,
           NEW i \in Motors
    PROVE  Allocate(Flying, roll, pitch, yaw, thr)[i] \in IdleFloor .. OutMax
<1> DEFINE n == Nominal(roll, pitch, yaw, thr)
           t == Shift(n, DesatGain(n, MixThrust, IdleFloor), MixThrust)
<1>1. n \in Commands4
  BY NominalType
<1>2. IdleFloor \in Int
  BY DEF IdleFloor
<1>3. DesatGain(n, MixThrust, IdleFloor) \in Int
  BY <1>1, <1>2, GainType, DirectionsType
<1>4. t \in Commands4
  BY <1>1, <1>3, ShiftType, DirectionsType
<1>5. DesatGain(t, MixYaw, IdleFloor) \in Int
  BY <1>2, <1>4, GainType, DirectionsType
<1>6. Desaturated(n, IdleFloor) \in Commands4
  BY <1>4, <1>5, ShiftType, DirectionsType DEF Desaturated
<1>7. Desaturated(n, IdleFloor)[i] \in Int
  BY <1>6 DEF Commands4
<1>8. Allocate(Flying, roll, pitch, yaw, thr)[i]
      = Clamp(Desaturated(n, IdleFloor)[i], IdleFloor, OutMax)
  BY FlyingAllocates
<1> HIDE DEF n
<1> QED
  BY <1>7, <1>8 DEF Clamp, IdleFloor, OutMax

\* A command set that already fits is not moved.
Fitting(m) == \A i \in Motors : m[i] >= IdleFloor /\ m[i] <= OutMax

LEMMA FittingGain ==
    ASSUME NEW m \in Commands4, NEW dir, Fitting(m)
    PROVE  DesatGain(m, dir, IdleFloor) = 0
<1>1. \A j \in Motors : m[j] \in Int /\ ~(m[j] < IdleFloor) /\ ~(m[j] > OutMax)
  BY DEF Fitting, Commands4, IdleFloor, OutMax
<1>2. GainChoices(m, dir, IdleFloor) = {0}
  BY <1>1 DEF GainChoices, Lows, Highs
<1>3. Least({0}) = 0
  BY LeastIs
<1>4. Greatest({0}) = 0
  BY GreatestIs
<1> QED
  BY <1>2, <1>3, <1>4, GainOfChoices

\* Commands that span no more than the range are made to fit by one shift of
\* the collective.
Span == OutMax - IdleFloor

LEMMA SpanningGain ==
    ASSUME NEW m \in Commands4,
           \A i, j \in Motors : m[i] - m[j] <= Span
    PROVE  DesatGain(m, MixThrust, IdleFloor) \in Int
           /\ Fitting(Shift(m, DesatGain(m, MixThrust, IdleFloor), MixThrust))
<1> DEFINE ks == GainChoices(m, MixThrust, IdleFloor)
<1>1. \A i \in Motors : m[i] \in Int /\ MixThrust[i] = 1
  BY DEF Commands4, MixThrust, Motors
<1>2. ks = {0} \cup {IdleFloor - m[i] : i \in {j \in Motors : m[j] < IdleFloor}}
               \cup {OutMax - m[i] : i \in {j \in Motors : m[j] > OutMax}}
  <2>1. \A i \in Motors : (IdleFloor - m[i]) * MixThrust[i] = IdleFloor - m[i]
                         /\ (OutMax - m[i]) * MixThrust[i] = OutMax - m[i]
    BY <1>1 DEF IdleFloor, OutMax
  <2> QED
    BY <2>1 DEF GainChoices, Lows, Highs
<1>3. ks \subseteq Int
  BY <1>1, <1>2 DEF IdleFloor, OutMax
<1>4. \E i \in Motors : \A j \in Motors : m[i] <= m[j]
  BY <1>1 DEF Motors
<1>5. \E i \in Motors : \A j \in Motors : m[i] >= m[j]
  BY <1>1 DEF Motors
<1>6. PICK a \in Motors : \A j \in Motors : m[a] <= m[j]
  BY <1>4
<1>7. PICK b \in Motors : \A j \in Motors : m[b] >= m[j]
  BY <1>5
<1>8. CASE m[a] < IdleFloor
  <2>1. \A j \in Motors : ~(m[j] > OutMax)
    BY <1>1, <1>6, <1>8 DEF Span, IdleFloor, OutMax
  <2>2. \A k \in ks : k >= 0 /\ k <= IdleFloor - m[a]
    BY <1>1, <1>2, <1>6, <1>8, <2>1 DEF IdleFloor, OutMax
  <2>3. 0 \in ks /\ IdleFloor - m[a] \in ks
    BY <1>2, <1>6, <1>8
  <2>4. Least(ks) = 0
    BY <1>3, <2>2, <2>3, LeastIs
  <2>5. Greatest(ks) = IdleFloor - m[a]
    BY <1>3, <2>2, <2>3, GreatestIs
  <2>6. DesatGain(m, MixThrust, IdleFloor) = IdleFloor - m[a]
    BY <1>1, <1>6, <2>4, <2>5, GainOfChoices DEF IdleFloor
  <2>7. \A i \in Motors : Shift(m, IdleFloor - m[a], MixThrust)[i] = m[i] + IdleFloor - m[a]
    BY <1>1, <1>6 DEF Shift, IdleFloor
  <2> QED
    BY <1>1, <1>6, <2>6, <2>7 DEF Fitting, Span, IdleFloor, OutMax
<1>9. CASE ~(m[a] < IdleFloor) /\ m[b] > OutMax
  <2>1. \A j \in Motors : ~(m[j] < IdleFloor)
    BY <1>1, <1>6, <1>9 DEF IdleFloor
  <2>2. \A k \in ks : k <= 0 /\ k >= OutMax - m[b]
    BY <1>1, <1>2, <1>7, <1>9, <2>1 DEF IdleFloor, OutMax
  <2>3. 0 \in ks /\ OutMax - m[b] \in ks
    BY <1>2, <1>7, <1>9
  <2>4. Greatest(ks) = 0
    BY <1>3, <2>2, <2>3, GreatestIs
  <2>5. Least(ks) = OutMax - m[b]
    BY <1>3, <2>2, <2>3, LeastIs
  <2>6. DesatGain(m, MixThrust, IdleFloor) = OutMax - m[b]
    BY <1>1, <1>7, <2>4, <2>5, GainOfChoices DEF OutMax
  <2>7. \A i \in Motors : Shift(m, OutMax - m[b], MixThrust)[i] = m[i] + OutMax - m[b]
    BY <1>1, <1>7 DEF Shift, OutMax
  <2> QED
    BY <1>1, <1>7, <2>6, <2>7 DEF Fitting, Span, IdleFloor, OutMax
<1>10. CASE ~(m[a] < IdleFloor) /\ ~(m[b] > OutMax)
  <2>1. Fitting(m)
    BY <1>1, <1>6, <1>7, <1>10 DEF Fitting, IdleFloor, OutMax
  <2>2. DesatGain(m, MixThrust, IdleFloor) = 0
    BY <2>1, FittingGain
  <2>3. \A i \in Motors : Shift(m, 0, MixThrust)[i] = m[i]
    BY <1>1 DEF Shift
  <2> QED
    BY <2>1, <2>2, <2>3 DEF Fitting
<1> QED
  BY <1>8, <1>9, <1>10

\* Without a yaw demand, roll and pitch that fit the range together are
\* delivered whole at every collective.
LEMMA AllocateKeeps ==
    ASSUME NEW roll \in Int, NEW pitch \in Int, NEW thr \in Int,
           2 * (Sign(roll) * roll + Sign(pitch) * pitch) <= Span
    PROVE  /\ Along(Allocate(Flying, roll, pitch, 0, thr), MixRoll) = 4 * roll
           /\ Along(Allocate(Flying, roll, pitch, 0, thr), MixPitch) = 4 * pitch
<1> DEFINE n == Nominal(roll, pitch, 0, thr)
           k == DesatGain(n, MixThrust, IdleFloor)
           t == Shift(n, k, MixThrust)
<1>1. n \in Commands4
  BY NominalType
<1>2. /\ n[1] = thr - roll + pitch /\ n[2] = thr - roll - pitch
      /\ n[3] = thr + roll - pitch /\ n[4] = thr + roll + pitch
  BY DEF Nominal, Motors, MixRoll, MixPitch, MixYaw
<1>3. \A i, j \in Motors : n[i] - n[j] <= Span
  <2>1. /\ 2 * roll + 2 * pitch <= Span /\ 2 * roll - 2 * pitch <= Span
        /\ 2 * pitch - 2 * roll <= Span /\ -(2 * roll) - 2 * pitch <= Span
        /\ Span = 17
    BY DEF Sign, Span, OutMax, IdleFloor
  <2> HIDE DEF n
  <2> QED
    BY <1>2, <2>1 DEF Motors
<1>4. k \in Int /\ Fitting(t)
  BY <1>1, <1>3, SpanningGain
<1>5. t \in Commands4
  BY <1>1, <1>4, ShiftType, DirectionsType
<1>6. DesatGain(t, MixYaw, IdleFloor) = 0
  BY <1>4, <1>5, FittingGain
<1>7. Desaturated(n, IdleFloor) = t
  <2>1. Desaturated(n, IdleFloor) = Shift(t, 0, MixYaw)
    BY <1>6 DEF Desaturated
  <2> HIDE DEF t
  <2>2. \A i \in Motors : t[i] \in Int /\ MixYaw[i] \in Int
    BY <1>5, DirectionsType DEF Commands4
  <2>3. Shift(t, 0, MixYaw) = t
    BY <1>5, <2>2 DEF Shift, Commands4
  <2> QED
    BY <2>1, <2>3
<1> DEFINE m == Allocate(Flying, roll, pitch, 0, thr)
<1>8. \A i \in Motors : m[i] = t[i]
  <2>1. \A i \in Motors : m[i] = Clamp(t[i], IdleFloor, OutMax)
    BY <1>7, FlyingAllocates
  <2> HIDE DEF m, t
  <2> QED
    BY <1>4, <1>5, <2>1 DEF Clamp, Fitting, Commands4, IdleFloor, OutMax
<1>9. \A i \in Motors : t[i] = n[i] + k
  <2>1. \A i \in Motors : MixThrust[i] = 1 /\ n[i] \in Int
    BY <1>1 DEF MixThrust, Motors, Commands4
  <2> HIDE DEF n, k
  <2> QED
    BY <1>4, <2>1 DEF Shift
<1>10. /\ m[1] = thr - roll + pitch + k /\ m[2] = thr - roll - pitch + k
       /\ m[3] = thr + roll - pitch + k /\ m[4] = thr + roll + pitch + k
  <2> HIDE DEF m, n, k, t
  <2> QED
    BY <1>2, <1>4, <1>8, <1>9 DEF Motors
<1>11. Along(m, MixRoll) = 4 * roll /\ Along(m, MixPitch) = 4 * pitch
  <2> HIDE DEF m, n, k, t
  <2> QED
    BY <1>4, <1>10 DEF Along, MixRoll, MixPitch
<1> QED
  BY <1>11

\* The mixer keeps roll and pitch (mixer_allocate, MIXER_AIRMODE_RP).
LEMMA MixerIsWhole == MixerWhole
<1>1. \A roll \in {-9, -5, -1, 0, 4, 8}, pitch \in {-6, 0, 3, 9}, yaw \in {-7, 0, 5},
         thr \in 0..20 : roll \in Int /\ pitch \in Int /\ yaw \in Int /\ thr \in Int
  OBVIOUS
<1> QED
  BY <1>1, AllocateInRange, AllocateKeeps DEF MixerWhole, Span

(***************************************************************************)
(* The inductive invariant.                                                *)
(***************************************************************************)

\* What TypeOK leaves open: the host tool's record, and that a run is a command.
Types == TypeOK /\ host \in [on : BOOLEAN, got : SUBSET (0..MaxCommands)] /\ sid.run <= cmds

\* A command in the FIFO is of this epoch or of an earlier one.
Past(q, e) == \A i \in 1..Len(q) : q[i] <= e
FromThePast == Past(fifo, epoch)

\* Since the disarm the motor task ran p times, each MotorTicks apart, and
\* every run took a command out.
Drained ==
    ~Armed(sys) => \/ fifo = <<>>
                   \/ \E p \in Nat : p * MotorTicks + mot >= rc /\ Len(fifo) + p <= FifoSize

\* The first k commands of queue q are older than epoch e, the others are of it.
Aged(q, e, k) == /\ \A i \in 1..k : q[i] # e
                 /\ \A i \in (k + 1)..Len(q) : q[i] = e

\* n old commands are no more than the disarmed motor task left.
Within(n) == n > 0 => n + DrainRuns <= FifoSize

\* Old commands are in front, and are bounded with those already driven.
OldFirst ==
    Armed(sys) => \E k \in 0..Len(fifo) : Aged(fifo, epoch, k) /\ Within(stale + k)

FifoInv == FromThePast /\ Drained /\ OldFirst /\ StaleBounded

\* A tick after a disarm the PID has seen it.
DisarmSeen == ~Armed(sys) /\ rc >= 1 => ~pid.armed

\* The samples in the buffer are of the run in force from its start to the
\* next select.
CaptureInv == comm \in {"idle", "geometry"} => \A k \in DOMAIN cap : cap[k] = sid.run

\* A run that is active, or about to be, has ticks left.
RunInv == sid.active \/ comm = "start" => sid.left >= 1

\* The tool holds samples of the run in force only, and does not look while
\* the next one is being set up.
HostInv ==
    /\ host.got \subseteq {sid.run}
    /\ ~host.on => host.got = {}
    /\ comm \in {"limits", "start"} => ~host.on

\* With one retune per tick, three pending frames are gone before the next.
Fits(hop, frames) ==
    \/ frames = {}
    \/ hop = 0 /\ frames # Axes
    \/ hop = 1 /\ \E a \in Axes : frames = {a}

NotchInv ==
    /\ Fits(notch.hop, notch.ready)
    /\ ~lost
    /\ ~notch.engaged => notch.ready = {} /\ notch.tuned = {}

RateInv ==
    /\ Types
    /\ FifoInv
    /\ DisarmSeen /\ IntegratorHonest
    /\ MixerRestored
    /\ RunInv /\ CaptureInv /\ HostInv
    /\ NotchInv

(***************************************************************************)
(* Lemmas about the parts of a tick.                                       *)
(***************************************************************************)

LEMMA Constants ==
    /\ FifoSize \in Nat \ {0} /\ MotorTicks \in Nat \ {0} /\ FrameTicks \in Nat \ {0}
    /\ MaxEpochs \in Nat /\ RunTicks \in Nat \ {0} /\ CapSize \in Nat \ {0}
    /\ Errors \subseteq -1..1 /\ Throttles \subseteq 0..20 /\ Yaws \subseteq -20..20
    /\ MaxCommands \in Nat
BY RateAssumption

\* An analyser frame takes longer than its three retunes.
LEMMA HopIsLong == Hop \in Nat /\ Hop >= 3
<1>1. Cardinality(0 .. 2) = IF 0 > 2 THEN 0 ELSE 2 - 0 + 1
  <2>1. 0 \in Int /\ 2 \in Int
    OBVIOUS
  <2> QED
    BY <2>1, FS_Interval, Zenon
<1>2. Cardinality(Axes) = 3
  BY <1>1 DEF Axes
<1> QED
  BY <1>2, HopAssumption

\* One more epoch is armed if this one is not.
LEMMA ParityFlips ==
    ASSUME NEW e \in Nat
    PROVE  (e + 1) % 2 = 1 <=> ~(e % 2 = 1)
OBVIOUS

LEMMA DrainRunsType == DrainRuns \in Nat
BY Constants DEF DrainRuns

\* p runs that fill FrameTicks up to a period are at least DrainRuns.
LEMMA RunsEnough ==
    ASSUME NEW p \in Nat, NEW m \in 0..MotorTicks, p * MotorTicks + m >= FrameTicks
    PROVE  DrainRuns <= p
<1> DEFINE q == DrainRuns
<1>1. MotorTicks \in Nat /\ MotorTicks >= 1 /\ FrameTicks \in Nat /\ FrameTicks >= 1
  BY Constants
<1>2. q \in Nat /\ q * MotorTicks <= FrameTicks - 1
  BY <1>1 DEF DrainRuns
<1>3. q * MotorTicks < (p + 1) * MotorTicks
  BY <1>1, <1>2
<1> HIDE DEF q
<1>4. q < p + 1
  <2> SUFFICES ASSUME q >= p + 1
               PROVE  FALSE
    BY <1>2
  <2>1. q * MotorTicks >= (p + 1) * MotorTicks
    BY <1>1, <1>2
  <2> QED
    BY <1>1, <1>2, <1>3, <2>1
<1>5. q <= p
  BY <1>2, <1>4
<1> QED
  BY <1>5 DEF q

\* The PID's output, and the drive behind the authority ramp, are efforts.
LEMMA RampedType ==
    ASSUME NEW u \in Efforts, NEW thr \in 0..20
    PROVE  Ramped(u, thr) \in Efforts
<1>1. Efforts = -60..60
  BY DEF Efforts, OutMax, AmpDps
<1>2. \A n \in {0, 1} : Scale(u, n, 2) \in -60..60
  <2>1. Scale(u, 0, 2) = 0
    BY <1>1 DEF Scale, Sign
  <2>2. Scale(u, 1, 2) \in -60..60
    <3>1. Sign(u) * u \in 0..60
      BY <1>1 DEF Sign
    <3>2. ((Sign(u) * u * 1) \div 2) \in 0..60
      BY <3>1
    <3>3. Sign(u) \in -1..1
      BY <1>1 DEF Sign
    <3> QED
      BY <3>2, <3>3 DEF Scale
  <2> QED
    BY <2>1, <2>2
<1> DEFINE t == IF sys = "IN_AIR" /\ thr < FullAuthority THEN FullAuthority ELSE thr
<1>3. t \in 0..20 /\ FullAuthority = 4 /\ MinArmed = 2
  BY DEF FullAuthority, MinArmed
<1>4. CASE t < MinArmed
  BY <1>1, <1>3, <1>4 DEF Ramped
<1>5. CASE ~(t < MinArmed) /\ t < FullAuthority
  <2>1. Ramped(u, thr) = Scale(u, t - 2, 2)
    BY <1>3, <1>5 DEF Ramped
  <2>2. t - 2 \in {0, 1}
    BY <1>3, <1>5
  <2> QED
    BY <1>1, <1>2, <2>1, <2>2
<1>6. CASE ~(t < MinArmed) /\ ~(t < FullAuthority)
  BY <1>6 DEF Ramped
<1> QED
  BY <1>4, <1>5, <1>6

LEMMA ShortType ==
    ASSUME NEW air \in {"RP", "DISABLED"}, NEW u \in Efforts, NEW yaw \in Yaws,
           NEW thr \in Throttles
    PROVE  Short[<<air, u, yaw, thr>>] \in -1..1
<1>1. \A v : Sign(v) \in -1..1
  BY DEF Sign
<1> QED
  BY <1>1 DEF Short

\* What v_pid_update makes of an error e.
LEMMA IntegralShape ==
    ASSUME Types, NEW e \in -1..1, NEW thr \in 0..20
    PROVE  /\ Integral(e, thr).out \in -20..20
           /\ Integral(e, thr).i \in -1..1
           /\ Integral(e, thr).i \in {0, pid.i, e} \/ Integral(e, thr).i = pid.i + e
           /\ Reset => Integral(e, thr).i \in {0, e}
           /\ ~Reset => ~(/\ Integral(e, thr).i * pid.sat > 0
                          /\ Integral(e, thr).i * Integral(e, thr).i > pid.i * pid.i)
           /\ e = 0 => Integral(e, thr).i \in {0, pid.i}
<1>1. pid.i \in -1..1 /\ pid.sat \in -1..1
  BY DEF Types, TypeOK, IMax
<1> DEFINE i0 == IF Reset \/ thr < Gate THEN 0 ELSE pid.i
           i1 == Clamp(i0 + e, -IMax, IMax)
           pi == Kp * e + i1
           stopped == (~Reset /\ IntoLimit(e)) \/ pi <= -OutMax \/ pi >= OutMax
<1>2. i0 \in {0, pid.i} /\ (Reset => i0 = 0)
  OBVIOUS
<1>3. i0 \in -1..1
  BY <1>1, <1>2
<1>4. i1 \in -1..1 /\ (i1 = i0 + e \/ (i1 = i0 /\ e = i0))
  <2> HIDE DEF i0
  <2> QED
    BY <1>3 DEF Clamp, IMax
<1>5. Integral(e, thr).out = Clamp(pi, -OutMax, OutMax)
      /\ Integral(e, thr).i = IF stopped THEN i0 ELSE i1
  BY DEF Integral
<1>6. IntoLimit(e) <=> pid.sat * e > 0
  BY DEF IntoLimit
<1>7. pi \in -20..20
  <2> HIDE DEF i0, i1
  <2> QED
    BY <1>4 DEF Kp
<1>8. Integral(e, thr).out \in -20..20
  <2> HIDE DEF i0, i1, pi, stopped
  <2> QED
    BY <1>5, <1>7 DEF Clamp, OutMax
<1> DEFINE i == Integral(e, thr).i
<1>9. i = i0 \/ (i = i1 /\ (Reset \/ ~(pid.sat * e > 0)))
  <2> HIDE DEF i0, i1, pi
  <2> QED
    BY <1>5, <1>6
<1> HIDE DEF i, i0, i1, pi, stopped
<1>10. i \in -1..1
  BY <1>3, <1>4, <1>9
<1>11. i \in {0, pid.i, e} \/ i = pid.i + e
  BY <1>1, <1>2, <1>4, <1>9
<1>12. Reset => i \in {0, e}
  BY <1>2, <1>4, <1>9
<1>13. ~Reset => ~(i * pid.sat > 0 /\ i * i > pid.i * pid.i)
  <2>1. i = i0 => ~(i * i > pid.i * pid.i)
    BY <1>1, <1>2
  <2>2. ASSUME i = i1, ~(pid.sat * e > 0), i * pid.sat > 0
        PROVE  ~(i * i > pid.i * pid.i)
    BY <1>1, <1>2, <1>3, <1>4, <2>2
  <2> QED
    BY <1>9, <2>1, <2>2
<1>14. e = 0 => i \in {0, pid.i}
  BY <1>2, <1>3, <1>4, <1>9
<1> QED
  BY <1>8, <1>10, <1>11, <1>12, <1>13, <1>14 DEF i

\* The first axis of a set of axes.
LEMMA LeastAxis ==
    ASSUME NEW S \in SUBSET Axes, S # {}
    PROVE  Least(S) \in S
<1>1. Axes = {0, 1, 2}
  BY DEF Axes
<1>2. \E x \in S : \A y \in S : x <= y
  <2>1. CASE 0 \in S
    BY <1>1, <2>1
  <2>2. CASE 0 \notin S /\ 1 \in S
    BY <1>1, <2>2
  <2>3. CASE 0 \notin S /\ 1 \notin S
    <3>1. \A y \in S : y = 2
      BY <1>1, <2>3
    <3> QED
      BY <3>1
  <2> QED
    BY <2>1, <2>2, <2>3
<1>3. PICK x \in S : \A y \in S : x <= y
  BY <1>2
<1>4. S \subseteq Int
  BY <1>1
<1> QED
  BY <1>3, <1>4, LeastIs

\* gyro_notch_service serves one pending axis, if there is one.
LEMMA ServesOne ==
    ASSUME NEW frames \in SUBSET Axes
    PROVE  IF frames = {} THEN ServeFrom(frames) = {}
           ELSE \E a \in frames : ServeFrom(frames) = {a}
<1>1. {a \in frames : a >= notch.turn} \in SUBSET frames
  OBVIOUS
<1>2. CASE frames = {}
  BY <1>2 DEF ServeFrom
<1>3. CASE frames # {} /\ {a \in frames : a >= notch.turn} = {}
  <2>1. Least(frames) \in frames
    BY <1>3, LeastAxis
  <2> QED
    BY <1>3, <2>1 DEF ServeFrom
<1>4. CASE {a \in frames : a >= notch.turn} # {}
  <2> DEFINE ahead == {a \in frames : a >= notch.turn}
  <2>1. Least(ahead) \in ahead
    BY <1>1, <1>4, LeastAxis
  <2>2. frames # {}
    BY <1>4
  <2> QED
    BY <1>4, <2>1, <2>2 DEF ServeFrom
<1> QED
  BY <1>2, <1>3, <1>4

NotchType(n) == n \in [enabled : BOOLEAN, engaged : BOOLEAN, hop : 0..(Hop - 1),
                       ready : SUBSET Axes, turn : Axes, tuned : SUBSET Axes]

LEMMA NotchTicks ==
    ASSUME NotchType(notch), NotchInv
    PROVE  /\ NotchType(NotchTicked)
           /\ Fits(NotchTicked.hop, NotchTicked.ready)
           /\ ~NotchTicked.engaged => NotchTicked.ready = {} /\ NotchTicked.tuned = {}
           /\ notch.hop = Hop - 1 => notch.ready = {}
<1>1. Hop \in Nat /\ Hop >= 3
  BY HopIsLong
<1>2. notch.hop \in 0..(Hop - 1) /\ notch.ready \in SUBSET Axes
  BY DEF NotchType
<1>3. notch.hop = Hop - 1 => notch.ready = {}
  BY <1>1, <1>2 DEF NotchInv, Fits
<1>4. CASE ~notch.enabled
  <2>1. NotchTicked = Disengaged
    BY <1>4 DEF NotchTicked
  <2>2. CASE notch.engaged
    <3>1. NotchTicked = [notch EXCEPT !.engaged = FALSE, !.ready = {}, !.tuned = {}]
      BY <2>1, <2>2 DEF Disengaged
    <3>2. NotchType(NotchTicked) /\ NotchTicked.ready = {} /\ NotchTicked.tuned = {}
      BY <3>1 DEF NotchType
    <3> QED
      BY <1>3, <3>2 DEF Fits
  <2>3. CASE ~notch.engaged
    <3>1. NotchTicked = notch
      BY <2>1, <2>3 DEF Disengaged
    <3> QED
      BY <1>3, <3>1 DEF NotchInv
  <2> QED
    BY <2>2, <2>3
<1>5. CASE notch.enabled
  <2> DEFINE framed == notch.hop = Hop - 1
             frames == IF framed THEN Axes ELSE notch.ready
             now == ServeFrom(frames)
             turn == IF now = {} THEN notch.turn ELSE (Least(now) + 1) % 3
             hop == (notch.hop + 1) % Hop
  <2>1. NotchTicked = [notch EXCEPT !.engaged = TRUE, !.hop = hop, !.ready = frames \ now,
                                    !.tuned = @ \cup now, !.turn = turn]
    BY <1>5 DEF NotchTicked
  <2>2. frames \in SUBSET Axes
    BY <1>2
  <2>3. IF frames = {} THEN now = {} ELSE \E a \in frames : now = {a}
    BY <2>2, ServesOne
  <2>4. hop = IF framed THEN 0 ELSE notch.hop + 1
    BY <1>1, <1>2
  <2>5. hop \in 0..(Hop - 1)
    BY <1>1, <1>2, <2>4
  <2>6. turn \in Axes
    <3>1. CASE now = {}
      BY <3>1 DEF NotchType
    <3>2. CASE now # {}
      <4>1. PICK a \in frames : now = {a}
        BY <2>3, <3>2
      <4>2. a \in Axes
        BY <2>2, <4>1
      <4>3. Least(now) = a
        BY <4>1, <4>2, LeastIs DEF Axes
      <4>4. turn = (a + 1) % 3
        BY <3>2, <4>3
      <4> QED
        BY <4>2, <4>4 DEF Axes
    <3> QED
      BY <3>1, <3>2
  <2>7. now \in SUBSET Axes
    BY <2>2, <2>3
  <2>8. Fits(hop, frames \ now)
    <3>1. CASE framed
      <4>1. Axes # {}
        BY DEF Axes
      <4> QED
        BY <2>3, <2>4, <3>1, <4>1 DEF Fits
    <3>2. CASE ~framed /\ frames = {}
      BY <3>2 DEF Fits
    <3>3. CASE ~framed /\ frames # {}
      <4>1. PICK a \in frames : now = {a}
        BY <2>3, <3>3
      <4>2. notch.ready = frames /\ hop = notch.hop + 1
        BY <2>4, <3>3
      <4>3. CASE notch.hop = 0 /\ frames # Axes
        <5>1. frames \ {a} = {} \/ \E b \in Axes : frames \ {a} = {b}
          BY <2>2, <4>1, <4>3 DEF Axes
        <5> QED
          BY <4>1, <4>2, <4>3, <5>1 DEF Fits
      <4>4. CASE \E b \in Axes : frames = {b}
        <5>1. frames \ {a} = {}
          BY <4>1, <4>4
        <5> QED
          BY <4>1, <5>1 DEF Fits
      <4> QED
        BY <3>3, <4>2, <4>3, <4>4 DEF NotchInv, Fits
    <3> QED
      BY <3>1, <3>2, <3>3
  <2> HIDE DEF framed, frames, now, turn, hop
  <2>9. /\ NotchTicked.hop = hop /\ NotchTicked.ready = frames \ now /\ NotchTicked.engaged = TRUE
    BY <2>1 DEF NotchType
  <2>10. NotchType(NotchTicked)
    <3>1. frames \ now \in SUBSET Axes /\ notch.tuned \cup now \in SUBSET Axes
      BY <2>2, <2>7 DEF NotchType
    <3> QED
      BY <2>1, <2>5, <2>6, <3>1 DEF NotchType
  <2> QED
    BY <1>3, <2>8, <2>9, <2>10
<1> QED
  BY <1>4, <1>5 DEF NotchType

(***************************************************************************)
(* A tick keeps the invariant.                                             *)
(***************************************************************************)

PidType(p) == p \in [i : -IMax..IMax, sat : -1..1, armed : BOOLEAN, wound : 0..IMax]
SidType(s) == s \in [active : BOOLEAN, mode : {"SP", "U"}, amp : {0, AmpU, AmpDps},
                     left : 0..RunTicks, run : 0..MaxCommands]

\* The inputs of a tick.
Inputs(err, thr, yaw, inj, hot) ==
    err \in Errors /\ thr \in Throttles /\ yaw \in Yaws /\ inj \in {0, 1} /\ hot \in BOOLEAN

\* The PID after a tick, for some error e and some shortage x of the mixer.
PidAfter(e, x, thr) ==
    pid' = [i |-> Integral(e, thr).i, sat |-> x, armed |-> Armed(sys),
            wound |-> Clamp(pid.wound + e * e, 0, IMax)]

LEMMA TickPid ==
    ASSUME Types, NEW err, NEW thr, NEW yaw, NEW inj, NEW hot,
           Inputs(err, thr, yaw, inj, hot), RateTick(err, thr, yaw, inj, hot)
    PROVE  \E e \in -1..1, x \in -1..1 : PidAfter(e, x, thr)
<1>1. err \in -1..1 /\ thr \in 0..20 /\ thr \in Throttles /\ yaw \in Yaws /\ inj \in {0, 1}
  BY Constants DEF Inputs
<1> DEFINE s == SysidStepped(hot)
           live == sid.active /\ s.active
           e == IF live /\ s.mode = "SP" THEN Clamp(err + inj, -1, 1) ELSE err
           u == Ramped(Integral(e, thr).out + (IF live /\ s.mode = "U" THEN s.amp * inj ELSE 0), thr)
<1>2. pid' \in {[i |-> Integral(e, thr).i, sat |-> x, armed |-> Armed(sys),
                 wound |-> Clamp(pid.wound + e * e, 0, IMax)]
                 : x \in IF mixer.ok THEN {Short[<<mixer.air, u, yaw, thr>>]} ELSE -1..1}
  BY DEF RateTick
<1>3. e \in -1..1
  <2>1. Clamp(err + inj, -1, 1) \in -1..1
    BY <1>1 DEF Clamp
  <2> QED
    BY <1>1, <2>1
<1>4. s.amp \in {0, 6, 40}
  <2>1. sid.amp \in {0, 6, 40}
    BY DEF Types, TypeOK, AmpU, AmpDps
  <2>2. s.amp = sid.amp
    BY DEF SysidStepped, Types, TypeOK
  <2> QED
    BY <2>1, <2>2
<1> HIDE DEF e, s
<1>5. u \in Efforts
  <2>1. Integral(e, thr).out \in -20..20
    BY <1>1, <1>3, IntegralShape
  <2> DEFINE kick == IF live /\ s.mode = "U" THEN s.amp * inj ELSE 0
  <2>2. kick \in 0..40
    BY <1>1, <1>4
  <2> HIDE DEF kick
  <2>3. Integral(e, thr).out + kick \in Efforts
    BY <2>1, <2>2 DEF Efforts, OutMax, AmpDps
  <2> QED
    BY <1>1, <2>3, RampedType DEF kick
<1>6. mixer.air \in {"RP", "DISABLED"}
  BY DEF Types, TypeOK
<1>7. Short[<<mixer.air, u, yaw, thr>>] \in -1..1
  BY <1>1, <1>5, <1>6, ShortType
<1> HIDE DEF u
<1>8. PICK x \in IF mixer.ok THEN {Short[<<mixer.air, u, yaw, thr>>]} ELSE -1..1 :
         PidAfter(e, x, thr)
  BY <1>2 DEF PidAfter
<1>9. x \in -1..1
  BY <1>7, <1>8
<1> QED
  BY <1>3, <1>8, <1>9

LEMMA PidAfterSound ==
    ASSUME Types, DisarmSeen, IntegratorHonest, NEW thr \in 0..20,
           NEW e \in -1..1, NEW x \in -1..1, PidAfter(e, x, thr)
    PROVE  /\ PidType(pid')
           /\ IntegratorHonest'
           /\ pid'.armed = Armed(sys)
           /\ ~Reset => ~(pid'.i * pid.sat > 0 /\ pid'.i * pid'.i > pid.i * pid.i)
<1> DEFINE i == Integral(e, thr).i
           wound == Clamp(pid.wound + e * e, 0, IMax)
<1>1. pid.wound \in 0..1 /\ pid.i \in -1..1
  BY DEF Types, TypeOK, IMax
<1>2. wound \in 0..1 /\ wound = IF pid.wound = 0 /\ e = 0 THEN 0 ELSE 1
  BY <1>1 DEF Clamp, IMax
<1>3. /\ i \in -1..1
      /\ Reset => i \in {0, e}
      /\ ~Reset => ~(i * pid.sat > 0 /\ i * i > pid.i * pid.i)
      /\ e = 0 => i \in {0, pid.i}
  BY IntegralShape
<1>4. Armed(sys) \in BOOLEAN
  BY DEF Armed
<1> HIDE DEF i, wound
<1>5. pid' = [i |-> i, sat |-> x, armed |-> Armed(sys), wound |-> wound]
  BY DEF PidAfter, i, wound
<1>6. PidType(pid')
  BY <1>2, <1>3, <1>4, <1>5 DEF PidType, IMax
<1>7. pid'.armed = Armed(sys)
  BY <1>5
<1>8. IntegratorHonest'
  <2> SUFFICES ASSUME Armed(sys)
               PROVE  i \in -wound..wound
    BY <1>5 DEF IntegratorHonest
  <2>1. CASE wound = 1
    BY <1>3, <2>1
  <2>2. CASE wound = 0
    <3>1. pid.wound = 0 /\ e = 0
      BY <1>1, <1>2, <2>2
    <3>2. ~Reset => pid.i = 0
      BY <1>1, <3>1 DEF Reset, IntegratorHonest
    <3> QED
      BY <1>3, <2>2, <3>1, <3>2
  <2> QED
    BY <1>2, <2>1, <2>2
<1>9. ~Reset => ~(pid'.i * pid.sat > 0 /\ pid'.i * pid'.i > pid.i * pid.i)
  BY <1>3, <1>5
<1> QED
  BY <1>6, <1>7, <1>8, <1>9

LEMMA SysidSteps ==
    ASSUME Types, RunInv, NEW hot \in BOOLEAN
    PROVE  /\ SidType(SysidStepped(hot))
           /\ SysidStepped(hot).run = sid.run
           /\ SysidStepped(hot).active => SysidStepped(hot).left >= 1
           /\ sid.left >= 1 => SysidStepped(hot).left >= 1
<1>1. SidType(sid)
  BY DEF Types, TypeOK, SidType
<1>2. CASE ~sid.active
  BY <1>1, <1>2 DEF SysidStepped
<1>3. CASE sid.active /\ (hot \/ sid.left = 1)
  <2>1. SysidStepped(hot) = [sid EXCEPT !.active = FALSE]
    BY <1>3 DEF SysidStepped
  <2> QED
    BY <1>1, <2>1 DEF SidType
<1>4. CASE sid.active /\ ~hot /\ sid.left # 1
  <2>1. SysidStepped(hot) = [sid EXCEPT !.left = @ - 1]
    BY <1>4 DEF SysidStepped
  <2>2. sid.left \in 0..RunTicks /\ sid.left >= 1 /\ RunTicks \in Nat
    BY <1>1, <1>4, Constants DEF RunInv, SidType
  <2>3. sid.left - 1 \in 0..RunTicks /\ sid.left - 1 >= 1
    BY <1>4, <2>2
  <2> QED
    BY <1>1, <2>1, <2>3 DEF SidType
<1> QED
  BY <1>2, <1>3, <1>4

LEMMA Captures ==
    ASSUME Types, CaptureInv, NEW s, s.run = sid.run
    PROVE  /\ Captured(s) \in Seq(0..MaxCommands) /\ Len(Captured(s)) <= CapSize
           /\ comm \in {"idle", "geometry"} => \A k \in DOMAIN Captured(s) : Captured(s)[k] = sid.run
<1>1. cap \in Seq(0..MaxCommands) /\ Len(cap) <= CapSize /\ s.run \in 0..MaxCommands
  BY DEF Types, TypeOK
<1>2. CapSize \in Nat
  BY Constants
<1>3. CASE Captured(s) = cap
  BY <1>1, <1>3 DEF CaptureInv
<1>4. CASE Len(cap) < CapSize /\ Captured(s) = Append(cap, s.run)
  <2>1. Captured(s) \in Seq(0..MaxCommands) /\ Len(Captured(s)) = Len(cap) + 1
    BY <1>1, <1>4
  <2>2. \A k \in 1..(Len(cap) + 1) :
           Captured(s)[k] = IF k = Len(cap) + 1 THEN s.run ELSE cap[k]
    BY <1>1, <1>4
  <2>3. DOMAIN cap = 1..Len(cap) /\ DOMAIN Captured(s) = 1..(Len(cap) + 1)
    BY <1>1, <2>1
  <2> QED
    BY <1>1, <1>2, <1>4, <2>1, <2>2, <2>3 DEF CaptureInv
<1> QED
  BY <1>3, <1>4 DEF Captured

(* The FIFO. *)

Queue(q) == q \in Seq(0..MaxEpochs) /\ Len(q) <= FifoSize

LEMMA ElementOf ==
    ASSUME NEW S, NEW q \in Seq(S), NEW i \in 1..Len(q)
    PROVE  q[i] \in S
OBVIOUS

LEMMA TailShape ==
    ASSUME NEW q \in Seq(0..MaxEpochs), q # <<>>
    PROVE  /\ Tail(q) \in Seq(0..MaxEpochs) /\ Len(Tail(q)) = Len(q) - 1
           /\ \A i \in 1..(Len(q) - 1) : Tail(q)[i] = q[i + 1]
           /\ Head(q) = q[1] /\ Len(q) \in Nat \ {0}
OBVIOUS

LEMMA AppendShape ==
    ASSUME NEW q \in Seq(0..MaxEpochs), NEW c \in 0..MaxEpochs
    PROVE  /\ Append(q, c) \in Seq(0..MaxEpochs) /\ Len(Append(q, c)) = Len(q) + 1
           /\ \A i \in 1..Len(q) : Append(q, c)[i] = q[i]
           /\ Append(q, c)[Len(q) + 1] = c /\ Len(q) \in Nat
OBVIOUS

\* One command out.
LEMMA TailKeeps ==
    ASSUME NEW q, Queue(q), q # <<>>, NEW e \in 0..MaxEpochs, NEW k \in 0..Len(q)
    PROVE  /\ Queue(Tail(q))
           /\ Past(q, e) => Past(Tail(q), e)
           /\ Aged(q, e, k) => (Head(q) # e <=> k > 0)
           /\ Aged(q, e, k) => Aged(Tail(q), e, IF k > 0 THEN k - 1 ELSE 0)
<1>1. q \in Seq(0..MaxEpochs) /\ Len(q) <= FifoSize /\ FifoSize \in Nat
  BY Constants DEF Queue
<1>2. /\ Tail(q) \in Seq(0..MaxEpochs) /\ Len(Tail(q)) = Len(q) - 1
      /\ \A i \in 1..(Len(q) - 1) : Tail(q)[i] = q[i + 1]
      /\ Head(q) = q[1] /\ Len(q) \in Nat \ {0}
  BY <1>1, TailShape
<1> DEFINE n == Len(q)
<1>3. n \in Nat \ {0} /\ k \in 0..n
  BY <1>2
<1>4. Queue(Tail(q))
  BY <1>1, <1>2 DEF Queue
<1>5. Past(q, e) => Past(Tail(q), e)
  BY <1>2 DEF Past
<1>6. Aged(q, e, k) => (Head(q) # e <=> k > 0)
  BY <1>2, <1>3 DEF Aged
<1>7. ASSUME Aged(q, e, k)
      PROVE  Aged(Tail(q), e, IF k > 0 THEN k - 1 ELSE 0)
  <2> DEFINE j == IF k > 0 THEN k - 1 ELSE 0
  <2>1. j \in 0..k /\ (k > 0 => j = k - 1) /\ (k = 0 => j = 0)
    BY <1>3
  <2> HIDE DEF j
  <2>2. \A i \in 1..j : Tail(q)[i] # e
    BY <1>2, <1>3, <1>7, <2>1 DEF Aged
  <2>3. \A i \in (j + 1)..(n - 1) : Tail(q)[i] = e
    BY <1>2, <1>3, <1>7, <2>1 DEF Aged
  <2>4. Aged(Tail(q), e, j)
    BY <1>2, <2>2, <2>3 DEF Aged
  <2> QED
    BY <2>4 DEF j
<1> QED
  BY <1>4, <1>5, <1>6, <1>7

\* One command of the present epoch in, over the oldest if need be.
LEMMA AppendKeeps ==
    ASSUME NEW q \in Seq(0..MaxEpochs), NEW e \in 0..MaxEpochs, NEW k \in 0..Len(q)
    PROVE  /\ Past(q, e) => Past(Append(q, e), e)
           /\ Aged(q, e, k) => Aged(Append(q, e), e, k)
<1>1. /\ Append(q, e) \in Seq(0..MaxEpochs) /\ Len(Append(q, e)) = Len(q) + 1
      /\ \A i \in 1..Len(q) : Append(q, e)[i] = q[i]
      /\ Append(q, e)[Len(q) + 1] = e /\ Len(q) \in Nat
  BY AppendShape
<1>2. e \in Int
  OBVIOUS
<1>3. Past(q, e) => Past(Append(q, e), e)
  BY <1>1, <1>2 DEF Past
<1>4. Aged(q, e, k) => Aged(Append(q, e), e, k)
  BY <1>1 DEF Aged
<1> QED
  BY <1>3, <1>4

LEMMA PushKeeps ==
    ASSUME NEW q, Queue(q), NEW e \in 0..MaxEpochs
    PROVE  /\ Queue(Pushed(q, e))
           /\ Past(q, e) => Past(Pushed(q, e), e)
           /\ \A k \in 0..Len(q) : Aged(q, e, k) =>
                 \E j \in 0..Len(Pushed(q, e)) : j <= k /\ Aged(Pushed(q, e), e, j)
<1>1. q \in Seq(0..MaxEpochs) /\ Len(q) <= FifoSize /\ FifoSize \in Nat \ {0} /\ Len(q) \in Nat
  BY Constants DEF Queue
<1>2. CASE Len(q) = FifoSize
  <2>1. Pushed(q, e) = Append(Tail(q), e) /\ q # <<>>
    BY <1>1, <1>2 DEF Pushed
  <2>2. Tail(q) \in Seq(0..MaxEpochs) /\ Len(Tail(q)) = Len(q) - 1
    BY <1>1, <2>1, TailShape
  <2>3. Pushed(q, e) \in Seq(0..MaxEpochs) /\ Len(Pushed(q, e)) = Len(q)
    BY <1>1, <2>1, <2>2, AppendShape
  <2>4. Past(q, e) => Past(Pushed(q, e), e)
    <3>1. Past(q, e) => Past(Tail(q), e)
      BY <1>1, <2>1, TailKeeps
    <3>2. Past(Tail(q), e) => Past(Append(Tail(q), e), e)
      <4>1. 0 \in 0..Len(Tail(q))
        BY <1>1, <1>2, <2>2
      <4> QED
        BY <2>2, <4>1, AppendKeeps
    <3> QED
      BY <2>1, <3>1, <3>2
  <2>5. ASSUME NEW k \in 0..Len(q), Aged(q, e, k)
        PROVE  \E j \in 0..Len(Pushed(q, e)) : j <= k /\ Aged(Pushed(q, e), e, j)
    <3> DEFINE j == IF k > 0 THEN k - 1 ELSE 0
    <3>1. Aged(Tail(q), e, j)
      BY <2>1, <2>5, TailKeeps
    <3>2. j \in 0..Len(Tail(q)) /\ j \in 0..Len(q) /\ j <= k
      BY <1>1, <1>2, <2>2
    <3> HIDE DEF j
    <3>3. Aged(Append(Tail(q), e), e, j)
      BY <2>2, <3>1, <3>2, AppendKeeps
    <3> QED
      BY <2>1, <2>3, <3>2, <3>3
  <2> QED
    BY <1>1, <2>3, <2>4, <2>5 DEF Queue
<1>3. CASE Len(q) # FifoSize
  <2>1. Pushed(q, e) = Append(q, e)
    BY <1>3 DEF Pushed
  <2>2. Pushed(q, e) \in Seq(0..MaxEpochs) /\ Len(Pushed(q, e)) = Len(q) + 1
    BY <1>1, <2>1, AppendShape
  <2>3. Past(q, e) => Past(Pushed(q, e), e)
    BY <1>1, <2>1, AppendKeeps
  <2>4. ASSUME NEW k \in 0..Len(q), Aged(q, e, k)
        PROVE  k \in 0..Len(Pushed(q, e)) /\ k <= k /\ Aged(Pushed(q, e), e, k)
    <3>1. Aged(Append(q, e), e, k)
      BY <1>1, <2>4, AppendKeeps
    <3> QED
      BY <1>1, <2>1, <2>2, <3>1
  <2> QED
    BY <1>1, <1>3, <2>2, <2>3, <2>4 DEF Queue
<1> QED
  BY <1>2, <1>3

\* What the FIFO lemmas need of the types.
LEMMA FlightTypes ==
    ASSUME Types
    PROVE  /\ sys \in {"STANDBY", "ARMED", "IN_AIR"} /\ epoch \in 0..MaxEpochs /\ epoch \in Nat
           /\ Armed(sys) <=> epoch % 2 = 1
           /\ rc \in 0..FrameTicks /\ mot \in 0..MotorTicks
           /\ Queue(fifo) /\ stale \in 0..FifoSize /\ Len(fifo) \in Nat
           /\ fifo = <<>> <=> Len(fifo) = 0
           /\ FifoSize \in Nat /\ MotorTicks \in Nat \ {0} /\ FrameTicks \in Nat \ {0}
           /\ MaxEpochs \in Nat
BY Constants DEF Types, TypeOK, Queue

LEMMA WithinLess ==
    ASSUME NEW n \in Nat, NEW m \in Nat, m <= n, Within(n)
    PROVE  Within(m) /\ m \in 0..FifoSize
BY Constants, DrainRunsType DEF Within

LEMMA TickFifo ==
    ASSUME Types, FifoInv, NEW err, NEW thr, NEW yaw, NEW inj, NEW hot,
           RateTick(err, thr, yaw, inj, hot)
    PROVE  FifoInv' /\ Queue(fifo')
<1>1. /\ sys' = sys /\ epoch' = epoch /\ stale' = stale
      /\ rc' = (IF rc < FrameTicks THEN rc + 1 ELSE rc) /\ mot' = mot + 1
      /\ fifo' = IF Armed(sys) THEN Pushed(fifo, epoch) ELSE fifo
  BY DEF RateTick, Push
<1>2. StaleBounded'
  BY <1>1 DEF FifoInv, StaleBounded
<1>3. CASE Armed(sys)
  <2>1. fifo' = Pushed(fifo, epoch) /\ Armed(sys)'
    BY <1>1, <1>3
  <2>2. Queue(fifo) /\ epoch \in 0..MaxEpochs
    BY FlightTypes
  <2>3. Queue(fifo') /\ FromThePast'
    BY <1>1, <2>1, <2>2, PushKeeps DEF FifoInv, FromThePast
  <2>4. PICK k \in 0..Len(fifo) : Aged(fifo, epoch, k) /\ Within(stale + k)
    BY <1>3 DEF FifoInv, OldFirst
  <2>5. PICK j \in 0..Len(fifo') : j <= k /\ Aged(fifo', epoch, j)
    BY <2>1, <2>2, <2>4, PushKeeps
  <2>6. Within(stale + j)
    <3>1. j \in Nat /\ k \in Nat /\ stale \in Nat /\ FifoSize \in Nat
      BY <2>4, <2>5, FlightTypes
    <3> QED
      BY <2>4, <2>5, <3>1, DrainRunsType DEF Within
  <2>7. OldFirst'
    BY <1>1, <2>5, <2>6 DEF OldFirst
  <2> QED
    BY <1>2, <2>1, <2>3, <2>7 DEF FifoInv, Drained
<1>4. CASE ~Armed(sys)
  <2>1. fifo' = fifo /\ ~Armed(sys)'
    BY <1>1, <1>4
  <2>2. Queue(fifo') /\ FromThePast'
    BY <1>1, <2>1, FlightTypes DEF FifoInv, FromThePast
  <2>3. Drained'
    <3>1. CASE fifo = <<>>
      BY <2>1, <3>1 DEF Drained
    <3>2. CASE fifo # <<>>
      <4>1. PICK p \in Nat : p * MotorTicks + mot >= rc /\ Len(fifo) + p <= FifoSize
        BY <1>4, <3>2 DEF FifoInv, Drained
      <4>2. p * MotorTicks \in Nat /\ mot \in Nat /\ rc \in Nat /\ FrameTicks \in Nat
        BY <4>1, FlightTypes
      <4>3. p * MotorTicks + mot' >= rc'
        BY <1>1, <4>1, <4>2
      <4> QED
        BY <2>1, <4>1, <4>3 DEF Drained
    <3> QED
      BY <3>1, <3>2
  <2> QED
    BY <1>2, <2>1, <2>2, <2>3 DEF FifoInv, OldFirst
<1> QED
  BY <1>3, <1>4

LEMMA MotorFifo ==
    ASSUME Types, FifoInv, MotorTask
    PROVE  FifoInv' /\ Queue(fifo') /\ stale' \in 0..FifoSize
<1>1. /\ mot = MotorTicks /\ mot' = 0 /\ sys' = sys /\ epoch' = epoch /\ rc' = rc
      /\ fifo' = (IF fifo = <<>> THEN fifo ELSE Tail(fifo))
      /\ stale' = IF Armed(sys) /\ fifo # <<>> /\ Head(fifo) # epoch THEN stale + 1 ELSE stale
  BY DEF MotorTask, flight
<1>2. /\ Queue(fifo) /\ epoch \in 0..MaxEpochs /\ stale \in Nat /\ stale <= FifoSize
      /\ FifoSize \in Nat /\ Len(fifo) \in Nat /\ MotorTicks \in Nat /\ rc \in Nat
  BY FlightTypes
<1>3. CASE fifo = <<>>
  <2>1. fifo' = fifo /\ stale' = stale
    BY <1>1, <1>3
  <2> QED
    BY <1>1, <1>2, <1>3, <2>1 DEF FifoInv, FromThePast, Drained, OldFirst, StaleBounded
<1>4. CASE fifo # <<>>
  <2>1. fifo' = Tail(fifo)
    BY <1>1, <1>4
  <2>2. fifo \in Seq(0..MaxEpochs)
    BY <1>2 DEF Queue
  <2>3. Len(Tail(fifo)) = Len(fifo) - 1 /\ Len(fifo) >= 1
    BY <1>4, <2>2, TailShape
  <2>4. Queue(fifo') /\ FromThePast'
    <3>1. 0 \in 0..Len(fifo)
      BY <1>2
    <3>2. Queue(Tail(fifo)) /\ (Past(fifo, epoch) => Past(Tail(fifo), epoch))
      BY <1>2, <1>4, <3>1, TailKeeps
    <3> QED
      BY <1>1, <2>1, <3>2 DEF FifoInv, FromThePast
  <2>5. CASE Armed(sys)
    <3>1. PICK k \in 0..Len(fifo) : Aged(fifo, epoch, k) /\ Within(stale + k)
      BY <2>5 DEF FifoInv, OldFirst
    <3> DEFINE j == IF k > 0 THEN k - 1 ELSE 0
    <3>2. Aged(Tail(fifo), epoch, j) /\ (Head(fifo) # epoch <=> k > 0)
      BY <1>2, <1>4, <3>1, TailKeeps
    <3>3. k \in Nat /\ k <= Len(fifo)
      BY <1>2, <3>1
    <3>4. stale' = IF k > 0 THEN stale + 1 ELSE stale
      BY <1>1, <1>4, <2>5, <3>2
    <3>5. j \in 0..Len(Tail(fifo)) /\ stale' + j = stale + k
      BY <1>2, <2>3, <3>3, <3>4
    <3> HIDE DEF j
    <3>6. OldFirst'
      BY <1>1, <2>1, <3>1, <3>2, <3>5 DEF OldFirst
    <3>7. (stale' > 0 => stale' + DrainRuns <= FifoSize) /\ stale' \in 0..FifoSize
      <4>1. stale' \in Nat /\ stale' <= stale + k
        BY <1>2, <3>3, <3>4
      <4>2. stale + k \in Nat
        BY <1>2, <3>3
      <4>3. Within(stale') /\ stale' \in 0..FifoSize
        BY <3>1, <4>1, <4>2, WithinLess
      <4> QED
        BY <4>3 DEF Within
    <3>8. StaleBounded'
      BY <3>7 DEF StaleBounded
    <3> QED
      BY <1>1, <2>4, <2>5, <3>6, <3>7, <3>8 DEF FifoInv, Drained
  <2>6. CASE ~Armed(sys)
    <3>1. stale' = stale
      BY <1>1, <2>6
    <3>2. PICK p \in Nat : p * MotorTicks + mot >= rc /\ Len(fifo) + p <= FifoSize
      BY <1>4, <2>6 DEF FifoInv, Drained
    <3>3. p + 1 \in Nat /\ (p + 1) * MotorTicks = p * MotorTicks + MotorTicks
      BY <1>2, <3>2
    <3>4. (p + 1) * MotorTicks + mot' >= rc' /\ Len(fifo') + (p + 1) <= FifoSize
      <4>1. p * MotorTicks \in Nat
        BY <1>2, <3>2
      <4>2. p * MotorTicks + MotorTicks >= rc /\ mot' = 0 /\ rc' = rc
        BY <1>1, <3>2
      <4>3. (p + 1) * MotorTicks + mot' >= rc'
        <5> HIDE <3>2
        <5> QED
          BY <1>2, <3>3, <4>1, <4>2
      <4>4. Len(fifo') + (p + 1) <= FifoSize
        <5>1. Len(fifo) + p <= FifoSize /\ p \in Nat
          BY <3>2
        <5>2. Len(fifo') = Len(fifo) - 1
          BY <2>1, <2>3
        <5> HIDE <3>2
        <5> QED
          BY <1>2, <5>1, <5>2
      <4> QED
        BY <4>3, <4>4
    <3>5. Drained'
      BY <3>3, <3>4 DEF Drained
    <3> QED
      BY <1>1, <1>2, <2>4, <2>6, <3>1, <3>5 DEF FifoInv, OldFirst, StaleBounded
  <2> QED
    BY <2>5, <2>6
<1> QED
  BY <1>3, <1>4

\* Arming: what is left in the FIFO is old, and the motor task has drained it
\* since the RC task disarmed.
LEMMA ArmFifo ==
    ASSUME Types, FifoInv, Arm
    PROVE  FifoInv'
<1>1. /\ sys = "STANDBY" /\ rc = FrameTicks /\ epoch < MaxEpochs
      /\ sys' = "ARMED" /\ epoch' = epoch + 1 /\ stale' = 0 /\ fifo' = fifo /\ mot' = mot
  BY DEF Arm
<1>2. ~Armed(sys) /\ Armed(sys)'
  BY <1>1 DEF Armed
<1>3. /\ epoch \in Nat /\ Len(fifo) \in Nat /\ FifoSize \in Nat /\ mot \in 0..MotorTicks
      /\ fifo \in Seq(0..MaxEpochs) /\ (fifo = <<>> <=> Len(fifo) = 0)
  BY FlightTypes DEF Queue
<1>4. \A i \in 1..Len(fifo) : fifo[i] \in Nat /\ fifo[i] <= epoch
  <2>1. Past(fifo, epoch)
    BY DEF FifoInv, FromThePast
  <2>2. \A i \in 1..Len(fifo) : fifo[i] \in 0..MaxEpochs
    BY <1>3, ElementOf
  <2> QED
    BY <2>1, <2>2, Constants DEF Past
<1>5. FromThePast'
  <2>1. \A i \in 1..Len(fifo) : fifo[i] <= epoch + 1
    BY <1>3, <1>4
  <2> QED
    BY <1>1, <2>1 DEF FromThePast, Past
<1>6. Aged(fifo, epoch + 1, Len(fifo))
  BY <1>3, <1>4 DEF Aged
<1>7. Within(0 + Len(fifo))
  <2>1. CASE fifo = <<>>
    BY <1>3, <2>1 DEF Within
  <2>2. CASE fifo # <<>>
    <3>1. PICK p \in Nat : p * MotorTicks + mot >= rc /\ Len(fifo) + p <= FifoSize
      BY <1>2, <2>2 DEF FifoInv, Drained
    <3>2. DrainRuns <= p
      BY <1>1, <1>3, <3>1, RunsEnough
    <3>3. Len(fifo) + p <= FifoSize /\ p \in Nat
      BY <3>1
    <3> HIDE <3>1
    <3> QED
      BY <1>3, <3>2, <3>3, DrainRunsType DEF Within
  <2> QED
    BY <2>1, <2>2
<1>8. OldFirst'
  <2>1. Len(fifo) \in 0..Len(fifo)
    BY <1>3
  <2> QED
    BY <1>1, <1>6, <1>7, <2>1 DEF OldFirst
<1> QED
  BY <1>1, <1>2, <1>5, <1>8 DEF FifoInv, Drained, StaleBounded

LEMMA DisarmFifo ==
    ASSUME Types, FifoInv, Disarm
    PROVE  FifoInv'
<1>1. /\ sys' = "STANDBY" /\ epoch' = epoch + 1 /\ rc' = 0
      /\ fifo' = fifo /\ mot' = mot /\ stale' = stale
  BY DEF Disarm, drive
<1>2. ~Armed(sys)'
  BY <1>1 DEF Armed
<1>3. /\ epoch \in Nat /\ Len(fifo) \in Nat /\ FifoSize \in Nat /\ mot \in Nat
      /\ fifo \in Seq(0..MaxEpochs) /\ Len(fifo) <= FifoSize /\ MotorTicks \in Nat
  BY FlightTypes DEF Queue
<1>4. FromThePast'
  <2>1. \A i \in 1..Len(fifo) : fifo[i] \in Nat /\ fifo[i] <= epoch
    <3>1. Past(fifo, epoch)
      BY DEF FifoInv, FromThePast
    <3>2. \A i \in 1..Len(fifo) : fifo[i] \in 0..MaxEpochs
      BY <1>3, ElementOf
    <3> QED
      BY <3>1, <3>2, Constants DEF Past
  <2>2. \A i \in 1..Len(fifo) : fifo[i] <= epoch + 1
    BY <1>3, <2>1
  <2> QED
    BY <1>1, <2>2 DEF FromThePast, Past
<1>5. Drained'
  <2>1. 0 \in Nat /\ 0 * MotorTicks + mot >= 0 /\ Len(fifo) + 0 <= FifoSize
    BY <1>3
  <2> QED
    BY <1>1, <2>1 DEF Drained
<1> QED
  BY <1>1, <1>2, <1>4, <1>5 DEF FifoInv, OldFirst, StaleBounded

(***************************************************************************)
(* Every action keeps the invariant.                                       *)
(***************************************************************************)

\* The part about the flight state, the FIFO and the integrator.
DriveInv == FifoInv /\ DisarmSeen /\ IntegratorHonest

LEMMA DriveFrame ==
    ASSUME DriveInv, UNCHANGED <<flight, drive, pid>>
    PROVE  DriveInv'
BY DEF DriveInv, FifoInv, FromThePast, Drained, OldFirst, StaleBounded, DisarmSeen,
       IntegratorHonest, flight, drive

LEMMA NotchFrame ==
    ASSUME NotchInv, UNCHANGED <<notch, lost>>
    PROVE  NotchInv'
BY DEF NotchInv

\* The part about an excitation, its capture and the host tool.
RunsInv == RunInv /\ CaptureInv /\ HostInv

LEMMA RunsFrame ==
    ASSUME RunsInv, UNCHANGED <<sid, cap, host, comm>>
    PROVE  RunsInv'
BY DEF RunsInv, RunInv, CaptureInv, HostInv

LEMMA TickKeeps ==
    ASSUME RateInv, Tick
    PROVE  RateInv'
<1>1. PICK err \in Errors, thr \in Throttles, yaw \in Yaws, inj \in {0, 1}, hot \in BOOLEAN :
         RateTick(err, thr, yaw, inj, hot)
  BY DEF Tick
<1>2. Types /\ FifoInv /\ DisarmSeen /\ IntegratorHonest /\ RunInv /\ CaptureInv /\ NotchInv
      /\ HostInv /\ MixerRestored
  BY DEF RateInv
<1>3. Inputs(err, thr, yaw, inj, hot) /\ thr \in 0..20
  BY <1>1, Constants DEF Inputs
<1>4. FifoInv' /\ Queue(fifo')
  BY <1>1, <1>2, TickFifo
<1>5. PICK e \in -1..1, x \in -1..1 : PidAfter(e, x, thr)
  BY <1>1, <1>2, <1>3, TickPid
<1>6. PidType(pid') /\ IntegratorHonest' /\ pid'.armed = Armed(sys)
  BY <1>2, <1>3, <1>5, PidAfterSound
<1>7. /\ sid' = SysidStepped(hot) /\ cap' = Captured(sid') /\ notch' = NotchTicked
      /\ lost' = (lost \/ (notch.enabled /\ notch.hop = Hop - 1 /\ notch.ready # {}))
      /\ rc' = (IF rc < FrameTicks THEN rc + 1 ELSE rc) /\ mot < MotorTicks /\ mot' = mot + 1
      /\ decim' = (IF sid'.active THEN 1 - decim ELSE decim)
      /\ UNCHANGED <<sys, epoch, stale, mixer, comm, cmds, dump, host>>
  BY <1>1 DEF RateTick
<1>8. DisarmSeen'
  BY <1>6, <1>7 DEF DisarmSeen, Armed
<1>9. SidType(sid') /\ sid'.run = sid.run /\ RunInv'
  BY <1>1, <1>2, <1>7, SysidSteps DEF RunInv
<1>10. /\ cap' \in Seq(0..MaxCommands) /\ Len(cap') <= CapSize
       /\ CaptureInv'
  BY <1>2, <1>7, <1>9, Captures DEF CaptureInv
<1>11. HostInv' /\ MixerRestored'
  BY <1>2, <1>7, <1>9 DEF HostInv, MixerRestored
<1>12. NotchType(notch') /\ NotchInv'
  <2>1. NotchType(notch)
    BY <1>2 DEF Types, TypeOK, NotchType
  <2> QED
    BY <1>2, <1>7, <2>1, NotchTicks DEF NotchInv
<1>13. rc' \in 0..FrameTicks /\ mot' \in 0..MotorTicks /\ decim' \in 0..1
  <2>1. decim \in 0..1
    BY <1>2 DEF Types, TypeOK
  <2> QED
    BY <1>2, <1>7, <2>1, FlightTypes
<1>14. Types'
  <2>1. lost' \in BOOLEAN
    BY <1>7, Zenon
  <2> QED
    BY <1>2, <1>4, <1>6, <1>7, <1>9, <1>10, <1>12, <1>13, <2>1
    DEF Types, TypeOK, Queue, PidType, SidType, NotchType
<1> QED
  BY <1>4, <1>6, <1>8, <1>9, <1>10, <1>11, <1>12, <1>14 DEF RateInv

LEMMA MotorKeeps ==
    ASSUME RateInv, MotorTask
    PROVE  RateInv'
<1>1. FifoInv' /\ Queue(fifo') /\ stale' \in 0..FifoSize
  BY MotorFifo DEF RateInv
<1>2. mot' = 0 /\ UNCHANGED <<flight, pid, mixer, comm, cmds, sysid, notch, lost>>
  BY DEF MotorTask
<1>3. RunsInv' /\ NotchInv'
  BY <1>2, RunsFrame, NotchFrame DEF RateInv, RunsInv, sysid
<1>4. DisarmSeen' /\ IntegratorHonest' /\ MixerRestored'
  BY <1>2 DEF RateInv, DisarmSeen, IntegratorHonest, MixerRestored, flight
<1>5. Types'
  <2>1. 0 \in 0..MotorTicks
    BY Constants
  <2> QED
    BY <1>1, <1>2, <2>1 DEF RateInv, Types, TypeOK, Queue, flight, sysid
<1> QED
  BY <1>1, <1>3, <1>4, <1>5 DEF RateInv, RunsInv

LEMMA FlightKeeps ==
    ASSUME RateInv, Arm \/ Disarm \/ TakeoffOrLanding
    PROVE  RateInv'
<1>1. /\ UNCHANGED <<mot, fifo, mixer, comm, cmds, sysid, notch, lost>>
      /\ stale' \in {stale, 0}
  BY DEF Arm, Disarm, TakeoffOrLanding, drive
<1>2. RunsInv' /\ NotchInv' /\ MixerRestored'
  BY <1>1, RunsFrame, NotchFrame DEF RateInv, RunsInv, MixerRestored, sysid
<1>3. Types
  BY DEF RateInv
<1>4. FrameTicks \in Nat \ {0} /\ MaxEpochs \in Nat /\ FifoSize \in Nat
  BY Constants
<1>5. CASE Arm
  <2>1. /\ sys = "STANDBY" /\ rc = FrameTicks /\ epoch < MaxEpochs
        /\ sys' = "ARMED" /\ epoch' = epoch + 1 /\ rc' = 0
        /\ pid' = [pid EXCEPT !.wound = 0]
    BY <1>5 DEF Arm
  <2>2. FifoInv'
    BY <1>5, ArmFifo DEF RateInv
  <2>3. PidType(pid)
    BY <1>3 DEF Types, TypeOK, PidType
  <2>4. PidType(pid') /\ pid'.armed = pid.armed
    BY <2>1, <2>3 DEF PidType, IMax
  <2>5. ~pid.armed
    BY <1>4, <2>1 DEF RateInv, DisarmSeen, Armed
  <2>6. IntegratorHonest' /\ DisarmSeen'
    BY <2>4, <2>5 DEF IntegratorHonest, DisarmSeen
  <2>7. epoch' \in 0..MaxEpochs /\ (Armed(sys)' <=> epoch' % 2 = 1)
    <3>1. epoch \in Nat /\ (Armed(sys) <=> epoch % 2 = 1)
      BY <1>3, FlightTypes
    <3>2. ~(epoch % 2 = 1) /\ Armed(sys)'
      BY <2>1, <3>1 DEF Armed
    <3>3. (epoch + 1) % 2 = 1
      BY <3>1, <3>2, ParityFlips
    <3> QED
      BY <1>4, <2>1, <3>1, <3>2, <3>3
  <2>8. sys' \in {"STANDBY", "ARMED", "IN_AIR"} /\ rc' \in 0..FrameTicks /\ stale' \in 0..FifoSize
    BY <1>1, <1>3, <1>4, <2>1, FlightTypes
  <2>9. Types'
    <3> HIDE <2>1, <1>4
    <3>1. pid' \in [i : -IMax..IMax, sat : -1..1, armed : BOOLEAN, wound : 0..IMax]
      BY <2>4 DEF PidType
    <3>2. /\ UNCHANGED <<mot, fifo, mixer, comm, cmds, sid, cap, decim, dump, host, notch, lost>>
      BY <1>1 DEF sysid
    <3>3. TypeOK'
      <4>1. /\ mot' \in 0..MotorTicks
            /\ fifo' \in Seq(0..MaxEpochs) /\ Len(fifo)' <= FifoSize
        BY <1>3, <3>2 DEF Types, TypeOK
      <4>2. /\ mixer' \in [air : {"RP", "DISABLED"}, floor : {0, IdleFloor}, ok : BOOLEAN]
            /\ comm' \in {"idle", "geometry", "limits", "start"} /\ cmds' \in 0..MaxCommands
        BY <1>3, <3>2 DEF Types, TypeOK
      <4>3. SidType(sid)' /\ decim' \in 0..1
            /\ cap' \in Seq(0..MaxCommands) /\ Len(cap)' <= CapSize
        BY <1>3, <3>2 DEF Types, TypeOK, SidType
      <4>4. dump' \in [on : BOOLEAN, pos : 0..CapSize] /\ host'.got \subseteq 0..MaxCommands
        BY <1>3, <3>2 DEF Types, TypeOK
      <4>5. NotchType(notch)' /\ lost' \in BOOLEAN
        BY <1>3, <3>2 DEF Types, TypeOK, NotchType
      <4> QED
        BY <2>7, <2>8, <3>1, <4>1, <4>2, <4>3, <4>4, <4>5 DEF TypeOK, SidType, NotchType
    <3>4. host' \in [on : BOOLEAN, got : SUBSET (0..MaxCommands)] /\ sid'.run <= cmds'
      BY <1>3, <3>2 DEF Types
    <3> QED
      BY <3>3, <3>4 DEF Types
  <2> QED
    BY <1>2, <2>2, <2>6, <2>9 DEF RateInv, RunsInv
<1>6. CASE Disarm
  <2>1. /\ Armed(sys) /\ epoch < MaxEpochs
        /\ sys' = "STANDBY" /\ epoch' = epoch + 1 /\ rc' = 0 /\ pid' = pid
    BY <1>6 DEF Disarm
  <2>2. FifoInv'
    BY <1>6, DisarmFifo DEF RateInv
  <2>3. IntegratorHonest' /\ DisarmSeen'
    BY <2>1 DEF RateInv, IntegratorHonest, DisarmSeen
  <2>4. epoch' \in 0..MaxEpochs /\ (Armed(sys)' <=> epoch' % 2 = 1)
    <3>1. epoch \in Nat /\ (Armed(sys) <=> epoch % 2 = 1)
      BY <1>3, FlightTypes
    <3>2. epoch % 2 = 1 /\ ~Armed(sys)'
      BY <2>1, <3>1 DEF Armed
    <3>3. ~((epoch + 1) % 2 = 1)
      BY <3>1, <3>2, ParityFlips
    <3> QED
      BY <1>4, <2>1, <3>1, <3>2, <3>3
  <2>5. Types'
    BY <1>1, <1>3, <1>4, <2>1, <2>4 DEF Types, TypeOK, sysid
  <2> QED
    BY <1>2, <2>2, <2>3, <2>5 DEF RateInv, RunsInv
<1>7. CASE TakeoffOrLanding
  <2>1. /\ Armed(sys) /\ sys' \in {"ARMED", "IN_AIR"} /\ UNCHANGED <<epoch, rc, drive, pid>>
    BY <1>7 DEF TakeoffOrLanding
  <2>2. Armed(sys)'
    BY <2>1 DEF Armed
  <2>3. FifoInv' /\ IntegratorHonest' /\ DisarmSeen'
    BY <2>1, <2>2 DEF RateInv, FifoInv, FromThePast, Drained, OldFirst, StaleBounded,
                      IntegratorHonest, DisarmSeen, drive
  <2>4. Types'
    BY <1>1, <1>3, <2>1, <2>2 DEF Types, TypeOK, sysid, drive
  <2> QED
    BY <1>2, <2>3, <2>4 DEF RateInv, RunsInv
<1> QED
  BY <1>5, <1>6, <1>7

(* The commands leave the flight state, the FIFO and the PID alone. *)

MixerType(m) == m \in [air : {"RP", "DISABLED"}, floor : {0, IdleFloor}, ok : BOOLEAN]
CommandType(c, n) == c \in {"idle", "geometry", "limits", "start"} /\ n \in 0..MaxCommands
BufferType(c, d) == c \in Seq(0..MaxCommands) /\ Len(c) <= CapSize /\ d \in 0..1
HostType(d, h) == /\ d \in [on : BOOLEAN, pos : 0..CapSize]
                  /\ h \in [on : BOOLEAN, got : SUBSET (0..MaxCommands)]

LEMMA GroundTypes ==
    ASSUME Types
    PROVE  /\ MixerType(mixer) /\ CommandType(comm, cmds) /\ BufferType(cap, decim)
           /\ HostType(dump, host) /\ SidType(sid) /\ NotchType(notch) /\ lost \in BOOLEAN
           /\ sid.run <= cmds
BY DEF Types, TypeOK, MixerType, CommandType, BufferType, HostType, SidType, NotchType

LEMMA GroundKeepsTypes ==
    ASSUME Types, UNCHANGED <<flight, drive, pid>>,
           MixerType(mixer'), CommandType(comm', cmds'), BufferType(cap', decim'),
           HostType(dump', host'), SidType(sid'), NotchType(notch'), lost' \in BOOLEAN,
           sid'.run <= cmds'
    PROVE  Types'
<1>1. /\ sys' \in {"STANDBY", "ARMED", "IN_AIR"} /\ epoch' \in 0..MaxEpochs
      /\ (Armed(sys)' <=> epoch' % 2 = 1)
      /\ rc' \in 0..FrameTicks /\ mot' \in 0..MotorTicks
      /\ fifo' \in Seq(0..MaxEpochs) /\ Len(fifo)' <= FifoSize
      /\ stale' \in 0..FifoSize
  BY DEF Types, TypeOK, flight, drive
<1>2. PidType(pid)'
  BY DEF Types, TypeOK, PidType
<1>3. host'.got \subseteq 0..MaxCommands
  BY DEF HostType
<1>4. TypeOK'
  BY <1>1, <1>2, <1>3
  DEF TypeOK, PidType, MixerType, CommandType, BufferType, HostType, SidType, NotchType
<1> QED
  BY <1>4 DEF Types, HostType

LEMMA CommandCounts ==
    ASSUME Types, Command
    PROVE  /\ comm = "idle" /\ cmds' \in 0..MaxCommands /\ cmds' = cmds + 1
           /\ sid.run + 1 <= cmds' /\ sid.run <= cmds' /\ sid.run + 1 \in 0..MaxCommands
<1>1. cmds \in 0..MaxCommands /\ sid.run \in 0..MaxCommands /\ sid.run <= cmds
  BY DEF Types, TypeOK
<1> QED
  BY <1>1, Constants DEF Command

LEMMA GeometryKeeps ==
    ASSUME RateInv, (\E good \in BOOLEAN : SetGeometry(good)) \/ GeometryDone
    PROVE  RateInv'
<1>1. UNCHANGED <<flight, drive, pid, sysid, notch, lost>>
  BY DEF SetGeometry, GeometryDone
<1>2. Types
  BY DEF RateInv
<1>3. DriveInv' /\ NotchInv'
  BY <1>1, DriveFrame, NotchFrame DEF RateInv, DriveInv
<1>4. /\ BufferType(cap', decim') /\ HostType(dump', host') /\ SidType(sid')
      /\ NotchType(notch') /\ lost' \in BOOLEAN
  BY <1>1, <1>2, GroundTypes DEF sysid
<1>5. CASE \E good \in BOOLEAN : SetGeometry(good)
  <2>1. PICK good \in BOOLEAN : SetGeometry(good)
    BY <1>5
  <2>2. comm = "idle" /\ comm' = "geometry" /\ mixer' = [air |-> "DISABLED", floor |-> 0, ok |-> good]
        /\ Command
    BY <2>1 DEF SetGeometry, Command
  <2>3. MixerType(mixer') /\ MixerRestored'
    BY <2>2 DEF MixerType, MixerRestored
  <2>4. CommandType(comm', cmds') /\ sid'.run <= cmds'
    BY <1>1, <1>2, <2>2, CommandCounts DEF CommandType, sysid
  <2>5. Types'
    BY <1>1, <1>2, <1>4, <2>3, <2>4, GroundKeepsTypes
  <2>6. RunsInv'
    BY <1>1, <2>2 DEF RateInv, RunsInv, RunInv, CaptureInv, HostInv, sysid
  <2> QED
    BY <1>3, <2>3, <2>5, <2>6 DEF RateInv, DriveInv, RunsInv
<1>6. CASE GeometryDone
  <2>1. comm = "geometry" /\ comm' = "idle" /\ mixer' = [mixer EXCEPT !.air = "RP", !.floor = IdleFloor]
        /\ cmds' = cmds
    BY <1>6 DEF GeometryDone, MixerSync
  <2>2. MixerType(mixer') /\ MixerRestored'
    BY <1>2, <2>1, GroundTypes DEF MixerType, MixerRestored
  <2>3. CommandType(comm', cmds') /\ sid'.run <= cmds'
    BY <1>1, <1>2, <2>1, GroundTypes DEF CommandType, sysid
  <2>4. Types'
    BY <1>1, <1>2, <1>4, <2>2, <2>3, GroundKeepsTypes
  <2>5. RunsInv'
    BY <1>1, <2>1 DEF RateInv, RunsInv, RunInv, CaptureInv, HostInv, sysid
  <2> QED
    BY <1>3, <2>2, <2>4, <2>5 DEF RateInv, DriveInv, RunsInv
<1> QED
  BY <1>5, <1>6

LEMMA ExciteKeeps ==
    ASSUME RateInv,
           (\E mode \in {"SP", "U"} : ExciteSelect(mode)) \/ ExciteLimits \/ ExciteStart \/ ExciteAbort
    PROVE  RateInv'
<1>1. UNCHANGED <<flight, drive, pid, mixer, notch, lost>>
  BY DEF ExciteSelect, ExciteLimits, ExciteStart, ExciteAbort
<1>2. Types /\ RunInv /\ CaptureInv /\ HostInv /\ MixerRestored
  BY DEF RateInv
<1>3. DriveInv' /\ NotchInv'
  BY <1>1, DriveFrame, NotchFrame DEF RateInv, DriveInv
<1>4. MixerType(mixer') /\ NotchType(notch') /\ lost' \in BOOLEAN
  BY <1>1, <1>2, GroundTypes
<1>5. /\ CommandType(comm, cmds) /\ BufferType(cap, decim) /\ HostType(dump, host) /\ SidType(sid)
      /\ sid.run <= cmds
  BY <1>2, GroundTypes
<1>6. CASE \E mode \in {"SP", "U"} : ExciteSelect(mode)
  <2>1. PICK mode \in {"SP", "U"} : ExciteSelect(mode)
    BY <1>6
  <2>2. /\ Command /\ comm' = "limits" /\ host' = [on |-> FALSE, got |-> {}]
        /\ sid' = [sid EXCEPT !.mode = mode, !.run = @ + 1]
        /\ UNCHANGED <<cap, decim, dump>>
    BY <2>1 DEF ExciteSelect, HostWaits
  <2>3. comm = "idle" /\ cmds' \in 0..MaxCommands /\ sid.run + 1 <= cmds'
        /\ sid.run + 1 \in 0..MaxCommands
    BY <1>2, <2>2, CommandCounts
  <2>4. SidType(sid') /\ sid'.run = sid.run + 1 /\ sid'.left = sid.left /\ sid'.active = sid.active
    <3>1. sid' = [active |-> sid.active, mode |-> mode, amp |-> sid.amp, left |-> sid.left,
                  run |-> sid.run + 1]
      BY <1>5, <2>2 DEF SidType
    <3> QED
      BY <1>5, <2>1, <2>3, <3>1 DEF SidType
  <2>5. BufferType(cap', decim') /\ HostType(dump', host')
    BY <1>5, <2>2 DEF BufferType, HostType
  <2>6. CommandType(comm', cmds') /\ sid'.run <= cmds'
    BY <2>2, <2>3, <2>4 DEF CommandType
  <2>7. Types'
    BY <1>1, <1>2, <1>4, <2>4, <2>5, <2>6, GroundKeepsTypes
  <2>8. RunsInv' /\ MixerRestored'
    BY <1>1, <1>2, <2>2, <2>3, <2>4 DEF RunsInv, RunInv, CaptureInv, HostInv, MixerRestored
  <2> QED
    BY <1>3, <2>7, <2>8 DEF RateInv, DriveInv, RunsInv
<1>7. CASE ExciteLimits
  <2>1. /\ comm = "limits" /\ comm' = "start"
        /\ sid' = [sid EXCEPT !.amp = IF sid.mode = "U" THEN AmpU ELSE AmpDps, !.left = RunTicks]
        /\ UNCHANGED <<cmds, cap, decim, dump, host>>
    BY <1>7 DEF ExciteLimits
  <2>2. RunTicks \in 0..RunTicks /\ RunTicks >= 1
    BY Constants
  <2>3. SidType(sid') /\ sid'.run = sid.run /\ sid'.left = RunTicks
    BY <1>5, <2>1, <2>2 DEF SidType
  <2>4. CommandType(comm', cmds') /\ sid'.run <= cmds'
    BY <1>5, <2>1, <2>3 DEF CommandType
  <2>5. BufferType(cap', decim') /\ HostType(dump', host')
    BY <1>5, <2>1
  <2>6. Types'
    BY <1>1, <1>2, <1>4, <2>3, <2>4, <2>5, GroundKeepsTypes
  <2>7. RunsInv' /\ MixerRestored'
    BY <1>1, <1>2, <2>1, <2>2, <2>3 DEF RunsInv, RunInv, CaptureInv, HostInv, MixerRestored
  <2> QED
    BY <1>3, <2>6, <2>7 DEF RateInv, DriveInv, RunsInv
<1>8. CASE ExciteStart
  <2>1. /\ comm = "start" /\ comm' = "idle" /\ sid' = [sid EXCEPT !.active = TRUE]
        /\ cap' = <<>> /\ dump' = [dump EXCEPT !.on = FALSE] /\ decim' = 0
        /\ UNCHANGED <<cmds, host>>
    BY <1>8 DEF ExciteStart, Restarted
  <2>2. SidType(sid') /\ sid'.run = sid.run /\ sid'.left = sid.left
    BY <1>5, <2>1 DEF SidType
  <2>3. CommandType(comm', cmds') /\ sid'.run <= cmds'
    BY <1>5, <2>1, <2>2 DEF CommandType
  <2>4. BufferType(cap', decim')
    <3>1. <<>> \in Seq(0..MaxCommands) /\ Len(<<>>) = 0
      OBVIOUS
    <3> QED
      BY <2>1, <3>1, Constants DEF BufferType
  <2>5. HostType(dump', host')
    BY <1>5, <2>1 DEF HostType
  <2>6. Types'
    BY <1>1, <1>2, <1>4, <2>2, <2>3, <2>4, <2>5, GroundKeepsTypes
  <2>7. RunsInv' /\ MixerRestored'
    <3>1. DOMAIN cap' = {}
      BY <2>1
    <3> QED
      BY <1>1, <1>2, <2>1, <2>2, <3>1 DEF RunsInv, RunInv, CaptureInv, HostInv, MixerRestored
  <2> QED
    BY <1>3, <2>6, <2>7 DEF RateInv, DriveInv, RunsInv
<1>9. CASE ExciteAbort
  <2>1. /\ sid' = [sid EXCEPT !.active = FALSE]
        /\ UNCHANGED <<comm, cmds, cap, decim, dump, host>>
    BY <1>9 DEF ExciteAbort
  <2>2. SidType(sid') /\ sid'.run = sid.run /\ sid'.left = sid.left /\ ~sid'.active
    BY <1>5, <2>1 DEF SidType
  <2>3. CommandType(comm', cmds') /\ sid'.run <= cmds'
    BY <1>5, <2>1, <2>2
  <2>4. BufferType(cap', decim') /\ HostType(dump', host')
    BY <1>5, <2>1
  <2>5. Types'
    BY <1>1, <1>2, <1>4, <2>2, <2>3, <2>4, GroundKeepsTypes
  <2>6. RunsInv' /\ MixerRestored'
    BY <1>1, <1>2, <2>1, <2>2 DEF RunsInv, RunInv, CaptureInv, HostInv, MixerRestored
  <2> QED
    BY <1>3, <2>5, <2>6 DEF RateInv, DriveInv, RunsInv
<1> QED
  BY <1>6, <1>7, <1>8, <1>9

LEMMA DumpKeeps ==
    ASSUME RateInv, DumpRequest \/ \E arrives \in BOOLEAN : DumpChunk(arrives)
    PROVE  RateInv'
<1>1. UNCHANGED <<flight, drive, pid, mixer, comm, cmds, sid, cap, decim, notch, lost>>
  BY DEF DumpRequest, DumpChunk
<1>2. Types /\ RunInv /\ CaptureInv /\ HostInv /\ MixerRestored
  BY DEF RateInv
<1>3. DriveInv' /\ NotchInv' /\ MixerRestored' /\ RunInv' /\ CaptureInv'
  BY <1>1, <1>2, DriveFrame, NotchFrame DEF RateInv, DriveInv, MixerRestored, RunInv, CaptureInv
<1>4. /\ CommandType(comm', cmds') /\ BufferType(cap', decim') /\ SidType(sid')
      /\ MixerType(mixer') /\ NotchType(notch') /\ lost' \in BOOLEAN /\ sid'.run <= cmds'
  BY <1>1, <1>2, GroundTypes
<1>5. HostType(dump, host) /\ BufferType(cap, decim) /\ SidType(sid) /\ CommandType(comm, cmds)
  BY <1>2, GroundTypes
<1>6. HostType(dump', host') /\ HostInv'
  <2>1. CASE DumpRequest
    <3>1. comm = "idle" /\ dump' = [on |-> cap # <<>>, pos |-> 0] /\ host' = [host EXCEPT !.on = TRUE]
      BY <2>1 DEF DumpRequest
    <3>2. (cap # <<>>) \in BOOLEAN
      OBVIOUS
    <3>3. 0 \in 0..CapSize
      BY Constants
    <3>4. dump' \in [on : BOOLEAN, pos : 0..CapSize]
      BY <3>1, <3>2, <3>3, Zenon
    <3>5. HostType(dump', host') /\ host'.got = host.got
      BY <1>5, <3>1, <3>4 DEF HostType
    <3> QED
      BY <1>1, <1>2, <3>1, <3>5 DEF HostInv, HostType
  <2>2. CASE \E arrives \in BOOLEAN : DumpChunk(arrives)
    <3>1. PICK arrives \in BOOLEAN : DumpChunk(arrives)
      BY <2>2
    <3> DEFINE more == dump.pos < Len(cap)
               next == dump.pos + (IF more THEN 1 ELSE 0)
    <3>2. /\ dump' = [on |-> next < Len(cap), pos |-> next]
          /\ host' = IF more /\ arrives THEN HostCollects(cap[next]) ELSE host
      BY <3>1 DEF DumpChunk
    <3>3. /\ dump.pos \in Nat /\ dump.pos <= CapSize /\ Len(cap) \in Nat /\ Len(cap) <= CapSize
          /\ CapSize \in Nat /\ cap \in Seq(0..MaxCommands)
      BY <1>5, Constants DEF HostType, BufferType
    <3>4. next \in 0..CapSize /\ (more => next \in 1..Len(cap))
      BY <3>3
    <3>5. (next < Len(cap)) \in BOOLEAN
      BY <3>3, <3>4
    <3>6. dump' \in [on : BOOLEAN, pos : 0..CapSize]
      <4> HIDE DEF next
      <4> QED
        BY <3>2, <3>4, <3>5, Zenon
    <3>7. CASE more /\ arrives /\ host.on
      <4>1. comm \in {"idle", "geometry"}
        BY <1>2, <1>5, <3>7 DEF HostInv, CommandType
      <4>2. cap[next] = sid.run
        <5>1. next \in DOMAIN cap
          BY <3>3, <3>4, <3>7
        <5> QED
          BY <1>2, <4>1, <5>1 DEF CaptureInv
      <4>3. host' = [host EXCEPT !.got = @ \cup {sid.run}]
        BY <3>2, <3>7, <4>2 DEF HostCollects
      <4>4. host'.got = host.got \cup {sid.run} /\ host'.on = host.on
            /\ host' \in [on : BOOLEAN, got : SUBSET (0..MaxCommands)]
        BY <1>5, <4>3 DEF HostType, SidType
      <4> QED
        BY <1>1, <1>2, <3>6, <3>7, <4>4 DEF HostType, HostInv
    <3>8. CASE ~(more /\ arrives /\ host.on)
      <4>1. host' = host \/ host' = [host EXCEPT !.got = @]
        BY <3>2, <3>8 DEF HostCollects
      <4>2. host' = host
        BY <1>5, <4>1 DEF HostType
      <4> QED
        BY <1>1, <1>2, <1>5, <3>6, <4>2 DEF HostType, HostInv
    <3> QED
      BY <3>7, <3>8
  <2> QED
    BY <2>1, <2>2
<1>7. Types'
  BY <1>1, <1>2, <1>4, <1>6, GroundKeepsTypes
<1> QED
  BY <1>3, <1>6, <1>7 DEF RateInv, DriveInv

LEMMA SetNotchKeeps ==
    ASSUME RateInv, SetNotch
    PROVE  RateInv'
<1>1. /\ UNCHANGED <<flight, drive, pid, mixer, comm, sysid, lost>>
      /\ Command /\ notch' = [notch EXCEPT !.enabled = ~@]
  BY DEF SetNotch
<1>2. Types
  BY DEF RateInv
<1>3. DriveInv' /\ MixerRestored' /\ RunsInv'
  BY <1>1, DriveFrame, RunsFrame DEF RateInv, DriveInv, MixerRestored, RunsInv, sysid
<1>4. NotchType(notch)
  BY <1>2, GroundTypes
<1>5. /\ NotchType(notch') /\ notch'.hop = notch.hop /\ notch'.ready = notch.ready
      /\ notch'.engaged = notch.engaged /\ notch'.tuned = notch.tuned
  BY <1>1, <1>4 DEF NotchType
<1>6. NotchInv'
  BY <1>1, <1>5 DEF RateInv, NotchInv
<1>7. /\ MixerType(mixer') /\ BufferType(cap', decim') /\ SidType(sid')
      /\ HostType(dump', host') /\ lost' \in BOOLEAN
  BY <1>1, <1>2, GroundTypes DEF sysid
<1>8. CommandType(comm', cmds') /\ sid'.run <= cmds'
  BY <1>1, <1>2, CommandCounts, GroundTypes DEF CommandType, sysid
<1>9. Types'
  BY <1>1, <1>2, <1>5, <1>7, <1>8, GroundKeepsTypes
<1> QED
  BY <1>3, <1>6, <1>9 DEF RateInv, DriveInv, RunsInv

LEMMA RateInitially == Init => RateInv
<1> SUFFICES ASSUME Init
             PROVE  RateInv
  OBVIOUS
<1>1. /\ MaxEpochs \in Nat /\ MaxCommands \in Nat /\ FifoSize \in Nat /\ RunTicks \in Nat
      /\ CapSize \in Nat /\ FrameTicks \in Nat /\ MotorTicks \in Nat /\ Hop \in Nat /\ Hop >= 3
  BY Constants, HopIsLong
<1>2. sys = "STANDBY" /\ epoch = 0 /\ rc = FrameTicks /\ mot = 0 /\ fifo = <<>> /\ stale = 0
  BY DEF Init
<1>3. ~Armed(sys) /\ ~(0 % 2 = 1)
  BY <1>2 DEF Armed
<1>4. /\ PidType(pid) /\ ~pid.armed
      /\ MixerType(mixer) /\ mixer.air = "RP" /\ mixer.floor = IdleFloor
  BY DEF Init, PidType, IMax, MixerType, Flying
<1>5. CommandType(comm, cmds) /\ comm = "idle" /\ SidType(sid) /\ ~sid.active /\ sid.run <= cmds
  BY <1>1 DEF Init, CommandType, SidType, AmpU, AmpDps
<1>6. BufferType(cap, decim) /\ cap = <<>>
  BY <1>1 DEF Init, BufferType
<1>7. HostType(dump, host) /\ host.got = {}
  BY <1>1 DEF Init, HostType
<1>8. NotchType(notch) /\ NotchInv /\ lost \in BOOLEAN
  <2>1. /\ notch = [enabled |-> FALSE, engaged |-> FALSE, hop |-> 0, ready |-> {},
                    turn |-> 0, tuned |-> {}]
        /\ lost = FALSE
    BY DEF Init
  <2>2. 0 \in 0..(Hop - 1) /\ 0 \in Axes
    BY <1>1 DEF Axes
  <2>3. NotchType(notch)
    BY <2>1, <2>2, Zenon DEF NotchType
  <2>4. notch.ready = {} /\ notch.tuned = {}
    BY <2>1
  <2>5. ~lost /\ lost \in BOOLEAN
    BY <2>1, Zenon
  <2>6. NotchInv
    BY <2>4, <2>5, Zenon DEF NotchInv, Fits
  <2> QED
    BY <2>3, <2>5, <2>6
<1>9. Types
  <2>1. /\ sys \in {"STANDBY", "ARMED", "IN_AIR"} /\ epoch \in 0..MaxEpochs
        /\ (Armed(sys) <=> epoch % 2 = 1)
        /\ rc \in 0..FrameTicks /\ mot \in 0..MotorTicks
        /\ fifo \in Seq(0..MaxEpochs) /\ Len(fifo) <= FifoSize /\ stale \in 0..FifoSize
    BY <1>1, <1>2, <1>3
  <2> QED
    BY <1>4, <1>5, <1>6, <1>7, <1>8, <2>1
    DEF Types, TypeOK, PidType, MixerType, CommandType, SidType, BufferType, HostType, NotchType
<1>10. FifoInv
  BY <1>2, <1>3 DEF FifoInv, FromThePast, Past, Drained, OldFirst, StaleBounded
<1>11. DisarmSeen /\ IntegratorHonest /\ MixerRestored
  BY <1>4 DEF DisarmSeen, IntegratorHonest, MixerRestored
<1>12. RunInv /\ CaptureInv /\ HostInv
  BY <1>5, <1>6, <1>7 DEF RunInv, CaptureInv, HostInv
<1> QED
  BY <1>8, <1>9, <1>10, <1>11, <1>12 DEF RateInv

LEMMA RateInductive ==
    ASSUME RateInv, [Next]_vars
    PROVE  RateInv'
<1>1. CASE UNCHANGED vars
  <2>1. UNCHANGED <<flight, drive, pid>> /\ UNCHANGED <<notch, lost>> /\ UNCHANGED <<sid, cap, host, comm>>
        /\ UNCHANGED <<mixer, cmds, dump, decim>>
    BY <1>1 DEF vars, sysid
  <2>2. DriveInv' /\ NotchInv' /\ RunsInv' /\ MixerRestored'
    BY <2>1, DriveFrame, NotchFrame, RunsFrame DEF RateInv, DriveInv, RunsInv, MixerRestored
  <2>3. Types'
    BY <2>1, GroundTypes, GroundKeepsTypes DEF RateInv
  <2> QED
    BY <2>2, <2>3 DEF RateInv, DriveInv, RunsInv
<1> QED
  BY <1>1, TickKeeps, MotorKeeps, FlightKeeps, GeometryKeeps, ExciteKeeps, DumpKeeps, SetNotchKeeps
  DEF Next

LEMMA RateInvariant == Spec => []RateInv
<1>1. RateInv /\ [Next]_vars => RateInv'
  BY RateInductive
<1> QED
  BY <1>1, RateInitially, PTL DEF Spec

(***************************************************************************)
(* The theorems.                                                           *)
(***************************************************************************)

\* For every FIFO, motor and RC period, a command of an earlier arming drives
\* the motors at most as often as the disarmed motor task could not drain it,
\* and whatever collective and demand the loop asks of mixer_allocate in
\* flight, roll and pitch come out whole and no motor leaves its range; after
\* a geometry command mixer_sync has restored the airmode and the floor.
THEOREM MotorsGetSoundOutputs == Spec => []OutputsSound
<1>1. RateInv => OutputsSound
  BY MixerIsWhole DEF RateInv, Types, FifoInv, OutputsSound, MixerKeepsRollPitch
<1> QED
  BY <1>1, RateInvariant, PTL

\* v_pid_reset on arming and the conditional integration of v_pid_update keep
\* the integrator to this arming's errors, and out of a direction the mixer
\* could not deliver, in every interleaving of ticks, armings and commands.
THEOREM NothingWindsUp == Spec => NoWindup
<1>1. RateInv => IntegratorHonest
  BY DEF RateInv
<1>2. RateInv /\ [Next]_vars
      => [~Reset => ~(pid'.i * pid.sat > 0 /\ pid'.i * pid'.i > pid.i * pid.i)]_vars
  <2> SUFFICES ASSUME RateInv, [Next]_vars, ~Reset
               PROVE  ~(pid'.i * pid.sat > 0 /\ pid'.i * pid'.i > pid.i * pid.i)
    OBVIOUS
  <2>1. Types /\ DisarmSeen /\ IntegratorHonest
    BY DEF RateInv
  <2>2. pid.i \in -1..1 /\ PidType(pid)
    BY <2>1 DEF Types, TypeOK, IMax, PidType
  <2>3. CASE Tick
    <3>1. PICK err \in Errors, thr \in Throttles, yaw \in Yaws, inj \in {0, 1}, hot \in BOOLEAN :
             RateTick(err, thr, yaw, inj, hot)
      BY <2>3 DEF Tick
    <3>2. Inputs(err, thr, yaw, inj, hot) /\ thr \in 0..20
      BY <3>1, Constants DEF Inputs
    <3>3. PICK e \in -1..1, x \in -1..1 : PidAfter(e, x, thr)
      BY <2>1, <3>1, <3>2, TickPid
    <3> QED
      BY <2>1, <3>2, <3>3, PidAfterSound
  <2>4. CASE ~Tick
    <3>1. pid' = pid \/ pid' = [pid EXCEPT !.wound = 0]
      BY <2>4 DEF Next, vars, MotorTask, Arm, Disarm, TakeoffOrLanding, SetGeometry, GeometryDone,
                  ExciteSelect, ExciteLimits, ExciteStart, ExciteAbort, DumpRequest, DumpChunk, SetNotch
    <3>2. pid'.i = pid.i
      BY <2>2, <3>1 DEF PidType
    <3> QED
      BY <2>2, <3>2
  <2> QED
    BY <2>3, <2>4
<1> QED
  BY <1>1, <1>2, RateInvariant, PTL DEF Spec, NoWindup, NoWindupWhileShort

\* Whatever commands cut in, the buffer of sysid_capture between commands and
\* what the host tool puts together hold samples of one run, and no frame of
\* gyro_notch_apply is overwritten before gyro_notch_service retunes from it.
THEOREM CapturesAreWhole == Spec => []CapturesWhole
<1>1. RateInv => CapturesWhole
  <2> SUFFICES ASSUME RateInv
               PROVE  CapturesWhole
    OBVIOUS
  <2>1. CaptureOneRun
    BY DEF RateInv, CaptureInv, CaptureOneRun
  <2>2. DumpOneRun
    <3>1. host.got \subseteq {sid.run}
      BY DEF RateInv, HostInv
    <3>2. host.got = {} \/ host.got = {sid.run}
      BY <3>1
    <3>3. Cardinality(host.got) \in {0, 1}
      BY <3>2, FS_EmptySet, FS_Singleton
    <3> QED
      BY <3>3 DEF DumpOneRun
  <2>3. NotchServed
    BY DEF RateInv, NotchInv, NotchServed
  <2> QED
    BY <2>1, <2>2, <2>3 DEF CapturesWhole
<1> QED
  BY <1>1, RateInvariant, PTL


(***************************************************************************)
(* The simulator's step.                                                   *)
(***************************************************************************)
\* The places of the stepping thread.  Writing: the pose's number is odd;
\* Ticking: the step has begun and its tick is still to come; Tasking: the tasks
\* have a turn.
Places == {"ctl", "physics", "pose", "pose2", "pose3", "inject", "run", "running", "duty", "stopped"}
Writing == {"pose", "pose2", "pose3"}
Ticking == Writing \union {"inject"}
Tasking == {"run", "running"}
Late(p, S) == IF p \in S THEN 1 ELSE 0

\* The number and both fields of the pose are the step's, but for what is being
\* written.
PoseInv ==
    /\ pc \in Places
    /\ step \in Nat /\ step <= MaxSteps /\ (pc = "physics" => step < MaxSteps)
    /\ seq \in Nat /\ seq + Late(pc, Writing) = 2 * step
    /\ poseA \in Nat /\ poseA + Late(pc, {"pose"}) = step
    /\ poseB \in Nat /\ poseB + Late(pc, {"pose", "pose2"}) = step

\* What the window has copied under a number that still stands is the pose.
ReadSet == [at : {"idle", "first", "second", "check", "got"}, s : Nat, a : Nat, b : Nat]
ReadInv ==
    /\ rd \in ReadSet
    /\ rd.s <= seq
    /\ rd.at # "idle" /\ rd.s = seq => /\ pc \notin Writing
                                       /\ rd.at = "second" => rd.a = poseA
                                       /\ rd.at = "check" => rd.a = rd.b
    /\ rd.at = "got" => rd.a = rd.b

\* Tasks are ready in a tick only, the running one among them, on the
\* scheduler's thread; a sample that was not taken keeps its pipeline ready.
SchedInv ==
    /\ ready \subseteq Tasks /\ tok \in BOOLEAN
    /\ ctx \in [{"sched", "rc"} -> {"self", "idle"} \union Tasks] /\ ctx["rc"] = "self"
    /\ pc = "running" => ctx["sched"] = cur /\ (cur = "idle" \/ cur \in ready)
    /\ pc # "running" => ctx["sched"] = "self" /\ cur = "idle"
    /\ pc \notin Tasking => ready = {}
    /\ tok => "ctl" \in ready
    /\ cmd \in Nat /\ cmd <= step
    /\ pc \in Tasking \union {"duty"} /\ ~tok => cmd = step

\* The steps since motor_task ran and the ticks it still sleeps are its period.
TickInv ==
    /\ sleep \in [Tasks -> Nat] /\ \A t \in Tasks : sleep[t] <= MotPeriod + FlushPeriod
    /\ sleep["mot"] = 0 <=> "mot" \in ready
    /\ ran \in Nat /\ step + sleep["mot"] = ran + MotPeriod + Late(pc, Ticking)
    /\ ran <= step

\* An output that is not zero was chosen in flight, no more steps ago than
\* those that have passed since.
DutyInv ==
    /\ state \in Flight \union {"STANDBY", "FAILSAFE"}
    /\ quiet \in Nat /\ quiet <= MotPeriod + 1 /\ (state \in Flight => quiet = 0)
    /\ pwm \in BOOLEAN /\ duty \in BOOLEAN
    /\ pwm => pwmOpen /\ quiet + sleep["mot"] <= MotPeriod
    /\ pc = "ctl" /\ duty => quiet <= MotPeriod

\* The sample fed last is the one held, but for a sensor switched off.
IsSample(s) == s = [n |-> s.n, epoch |-> s.epoch, acc |-> s.acc]
HeldInv == IsSample(held) /\ fed.n = held.n

SceneInv ==
    /\ plan \in Seq(Kinds) /\ sent \in Nat /\ sent <= Len(plan)
    /\ pty \in Nat /\ pty <= PtyCap

SitlInv == /\ PoseInv /\ ReadInv /\ SchedInv /\ TickInv /\ DutyInv /\ HeldInv /\ SceneInv

\* A part whose variables a step leaves holds after it.
LEMMA Unmoved ==
    ASSUME SitlInv
    PROVE  /\ UNCHANGED <<pc, step, seq, poseA, poseB>> => PoseInv'
           /\ UNCHANGED <<rd, seq, pc, poseA>> => ReadInv'
           /\ UNCHANGED <<pc, step, ready, tok, ctx, cur, cmd>> => SchedInv'
           /\ UNCHANGED <<pc, step, ready, sleep, ran>> => TickInv'
           /\ UNCHANGED <<pc, state, quiet, pwm, pwmOpen, duty, sleep>> => DutyInv'
           /\ UNCHANGED <<held, fed>> => HeldInv'
           /\ UNCHANGED <<plan, sent, pty>> => SceneInv'
<1>1. /\ UNCHANGED <<pc, step, seq, poseA, poseB>> => PoseInv'
      /\ UNCHANGED <<rd, seq, pc, poseA>> => ReadInv'
  BY DEF SitlInv, PoseInv, ReadInv
<1>2. UNCHANGED <<pc, step, ready, tok, ctx, cur, cmd>> => SchedInv'
  BY DEF SitlInv, SchedInv
<1>3. UNCHANGED <<pc, step, ready, sleep, ran>> => TickInv'
  BY DEF SitlInv, TickInv
<1>4. UNCHANGED <<pc, state, quiet, pwm, pwmOpen, duty, sleep>> => DutyInv'
  BY DEF SitlInv, DutyInv
<1>5. /\ UNCHANGED <<held, fed>> => HeldInv'
      /\ UNCHANGED <<plan, sent, pty>> => SceneInv'
  BY DEF SitlInv, HeldInv, IsSample, SceneInv
<1> QED
  BY <1>1, <1>2, <1>3, <1>4, <1>5

\* The top of the loop begins a step.
LEMMA DrainCtlKeeps ==
    ASSUME SitlInv, DrainCtl
    PROVE  SitlInv'
<1>1. HeldInv' /\ SceneInv'
  BY Unmoved DEF DrainCtl, schedVars
<1>2. PoseInv'
  BY DEF SitlInv, PoseInv, Places, Writing, Late, DrainCtl, poseVars
<1>3. ReadInv'
  BY DEF SitlInv, ReadInv, ReadSet, PoseInv, Late, Writing, DrainCtl, poseVars
<1>4. SchedInv'
  BY DEF SitlInv, SchedInv, PoseInv, Tasks, Tasking, DrainCtl, schedVars, outVars
<1>5. TickInv'
  BY SitlAssumption DEF SitlInv, TickInv, PoseInv, SchedInv, Tasking, Tasks, Ticking, Writing,
         Late, DrainCtl, schedVars, outVars
<1>6. DutyInv'
  BY SitlAssumption DEF SitlInv, DutyInv, Flight, TickInv, Tasks, DrainCtl, rcVars, outVars,
         schedVars
<1> QED
  BY <1>1, <1>2, <1>3, <1>4, <1>5, <1>6 DEF SitlInv

\* The loop is left.
LEMMA StoppedKeeps ==
    ASSUME SitlInv, Stopped
    PROVE  SitlInv'
<1>1. HeldInv' /\ SceneInv'
  BY Unmoved DEF Stopped, simVars, ctlVars, schedVars
<1>2. PoseInv'
  BY DEF SitlInv, PoseInv, Places, Writing, Late, Stopped, simVars, poseVars
<1>3. ReadInv'
  BY DEF SitlInv, ReadInv, ReadSet, PoseInv, Late, Writing, Stopped, poseVars
<1>4. SchedInv'
  BY DEF SitlInv, SchedInv, PoseInv, Tasks, Tasking, Stopped, simVars, schedVars, outVars
<1>5. TickInv'
  BY SitlAssumption DEF SitlInv, TickInv, PoseInv, SchedInv, Tasking, Tasks, Ticking, Writing,
         Late, Stopped, simVars, schedVars, outVars
<1>6. DutyInv'
  BY SitlAssumption DEF SitlInv, DutyInv, Flight, TickInv, Tasks, Stopped, rcVars, outVars,
         schedVars
<1> QED
  BY <1>1, <1>2, <1>3, <1>4, <1>5, <1>6 DEF SitlInv

\* The pose's number becomes odd with the step that begins.
LEMMA PhysicsKeeps ==
    ASSUME SitlInv, Physics
    PROVE  SitlInv'
<1>1. SceneInv'
  BY Unmoved DEF Physics, Held, Frozen, ctlVars, schedVars
<1>2. PoseInv'
  BY SitlAssumption DEF SitlInv, PoseInv, Places, Writing, Late, Physics, Held, Frozen
<1>3. ReadInv'
  BY DEF SitlInv, ReadInv, ReadSet, PoseInv, Late, Writing, Physics, Held, Frozen
<1>4. SchedInv'
  BY DEF SitlInv, SchedInv, PoseInv, Tasks, Tasking, Physics, Held, Frozen, schedVars, outVars
<1>5. TickInv'
  <2>1. /\ pc = "physics" /\ pc' = "pose" /\ step' = step + 1
        /\ UNCHANGED <<sleep, ran, ready>>
    BY DEF Physics, schedVars, outVars
  <2>2. Late(pc, Ticking) = 0 /\ Late(pc', Ticking) = 1
    BY <2>1 DEF Late, Ticking, Writing
  <2> QED
    BY <2>1, <2>2, SitlAssumption DEF SitlInv, TickInv, PoseInv, Tasks
<1>6. DutyInv'
  BY SitlAssumption DEF SitlInv, DutyInv, Flight, TickInv, Tasks, Physics, Held, Frozen, rcVars,
         outVars, schedVars
<1>7. HeldInv'
  BY DEF SitlInv, HeldInv, IsSample, Physics, Held, Frozen
<1> QED
  BY <1>1, <1>2, <1>3, <1>4, <1>5, <1>6, <1>7 DEF SitlInv

\* The first field of the pose is written.
LEMMA PoseFirstKeeps ==
    ASSUME SitlInv, PoseFirst
    PROVE  SitlInv'
<1>1. HeldInv' /\ SceneInv'
  BY Unmoved DEF PoseFirst, PoseRest, simVars, ctlVars, schedVars
<1>2. PoseInv'
  BY DEF SitlInv, PoseInv, Places, Writing, Late, PoseFirst, PoseRest, simVars
<1>3. ReadInv'
  BY DEF SitlInv, ReadInv, ReadSet, PoseInv, Late, Writing, PoseFirst, PoseRest
<1>4. SchedInv'
  BY DEF SitlInv, SchedInv, PoseInv, Tasks, Tasking, PoseFirst, PoseRest, simVars, schedVars,
         outVars
<1>5. TickInv'
  BY SitlAssumption DEF SitlInv, TickInv, PoseInv, SchedInv, Tasking, Tasks, Ticking, Writing,
         Late, PoseFirst, PoseRest, simVars, schedVars, outVars
<1>6. DutyInv'
  BY SitlAssumption DEF SitlInv, DutyInv, Flight, TickInv, Tasks, PoseFirst, PoseRest, rcVars,
         outVars, schedVars
<1> QED
  BY <1>1, <1>2, <1>3, <1>4, <1>5, <1>6 DEF SitlInv

\* The second field is written.
LEMMA PoseSecondKeeps ==
    ASSUME SitlInv, PoseSecond
    PROVE  SitlInv'
<1>1. HeldInv' /\ SceneInv'
  BY Unmoved DEF PoseSecond, PoseRest, simVars, ctlVars, schedVars
<1>2. PoseInv'
  BY DEF SitlInv, PoseInv, Places, Writing, Late, PoseSecond, PoseRest, simVars
<1>3. ReadInv'
  BY DEF SitlInv, ReadInv, ReadSet, PoseInv, Late, Writing, PoseSecond, PoseRest
<1>4. SchedInv'
  BY DEF SitlInv, SchedInv, PoseInv, Tasks, Tasking, PoseSecond, PoseRest, simVars, schedVars,
         outVars
<1>5. TickInv'
  BY SitlAssumption DEF SitlInv, TickInv, PoseInv, SchedInv, Tasking, Tasks, Ticking, Writing,
         Late, PoseSecond, PoseRest, simVars, schedVars, outVars
<1>6. DutyInv'
  BY SitlAssumption DEF SitlInv, DutyInv, Flight, TickInv, Tasks, PoseSecond, PoseRest, rcVars,
         outVars, schedVars
<1> QED
  BY <1>1, <1>2, <1>3, <1>4, <1>5, <1>6 DEF SitlInv

\* The number is even again, past any the window holds.
LEMMA PoseDoneKeeps ==
    ASSUME SitlInv, PoseDone
    PROVE  SitlInv'
<1>1. HeldInv' /\ SceneInv'
  BY Unmoved DEF PoseDone, PoseRest, simVars, ctlVars, schedVars
<1>2. PoseInv'
  BY DEF SitlInv, PoseInv, Places, Writing, Late, PoseDone, PoseRest, simVars
<1>3. ReadInv'
  BY DEF SitlInv, ReadInv, ReadSet, PoseInv, Late, Writing, PoseDone, PoseRest
<1>4. SchedInv'
  BY DEF SitlInv, SchedInv, PoseInv, Tasks, Tasking, PoseDone, PoseRest, simVars, schedVars,
         outVars
<1>5. TickInv'
  BY SitlAssumption DEF SitlInv, TickInv, PoseInv, SchedInv, Tasking, Tasks, Ticking, Writing,
         Late, PoseDone, PoseRest, simVars, schedVars, outVars
<1>6. DutyInv'
  BY SitlAssumption DEF SitlInv, DutyInv, Flight, TickInv, Tasks, PoseDone, PoseRest, rcVars,
         outVars, schedVars
<1> QED
  BY <1>1, <1>2, <1>3, <1>4, <1>5, <1>6 DEF SitlInv

\* A tick: every sleeper is a tick nearer, and a step without flight is counted.
LEMMA InjectKeeps ==
    ASSUME SitlInv, Inject
    PROVE  SitlInv'
<1>1. HeldInv' /\ SceneInv'
  BY Unmoved DEF Inject, Due, simVars, ctlVars
<1>2. PoseInv'
  BY DEF SitlInv, PoseInv, Places, Writing, Late, Inject, Due, simVars, poseVars
<1>3. ReadInv'
  BY DEF SitlInv, ReadInv, ReadSet, PoseInv, Late, Writing, Inject, Due, poseVars
<1>4. SchedInv'
  BY DEF SitlInv, SchedInv, PoseInv, Tasks, Tasking, Inject, Due, simVars, outVars
<1>5. TickInv'
  BY SitlAssumption DEF SitlInv, TickInv, PoseInv, SchedInv, Tasking, Tasks, Ticking, Writing,
         Late, Inject, Due, simVars, outVars
<1>6. DutyInv'
  <2>1. sleep["mot"] \in Nat /\ sleep["mot"] # 0
    BY DEF SitlInv, SchedInv, TickInv, Inject, Tasks, Tasking
  <2>2. sleep'["mot"] = sleep["mot"] - 1
    BY <2>1 DEF Inject, Tasks
  <2>3. /\ quiet' \in Nat /\ quiet' <= quiet + 1 /\ quiet' <= MotPeriod + 1
        /\ state \in Flight => quiet' = 0
    BY SitlAssumption DEF SitlInv, DutyInv, Inject
  <2>4. UNCHANGED <<state, pwm, duty, pwmOpen>> /\ pc' = "run"
    BY DEF Inject, outVars
  <2> QED
    BY <2>1, <2>2, <2>3, <2>4, SitlAssumption DEF SitlInv, DutyInv
<1> QED
  BY <1>1, <1>2, <1>3, <1>4, <1>5, <1>6 DEF SitlInv

\* The scheduler's thread goes into idle.
LEMMA RunUntilIdleKeeps ==
    ASSUME SitlInv, RunUntilIdle
    PROVE  SitlInv'
<1>1. HeldInv' /\ SceneInv'
  BY Unmoved DEF RunUntilIdle, simVars, ctlVars
<1>2. PoseInv'
  BY DEF SitlInv, PoseInv, Places, Writing, Late, RunUntilIdle, simVars, poseVars
<1>3. ReadInv'
  BY DEF SitlInv, ReadInv, ReadSet, PoseInv, Late, Writing, RunUntilIdle, poseVars
<1>4. SchedInv'
  BY DEF SitlInv, SchedInv, PoseInv, Tasks, Tasking, RunUntilIdle, simVars, outVars
<1>5. TickInv'
  BY SitlAssumption DEF SitlInv, TickInv, PoseInv, SchedInv, Tasking, Tasks, Ticking, Writing,
         Late, RunUntilIdle, simVars, outVars
<1>6. DutyInv'
  BY SitlAssumption DEF SitlInv, DutyInv, Flight, TickInv, Tasks, RunUntilIdle, rcVars, outVars
<1> QED
  BY <1>1, <1>2, <1>3, <1>4, <1>5, <1>6 DEF SitlInv

\* Idle looks: a ready task, or the end of the tick.
LEMMA CpuIdleKeeps ==
    ASSUME SitlInv, CpuIdle
    PROVE  SitlInv'
<1>1. HeldInv' /\ SceneInv'
  BY Unmoved DEF CpuIdle, Yield, NextTasks, simVars, ctlVars
<1>2. PoseInv'
  BY DEF SitlInv, PoseInv, Places, Writing, Late, CpuIdle, Yield, NextTasks, simVars, poseVars
<1>3. ReadInv'
  BY DEF SitlInv, ReadInv, ReadSet, PoseInv, Late, Writing, CpuIdle, Yield, NextTasks, poseVars
<1>4. SchedInv'
  BY DEF SitlInv, SchedInv, PoseInv, Tasks, Tasking, CpuIdle, Yield, NextTasks, simVars, outVars
<1>5. TickInv'
  BY SitlAssumption DEF SitlInv, TickInv, PoseInv, SchedInv, Tasking, Tasks, Ticking, Writing,
         Late, CpuIdle, Yield, NextTasks, simVars, outVars
<1>6. DutyInv'
  BY SitlAssumption DEF SitlInv, DutyInv, Flight, TickInv, Tasks, CpuIdle, Yield, NextTasks,
         rcVars, outVars
<1> QED
  BY <1>1, <1>2, <1>3, <1>4, <1>5, <1>6 DEF SitlInv

\* The pipeline takes the sample, if there is one, and parks.
LEMMA CtlRunsKeeps ==
    ASSUME SitlInv, CtlRuns
    PROVE  SitlInv'
<1>1. PoseInv' /\ ReadInv' /\ HeldInv' /\ SceneInv'
  BY Unmoved DEF CtlRuns, Parks, PendSv, Yield, NextTasks, SetState, simVars, poseVars, ctlVars
<1>2. SchedInv'
  <2>1. /\ pc = "running" /\ pc' = pc /\ UNCHANGED step
        /\ ready' = ready \ {"ctl"} /\ tok' = FALSE /\ cmd' = IF tok THEN step ELSE cmd
        /\ \E t \in NextTasks(ready') : cur' = t /\ ctx' = [ctx EXCEPT !["sched"] = t]
    BY DEF CtlRuns, Parks, PendSv, Yield, simVars
  <2>2. cmd' = step
    BY <2>1 DEF SitlInv, SchedInv, Tasking
  <2>3. cur' \in ready' \/ cur' = "idle"
    BY <2>1 DEF NextTasks
  <2>4. ctx' \in [{"sched", "rc"} -> {"self", "idle"} \union Tasks] /\ ctx'["rc"] = "self" /\ ctx'["sched"] = cur'
    BY <2>1, <2>3 DEF SitlInv, SchedInv, Tasks
  <2>5. ~tok' /\ tok' \in BOOLEAN
    BY <2>1
  <2>6. ready' \subseteq Tasks /\ step \in Nat
    BY <2>1 DEF SitlInv, SchedInv, PoseInv
  <2> QED
    BY <2>1, <2>2, <2>3, <2>4, <2>5, <2>6 DEF SchedInv, Tasking
<1>3. TickInv'
  BY SitlAssumption DEF SitlInv, TickInv, PoseInv, SchedInv, Tasking, Tasks, Ticking, Writing,
         Late, CtlRuns, Parks, PendSv, Yield, NextTasks, SetState, simVars
<1>4. DutyInv'
  BY SitlAssumption DEF SitlInv, DutyInv, Flight, TickInv, Tasks, CtlRuns, Parks, PendSv, Yield,
         NextTasks, SetState
<1> QED
  BY <1>1, <1>2, <1>3, <1>4 DEF SitlInv

\* The motor task chooses an output that flight allows and sleeps its period.
LEMMA MotRunsKeeps ==
    ASSUME SitlInv, MotRuns
    PROVE  SitlInv'
<1>1. PoseInv' /\ ReadInv' /\ HeldInv' /\ SceneInv'
  BY Unmoved DEF MotRuns, Parks, PendSv, Yield, NextTasks, Output, simVars, poseVars, ctlVars
<1>2. SchedInv'
  BY DEF SitlInv, SchedInv, PoseInv, Tasks, Tasking, MotRuns, Parks, PendSv, Yield, NextTasks,
         Output, simVars
<1>3. TickInv'
  BY SitlAssumption DEF SitlInv, TickInv, PoseInv, SchedInv, Tasking, Tasks, Ticking, Writing,
         Late, MotRuns, Parks, PendSv, Yield, NextTasks, Output, simVars
<1>4. DutyInv'
  <2>1. sleep'["mot"] = MotPeriod /\ UNCHANGED <<state, quiet, duty, pwmOpen>> /\ pc' = pc /\ pc = "running"
    BY DEF MotRuns, Parks, SitlInv, TickInv, Tasks, rcVars
  <2>2. pwm' = IF pwmOpen THEN state \in Flight ELSE pwm
    BY DEF MotRuns, Output
  <2>3. pwm' \in BOOLEAN /\ (pwm' => pwmOpen /\ state \in Flight)
    <3>1. CASE pwmOpen
      <4>1. pwm' = (state \in Flight)
        BY <2>2, <3>1
      <4>2. pwm' \in BOOLEAN
        BY <4>1, SMT
      <4>3. pwm' => state \in Flight
        BY <4>1, Zenon
      <4> QED
        BY <4>2, <4>3, <3>1
    <3>2. CASE ~pwmOpen
      BY <2>2, <3>2 DEF SitlInv, DutyInv
    <3> QED
      BY <3>1, <3>2
  <2> QED
    BY <2>1, <2>3, SitlAssumption DEF SitlInv, DutyInv
<1> QED
  BY <1>1, <1>2, <1>3, <1>4 DEF SitlInv

\* The flush task sends what the pty takes and parks.
LEMMA FlushRunsKeeps ==
    ASSUME SitlInv, FlushRuns
    PROVE  SitlInv'
<1>1. PoseInv' /\ ReadInv' /\ HeldInv'
  BY Unmoved DEF FlushRuns, Parks, PendSv, Yield, NextTasks, PtyWrite, simVars, poseVars
<1>2. SchedInv'
  BY DEF SitlInv, SchedInv, PoseInv, Tasks, Tasking, FlushRuns, Parks, PendSv, Yield, NextTasks,
         PtyWrite, simVars, outVars
<1>3. TickInv'
  BY SitlAssumption DEF SitlInv, TickInv, PoseInv, SchedInv, Tasking, Tasks, Ticking, Writing,
         Late, FlushRuns, Parks, PendSv, Yield, NextTasks, PtyWrite, simVars, outVars
<1>4. DutyInv'
  BY SitlAssumption DEF SitlInv, DutyInv, Flight, TickInv, Tasks, FlushRuns, Parks, PendSv,
         Yield, NextTasks, PtyWrite, rcVars, outVars
<1>5. SceneInv'
  BY SitlAssumption DEF SitlInv, SceneInv, FlushRuns, Parks, PendSv, Yield, NextTasks, PtyWrite,
         ctlVars
<1> QED
  BY <1>1, <1>2, <1>3, <1>4, <1>5 DEF SitlInv

\* The output chosen since the last tick is the duty of the next step.
LEMMA ReadDutyKeeps ==
    ASSUME SitlInv, ReadDuty
    PROVE  SitlInv'
<1>1. HeldInv' /\ SceneInv'
  BY Unmoved DEF ReadDuty, simVars, ctlVars, schedVars
<1>2. PoseInv'
  BY DEF SitlInv, PoseInv, Places, Writing, Late, ReadDuty, simVars, poseVars
<1>3. ReadInv'
  BY DEF SitlInv, ReadInv, ReadSet, PoseInv, Late, Writing, ReadDuty, poseVars
<1>4. SchedInv'
  BY DEF SitlInv, SchedInv, PoseInv, Tasks, Tasking, ReadDuty, simVars, schedVars
<1>5. TickInv'
  BY SitlAssumption DEF SitlInv, TickInv, PoseInv, SchedInv, Tasking, Tasks, Ticking, Writing,
         Late, ReadDuty, simVars, schedVars
<1>6. DutyInv'
  BY SitlAssumption DEF SitlInv, DutyInv, Flight, TickInv, Tasks, ReadDuty, rcVars, schedVars
<1> QED
  BY <1>1, <1>2, <1>3, <1>4, <1>5, <1>6 DEF SitlInv

\* The driver only fills the pipe.
LEMMA DriverWritesKeeps ==
    ASSUME SitlInv, DriverWrites
    PROVE  SitlInv'
<1>1. PoseInv' /\ ReadInv' /\ SchedInv' /\ TickInv' /\ DutyInv' /\ HeldInv'
  BY Unmoved DEF DriverWrites, simVars, poseVars, schedVars, outVars, rcVars
<1>2. SceneInv'
  BY SitlAssumption DEF SitlInv, SceneInv, DriverWrites, schedVars
<1> QED
  BY <1>1, <1>2 DEF SitlInv

\* The ground station only empties the pty.
LEMMA GcsReadsKeeps ==
    ASSUME SitlInv, GcsReads
    PROVE  SitlInv'
<1>1. PoseInv' /\ ReadInv' /\ SchedInv' /\ TickInv' /\ DutyInv' /\ HeldInv'
  BY Unmoved DEF GcsReads, simVars, poseVars, outVars, rcVars
<1>2. SceneInv'
  BY SitlAssumption DEF SitlInv, SceneInv, GcsReads, ctlVars
<1> QED
  BY <1>1, <1>2 DEF SitlInv

\* The window starts under an even number: nothing is being written.
LEMMA ReadStartsKeeps ==
    ASSUME SitlInv, ReadStarts
    PROVE  SitlInv'
<1>1. PoseInv' /\ SchedInv' /\ TickInv' /\ DutyInv' /\ HeldInv' /\ SceneInv'
  BY Unmoved DEF ReadStarts, Reading, simVars, poseVars, schedVars, outVars, rcVars, ctlVars
<1>2. ReadInv'
  <2>1. /\ rd.at = "idle" /\ seq % 2 = 0 /\ rd' = [rd EXCEPT !.at = "first", !.s = seq]
        /\ UNCHANGED <<seq, poseA, pc>>
    BY DEF ReadStarts, poseVars
  <2>2. pc \notin Writing
    <3> SUFFICES ASSUME pc \in Writing PROVE FALSE
      OBVIOUS
    <3>1. seq \in Nat /\ step \in Nat /\ seq + 1 = 2 * step
      BY DEF SitlInv, PoseInv, Late
    <3> QED
      BY <3>1, <2>1
  <2>3. rd' \in ReadSet /\ rd'.at = "first" /\ rd'.s = seq
    BY <2>1 DEF SitlInv, ReadInv, PoseInv, ReadSet
  <2> QED
    BY <2>1, <2>2, <2>3 DEF SitlInv, ReadInv, PoseInv
<1> QED
  BY <1>1, <1>2 DEF SitlInv

\* What is copied under a number that stands is the pose.
LEMMA ReadCopiesKeeps ==
    ASSUME SitlInv, ReadCopies
    PROVE  SitlInv'
<1>1. PoseInv' /\ SchedInv' /\ TickInv' /\ DutyInv' /\ HeldInv' /\ SceneInv'
  BY Unmoved DEF ReadCopies, Reading, simVars, poseVars, schedVars, outVars, rcVars, ctlVars
<1>2. ReadInv'
  <2>1. UNCHANGED <<seq, poseA, poseB, pc>>
    BY DEF ReadCopies, poseVars
  <2>2. rd \in ReadSet /\ rd.s <= seq /\ rd.at \in {"first", "second"} /\ poseA \in Nat /\ poseB \in Nat
    BY DEF SitlInv, ReadInv, PoseInv, ReadCopies
  <2>3. CASE rd.at = "first"
    <3>1. rd' = [rd EXCEPT !.at = "second", !.a = poseA]
      BY <2>3 DEF ReadCopies
    <3>2. rd' \in ReadSet /\ rd'.at = "second" /\ rd'.s = rd.s /\ rd'.a = poseA
      BY <2>2, <3>1 DEF ReadSet
    <3> QED
      BY <2>1, <2>2, <2>3, <3>2 DEF SitlInv, ReadInv
  <2>4. CASE rd.at = "second"
    <3>1. rd' = [rd EXCEPT !.at = "check", !.b = poseB]
      BY <2>4 DEF ReadCopies
    <3>2. rd' \in ReadSet /\ rd'.at = "check" /\ rd'.s = rd.s /\ rd'.a = rd.a /\ rd'.b = poseB
      BY <2>2, <3>1 DEF ReadSet
    <3>3. pc \notin Writing => poseA = poseB
      BY DEF SitlInv, PoseInv, Late, Writing
    <3> QED
      BY <2>1, <2>2, <2>4, <3>2, <3>3 DEF SitlInv, ReadInv
  <2> QED
    BY <2>2, <2>3, <2>4
<1> QED
  BY <1>1, <1>2 DEF SitlInv

\* The copy is kept when the number still stands.
LEMMA ReadEndsKeeps ==
    ASSUME SitlInv, ReadEnds
    PROVE  SitlInv'
<1>1. PoseInv' /\ SchedInv' /\ TickInv' /\ DutyInv' /\ HeldInv' /\ SceneInv'
  BY Unmoved DEF ReadEnds, Reading, Stable, simVars, poseVars, schedVars, outVars, rcVars,
         ctlVars
<1>2. ReadInv'
  BY DEF SitlInv, ReadInv, ReadSet, PoseInv, Late, Writing, ReadEnds, Reading, Stable, poseVars
<1> QED
  BY <1>1, <1>2 DEF SitlInv

\* The window has drawn the pose.
LEMMA ReadDoneKeeps ==
    ASSUME SitlInv, ReadDone
    PROVE  SitlInv'
<1>1. PoseInv' /\ SchedInv' /\ TickInv' /\ DutyInv' /\ HeldInv' /\ SceneInv'
  BY Unmoved DEF ReadDone, Reading, simVars, poseVars, schedVars, outVars, rcVars, ctlVars
<1>2. ReadInv'
  BY DEF SitlInv, ReadInv, ReadSet, PoseInv, Late, Writing, ReadDone, Reading, poseVars
<1> QED
  BY <1>1, <1>2 DEF SitlInv

\* A publish on the feeder's thread switches nothing.
LEMMA FeedAnywayKeeps ==
    ASSUME SitlInv, FeedAnyway
    PROVE  SitlInv'
  BY Unmoved DEF SitlInv, FeedAnyway, FeederRest, PendSv, Yield, NextTasks, simVars, poseVars,
         outVars, ctlVars

\* A line of the port may arm, disarm or fail safe; it moves nothing else.
LEMMA FeedLineKeeps ==
    ASSUME SitlInv, NEW up \in BOOLEAN, NEW thr \in Nat, FeedLine(up, thr)
    PROVE  SitlInv'
<1>1. UNCHANGED <<ctlVars, simVars, poseVars, rd, pc, schedVars, outVars>>
  BY DEF FeedLine, FeederRest, PendSv, schedVars
<1>2. /\ state' \in Flight \union {"STANDBY", "FAILSAFE"} /\ quiet' \in {0, quiet}
      /\ state' \in Flight => quiet' = 0
  BY DEF FeedLine, ArmLogic, SetState, SitlInv, DutyInv, Flight
<1>3. PoseInv' /\ ReadInv' /\ SchedInv' /\ TickInv' /\ HeldInv' /\ SceneInv'
  BY <1>1 DEF SitlInv, PoseInv, ReadInv, SchedInv, TickInv, HeldInv, IsSample, SceneInv,
              ctlVars, simVars, poseVars, schedVars, outVars
<1>4. DutyInv'
  BY <1>1, <1>2, SitlAssumption DEF SitlInv, DutyInv, TickInv, Tasks, outVars, schedVars
<1> QED
  BY <1>3, <1>4 DEF SitlInv

\* Before the first step.
LEMMA SitlStarts == SitlInit => SitlInv
<1> SUFFICES ASSUME SitlInit PROVE SitlInv
  OBVIOUS
<1>1. PoseInv /\ ReadInv
  BY SitlAssumption DEF SitlInit, PoseInv, Places, Late, Writing, ReadInv, ReadSet
<1>2. SchedInv
  <2>1. ctx = [th \in {"sched", "rc"} |-> "self"] /\ cur = "idle" /\ ready = {} /\ tok = FALSE /\ cmd = 0 /\ step = 0 /\ pc = "ctl"
    BY DEF SitlInit
  <2>2. ctx \in [{"sched", "rc"} -> {"self", "idle"} \union Tasks] /\ ctx["rc"] = "self" /\ ctx["sched"] = "self"
    BY <2>1
  <2>3. ~tok /\ tok \in BOOLEAN
    BY <2>1
  <2> QED
    BY <2>1, <2>2, <2>3 DEF SchedInv, Tasking
<1>3. TickInv
  <2>1. sleep["ctl"] = 0 /\ sleep["mot"] = MotPeriod /\ sleep["flush"] = FlushPeriod
    BY DEF SitlInit, Tasks
  <2>2. sleep \in [Tasks -> Nat]
    BY <2>1, SitlAssumption DEF SitlInit, Tasks
  <2> QED
    BY <2>1, <2>2, SitlAssumption DEF SitlInit, TickInv, Tasks, Late, Ticking, Writing
<1>4. DutyInv /\ HeldInv
  <2>1. state = "STANDBY" /\ quiet = 0 /\ pwm = FALSE /\ duty = FALSE
    BY DEF SitlInit
  <2>2. DutyInv
    <3>1. ~pwm /\ ~duty /\ pwm \in BOOLEAN /\ duty \in BOOLEAN
      BY <2>1
    <3> QED
      BY <2>1, <3>1, SitlAssumption DEF DutyInv, Flight
  <2>3. held = [n |-> 0, epoch |-> 0, acc |-> "on"] /\ fed = held
    BY DEF SitlInit
  <2> QED
    BY <2>2, <2>3 DEF HeldInv, IsSample
<1>5. SceneInv
  BY SitlAssumption DEF SitlInit, SceneInv
<1> QED
  BY <1>1, <1>2, <1>3, <1>4, <1>5 DEF SitlInv

\* Nothing moves.
LEMMA SitlStays == ASSUME SitlInv, UNCHANGED sitlVars PROVE SitlInv'
  BY DEF SitlInv, PoseInv, ReadInv, SchedInv, TickInv, DutyInv, HeldInv, IsSample, SceneInv,
         sitlVars, ctlVars, simVars, poseVars, schedVars, outVars, rcVars

\* Every step keeps the invariant.
LEMMA SitlSteps == SitlInv /\ [SitlNext]_sitlVars => SitlInv'
<1> SUFFICES ASSUME SitlInv, [SitlNext]_sitlVars PROVE SitlInv'
  OBVIOUS
<1>1. CASE Stepper
  BY <1>1, DrainCtlKeeps, PhysicsKeeps, PoseFirstKeeps, PoseSecondKeeps, PoseDoneKeeps, InjectKeeps,
     RunUntilIdleKeeps, CpuIdleKeeps, CtlRunsKeeps, MotRunsKeeps, FlushRunsKeeps, ReadDutyKeeps
     DEF Stepper
<1>2. CASE Window
  BY <1>2, ReadStartsKeeps, ReadCopiesKeeps, ReadEndsKeeps, ReadDoneKeeps DEF Window
<1>3. ASSUME NEW up \in BOOLEAN, NEW thr \in 1099 .. 1101, FeedLine(up, thr) PROVE SitlInv'
  BY <1>3, FeedLineKeeps
<1>4. CASE Stopped \/ DriverWrites \/ GcsReads \/ FeedAnyway
  BY <1>4, StoppedKeeps, DriverWritesKeeps, GcsReadsKeeps, FeedAnywayKeeps
<1> QED
  BY <1>1, <1>2, <1>3, <1>4, SitlStays DEF SitlNext

\* The invariant at the places the property looks at.
LEMMA SitlImplies == SitlInv => StepSound
<1> SUFFICES ASSUME SitlInv PROVE StepSound
  OBVIOUS
<1>1. SitlTypeOK
  <2>1. step \in 0 .. MaxSteps /\ seq \in 0 .. 2 * MaxSteps /\ cmd \in 0 .. MaxSteps /\ ran \in 0 .. MaxSteps
    BY SitlAssumption DEF SitlInv, PoseInv, SchedInv, TickInv, Late
  <2>2. sleep \in [Tasks -> 0 .. MotPeriod + FlushPeriod]
    BY SitlAssumption DEF SitlInv, TickInv
  <2> QED
    BY <2>1, <2>2, SitlAssumption DEF SitlTypeOK, SitlInv, SchedInv, DutyInv, SceneInv
<1>2. PoseWhole /\ ThreadsApart
  BY DEF SitlInv, ReadInv, SchedInv, PoseWhole, ThreadsApart
<1>3. StepSettled
  BY DEF SitlInv, SchedInv, StepSettled, Tasking
<1>4. DutyFresh
  BY SitlAssumption DEF SitlInv, SchedInv, TickInv, DutyInv, PoseInv, Late, Ticking, Writing, Tasks, Tasking, DutyFresh
<1> QED
  BY <1>1, <1>2, <1>3, <1>4 DEF StepSound

\* A step of the simulator (host_rtos.h, "On return the tick has fully
\* settled"; host_rtos_port.c; the seqlock of vsim_inproc.cpp): the stepper gets
\* control back with no task ready and this step's sample turned into a command;
\* the duty it flies with is zero once the vehicle has not flown for a motor
\* period; the window gets whole poses; a publish on the feeder's thread leaves it
\* on its own stack.
THEOREM StepIsSound == SitlSpec => []StepSound
<1>1. SitlSpec => []SitlInv
  BY SitlStarts, SitlSteps, PTL DEF SitlSpec
<1> QED
  BY <1>1, SitlImplies, PTL

\* vsim_inproc_step: a sample is this step's, or, paused or dropped out, the
\* last good one again; a sensor switched off shows unless the physics is paused.
THEOREM FrozenSensorIsHonest == SitlSpec => FrozenHonest
<1>1. SitlInv /\ [SitlNext]_sitlVars =>
        [step' # step => /\ fed'.n = IF Frozen THEN fed.n ELSE step'
                         /\ fed'.acc = "on" => sim.acc \/ sim.paused]_sitlVars
  <2> SUFFICES ASSUME SitlInv, SitlNext, step' # step
               PROVE  /\ fed'.n = IF Frozen THEN fed.n ELSE step'
                      /\ fed'.acc = "on" => sim.acc \/ sim.paused
    OBVIOUS
  <2>1. Physics
    BY DEF SitlNext, Stepper, Window, DrainCtl, PoseFirst, PoseSecond, PoseDone, PoseRest, Inject, RunUntilIdle,
           CpuIdle, CtlRuns, MotRuns, FlushRuns, ReadDuty, ReadStarts, ReadCopies, ReadEnds, ReadDone,
           Stopped, DriverWrites, GcsReads, FeedLine, FeedAnyway, FeederRest, simVars
  <2>2. \E s : /\ IsSample(s) /\ s.n = IF Frozen THEN fed.n ELSE step'
               /\ fed' = IF sim.acc \/ sim.paused THEN s ELSE [s EXCEPT !.acc = "off"]
    BY <2>1 DEF Physics, SitlInv, HeldInv, IsSample
  <2> QED
    BY <2>2 DEF IsSample
<1>2. SitlSpec => []SitlInv
  BY SitlStarts, SitlSteps, PTL DEF SitlSpec
<1> QED
  BY <1>1, <1>2, PTL DEF SitlSpec, FrozenHonest

(***************************************************************************)
(* The control pipe.  Parsed is a recursive function and the settings are  *)
(* folded over what it returns: both are unfolded into functions on an     *)
(* interval first, by induction as the absence of a least counterexample.  *)
(***************************************************************************)

\* A set of numbers that is not empty has a least one: what the inductions below
\* rest on.
LEMMA LeastNatural ==
    ASSUME NEW T \in SUBSET Nat, T # {}
    PROVE  \E x \in T : \A y \in T : x <= y
<1> DEFINE R == OpToRel(<, Nat)
<1>1. IsWellFoundedOn(R, Nat)
  BY NatLessThanWellFounded
<1>2. \A x, y \in Nat : y < x => <<y, x>> \in R
  BY DEF OpToRel
<1> HIDE DEF R
<1>3. PICK x \in T : \A y \in T : ~ (<<y, x>> \in R)
  BY <1>1, WFMin
<1>4. \A y \in T : ~(y < x)
  BY <1>2, <1>3
<1> QED
  BY <1>4

\* And, when it is bounded, a greatest one.
LEMMA GreatestBelow ==
    ASSUME NEW n \in Nat, NEW T \in SUBSET (1..n), T # {}
    PROVE  \E x \in T : \A y \in T : y <= x
<1> DEFINE U == {m \in 0..n : n - m \in T}
<1>1. U \in SUBSET Nat /\ \A x \in T : x \in Int /\ n - x \in U
  <2>1. ASSUME NEW x \in T PROVE x \in Int /\ n - x \in U
    <3>1. x \in Int /\ n - x \in 0..n /\ n - (n - x) = x
      OBVIOUS
    <3> QED
      BY <3>1
  <2> QED
    BY <2>1
<1>2. PICK m \in U : \A y \in U : m <= y
  <2>1. U # {}
    BY <1>1
  <2> QED
    BY <1>1, <2>1, LeastNatural
<1>3. n - m \in T /\ m \in Int
  BY <1>2
<1>4. ASSUME NEW y \in T PROVE y <= n - m
  <2>1. n - y \in U /\ y \in Int
    BY <1>1
  <2>2. m \in Int
    BY <1>3
  <2> HIDE DEF U
  <2>3. m <= n - y
    BY <2>1, <1>2
  <2> QED
    BY <2>1, <2>2, <2>3
<1> QED
  BY <1>3, <1>4

(* The settings a run of frames leaves: FoldLeft, unfolded. *)
Step(f, s, g, S) == IF S = {} THEN s ELSE Dispatch(f[S \ {Max(S)}], g[Max(S)])
Iterates(f, s, g, n) == f = [S \in SUBSET (1..n) |-> Step(f, s, g, S)]

\* Max, by what is known of it.
LEMMA MaxIs ==
    ASSUME NEW S, NEW x \in S, S \subseteq Nat, \A y \in S : y <= x
    PROVE  Max(S) = x
<1>1. \A z \in S : (\A y \in S : z >= y) => z = x
  OBVIOUS
<1> QED
  BY <1>1 DEF Max

\* The function FoldLeft chooses is there to be chosen.
LEMMA IterateExists ==
    ASSUME NEW s, NEW g, NEW n \in Nat
    PROVE  \E f : Iterates(f, s, g, n)
<1> DEFINE Bad == {k \in Nat : ~ \E f : Iterates(f, s, g, k)}
<1>1. SUFFICES ASSUME Bad # {} PROVE FALSE
  OBVIOUS
<1>2. PICK k \in Bad : \A j \in Bad : k <= j
  BY <1>1, LeastNatural
<1>3. CASE k = 0
  <2> DEFINE f == [S \in SUBSET (1..0) |-> s]
  <2>1. \A S \in SUBSET (1..0) : S = {}
    OBVIOUS
  <2>2. [S \in SUBSET (1..0) |-> Step(f, s, g, S)] = f
    BY <2>1 DEF Step
  <2>3. Iterates(f, s, g, 0)
    BY <2>2 DEF Iterates
  <2> QED
    BY <1>3, <2>3
<1>4. CASE k # 0
  <2>1. k - 1 \in Nat /\ k - 1 \notin Bad /\ 1..(k - 1) \subseteq 1..k
    BY <1>2, <1>4
  <2>2. PICK h : Iterates(h, s, g, k - 1)
    BY <2>1
  <2> DEFINE f == [S \in SUBSET (1..k) |->
                     IF k \in S THEN Dispatch(h[S \ {k}], g[k]) ELSE h[S]]
  <2>3. ASSUME NEW S \in SUBSET (1..k)
        PROVE  f[S] = Step(f, s, g, S)
    <3>1. CASE k \in S
      <4>1. Max(S) = k
        <5>1. S \subseteq Nat /\ \A y \in S : y <= k
          BY <1>2
        <5> QED
          BY <3>1, <5>1, MaxIs
      <4>2. S \ {k} \in SUBSET (1..(k - 1)) /\ S \ {k} \in SUBSET (1..k) /\ k \notin S \ {k}
        BY <2>1
      <4>3. f[S \ {k}] = h[S \ {k}]
        BY <4>2
      <4> QED
        BY <3>1, <4>1, <4>3 DEF Step
    <3>2. CASE k \notin S
      <4>1. S \in SUBSET (1..(k - 1))
        BY <3>2, <2>1
      <4>2. f[S] = h[S] /\ h[S] = Step(h, s, g, S)
        BY <2>2, <3>2, <4>1 DEF Iterates
      <4>3. CASE S = {}
        BY <4>2, <4>3 DEF Step
      <4>4. CASE S # {}
        <5>1. PICK x \in S : \A y \in S : y <= x
          BY <4>4, GreatestBelow
        <5>2. Max(S) = x
          <6>1. S \subseteq Nat
            OBVIOUS
          <6> QED
            BY <5>1, <6>1, MaxIs
        <5>3. S \ {x} \in SUBSET (1..(k - 1)) /\ S \ {x} \in SUBSET (1..k) /\ k \notin S \ {x}
          BY <4>1, <3>2, <2>1
        <5>4. f[S \ {x}] = h[S \ {x}]
          BY <5>3
        <5> QED
          BY <4>2, <4>4, <5>2, <5>4 DEF Step
      <4> QED
        BY <4>3, <4>4
    <3> QED
      BY <3>1, <3>2
  <2>4. f = [S \in SUBSET (1..k) |-> Step(f, s, g, S)]
    BY <2>3
  <2>5. Iterates(f, s, g, k)
    BY <2>4 DEF Iterates
  <2> QED
    BY <2>5
<1> QED
  BY <1>3, <1>4

\* FoldLeft(Dispatch, ...) goes from frame to frame.
LEMMA FoldUnfolds ==
    ASSUME NEW s, NEW S, NEW g \in Seq(S)
    PROVE  \E h : /\ h[0] = s /\ \A k \in 1..Len(g) : h[k] = Dispatch(h[k - 1], g[k])
                  /\ FoldLeft(Dispatch, s, g) = h[Len(g)]
<1> DEFINE n == Len(g)
           f == CHOOSE f : Iterates(f, s, g, n)
           h == [k \in 0..n |-> f[1..k]]
<1>1. n \in Nat /\ DOMAIN g = 1..n
  OBVIOUS
<1>2. FoldLeft(Dispatch, s, g) = f[1..n]
  BY <1>1 DEF FoldLeft, MapThenFoldSet, Iterates, Step
<1>3. Iterates(f, s, g, n)
  BY <1>1, IterateExists
<1> HIDE DEF f
<1>4. h[0] = s
  <2>1. 1..0 = {} /\ {} \in SUBSET (1..n)
    OBVIOUS
  <2> QED
    BY <1>1, <1>3, <2>1 DEF Iterates, Step
<1>5. ASSUME NEW k \in 1..n
      PROVE  h[k] = Dispatch(h[k - 1], g[k])
  <2>1. /\ 1..k \in SUBSET (1..n) /\ 1..k # {} /\ k \in 1..k
        /\ 1..k \subseteq Nat /\ \A y \in 1..k : y <= k
    <3>1. \A y : y \in 1..k => y \in 1..n /\ y \in Nat /\ y <= k
      BY <1>1
    <3>2. k \in 1..k
      BY <1>1
    <3> QED
      BY <3>1, <3>2
  <2>6. (1..k) \ {k} = 1..(k - 1)
    <3>1. \A y : y \in (1..k) \ {k} <=> y \in 1..(k - 1)
      BY <1>1
    <3> QED
      BY <3>1
  <2>2. Max(1..k) = k
    BY <2>1, MaxIs
  <2>3. f[1..k] = Step(f, s, g, 1..k)
    BY <1>3, <2>1 DEF Iterates
  <2>4. f[1..k] = Dispatch(f[1..(k - 1)], g[k])
    BY <2>1, <2>2, <2>3, <2>6 DEF Step
  <2>5. k \in 0..n /\ k - 1 \in 0..n
    BY <1>1
  <2> QED
    BY <2>4, <2>5
<1>6. h[n] = f[1..n]
  BY <1>1
<1> HIDE DEF h
<1> QED
  BY <1>2, <1>4, <1>5, <1>6

(* The frames of a buffer: Parsed, unfolded. *)
ParseStep(f, b, i) ==
    IF i > Len(b) THEN [done |-> Len(b), got |-> <<>>]
    ELSE IF ~Magic(b[i]) THEN f[i + 1]
    ELSE IF i - 1 + Need(b[i]) > Len(b) THEN [done |-> i - 1, got |-> <<>>]
    ELSE LET rest == f[i + Need(b[i])] IN
         [rest EXCEPT !.got = IF Kind(b[i]) \in Settings THEN <<b[i].f>> \o @ ELSE @]
Parses(f, b, m) == f = [i \in m .. Len(b) + 1 |-> ParseStep(f, b, i)]

\* A frame is a header and a body, or longer than the buffer.
LEMMA NeedType == \A c : Need(c) \in Nat \ {0, 1} /\ (Need(c) = 2 \/ Need(c) > BufCells)
  BY SitlAssumption DEF Need

\* The function Parsed chooses is there to be chosen.
LEMMA ParseExists ==
    ASSUME NEW S, NEW b \in Seq(S), NEW m \in 1..(Len(b) + 1)
    PROVE  \E f : Parses(f, b, m)
<1> DEFINE n == Len(b)
           Bad == {k \in 0..n : ~ \E f : Parses(f, b, n + 1 - k)}
<1>1. n \in Nat
  OBVIOUS
<1> HIDE DEF n
<1>2. ASSUME Bad # {} PROVE FALSE
  <2>1. PICK k \in Bad : \A j \in Bad : k <= j
    <3>1. Bad \in SUBSET Nat
      BY <1>1
    <3> HIDE DEF Bad
    <3> QED
      BY <1>2, <3>1, LeastNatural
  <2>2. k \in 0..n /\ ~ \E f : Parses(f, b, n + 1 - k)
    OBVIOUS
  <2>3. CASE k = 0
    <3> DEFINE f == [i \in (n + 1)..(n + 1) |-> [done |-> n, got |-> <<>>]]
    <3>1. \A i \in (n + 1)..(n + 1) : ParseStep(f, b, i) = [done |-> n, got |-> <<>>]
      BY <1>1 DEF ParseStep, n
    <3>2. f = [i \in (n + 1)..(n + 1) |-> ParseStep(f, b, i)]
      BY <3>1
    <3> HIDE DEF f
    <3>3. Parses(f, b, n + 1)
      BY <3>2 DEF Parses, n
    <3> QED
      BY <1>1, <2>2, <2>3, <3>3
  <2>4. CASE k # 0
    <3> DEFINE a == n + 1 - k
    <3>1. k - 1 \in 0..n /\ ~(k <= k - 1) /\ n + 1 - (k - 1) = a + 1 /\ a \in 1..n
      BY <1>1, <2>2, <2>4
    <3>2. k - 1 \notin Bad
      <4> HIDE DEF Bad
      <4> QED
        BY <2>1, <3>1
    <3>3. PICK g : Parses(g, b, a + 1)
      BY <3>1, <3>2
    <3> HIDE DEF a
    <3> DEFINE f == [i \in a..(n + 1) |-> IF i = a THEN ParseStep(g, b, a) ELSE g[i]]
    <3>4. ASSUME NEW i \in a..(n + 1)
          PROVE  f[i] = ParseStep(f, b, i)
      <4>1. \A j \in (a + 1)..(n + 1) : f[j] = g[j]
        BY <1>1, <3>1
      <4>2. f[i] = ParseStep(g, b, i)
        <5>1. CASE i = a
          BY <5>1
        <5>2. CASE i # a
          <6>1. i \in (a + 1)..(n + 1)
            BY <1>1, <3>1, <5>2
          <6>2. g[i] = ParseStep(g, b, i)
            BY <3>3, <6>1 DEF Parses, n
          <6> QED
            BY <5>2, <6>2
        <5> QED
          BY <5>1, <5>2
      <4> HIDE DEF f
      <4>3. i <= n => f[i + 1] = g[i + 1]
        BY <1>1, <3>1, <4>1
      <4>4. i - 1 + Need(b[i]) <= n => f[i + Need(b[i])] = g[i + Need(b[i])]
        <5>1. Need(b[i]) \in Nat \ {0}
          BY NeedType
        <5>2. i - 1 + Need(b[i]) <= n => i + Need(b[i]) \in (a + 1)..(n + 1)
          BY <1>1, <3>1, <5>1
        <5> QED
          BY <4>1, <5>2
      <4>5. CASE i > n
        BY <4>2, <4>5 DEF ParseStep, n
      <4>6. CASE i <= n /\ i - 1 + Need(b[i]) > n
        BY <4>2, <4>3, <4>6 DEF ParseStep, n
      <4>7. CASE i <= n /\ ~(i - 1 + Need(b[i]) > n)
        <5>1. i - 1 + Need(b[i]) <= n
          <6>1. Need(b[i]) \in Nat
            BY NeedType
          <6> QED
            BY <1>1, <3>1, <6>1, <4>7
        <5>2. f[i + Need(b[i])] = g[i + Need(b[i])]
          BY <4>4, <5>1
        <5> QED
          BY <4>2, <4>3, <4>7, <5>2 DEF ParseStep, n
      <4> QED
        BY <1>1, <3>1, <4>5, <4>6, <4>7
    <3>5. f = [i \in a..(n + 1) |-> ParseStep(f, b, i)]
      BY <3>4
    <3> HIDE DEF f
    <3>6. Parses(f, b, a)
      BY <3>5 DEF Parses, n
    <3> QED
      BY <2>2, <3>6 DEF a
  <2> QED
    BY <2>3, <2>4
<1>3. n + 1 - m \in 0..n /\ n + 1 - (n + 1 - m) = m
  BY <1>1 DEF n
<1> QED
  BY <1>2, <1>3

\* Parsed is the first value of it.
LEMMA ParsedUnfolds ==
    ASSUME NEW S, NEW b \in Seq(S)
    PROVE  \E f : Parses(f, b, 1) /\ Parsed(b) = f[1]
<1> DEFINE f == CHOOSE f : Parses(f, b, 1)
<1>1. Parsed(b) = f[1]
  BY DEF Parsed, Parses, ParseStep
<1>2. 1 \in 1..(Len(b) + 1)
  OBVIOUS
<1>3. Parses(f, b, 1)
  BY <1>2, ParseExists
<1> QED
  BY <1>1, <1>3

Cell == [f : Nat, part : {1, 2}]
\* Headers in the order they were written; frames dispatched in that order.
Ascending(b) == \A k, l \in 1..Len(b) : k < l /\ Magic(b[k]) /\ Magic(b[l]) => b[k].f < b[l].f
Increasing(s) == \A j \in 1..(Len(s) - 1) : s[j] < s[j + 1]
\* Frame x has its header in this part of the buffer.
FromHeader(x, b, lo, hi) == \E k \in lo..hi : Magic(b[k]) /\ b[k].f = x /\ Kind(b[k]) \in Settings
\* r is what may be parsed of b from cell i on.
Takes(r, b, i) ==
    /\ r = [done |-> r.done, got |-> r.got] /\ r.done \in (i - 1)..Len(b) /\ r.got \in Seq(Nat)
    /\ \A j \in 1..Len(r.got) : FromHeader(r.got[j], b, i, r.done)
    /\ Increasing(r.got)

\* One frame before those found behind it.
LEMMA PrependShape ==
    ASSUME NEW q \in Seq(Nat), NEW x \in Nat
    PROVE  /\ <<x>> \o q \in Seq(Nat) /\ Len(<<x>> \o q) = Len(q) + 1 /\ Len(q) \in Nat
           /\ (<<x>> \o q)[1] = x /\ \A j \in 1..Len(q) : (<<x>> \o q)[j + 1] = q[j]
OBVIOUS

\* The same, in the record of what is parsed.
LEMMA GotMore ==
    ASSUME NEW r, NEW d, r = [done |-> d, got |-> r.got], NEW x
    PROVE  [r EXCEPT !.got = <<x>> \o @] = [done |-> d, got |-> <<x>> \o r.got]
<1>1. \A g, e : [[done |-> d, got |-> g] EXCEPT !.got = e] = [done |-> d, got |-> e]
  OBVIOUS
<1> QED
  BY <1>1

\* Nothing was found.
LEMMA TakesNothing ==
    ASSUME NEW b, NEW i \in Nat, NEW d \in (i - 1)..Len(b)
    PROVE  Takes([done |-> d, got |-> <<>>], b, i)
  BY DEF Takes, Increasing

\* A cell that starts no frame is skipped.
LEMMA TakesOn ==
    ASSUME NEW b, NEW i \in Nat, NEW m \in Nat, i <= m, NEW r, Takes(r, b, m)
    PROVE  Takes(r, b, i)
<1>1. r.done \in (i - 1)..Len(b)
  BY DEF Takes
<1>2. \A x : FromHeader(x, b, m, r.done) => FromHeader(x, b, i, r.done)
  BY <1>1 DEF FromHeader
<1> QED
  BY <1>1, <1>2 DEF Takes

\* A frame is found, and those behind it are later ones.
LEMMA TakesOne ==
    ASSUME NEW b \in Seq(Cell), Ascending(b), NEW i \in 1..Len(b), Magic(b[i]), Kind(b[i]) \in Settings,
           NEW r, Takes(r, b, i + 2)
    PROVE  Takes([r EXCEPT !.got = <<b[i].f>> \o @], b, i)
<1> DEFINE x == b[i].f
           q == <<x>> \o r.got
           s == [r EXCEPT !.got = <<x>> \o @]
<1>0. Len(b) \in Nat
  OBVIOUS
<1>1. x \in Nat /\ \A k \in 1..Len(b) : b[k].f \in Nat
  <2>1. \A k \in 1..Len(b) : b[k] \in Cell
    OBVIOUS
  <2> QED
    BY <2>1 DEF Cell
<1>2. r = [done |-> r.done, got |-> r.got] /\ r.done \in (i + 1)..Len(b) /\ r.got \in Seq(Nat)
  BY DEF Takes
<1>3. s = [done |-> r.done, got |-> q]
  BY <1>2, GotMore
<1>4. /\ q \in Seq(Nat) /\ Len(q) = Len(r.got) + 1 /\ Len(r.got) \in Nat
      /\ q[1] = x /\ \A j \in 1..Len(r.got) : q[j + 1] = r.got[j]
  BY <1>1, <1>2, PrependShape
<1> HIDE DEF q, s
<1>5. ASSUME NEW j \in 1..Len(r.got)
      PROVE  FromHeader(r.got[j], b, i, r.done) /\ x < r.got[j]
  <2>1. PICK k \in (i + 2)..r.done : Magic(b[k]) /\ b[k].f = r.got[j] /\ Kind(b[k]) \in Settings
    BY DEF Takes, FromHeader
  <2>2. k \in i..r.done /\ k \in 1..Len(b) /\ i < k
    BY <1>0, <1>2
  <2>3. x < b[k].f
    BY <2>1, <2>2 DEF Ascending
  <2> QED
    BY <2>1, <2>2, <2>3 DEF FromHeader
<1>6. ASSUME NEW j \in 1..Len(q)
      PROVE  FromHeader(q[j], b, i, r.done)
  <2>1. CASE j = 1
    <3>1. i \in i..r.done
      BY <1>0, <1>2
    <3> QED
      BY <1>4, <2>1, <3>1 DEF FromHeader
  <2>2. CASE j # 1
    <3>3. Len(q) = Len(r.got) + 1 /\ Len(r.got) \in Nat
      BY <1>4
    <3>1. j - 1 \in 1..Len(r.got) /\ (j - 1) + 1 = j
      BY <2>2, <3>3
    <3>2. q[j] = r.got[j - 1]
      BY <1>4, <3>1
    <3> QED
      BY <1>5, <3>1, <3>2
  <2> QED
    BY <2>1, <2>2
<1>7. Increasing(q)
  <2> SUFFICES ASSUME NEW j \in 1..(Len(q) - 1) PROVE q[j] < q[j + 1]
    BY DEF Increasing
  <2>0. q[j + 1] = r.got[j] /\ j \in 1..Len(r.got)
    BY <1>4
  <2>1. CASE j = 1
    BY <1>4, <1>5, <2>0, <2>1
  <2>2. CASE j # 1
    <3>1. j - 1 \in 1..(Len(r.got) - 1) /\ j - 1 \in 1..Len(r.got) /\ (j - 1) + 1 = j
      BY <1>4, <2>2
    <3>3. q[j] = r.got[j - 1]
      BY <1>4, <3>1
    <3>2. r.got[j - 1] < r.got[(j - 1) + 1]
      BY <3>1 DEF Takes, Increasing
    <3> QED
      BY <2>0, <3>1, <3>2, <3>3
  <2> QED
    BY <2>1, <2>2
<1>8. s.done = r.done /\ s.got = q /\ s = [done |-> s.done, got |-> s.got] /\ r.done \in (i - 1)..Len(b)
  BY <1>0, <1>2, <1>3
<1>9. Takes(s, b, i)
  BY <1>4, <1>6, <1>7, <1>8 DEF Takes
<1> QED
  BY <1>9 DEF s

\* Parsed takes frames in order, none from the cells it leaves.
LEMMA ParsedTakes ==
    ASSUME NEW b \in Seq(Cell), Ascending(b), Len(b) <= BufCells
    PROVE  Takes(Parsed(b), b, 1)
<1> DEFINE n == Len(b)
<1>1. n \in Nat /\ BufCells \in Nat
  BY SitlAssumption
<1>2. PICK f : Parses(f, b, 1) /\ Parsed(b) = f[1]
  BY ParsedUnfolds
<1> DEFINE Bad == {k \in 0..n : ~ Takes(f[n + 1 - k], b, n + 1 - k)}
<1>3. ASSUME Bad # {} PROVE FALSE
  <2>1. PICK k \in Bad : \A j \in Bad : k <= j
    <3>1. Bad \in SUBSET Nat
      BY <1>1
    <3> HIDE DEF Bad
    <3> QED
      BY <1>3, <3>1, LeastNatural
  <2>2. k \in 0..n /\ ~ Takes(f[n + 1 - k], b, n + 1 - k)
    OBVIOUS
  <2> DEFINE i == n + 1 - k
  <2>3. i \in 1..(n + 1) /\ f[i] = ParseStep(f, b, i)
    BY <1>1, <1>2, <2>2 DEF Parses
  <2>4. ASSUME NEW m \in (i + 1)..(n + 1)
        PROVE  Takes(f[m], b, m)
    <3>1. n + 1 - m \in 0..n /\ ~(k <= n + 1 - m) /\ n + 1 - (n + 1 - m) = m
      BY <1>1, <2>2, <2>3
    <3>2. n + 1 - m \notin Bad
      <4> HIDE DEF Bad
      <4> QED
        BY <2>1, <3>1
    <3> QED
      BY <3>1, <3>2
  <2> HIDE DEF i, n
  <2>5. CASE i > n
    <3>1. f[i] = [done |-> n, got |-> <<>>] /\ n \in (i - 1)..Len(b) /\ i \in Nat
      BY <1>1, <2>3, <2>5 DEF ParseStep, n
    <3>2. Takes(f[i], b, i)
      BY <3>1, TakesNothing
    <3> QED
      BY <2>2, <3>2 DEF i
  <2>6. CASE i <= n /\ ~Magic(b[i])
    <3>1. f[i] = f[i + 1] /\ i + 1 \in (i + 1)..(n + 1) /\ i \in Nat /\ i + 1 \in Nat
      BY <1>1, <2>3, <2>6 DEF ParseStep, n
    <3>2. Takes(f[i], b, i + 1)
      BY <2>4, <3>1
    <3>3. Takes(f[i], b, i)
      BY <3>1, <3>2, TakesOn
    <3> QED
      BY <2>2, <3>3 DEF i
  <2>7. CASE i <= n /\ Magic(b[i]) /\ i - 1 + Need(b[i]) > n
    <3>1. f[i] = [done |-> i - 1, got |-> <<>>] /\ i - 1 \in (i - 1)..Len(b) /\ i \in Nat
      BY <1>1, <2>3, <2>7 DEF ParseStep, n
    <3>2. Takes(f[i], b, i)
      BY <3>1, TakesNothing
    <3> QED
      BY <2>2, <3>2 DEF i
  <2>8. CASE i <= n /\ Magic(b[i]) /\ ~(i - 1 + Need(b[i]) > n)
    <3>1. Need(b[i]) = 2
      BY <1>1, <2>3, <2>8, NeedType DEF n
    <3>2. i + 2 \in (i + 1)..(n + 1) /\ i \in Nat /\ i + 2 \in Nat /\ i \in 1..n
      BY <1>1, <2>3, <2>8, <3>1
    <3>3. Takes(f[i + 2], b, i + 2)
      BY <2>4, <3>2
    <3>4. f[i] = [f[i + 2] EXCEPT !.got = IF Kind(b[i]) \in Settings THEN <<b[i].f>> \o @ ELSE @]
      BY <1>1, <2>3, <2>8, <3>1 DEF ParseStep, n
    <3>5. CASE Kind(b[i]) \in Settings
      <4>1. f[i] = [f[i + 2] EXCEPT !.got = <<b[i].f>> \o @]
        BY <3>4, <3>5
      <4>2. Takes(f[i], b, i)
        <5>1. i \in 1..Len(b) /\ Magic(b[i])
          BY <2>8, <3>2 DEF n
        <5>2. Takes([f[i + 2] EXCEPT !.got = <<b[i].f>> \o @], b, i)
          BY <3>3, <3>5, <5>1, TakesOne
        <5> QED
          BY <4>1, <5>2
      <4> QED
        BY <2>2, <4>2 DEF i
    <3>6. CASE Kind(b[i]) \notin Settings
      <4>1. f[i] = f[i + 2]
        BY <3>3, <3>4, <3>6 DEF Takes
      <4>2. Takes(f[i], b, i)
        BY <3>2, <3>3, <4>1, TakesOn
      <4> QED
        BY <2>2, <4>2 DEF i
    <3> QED
      BY <3>5, <3>6
  <2> QED
    BY <1>1, <2>3, <2>5, <2>6, <2>7, <2>8
<1>4. n \in 0..n /\ n + 1 - n = 1
  BY <1>1
<1>5. Takes(f[1], b, 1)
  BY <1>3, <1>4
<1> QED
  BY <1>2, <1>5

\* The whole frames from a + 1 on, and nothing else.
Regular(b, a) ==
    \A m \in Nat : /\ 2 * m + 1 <= Len(b) => b[2 * m + 1] = [f |-> a + m + 1, part |-> 1]
                   /\ 2 * m + 2 <= Len(b) => b[2 * m + 2] = [f |-> a + m + 1, part |-> 2]
AllSettings == \A i \in 1..Len(plan) : plan[i] \in Settings
\* r is what is parsed of the frames from m on.
Whole(r, a, m, h) ==
    /\ r = [done |-> 2 * h, got |-> r.got] /\ r.got \in Seq(Nat) /\ Len(r.got) = h - m
    /\ \A j \in 1..(h - m) : r.got[j] = a + m + j

\* Of whole frames it takes all, and leaves at most a header.
LEMMA ParsedWhole ==
    ASSUME AllSettings, plan \in Seq(Kinds), NEW a \in Nat, NEW b \in Seq(Cell), Regular(b, a), NEW h \in Nat,
           Len(b) \in {2 * h, 2 * h + 1}, a + h <= Len(plan),
           Len(b) = 2 * h + 1 => a + h + 1 <= Len(plan)
    PROVE  Whole(Parsed(b), a, 0, h)
<1> DEFINE n == Len(b)
<1>1. n \in Nat /\ n \in {2 * h, 2 * h + 1} /\ Len(plan) \in Nat
  OBVIOUS
<1>2. PICK f : Parses(f, b, 1) /\ Parsed(b) = f[1]
  BY ParsedUnfolds
<1> DEFINE Bad == {k \in 0..h : ~ Whole(f[2 * (h - k) + 1], a, h - k, h)}
<1>3. ASSUME Bad # {} PROVE FALSE
  <2>1. PICK k \in Bad : \A j \in Bad : k <= j
    <3>1. Bad \in SUBSET Nat
      OBVIOUS
    <3> HIDE DEF Bad
    <3> QED
      BY <1>3, <3>1, LeastNatural
  <2>2. k \in 0..h /\ ~ Whole(f[2 * (h - k) + 1], a, h - k, h)
    OBVIOUS
  <2> DEFINE m == h - k
             i == 2 * m + 1
  <2>3. m \in 0..h /\ m = h - k /\ i \in 1..(n + 1) /\ i = 2 * m + 1
    BY <1>1, <2>2
  <2> HIDE DEF n, i, m
  <2>4. f[i] = ParseStep(f, b, i)
    BY <1>2, <2>3 DEF Parses, n
  <2>5. ASSUME i <= n
        PROVE  Magic(b[i]) /\ b[i].f = a + m + 1 /\ Kind(b[i]) \in Settings /\ Need(b[i]) = 2
    <3>1. b[i] = [f |-> a + m + 1, part |-> 1]
      <4>1. m \in Nat /\ 2 * m + 1 <= Len(b)
        BY <1>1, <2>3, <2>5 DEF n
      <4>2. b[2 * m + 1] = [f |-> a + m + 1, part |-> 1]
        BY <4>1 DEF Regular
      <4> QED
        BY <2>3, <4>2
    <3>2. a + m + 1 \in 1..Len(plan)
      BY <1>1, <2>3, <2>5 DEF n
    <3>3. Kind(b[i]) \in Settings
      BY <3>1, <3>2 DEF Kind, AllSettings
    <3>4. Kind(b[i]) # "huge"
      BY <3>3 DEF Settings
    <3> QED
      BY <3>1, <3>3, <3>4 DEF Magic, Need
  <2>6. CASE k = 0
    <3>1. m = h
      BY <2>3, <2>6
    <3>2. f[i] = [done |-> 2 * h, got |-> <<>>]
      <4>1. CASE i > n
        <5>1. n = 2 * h
          BY <1>1, <2>3, <3>1, <4>1
        <5> QED
          BY <2>4, <4>1, <5>1 DEF ParseStep, n
      <4>2. CASE i <= n
        <5>1. i - 1 = 2 * h /\ i - 1 + Need(b[i]) > n /\ ~(i > n)
          <6>1. Need(b[i]) = 2
            BY <2>5, <4>2
          <6>2. i = 2 * h + 1 /\ n \in Nat /\ n < 2 * h + 2
            BY <1>1, <2>3, <3>1
          <6> QED
            BY <4>2, <6>1, <6>2
        <5> QED
          BY <2>4, <2>5, <4>2, <5>1 DEF ParseStep, n
      <4> QED
        BY <1>1, <2>3, <4>1, <4>2
    <3>3. Whole(f[i], a, h, h)
      BY <3>2 DEF Whole
    <3> QED
      BY <2>2, <3>1, <3>3 DEF i, m
  <2>7. CASE k # 0
    <3>1. k - 1 \in 0..h /\ ~(k <= k - 1) /\ h - (k - 1) = m + 1 /\ m + 1 <= h /\ m \in Nat
      BY <2>2, <2>3, <2>7
    <3>2. k - 1 \notin Bad
      <4> HIDE DEF Bad
      <4> QED
        BY <2>1, <3>1
    <3>3. Whole(f[i + 2], a, m + 1, h)
      <4>1. 2 * (h - (k - 1)) + 1 = i + 2
        BY <2>3, <3>1
      <4> QED
        BY <3>1, <3>2, <4>1
    <3>4. i <= n /\ ~(i > n) /\ ~(i - 1 + 2 > n)
      BY <1>1, <2>3, <3>1
    <3> DEFINE x == a + m + 1
               r == f[i + 2]
               q == <<x>> \o r.got
    <3>5. x \in Nat /\ r.got \in Seq(Nat) /\ Len(r.got) = h - (m + 1)
      BY <3>1, <3>3 DEF Whole
    <3>12. r = [done |-> 2 * h, got |-> r.got]
      BY <3>3 DEF Whole
    <3>6. f[i] = [r EXCEPT !.got = <<x>> \o @]
      BY <2>4, <2>5, <3>4 DEF ParseStep, n
    <3>7. f[i] = [done |-> 2 * h, got |-> q]
      <4>1. [r EXCEPT !.got = <<x>> \o @] = [done |-> 2 * h, got |-> <<x>> \o r.got]
        <5> HIDE DEF r, x
        <5> QED
          BY <3>12, GotMore
      <4> QED
        BY <3>6, <4>1
    <3>8. /\ q \in Seq(Nat) /\ Len(q) = Len(r.got) + 1
          /\ q[1] = x /\ \A j \in 1..Len(r.got) : q[j + 1] = r.got[j]
      BY <3>5, PrependShape
    <3> HIDE DEF q, r
    <3>9. ASSUME NEW j \in 1..(h - m) PROVE q[j] = a + m + j
      <4>1. CASE j = 1
        BY <3>8, <4>1
      <4>2. CASE j # 1
        <5>1. j - 1 \in 1..(h - (m + 1)) /\ j - 1 \in 1..Len(r.got) /\ (j - 1) + 1 = j
          BY <2>3, <3>1, <3>5, <4>2
        <5>2. q[j] = r.got[j - 1]
          BY <3>8, <5>1
        <5>3. r.got[j - 1] = a + (m + 1) + (j - 1)
          BY <3>3, <5>1 DEF Whole, r
        <5> QED
          BY <2>3, <3>1, <5>2, <5>3
      <4> QED
        BY <4>1, <4>2
    <3>10. Len(q) = h - m
      BY <2>3, <3>1, <3>5, <3>8
    <3>11. Whole(f[i], a, m, h)
      BY <3>7, <3>8, <3>9, <3>10 DEF Whole
    <3> QED
      BY <2>2, <3>11 DEF i, m
  <2> QED
    BY <2>6, <2>7
<1>4. h \in 0..h /\ h - h = 0 /\ 2 * (h - h) + 1 = 1
  OBVIOUS
<1>5. Whole(f[1], a, 0, h)
  BY <1>3, <1>4
<1> QED
  BY <1>2, <1>5

\* The last frame of a kind that was applied.
Latest(ap, kind) == LET is == {i \in 1 .. Len(ap) : plan[ap[i]] = kind}
                    IN  IF is = {} THEN 0 ELSE ap[CHOOSE i \in is : \A j \in is : j <= i]

\* One frame more at the end.
LEMMA AppendOne ==
    ASSUME NEW q \in Seq(Nat), NEW x \in Nat
    PROVE  /\ Append(q, x) \in Seq(Nat) /\ Len(Append(q, x)) = Len(q) + 1 /\ Len(q) \in Nat
           /\ Append(q, x)[Len(q) + 1] = x /\ \A j \in 1..Len(q) : Append(q, x)[j] = q[j]
OBVIOUS

\* The latest of a kind is the frame just applied, if it is of that kind.
LEMMA LatestAppend ==
    ASSUME NEW ap \in Seq(Nat), NEW x \in Nat, NEW kind
    PROVE  Latest(Append(ap, x), kind) = IF plan[x] = kind THEN x ELSE Latest(ap, kind)
<1> DEFINE n == Len(ap)
           new == Append(ap, x)
           is == {i \in 1..n : plan[ap[i]] = kind}
           js == {i \in 1..Len(new) : plan[new[i]] = kind}
<1>1. new \in Seq(Nat) /\ Len(new) = n + 1 /\ n \in Nat /\ new[n + 1] = x /\ \A j \in 1..n : new[j] = ap[j]
  BY AppendOne
<1>2. Latest(new, kind) = IF js = {} THEN 0 ELSE new[CHOOSE i \in js : \A j \in js : j <= i]
  BY DEF Latest
<1>3. Latest(ap, kind) = IF is = {} THEN 0 ELSE ap[CHOOSE i \in is : \A j \in is : j <= i]
  BY DEF Latest
<1> HIDE DEF n, new
<1>4. ASSUME plan[x] = kind PROVE Latest(new, kind) = x
  <2>1. n + 1 \in js /\ \A j \in js : j \in Int /\ j <= n + 1
    BY <1>1, <1>4
  <2> HIDE DEF js
  <2>2. (CHOOSE i \in js : \A j \in js : j <= i) = n + 1
    <3>1. \A i \in js : (\A j \in js : j <= i) => i = n + 1
      BY <1>1, <2>1
    <3> QED
      BY <2>1, <3>1
  <2> QED
    BY <1>1, <1>2, <1>4, <2>1, <2>2
<1>5. ASSUME plan[x] # kind PROVE Latest(new, kind) = Latest(ap, kind)
  <2>1. js = is
    <3>1. \A i : i \in js <=> i \in is
      BY <1>1, <1>5
    <3> QED
      BY <3>1
  <2>2. ASSUME is # {}
        PROVE  (CHOOSE i \in is : \A j \in is : j <= i) \in 1..n
    <3>1. is \in SUBSET (1..n)
      OBVIOUS
    <3> HIDE DEF is
    <3>2. PICK i \in is : \A j \in is : j <= i
      BY <1>1, <2>2, <3>1, GreatestBelow
    <3> QED
      BY <3>1, <3>2
  <2> HIDE DEF is, js
  <2>3. CASE is = {}
    BY <1>2, <1>3, <1>5, <2>1, <2>3
  <2>4. CASE is # {}
    <3>1. new[CHOOSE i \in is : \A j \in is : j <= i] = ap[CHOOSE i \in is : \A j \in is : j <= i]
      BY <1>1, <2>2, <2>4
    <3> QED
      BY <1>2, <1>3, <1>5, <2>1, <2>4, <3>1
  <2> QED
    BY <2>3, <2>4
<1> QED
  BY <1>4, <1>5 DEF new

Params == [rotor : Nat, world : Nat]
SimType == [paused : BOOLEAN, dropout : BOOLEAN, acc : BOOLEAN, drone : Params, flown : Params,
            mesh : Nat, map : Nat, epoch : Nat]
\* What the frames applied leave of the settings.
Flies(s, ap) ==
    /\ s \in SimType /\ s.mesh = s.map /\ s.drone = s.flown
    /\ s.flown.rotor = Latest(ap, "geometry") /\ s.flown.world = Latest(ap, "world")

\* driver_dispatch_ctl, one frame.
LEMMA DispatchFlies ==
    ASSUME NEW ap \in Seq(Nat), NEW i \in Nat, NEW s, Flies(s, ap)
    PROVE  Flies(Dispatch(s, i), Append(ap, i))
<1> DEFINE d == Dispatch(s, i)
<1>1. /\ s \in SimType /\ s.mesh = s.map /\ s.drone = s.flown
      /\ s.flown.rotor = Latest(ap, "geometry") /\ s.flown.world = Latest(ap, "world")
  BY DEF Flies
<1>2. /\ Latest(Append(ap, i), "geometry") = IF plan[i] = "geometry" THEN i ELSE Latest(ap, "geometry")
      /\ Latest(Append(ap, i), "world") = IF plan[i] = "world" THEN i ELSE Latest(ap, "world")
  BY LatestAppend
<1>3. CASE plan[i] = "geometry"
  <2>1. d = [s EXCEPT !.drone = [s.drone EXCEPT !["rotor"] = i], !.flown = [s.drone EXCEPT !["rotor"] = i]]
    BY <1>3 DEF Dispatch, SetParam
  <2>2. /\ [s.drone EXCEPT !["rotor"] = i] \in Params /\ [s.drone EXCEPT !["rotor"] = i].rotor = i
        /\ [s.drone EXCEPT !["rotor"] = i].world = s.drone.world
    BY <1>1 DEF SimType, Params
  <2>3. /\ d \in SimType /\ d.mesh = s.mesh /\ d.map = s.map /\ d.drone = d.flown
        /\ d.flown = [s.drone EXCEPT !["rotor"] = i]
    BY <1>1, <2>1, <2>2 DEF SimType
  <2> QED
    BY <1>1, <1>2, <1>3, <2>2, <2>3 DEF Flies
<1>4. CASE plan[i] = "world"
  <2>1. d = [s EXCEPT !.drone = [s.drone EXCEPT !["world"] = i], !.flown = [s.drone EXCEPT !["world"] = i]]
    BY <1>4 DEF Dispatch, SetParam
  <2>2. /\ [s.drone EXCEPT !["world"] = i] \in Params /\ [s.drone EXCEPT !["world"] = i].world = i
        /\ [s.drone EXCEPT !["world"] = i].rotor = s.drone.rotor
    BY <1>1 DEF SimType, Params
  <2>3. /\ d \in SimType /\ d.mesh = s.mesh /\ d.map = s.map /\ d.drone = d.flown
        /\ d.flown = [s.drone EXCEPT !["world"] = i]
    BY <1>1, <2>1, <2>2 DEF SimType
  <2> QED
    BY <1>1, <1>2, <1>4, <2>2, <2>3 DEF Flies
<1>5. CASE plan[i] \notin {"geometry", "world"}
  <2>1. d \in SimType /\ d.mesh = d.map /\ d.drone = s.drone /\ d.flown = s.flown
    <3>1. CASE plan[i] \in {"mesh", "badmesh", "clear"}
      BY <1>1, <3>1 DEF Dispatch, SetMesh, DropMesh, SimType
    <3>2. CASE plan[i] \notin {"mesh", "badmesh", "clear"}
      BY <1>1, <1>5, <3>2 DEF Dispatch, SimType
    <3> QED
      BY <3>1, <3>2
  <2> QED
    BY <1>1, <1>2, <1>5, <2>1 DEF Flies
<1> QED
  BY <1>3, <1>4, <1>5

\* Two sequences in a row, by their elements.
LEMMA ConcatShape ==
    ASSUME NEW S, NEW q \in Seq(S), NEW r \in Seq(S)
    PROVE  /\ q \o r \in Seq(S) /\ Len(q \o r) = Len(q) + Len(r) /\ Len(q) \in Nat /\ Len(r) \in Nat
           /\ \A j \in 1..Len(q) : (q \o r)[j] = q[j]
           /\ \A j \in 1..Len(r) : (q \o r)[Len(q) + j] = r[j]
OBVIOUS

\* A part of a sequence, by its elements.
LEMMA SliceShape ==
    ASSUME NEW S, NEW q \in Seq(S), NEW m \in Nat, NEW n \in Nat, m <= n, n <= Len(q)
    PROVE  /\ SubSeq(q, m + 1, n) \in Seq(S) /\ Len(SubSeq(q, m + 1, n)) = n - m
           /\ \A j \in 1..(n - m) : SubSeq(q, m + 1, n)[j] = q[m + j]
OBVIOUS

\* The frames of one read, dispatched in turn.
LEMMA AllFly ==
    ASSUME NEW ap \in Seq(Nat), NEW g \in Seq(Nat), NEW s, Flies(s, ap)
    PROVE  Flies(FoldLeft(Dispatch, s, g), ap \o g)
<1> DEFINE n == Len(g)
           Upto(k) == ap \o SubSeq(g, 1, k)
<1>1. PICK h : /\ h[0] = s /\ \A k \in 1..n : h[k] = Dispatch(h[k - 1], g[k])
               /\ FoldLeft(Dispatch, s, g) = h[n]
  BY FoldUnfolds
<1>2. n \in Nat
  OBVIOUS
<1> DEFINE Bad == {k \in 0..n : ~ Flies(h[k], Upto(k))}
<1>3. ASSUME Bad # {} PROVE FALSE
  <2>1. PICK k \in Bad : \A j \in Bad : k <= j
    <3>1. Bad \in SUBSET Nat
      BY <1>2
    <3> HIDE DEF Bad
    <3> QED
      BY <1>3, <3>1, LeastNatural
  <2>2. k \in 0..n /\ ~ Flies(h[k], Upto(k))
    OBVIOUS
  <2>3. CASE k = 0
    <3>1. Upto(0) = ap
      OBVIOUS
    <3> QED
      BY <1>1, <2>2, <2>3, <3>1
  <2>4. CASE k # 0
    <3>1. k - 1 \in 0..n /\ ~(k <= k - 1) /\ k \in 1..n
      BY <1>2, <2>2, <2>4
    <3>2. k - 1 \notin Bad
      <4> HIDE DEF Bad
      <4> QED
        BY <2>1, <3>1
    <3>3. Flies(h[k - 1], Upto(k - 1))
      BY <3>1, <3>2
    <3>4. Upto(k - 1) \in Seq(Nat) /\ g[k] \in Nat /\ Upto(k) = Append(Upto(k - 1), g[k])
      <4>1. g[k] \in Nat
        BY <3>1
      <4>2. SubSeq(g, 1, k - 1) \in Seq(Nat) /\ SubSeq(g, 1, k) = Append(SubSeq(g, 1, k - 1), g[k])
        BY <1>2, <3>1
      <4> QED
        BY <4>1, <4>2
    <3>5. Flies(Dispatch(h[k - 1], g[k]), Append(Upto(k - 1), g[k]))
      <4> HIDE DEF Upto
      <4> QED
        BY <3>3, <3>4, DispatchFlies
    <3> QED
      BY <1>1, <2>2, <3>1, <3>4, <3>5
  <2> QED
    BY <2>3, <2>4
<1>4. n \in 0..n /\ SubSeq(g, 1, n) = g
  BY <1>2
<1>5. Flies(h[n], Upto(n))
  BY <1>3, <1>4
<1> QED
  BY <1>1, <1>4, <1>5

\* What is still to be parsed.
Unparsed == buf \o pipe

\* Whatever is written: what is still to be parsed is later than what was applied.
PipeInv ==
    /\ buf \in Seq(Cell) /\ pipe \in Seq(Cell) /\ Len(buf) <= BufCells
    /\ Ascending(Unparsed) /\ \A k \in 1..Len(Unparsed) : Unparsed[k].f \in 1..sent
    /\ applied \in Seq(Nat) /\ Increasing(applied)
    /\ \A j \in 1..Len(applied) :
         /\ applied[j] \in 1..sent
         /\ \A k \in 1..Len(Unparsed) : Magic(Unparsed[k]) => applied[j] < Unparsed[k].f

\* Of whole frames none is lost.
RegularInv == AllSettings =>
    /\ Len(buf) <= 1
    /\ \A j \in 1..Len(applied) : applied[j] = j
    /\ 2 * Len(applied) + Len(buf) + Len(pipe) = 2 * sent
    /\ Regular(Unparsed, Len(applied))

CtlInv == PipeInv /\ RegularInv /\ Flies(sim, applied)

\* The part from an element on.
LEMMA SliceOf ==
    ASSUME NEW p \in Seq(Cell), NEW m \in Nat, m <= Len(p)
    PROVE  /\ SubSeq(p, m + 1, Len(p)) \in Seq(Cell) /\ Len(SubSeq(p, m + 1, Len(p))) = Len(p) - m
           /\ \A j \in 1..(Len(p) - m) : SubSeq(p, m + 1, Len(p))[j] = p[m + j]
<1>1. Len(p) \in Nat
  OBVIOUS
<1> QED
  BY <1>1, SliceShape

\* Before the first frame.
LEMMA CtlStarts == SitlInit => CtlInv
<1> SUFFICES ASSUME SitlInit PROVE CtlInv
  OBVIOUS
<1>1. sent = 0 /\ pipe = <<>> /\ buf = <<>> /\ applied = <<>> /\ sim = InitSim
  BY DEF SitlInit
<1>2. Unparsed = <<>> /\ Len(Unparsed) = 0 /\ Len(buf) = 0 /\ Len(applied) = 0 /\ Len(pipe) = 0
  BY <1>1 DEF Unparsed
<1>3. PipeInv
  BY <1>1, <1>2, SitlAssumption DEF PipeInv, Ascending, Increasing
<1>4. RegularInv
  BY <1>1, <1>2 DEF RegularInv, Regular
<1>5. \A kind : Latest(<<>>, kind) = 0
  BY DEF Latest
<1>6. Flies(sim, applied)
  BY <1>1, <1>5 DEF Flies, SimType, Params, InitSim
<1> QED
  BY <1>3, <1>4, <1>6 DEF CtlInv

\* A step that leaves the pipe, the buffer and the settings.
LEMMA CtlUnmoved ==
    ASSUME CtlInv, UNCHANGED <<plan, sent, pipe, buf, applied, sim>>
    PROVE  CtlInv'
<1>1. PipeInv'
  BY DEF CtlInv, PipeInv, Unparsed, Ascending, Increasing, Magic
<1>2. RegularInv'
  BY DEF CtlInv, RegularInv, Unparsed, Regular, AllSettings
<1>3. Flies(sim, applied)'
  BY DEF CtlInv, Flies, Latest, SimType, Params
<1> QED
  BY <1>1, <1>2, <1>3 DEF CtlInv

\* A frame more at the end of the pipe.
LEMMA DriverWritesExact ==
    ASSUME CtlInv, SceneInv, DriverWrites
    PROVE  CtlInv'
<1> DEFINE u == Unparsed
           c == Cells(sent + 1)
           n == Len(u)
<1>1. /\ sent \in Nat /\ sent < Len(plan) /\ sent' = sent + 1 /\ pipe' = pipe \o c
      /\ UNCHANGED <<plan, buf, applied, sim>> /\ Len(plan) \in Nat
  BY DEF DriverWrites, SceneInv, simVars
<1>2. /\ c \in Seq(Cell) /\ Len(c) \in 1..2 /\ \A k \in 1..Len(c) : c[k].f = sent + 1
      /\ \A k, l \in 1..Len(c) : k < l => ~Magic(c[l])
      /\ plan[sent + 1] # "junk" => Len(c) = 2 /\ c[1] = [f |-> sent + 1, part |-> 1] /\ c[2] = [f |-> sent + 1, part |-> 2]
  <2>1. CASE plan[sent + 1] = "junk"
    <3>1. c = <<[f |-> sent + 1, part |-> 2]>> /\ [f |-> sent + 1, part |-> 2] \in Cell
      BY <1>1, <2>1 DEF Cells, Cell
    <3> HIDE DEF c
    <3> QED
      BY <2>1, <3>1
  <2>2. CASE plan[sent + 1] # "junk"
    <3>1. /\ c = <<[f |-> sent + 1, part |-> 1], [f |-> sent + 1, part |-> 2]>>
          /\ [f |-> sent + 1, part |-> 1] \in Cell /\ [f |-> sent + 1, part |-> 2] \in Cell
      BY <1>1, <2>2 DEF Cells, Cell
    <3> HIDE DEF c
    <3> QED
      BY <3>1 DEF Magic
  <2> QED
    BY <2>1, <2>2
<1>3. /\ buf \in Seq(Cell) /\ pipe \in Seq(Cell) /\ u \in Seq(Cell) /\ n = Len(buf) + Len(pipe)
      /\ Len(buf) \in Nat /\ Len(pipe) \in Nat
  BY ConcatShape DEF CtlInv, PipeInv, Unparsed
<1> HIDE DEF c
<1>4. Unparsed' = u \o c /\ pipe' \in Seq(Cell) /\ Len(pipe') = Len(pipe) + Len(c)
  <2>1. pipe' \in Seq(Cell) /\ Len(pipe') = Len(pipe) + Len(c)
    BY <1>1, <1>2, <1>3, ConcatShape
  <2>2. buf \o (pipe \o c) = (buf \o pipe) \o c
    <3>1. buf \in Seq(Cell) /\ pipe \in Seq(Cell) /\ c \in Seq(Cell)
      BY <1>2, <1>3
    <3> HIDE DEF u, n
    <3> QED
      BY <3>1, ConcatAssociative
  <2> QED
    BY <1>1, <2>1, <2>2 DEF Unparsed
<1>5. /\ Len(Unparsed') = n + Len(c) /\ n \in Nat
      /\ \A k \in 1..n : Unparsed'[k] = u[k]
      /\ \A k \in 1..Len(c) : Unparsed'[n + k] = c[k]
  <2>1. u \in Seq(Cell) /\ c \in Seq(Cell)
    BY <1>2, <1>3
  <2>2. /\ Len(u \o c) = Len(u) + Len(c) /\ Len(u) \in Nat
        /\ \A k \in 1..Len(u) : (u \o c)[k] = u[k]
        /\ \A k \in 1..Len(c) : (u \o c)[Len(u) + k] = c[k]
    <3> HIDE DEF u
    <3> QED
      BY <2>1, ConcatShape
  <2> HIDE DEF u
  <2> QED
    BY <1>4, <2>2
<1> HIDE DEF u, n
<1>6. PipeInv'
  <2>1. ASSUME NEW k \in 1..Len(Unparsed')
        PROVE  \/ k \in 1..n /\ Unparsed'[k] = u[k] /\ u[k].f \in 1..sent
               \/ k - n \in 1..Len(c) /\ Unparsed'[k] = c[k - n] /\ c[k - n].f = sent + 1
    <3>1. CASE k <= n
      BY <1>5, <3>1 DEF CtlInv, PipeInv, u, n
    <3>2. CASE k > n
      <4>1. k - n \in 1..Len(c) /\ n + (k - n) = k
        BY <1>2, <1>5, <3>2
      <4> QED
        BY <1>2, <1>5, <4>1
    <3> QED
      BY <1>5, <3>1, <3>2
  <2>2. ASSUME NEW k \in 1..Len(Unparsed'), NEW l \in 1..Len(Unparsed'), k < l,
               Magic(Unparsed'[k]), Magic(Unparsed'[l])
        PROVE  Unparsed'[k].f < Unparsed'[l].f
    <3>1. CASE l \in 1..n
      <4>1. k \in 1..n /\ Unparsed'[k] = u[k] /\ Unparsed'[l] = u[l]
        BY <1>5, <2>2, <3>1
      <4> QED
        BY <2>2, <3>1, <4>1 DEF CtlInv, PipeInv, Ascending, u, n
    <3>2. CASE l \notin 1..n
      <4>1. l - n \in 1..Len(c) /\ Unparsed'[l] = c[l - n] /\ Unparsed'[l].f = sent + 1
        BY <2>1, <3>2
      <4>2. k \in 1..n
        <5> SUFFICES ASSUME k \notin 1..n PROVE FALSE
          OBVIOUS
        <5>1. k - n \in 1..Len(c) /\ k - n < l - n
          BY <1>5, <2>1, <2>2
        <5> QED
          BY <1>2, <2>2, <4>1, <5>1
      <4>3. Unparsed'[k].f \in 1..sent
        BY <1>5, <2>1, <4>2
      <4> QED
        BY <1>1, <4>1, <4>3
    <3> QED
      BY <3>1, <3>2
  <2>3. \A k \in 1..Len(Unparsed') : Unparsed'[k].f \in 1..sent'
    <3> SUFFICES ASSUME NEW k \in 1..Len(Unparsed') PROVE Unparsed'[k].f \in 1..sent'
      OBVIOUS
    <3>1. Unparsed'[k].f \in 1..sent \/ Unparsed'[k].f = sent + 1
      BY <2>1
    <3> QED
      BY <1>1, <3>1
  <2>4. Ascending(Unparsed')
    BY <2>2 DEF Ascending
  <2>5. ASSUME NEW j \in 1..Len(applied)
        PROVE  /\ applied[j] \in 1..sent'
               /\ \A k \in 1..Len(Unparsed') : Magic(Unparsed'[k]) => applied[j] < Unparsed'[k].f
    <3>1. applied[j] \in 1..sent /\ \A k \in 1..n : Magic(u[k]) => applied[j] < u[k].f
      BY DEF CtlInv, PipeInv, u, n
    <3>2. applied[j] \in 1..sent'
      BY <1>1, <3>1
    <3>3. ASSUME NEW k \in 1..Len(Unparsed'), Magic(Unparsed'[k]) PROVE applied[j] < Unparsed'[k].f
      <4>1. CASE k \in 1..n /\ Unparsed'[k] = u[k]
        BY <3>1, <3>3, <4>1
      <4>2. CASE Unparsed'[k].f = sent + 1
        BY <1>1, <3>1, <4>2
      <4> QED
        BY <2>1, <4>1, <4>2
    <3> QED
      BY <3>2, <3>3
  <2>6. applied' \in Seq(Nat) /\ Increasing(applied') /\ buf' \in Seq(Cell) /\ Len(buf') <= BufCells
    BY <1>1 DEF CtlInv, PipeInv, Increasing
  <2>7. Ascending(Unparsed)'
    BY <2>4 DEF Ascending, Magic
  <2>8. \A j \in 1..Len(applied') :
          /\ applied'[j] \in 1..sent'
          /\ \A k \in 1..Len(Unparsed') : Magic(Unparsed'[k]) => applied'[j] < Unparsed'[k].f
    BY <1>1, <2>5
  <2> QED
    BY <1>4, <2>3, <2>6, <2>7, <2>8 DEF PipeInv, Magic
<1>7. RegularInv'
  <2> SUFFICES ASSUME AllSettings'
               PROVE  /\ Len(buf') <= 1
                      /\ \A j \in 1..Len(applied') : applied'[j] = j
                      /\ 2 * Len(applied') + Len(buf') + Len(pipe') = 2 * sent'
                      /\ Regular(Unparsed', Len(applied'))
    BY DEF RegularInv, Regular
  <2>1. AllSettings
    BY <1>1 DEF AllSettings
  <2>2. /\ Len(buf) <= 1 /\ \A j \in 1..Len(applied) : applied[j] = j
        /\ 2 * Len(applied) + Len(buf) + Len(pipe) = 2 * sent /\ Regular(u, Len(applied))
    BY <2>1 DEF CtlInv, RegularInv, u
  <2>3. Len(c) = 2 /\ c[1] = [f |-> sent + 1, part |-> 1] /\ c[2] = [f |-> sent + 1, part |-> 2]
    <3>1. sent + 1 \in 1..Len(plan)
      BY <1>1
    <3>2. plan[sent + 1] # "junk"
      BY <2>1, <3>1 DEF AllSettings, Settings
    <3> QED
      BY <1>2, <3>2
  <2> DEFINE a == Len(applied)
  <2>4. a \in Nat /\ n = 2 * (sent - a) /\ sent - a \in Nat
    <3>1. a \in Nat
      BY DEF CtlInv, PipeInv
    <3>2. n = Len(buf) + Len(pipe) /\ Len(buf) \in Nat /\ Len(pipe) \in Nat /\ sent \in Nat
      BY <1>1, <1>3 DEF n
    <3>3. 2 * a + Len(buf) + Len(pipe) = 2 * sent
      BY <2>2
    <3> HIDE DEF a
    <3> QED
      BY <3>1, <3>2, <3>3
  <2> HIDE DEF a
  <2>5. ASSUME NEW m \in Nat
        PROVE  /\ 2 * m + 1 <= Len(Unparsed') => Unparsed'[2 * m + 1] = [f |-> a + m + 1, part |-> 1]
               /\ 2 * m + 2 <= Len(Unparsed') => Unparsed'[2 * m + 2] = [f |-> a + m + 1, part |-> 2]
    <3>1. CASE m < sent - a
      <4>1. 2 * m + 1 \in 1..n /\ 2 * m + 2 \in 1..n
        BY <1>5, <2>4, <3>1
      <4>2. u[2 * m + 1] = [f |-> a + m + 1, part |-> 1] /\ u[2 * m + 2] = [f |-> a + m + 1, part |-> 2]
        BY <2>2, <4>1 DEF Regular, n, a
      <4> QED
        BY <1>5, <4>1, <4>2
    <3>2. CASE m = sent - a
      <4>1. 1 \in 1..Len(c) /\ 2 \in 1..Len(c)
        BY <2>3
      <4>2. 2 * m + 1 = n + 1 /\ 2 * m + 2 = n + 2 /\ a + m + 1 = sent + 1
        BY <1>1, <2>4, <3>2
      <4>3. Unparsed'[n + 1] = c[1] /\ Unparsed'[n + 2] = c[2]
        BY <1>5, <4>1
      <4> QED
        BY <2>3, <4>2, <4>3
    <3>3. CASE m > sent - a
      BY <1>5, <2>3, <2>4, <3>3
    <3> QED
      BY <2>4, <3>1, <3>2, <3>3
  <2>6. Regular(Unparsed', a)
    BY <2>5 DEF Regular
  <2>7. Len(pipe') = Len(pipe) + 2
    BY <1>4, <2>3
  <2>8. 2 * Len(applied') + Len(buf') + Len(pipe') = 2 * sent'
    <3>1. Len(applied') = a /\ Len(buf') = Len(buf) /\ sent' = sent + 1
      BY <1>1 DEF a
    <3>2. 2 * a + Len(buf) + Len(pipe) = 2 * sent
      BY <2>2 DEF a
    <3>3. 2 * a + Len(buf) + (Len(pipe) + 2) = 2 * (sent + 1)
      <4>1. a \in Nat /\ Len(buf) \in Nat /\ Len(pipe) \in Nat /\ sent \in Nat
        BY <1>1, <1>3, <2>4
      <4> QED
        BY <3>2, <4>1
    <3> QED
      BY <2>7, <3>1, <3>3
  <2> QED
    BY <1>1, <2>2, <2>6, <2>8 DEF a
<1>8. Flies(sim, applied)'
  BY <1>1 DEF CtlInv, Flies, Latest, SimType, Params
<1> QED
  BY <1>6, <1>7, <1>8 DEF CtlInv

\* A read of the pipe, every complete frame of it, and what is left.
LEMMA DrainCtlExact ==
    ASSUME CtlInv, SceneInv, DrainCtl
    PROVE  CtlInv'
<1> DEFINE room == BufCells - Len(buf)
           r == IF Len(pipe) < room THEN Len(pipe) ELSE room
           b == buf \o SubSeq(pipe, 1, r)
           got == Parsed(b).got
           tail == SubSeq(b, Parsed(b).done + 1, Len(b))
           u == Unparsed
           n == Len(u)
<1>1. /\ buf \in Seq(Cell) /\ pipe \in Seq(Cell) /\ Len(buf) <= BufCells /\ BufCells \in Nat /\ 2 <= BufCells
      /\ Len(buf) \in Nat /\ Len(pipe) \in Nat /\ applied \in Seq(Nat) /\ Len(applied) \in Nat
      /\ sent \in Nat /\ sent <= Len(plan) /\ plan \in Seq(Kinds) /\ Len(plan) \in Nat
  BY SitlAssumption DEF CtlInv, PipeInv, SceneInv
<1>2. /\ pipe' = SubSeq(pipe, r + 1, Len(pipe))
      /\ buf' = IF r > 0 THEN Left(b) ELSE buf
      /\ applied' = IF r > 0 THEN applied \o got ELSE applied
      /\ sim' = IF r > 0 THEN FoldLeft(Dispatch, sim, got) ELSE sim
      /\ UNCHANGED <<plan, sent>>
  BY DEF DrainCtl
<1>3. /\ r \in Nat /\ r <= Len(pipe) /\ Len(buf) + r <= BufCells
      /\ r < Len(pipe) => Len(buf) + r = BufCells
  BY <1>1
<1> HIDE DEF r
<1>4. CASE ~(r > 0)
  <2>1. r = 0 /\ SubSeq(pipe, 1, Len(pipe)) = pipe
    BY <1>1, <1>3, <1>4
  <2>2. UNCHANGED <<plan, sent, pipe, buf, applied, sim>>
    BY <1>2, <1>4, <2>1
  <2> QED
    BY <2>2, CtlUnmoved
<1>5. CASE r > 0
  <2>1. /\ SubSeq(pipe, 1, r) \in Seq(Cell) /\ Len(SubSeq(pipe, 1, r)) = r
        /\ pipe' \in Seq(Cell) /\ Len(pipe') = Len(pipe) - r
        /\ \A j \in 1..r : SubSeq(pipe, 1, r)[j] = pipe[j]
        /\ \A j \in 1..(Len(pipe) - r) : pipe'[j] = pipe[r + j]
    <3>1. /\ SubSeq(pipe, 0 + 1, r) \in Seq(Cell) /\ Len(SubSeq(pipe, 0 + 1, r)) = r - 0
          /\ \A j \in 1..(r - 0) : SubSeq(pipe, 0 + 1, r)[j] = pipe[0 + j]
      BY <1>1, <1>3, SliceShape
    <3>2. /\ SubSeq(pipe, r + 1, Len(pipe)) \in Seq(Cell) /\ Len(SubSeq(pipe, r + 1, Len(pipe))) = Len(pipe) - r
          /\ \A j \in 1..(Len(pipe) - r) : SubSeq(pipe, r + 1, Len(pipe))[j] = pipe[r + j]
      BY <1>1, <1>3, SliceOf
    <3> QED
      BY <1>2, <1>3, <3>1, <3>2
  <2>2. /\ b \in Seq(Cell) /\ Len(b) = Len(buf) + r
        /\ \A j \in 1..Len(buf) : b[j] = buf[j]
        /\ \A j \in 1..r : b[Len(buf) + j] = pipe[j]
    <3> DEFINE s == SubSeq(pipe, 1, r)
    <3>1. buf \in Seq(Cell) /\ s \in Seq(Cell) /\ Len(s) = r /\ \A j \in 1..r : s[j] = pipe[j]
      BY <1>1, <2>1
    <3> HIDE DEF s
    <3>4. buf \in Seq(Cell) /\ s \in Seq(Cell)
      BY <3>1
    <3>2. /\ buf \o s \in Seq(Cell) /\ Len(buf \o s) = Len(buf) + Len(s)
          /\ \A j \in 1..Len(buf) : (buf \o s)[j] = buf[j]
          /\ \A j \in 1..Len(s) : (buf \o s)[Len(buf) + j] = s[j]
      BY <3>4, ConcatShape
    <3>3. b = buf \o s
      BY DEF s
    <3> HIDE DEF b
    <3> QED
      BY <3>1, <3>2, <3>3
  <2>3. /\ u \in Seq(Cell) /\ n = Len(buf) + Len(pipe)
        /\ \A j \in 1..Len(buf) : u[j] = buf[j]
        /\ \A j \in 1..Len(pipe) : u[Len(buf) + j] = pipe[j]
    BY <1>1, ConcatShape DEF Unparsed
  <2> HIDE DEF b, u, n
  <2>4. Len(b) \in Nat /\ Len(b) <= n /\ n \in Nat /\ Len(b) <= BufCells /\ n = Len(b) + Len(pipe')
    BY <1>1, <1>3, <2>1, <2>2, <2>3
  <2>5. ASSUME NEW j \in 1..Len(b) PROVE b[j] = u[j]
    <3>1. CASE j <= Len(buf)
      <4>1. j \in 1..Len(buf)
        BY <1>1, <3>1
      <4> QED
        BY <2>2, <2>3, <4>1
    <3>2. CASE j > Len(buf)
      <4>1. j - Len(buf) \in 1..r /\ j - Len(buf) \in 1..Len(pipe) /\ Len(buf) + (j - Len(buf)) = j
        BY <1>1, <1>3, <2>2, <3>2
      <4> QED
        BY <2>2, <2>3, <4>1
    <3> QED
      BY <1>1, <3>1, <3>2
  <2>6. Takes(Parsed(b), b, 1)
    <3>1. Ascending(b)
      BY <2>4, <2>5 DEF CtlInv, PipeInv, Ascending, u, n
    <3> QED
      BY <2>2, <2>4, <3>1, ParsedTakes
  <2>7. /\ Parsed(b).done \in 0..Len(b) /\ got \in Seq(Nat) /\ Len(got) \in Nat /\ Increasing(got)
        /\ \A j \in 1..Len(got) : FromHeader(got[j], b, 1, Parsed(b).done)
    BY <2>6 DEF Takes
  <2> HIDE DEF got, tail
  <2>8. PICK d \in {Parsed(b).done, Len(b)} :
             /\ buf' = SubSeq(b, d + 1, Len(b)) /\ (Len(b) - Parsed(b).done # BufCells => d = Parsed(b).done)
             /\ Len(b) - d <= BufCells
    <3>1. /\ SubSeq(b, Len(b) + 1, Len(b)) = <<>>
      BY <2>2
    <3>2. Len(tail) = Len(b) - Parsed(b).done
      BY <2>2, <2>7, SliceOf DEF tail
    <3>3. buf' = IF Len(tail) = BufCells THEN <<>> ELSE tail
      BY <1>2, <1>5 DEF Left, tail
    <3>4. Len(b) - Parsed(b).done <= BufCells
      BY <1>1, <2>4, <2>7
    <3>5. CASE Len(tail) = BufCells
      BY <1>1, <2>4, <3>1, <3>2, <3>3, <3>5
    <3>6. CASE Len(tail) # BufCells
      BY <1>1, <2>4, <3>2, <3>3, <3>4, <3>6 DEF tail
    <3> QED
      BY <3>5, <3>6
  <2>9. d \in 0..Len(b) /\ d \in Nat /\ Parsed(b).done <= d
    BY <2>4, <2>7, <2>8
  <2>10. /\ buf' \in Seq(Cell) /\ Len(buf') = Len(b) - d /\ Len(buf') <= BufCells /\ Len(buf') \in Nat
         /\ \A j \in 1..Len(buf') : buf'[j] = b[d + j]
    BY <2>2, <2>4, <2>8, <2>9, SliceOf
  <2>11. /\ Unparsed' \in Seq(Cell) /\ Len(Unparsed') = n - d
         /\ \A j \in 1..(n - d) : d + j \in 1..n /\ Unparsed'[j] = u[d + j]
    <3>1. /\ Unparsed' \in Seq(Cell) /\ Len(Unparsed') = Len(buf') + Len(pipe')
          /\ \A j \in 1..Len(buf') : Unparsed'[j] = buf'[j]
          /\ \A j \in 1..Len(pipe') : Unparsed'[Len(buf') + j] = pipe'[j]
      <4>1. pipe' \in Seq(Cell) /\ buf' \in Seq(Cell)
        BY <2>1, <2>10
      <4>2. /\ buf' \o pipe' \in Seq(Cell) /\ Len(buf' \o pipe') = Len(buf') + Len(pipe')
            /\ \A j \in 1..Len(buf') : (buf' \o pipe')[j] = buf'[j]
            /\ \A j \in 1..Len(pipe') : (buf' \o pipe')[Len(buf') + j] = pipe'[j]
        BY <4>1, ConcatShape
      <4> QED
        BY <4>2 DEF Unparsed
    <3>2. Len(Unparsed') = n - d
      BY <2>4, <2>9, <2>10, <2>1, <3>1, <1>1, <1>3
    <3>3. ASSUME NEW j \in 1..(n - d) PROVE d + j \in 1..n /\ Unparsed'[j] = u[d + j]
      <4>1. d + j \in 1..n
        BY <2>4, <2>9
      <4>2. CASE j <= Len(buf')
        <5>1. j \in 1..Len(buf') /\ d + j \in 1..Len(b)
          BY <2>4, <2>9, <2>10, <4>2
        <5> QED
          BY <2>5, <2>10, <3>1, <4>1, <5>1
      <4>3. CASE j > Len(buf')
        <5> DEFINE i == j - Len(buf')
        <5>1. i \in 1..Len(pipe') /\ i \in 1..(Len(pipe) - r) /\ Len(buf') + i = j
          BY <1>1, <1>3, <2>1, <2>4, <2>9, <2>10, <4>3
        <5>2. r + i \in 1..Len(pipe) /\ Len(buf) + (r + i) = d + j
          BY <1>1, <1>3, <2>1, <2>2, <2>4, <2>9, <2>10, <5>1
        <5> HIDE DEF i
        <5>3. Unparsed'[j] = pipe'[i] /\ pipe'[i] = pipe[r + i] /\ pipe[r + i] = u[Len(buf) + (r + i)]
          BY <2>1, <2>3, <3>1, <5>1, <5>2
        <5> QED
          BY <4>1, <5>2, <5>3
      <4> QED
        BY <2>10, <4>2, <4>3
    <3> QED
      BY <3>1, <3>2, <3>3
  <2>12. PipeInv'
    <3> DEFINE a == applied \o got
    <3>1. /\ a \in Seq(Nat) /\ Len(a) = Len(applied) + Len(got)
          /\ \A j \in 1..Len(applied) : a[j] = applied[j]
          /\ \A j \in 1..Len(got) : a[Len(applied) + j] = got[j]
      BY <1>1, <2>7, ConcatShape
    <3> HIDE DEF a
    <3>2. applied' = a
      BY <1>2, <1>5 DEF a
    <3>3. ASSUME NEW j \in 1..Len(got)
          PROVE  /\ got[j] \in 1..sent /\ \A i \in 1..Len(applied) : applied[i] < got[j]
                 /\ \A k \in 1..(n - d) : Magic(u[d + k]) => got[j] < u[d + k].f
      <4>1. PICK k \in 1..Parsed(b).done : Magic(b[k]) /\ b[k].f = got[j]
        BY <2>7 DEF FromHeader
      <4>2. k \in 1..Len(b) /\ k \in 1..n /\ k <= d
        BY <2>4, <2>7, <2>9
      <4>3. b[k] = u[k]
        BY <2>5, <4>2
      <4>4. got[j] \in 1..sent /\ \A i \in 1..Len(applied) : applied[i] < got[j]
        BY <4>1, <4>2, <4>3 DEF CtlInv, PipeInv, u, n
      <4>5. ASSUME NEW l \in 1..(n - d), Magic(u[d + l]) PROVE got[j] < u[d + l].f
        <5>1. d + l \in 1..n /\ k < d + l
          BY <2>4, <2>9, <4>2
        <5> QED
          BY <4>1, <4>2, <4>3, <4>5, <5>1 DEF CtlInv, PipeInv, Ascending, u, n
      <4> QED
        BY <4>4, <4>5
    <3>4. ASSUME NEW j \in 1..Len(a)
          PROVE  \/ j \in 1..Len(applied) /\ a[j] = applied[j]
                 \/ j - Len(applied) \in 1..Len(got) /\ a[j] = got[j - Len(applied)]
      <4>1. CASE j <= Len(applied)
        <5>1. j \in 1..Len(applied)
          BY <1>1, <4>1
        <5> QED
          BY <3>1, <5>1
      <4>2. CASE j > Len(applied)
        <5>1. j - Len(applied) \in 1..Len(got) /\ Len(applied) + (j - Len(applied)) = j
          BY <1>1, <2>7, <3>1, <4>2
        <5> QED
          BY <3>1, <5>1
      <4> QED
        BY <1>1, <4>1, <4>2
    <3>5. Increasing(a)
      <4> SUFFICES ASSUME NEW j \in 1..(Len(a) - 1) PROVE a[j] < a[j + 1]
        BY DEF Increasing
      <4>1. j \in 1..Len(a) /\ j + 1 \in 1..Len(a)
        BY <1>1, <2>7, <3>1
      <4>2. CASE j + 1 <= Len(applied)
        <5>1. j \in 1..(Len(applied) - 1) /\ j + 1 \in 1..Len(applied) /\ j \in 1..Len(applied)
          BY <1>1, <4>2
        <5>2. applied[j] < applied[j + 1]
          BY <5>1 DEF CtlInv, PipeInv, Increasing
        <5> QED
          BY <3>1, <5>1, <5>2
      <4>3. CASE j = Len(applied)
        <5>1. 1 \in 1..Len(got) /\ j \in 1..Len(applied)
          BY <1>1, <2>7, <3>1, <4>1, <4>3
        <5>2. a[j] = applied[j] /\ a[j + 1] = got[1]
          BY <3>1, <4>3, <5>1
        <5> QED
          BY <3>3, <5>1, <5>2
      <4>4. CASE j > Len(applied)
        <5> DEFINE i == j - Len(applied)
        <5>1. i \in 1..(Len(got) - 1) /\ i \in 1..Len(got) /\ i + 1 \in 1..Len(got)
              /\ Len(applied) + i = j /\ Len(applied) + (i + 1) = j + 1
          BY <1>1, <2>7, <3>1, <4>1, <4>4
        <5> HIDE DEF i
        <5>2. got[i] < got[i + 1]
          BY <2>7, <5>1 DEF Increasing
        <5>3. a[Len(applied) + i] = got[i] /\ a[Len(applied) + (i + 1)] = got[i + 1]
          BY <3>1, <5>1
        <5> QED
          BY <5>1, <5>2, <5>3
      <4> QED
        BY <1>1, <4>2, <4>3, <4>4
    <3>6. ASSUME NEW j \in 1..Len(a)
          PROVE  /\ a[j] \in 1..sent
                 /\ \A k \in 1..(n - d) : Magic(u[d + k]) => a[j] < u[d + k].f
      <4>1. CASE j \in 1..Len(applied) /\ a[j] = applied[j]
        <5>1. applied[j] \in 1..sent /\ \A k \in 1..n : Magic(u[k]) => applied[j] < u[k].f
          BY <4>1 DEF CtlInv, PipeInv, u, n
        <5>2. \A k \in 1..(n - d) : d + k \in 1..n
          BY <2>11
        <5> QED
          BY <4>1, <5>1, <5>2
      <4>2. CASE j - Len(applied) \in 1..Len(got) /\ a[j] = got[j - Len(applied)]
        BY <3>3, <4>2
      <4> QED
        BY <3>4, <4>1, <4>2
    <3>7. \A j \in 1..Len(applied') :
             /\ applied'[j] \in 1..sent'
             /\ \A k \in 1..Len(Unparsed') : Magic(Unparsed'[k]) => applied'[j] < Unparsed'[k].f
      BY <1>2, <2>11, <3>2, <3>6
    <3>8. \A k \in 1..Len(Unparsed') : Unparsed'[k].f \in 1..sent'
      BY <1>2, <2>11 DEF CtlInv, PipeInv, u, n
    <3>9. ASSUME NEW k \in 1..Len(Unparsed'), NEW l \in 1..Len(Unparsed'), k < l,
                 Magic(Unparsed'[k]), Magic(Unparsed'[l])
          PROVE  Unparsed'[k].f < Unparsed'[l].f
      <4>1. d + k \in 1..n /\ d + l \in 1..n /\ d + k < d + l
        BY <2>9, <2>11, <3>9
      <4>2. Unparsed'[k] = u[d + k] /\ Unparsed'[l] = u[d + l]
        BY <2>11
      <4> QED
        BY <3>9, <4>1, <4>2 DEF CtlInv, PipeInv, Ascending, u, n
    <3>10. Ascending(Unparsed)'
      BY <3>9 DEF Ascending, Magic
    <3>11. applied' \in Seq(Nat) /\ Increasing(applied)'
      BY <3>1, <3>2, <3>5 DEF Increasing
    <3> QED
      BY <2>1, <2>10, <3>7, <3>8, <3>10, <3>11 DEF PipeInv, Magic
  <2>13. Flies(sim, applied)'
    <3>1. Flies(FoldLeft(Dispatch, sim, got), applied \o got)
      BY <1>1, <2>7, AllFly DEF CtlInv
    <3>2. sim' = FoldLeft(Dispatch, sim, got) /\ applied' = applied \o got /\ plan' = plan
      BY <1>2, <1>5
    <3>3. \A x, y : Flies(x, y) => /\ x \in SimType /\ x.mesh = x.map /\ x.drone = x.flown
                                   /\ x.flown.rotor = Latest(y, "geometry") /\ x.flown.world = Latest(y, "world")
      BY DEF Flies
    <3>4. \A k : Latest(applied, k)' = Latest(applied \o got, k)
      BY <3>2 DEF Latest
    <3> HIDE DEF got
    <3> QED
      BY <3>1, <3>2, <3>3, <3>4 DEF Flies, SimType, Params
  <2>14. RegularInv'
    <3> SUFFICES ASSUME AllSettings'
                 PROVE  /\ Len(buf') <= 1
                        /\ \A j \in 1..Len(applied') : applied'[j] = j
                        /\ 2 * Len(applied') + Len(buf') + Len(pipe') = 2 * sent'
                        /\ Regular(Unparsed', Len(applied'))
      BY DEF RegularInv, Regular
    <3>1. AllSettings
      BY <1>2 DEF AllSettings
    <3> DEFINE a == Len(applied)
    <3>2. /\ \A j \in 1..a : applied[j] = j
          /\ 2 * a + n = 2 * sent /\ Regular(u, a) /\ a \in Nat
      BY <1>1, <2>3, <3>1 DEF CtlInv, RegularInv, u
    <3> HIDE DEF a
    <3>3. PICK h \in Nat : Len(b) \in {2 * h, 2 * h + 1}
      <4>1. Len(b) \div 2 \in Nat /\ Len(b) \in {2 * (Len(b) \div 2), 2 * (Len(b) \div 2) + 1}
        BY <2>4
      <4> QED
        BY <4>1
    <3>4. a + h <= Len(plan) /\ (Len(b) = 2 * h + 1 => a + h + 1 <= Len(plan))
      BY <1>1, <2>4, <3>2, <3>3
    <3>5. Regular(b, a)
      <4> SUFFICES ASSUME NEW m \in Nat
                   PROVE  /\ 2 * m + 1 <= Len(b) => b[2 * m + 1] = [f |-> a + m + 1, part |-> 1]
                          /\ 2 * m + 2 <= Len(b) => b[2 * m + 2] = [f |-> a + m + 1, part |-> 2]
        BY DEF Regular
      <4>1. ASSUME 2 * m + 1 <= Len(b) PROVE b[2 * m + 1] = [f |-> a + m + 1, part |-> 1]
        <5>1. 2 * m + 1 \in 1..Len(b) /\ 2 * m + 1 <= n
          BY <2>4, <4>1
        <5> QED
          BY <2>5, <3>2, <5>1 DEF Regular, n
      <4>2. ASSUME 2 * m + 2 <= Len(b) PROVE b[2 * m + 2] = [f |-> a + m + 1, part |-> 2]
        <5>1. 2 * m + 2 \in 1..Len(b) /\ 2 * m + 2 <= n
          BY <2>4, <4>2
        <5> QED
          BY <2>5, <3>2, <5>1 DEF Regular, n
      <4> QED
        BY <4>1, <4>2
    <3>6. Whole(Parsed(b), a, 0, h)
      BY <1>1, <2>2, <3>1, <3>2, <3>3, <3>4, <3>5, ParsedWhole
    <3>7. Parsed(b).done = 2 * h /\ Len(got) = h /\ \A j \in 1..h : got[j] = a + j
      <4>1. /\ Parsed(b) = [done |-> 2 * h, got |-> Parsed(b).got] /\ Len(Parsed(b).got) = h - 0
            /\ \A j \in 1..(h - 0) : Parsed(b).got[j] = a + 0 + j
        BY <3>6 DEF Whole
      <4>2. Parsed(b).done = 2 * h
        BY <4>1
      <4>3. h - 0 = h /\ a + 0 = a
        BY <3>2
      <4> QED
        BY <4>1, <4>2, <4>3 DEF got
    <3>8. d = 2 * h
      BY <1>1, <2>4, <2>8, <3>3, <3>7
    <3>9. Len(buf') <= 1 /\ Len(buf') \in Nat
      BY <2>4, <2>10, <3>3, <3>8
    <3>10. /\ applied' \in Seq(Nat) /\ Len(applied') = a + h
           /\ \A j \in 1..a : applied'[j] = j
           /\ \A j \in 1..h : applied'[a + j] = a + j
      <4>1. /\ applied \o got \in Seq(Nat) /\ Len(applied \o got) = Len(applied) + Len(got)
            /\ \A j \in 1..Len(applied) : (applied \o got)[j] = applied[j]
            /\ \A j \in 1..Len(got) : (applied \o got)[Len(applied) + j] = got[j]
        BY <1>1, <2>7, ConcatShape
      <4>2. applied' = applied \o got
        BY <1>2, <1>5
      <4> QED
        BY <3>2, <3>7, <4>1, <4>2 DEF a
    <3>11. ASSUME NEW j \in 1..Len(applied') PROVE applied'[j] = j
      <4>1. CASE j <= a
        BY <3>2, <3>10, <4>1
      <4>2. CASE j > a
        <5>1. j - a \in 1..h /\ a + (j - a) = j
          BY <3>2, <3>10, <4>2
        <5> QED
          BY <3>10, <5>1
      <4> QED
        BY <3>2, <4>1, <4>2
    <3>12. 2 * Len(applied') + Len(buf') + Len(pipe') = 2 * sent'
      <4>1. Len(buf') = Len(b) - d /\ n = Len(b) + Len(pipe') /\ sent' = sent /\ Len(pipe') \in Nat
        BY <1>2, <2>1, <2>4, <2>10
      <4>2. 2 * (a + h) + (Len(b) - d) + Len(pipe') = 2 * sent
        <5>1. a \in Nat /\ Len(b) \in Nat /\ Len(pipe') \in Nat /\ sent \in Nat /\ n \in Nat
          BY <1>1, <2>4, <3>2, <4>1
        <5>2. 2 * a + n = 2 * sent /\ n = Len(b) + Len(pipe') /\ d = 2 * h
          BY <3>2, <3>8, <4>1
        <5> QED
          BY <5>1, <5>2
      <4> QED
        BY <3>10, <4>1, <4>2
    <3>13. Regular(Unparsed', a + h)
      <4> SUFFICES ASSUME NEW m \in Nat
                   PROVE  /\ 2 * m + 1 <= Len(Unparsed') => Unparsed'[2 * m + 1] = [f |-> a + h + m + 1, part |-> 1]
                          /\ 2 * m + 2 <= Len(Unparsed') => Unparsed'[2 * m + 2] = [f |-> a + h + m + 1, part |-> 2]
        BY DEF Regular
      <4> DEFINE l == h + m
      <4>0. l \in Nat /\ a + l + 1 = a + h + m + 1 /\ d + (2 * m + 1) = 2 * l + 1 /\ d + (2 * m + 2) = 2 * l + 2
        BY <3>2, <3>8
      <4> HIDE DEF l
      <4>1. ASSUME 2 * m + 1 <= Len(Unparsed') PROVE Unparsed'[2 * m + 1] = [f |-> a + h + m + 1, part |-> 1]
        <5>1. 2 * m + 1 \in 1..(n - d) /\ 2 * l + 1 <= n
          BY <2>4, <2>9, <2>11, <4>0, <4>1
        <5>2. Unparsed'[2 * m + 1] = u[d + (2 * m + 1)]
          BY <2>11, <5>1
        <5>3. d + (2 * m + 1) = 2 * l + 1
          BY <4>0
        <5> QED
          BY <3>2, <4>0, <5>1, <5>2, <5>3 DEF Regular, n
      <4>2. ASSUME 2 * m + 2 <= Len(Unparsed') PROVE Unparsed'[2 * m + 2] = [f |-> a + h + m + 1, part |-> 2]
        <5>1. 2 * m + 2 \in 1..(n - d) /\ 2 * l + 2 <= n
          BY <2>4, <2>9, <2>11, <4>0, <4>2
        <5>2. Unparsed'[2 * m + 2] = u[d + (2 * m + 2)]
          BY <2>11, <5>1
        <5>3. d + (2 * m + 2) = 2 * l + 2
          BY <4>0
        <5> QED
          BY <3>2, <4>0, <5>1, <5>2, <5>3 DEF Regular, n
      <4> QED
        BY <4>1, <4>2
    <3> QED
      BY <3>9, <3>10, <3>11, <3>12, <3>13
  <2> QED
    BY <2>12, <2>13, <2>14 DEF CtlInv
<1> QED
  BY <1>4, <1>5

\* The other steps leave the pipe, what is parsed of it and the settings.
LEMMA CtlSteps == CtlInv /\ SceneInv /\ [SitlNext]_sitlVars => CtlInv'
<1> SUFFICES ASSUME CtlInv, SceneInv, [SitlNext]_sitlVars PROVE CtlInv'
  OBVIOUS
<1>1. CASE DrainCtl
  BY <1>1, DrainCtlExact
<1>2. CASE DriverWrites
  BY <1>2, DriverWritesExact
<1>3. CASE ~DrainCtl /\ ~DriverWrites
  <2>1. UNCHANGED <<plan, sent, pipe, buf, applied, sim>>
    BY <1>3 DEF SitlNext, Stepper, Window, Physics, PoseFirst, PoseSecond, PoseDone, PoseRest, Inject, RunUntilIdle,
           CpuIdle, CtlRuns, MotRuns, FlushRuns, ReadDuty, ReadStarts, ReadCopies, ReadEnds, ReadDone,
           Stopped, GcsReads, FeedLine, FeedAnyway, FeederRest, simVars, ctlVars, sitlVars
  <2> QED
    BY <2>1, CtlUnmoved
<1> QED
  BY <1>1, <1>2, <1>3

\* The invariant says what the property does.
LEMMA CtlImplies == CtlInv => ControlExact
<1> SUFFICES ASSUME CtlInv PROVE ControlExact
  OBVIOUS
<1>1. applied \in Seq(Nat) /\ Len(applied) \in Nat
  BY DEF CtlInv, PipeInv
<1>2. CtlExact
  <2>1. Len(buf) <= BufCells /\ \A i \in 1 .. Len(applied) - 1 : applied[i] < applied[i + 1]
    BY DEF CtlInv, PipeInv, Increasing
  <2>2. ASSUME AllSettings
        PROVE  /\ applied = [i \in 1 .. Len(applied) |-> i]
               /\ 2 * Len(applied) + Len(buf) + Len(pipe) = 2 * sent
               /\ Len(buf) <= 1
    <3>1. \A j \in 1..Len(applied) : applied[j] = j
      BY <2>2 DEF CtlInv, RegularInv
    <3>2. applied = [i \in 1 .. Len(applied) |-> i]
      BY <1>1, <3>1
    <3> QED
      BY <2>2, <3>2 DEF CtlInv, RegularInv
  <2> QED
    BY <2>1, <2>2 DEF CtlExact, AllSettings
<1>3. ConfigSticks
  <2>1. /\ sim.flown \in Params
        /\ sim.flown.rotor = Latest(applied, "geometry") /\ sim.flown.world = Latest(applied, "world")
    BY DEF CtlInv, Flies, SimType
  <2>2. sim.flown = [rotor |-> Latest(applied, "geometry"), world |-> Latest(applied, "world")]
    BY <2>1 DEF Params
  <2> QED
    BY <2>2 DEF ConfigSticks, Latest
<1>4. MeshMapped
  BY DEF CtlInv, Flies, MeshMapped
<1> QED
  BY <1>2, <1>3, <1>4 DEF ControlExact

\* run_driver and driver_dispatch_ctl: every whole frame is dispatched once and
\* in order however the reads cut the stream, behind torn, foreign or lying frames
\* none twice; the physics flies the last geometry and the last world sent; the
\* mesh it collides with is the one mapped.  For every plan of frames, every
\* interleaving of the driver with the loop and every size of the buffer.
THEOREM ControlFramesApplyOnce == SitlSpec => []ControlExact
<1>1. SitlInit => SitlInv /\ CtlInv
  BY SitlStarts, CtlStarts
<1>2. SitlInv /\ CtlInv /\ [SitlNext]_sitlVars => (SitlInv /\ CtlInv)'
  BY SitlSteps, CtlSteps DEF SitlInv
<1>3. SitlSpec => [](SitlInv /\ CtlInv)
  BY <1>1, <1>2, PTL DEF SitlSpec
<1> QED
  BY <1>3, CtlImplies, PTL

=============================================================================
