------------------------- MODULE VerticalLoopProofs -------------------------
(***************************************************************************)
(* The collective for every height, limit, debounce and number of faults:  *)
(* no automatic flight before a centred switch of this arming, a learnt    *)
(* hover that is never forgotten, a height above ground that does not step *)
(* when the rangefinder drops out, and hand-overs that keep the aircraft   *)
(* near hover.                                                             *)
(***************************************************************************)
EXTENDS VerticalLoop, TLAPS

HeightCtrls == [mode : {"OFF", "LIFTING", "FLYING", "FAILED"}, tof : BOOLEAN,
                landed : BOOLEAN, run : 0..RunawaySteps, held : Thr \cup {None},
                sp : Alt, base : Thr]

\* The runaway guard gives up as soon as its count is full.
GoodCtrl(h) == h \in HeightCtrls /\ (Engaged(h) => h.run < RunawaySteps)

\* The collective that ends an engagement of h neither drops below the one in
\* force nor stays above the baseline, unless the stick is there.
Caught(h, g, out) == /\ out >= Least(thr, h.base)
                     /\ out <= h.base \/ g.held = None

(***************************************************************************)
(* The inductive invariant.                                                *)
(***************************************************************************)

\* The memory of a centred switch is of this arming, and what an arming finds
\* has been switched off by a loop that saw the disarmed state: the RC task
\* does not decide twice within one period of the loops.
CentreInv ==
    /\ Armed(sys) => (centre => passed) /\ (Engaged(hc) => passed)
    /\ ~Armed(sys) /\ "angle" \notin due => ~centre /\ ~Engaged(hc)

\* On the ground and after it the learnt hover is the stored one.
HoverInv == ~hov.wasArmed /\ hov.measured /\ ~refused => hov.saved = hov.est

\* The references are those of the ground, up to the drift of the barometer,
\* and the height above ground is measured from the one in use.
PhaseInv ==
    /\ fp.tofRef = 0 /\ fp.ref \in 0..1
    /\ fp.haveTof => fp.haveRef
    /\ fp.tof => /\ hov.wasArmed /\ fp.haveTof
                 /\ fp.agl = height
    /\ hov.wasArmed /\ ~fp.tof =>
         fp.agl = IF fp.haveRef THEN height + drift - fp.ref ELSE 0

HeightInv == TypeOK /\ CentreInv /\ HoverInv /\ PhaseInv

\* The loops start with nothing learnt and nothing engaged.
LEMMA InitInv ==
    Init => HeightInv
<1> SUFFICES ASSUME Init PROVE HeightInv
  OBVIOUS
<1> USE HeightAssumption DEF Init, Alt, Thr, HoverGuess, BaseMax, Idle, ThrMax, None
<1>1. fp \in [ref : Alt, haveRef : BOOLEAN, tofRef : 0..MaxHeight, haveTof : BOOLEAN,
               agl : Alt, tof : BOOLEAN, powered : BOOLEAN,
               up : 0..(Debounce - 1), down : 0..(Debounce - 1)]
  OBVIOUS
<1>2. /\ hov \in [est : 1..BaseMax, measured : BOOLEAN, saved : 1..BaseMax, wasArmed : BOOLEAN]
      /\ vs \in [valid : BOOLEAN, agl : Alt, range : 0..MaxHeight, tof : BOOLEAN,
                  hover : 1..BaseMax, measured : BOOLEAN, unhealthy : BOOLEAN]
  OBVIOUS
<1>3. hc \in HeightCtrls /\ ~Engaged(hc) /\ hc.mode = "OFF"
  BY DEF HeightCtrls, Engaged
<1>5. /\ sys \in {"STANDBY", "ARMED", "IN_AIR", "FAILSAFE"} /\ due \subseteq Loops
      /\ height \in 0..MaxHeight /\ drift \in 0..1 /\ faults \in 0..MaxFaults
      /\ rec \in 0..(RecoverySteps + 1) /\ thr \in Thr
  OBVIOUS
<1>6. centre \in BOOLEAN /\ passed \in BOOLEAN /\ refused \in BOOLEAN
  BY Zenon
<1>4. TypeOK
  BY <1>1, <1>2, <1>3, <1>5, <1>6, Zenon DEF TypeOK, HeightCtrls
<1> QED
  BY <1>3, <1>4 DEF HeightInv, CentreInv, HoverInv, PhaseInv, Armed

----------------------------------------------------------------------------
(* The height controller. *)

\* The limits are where the code's constants put them.
LEMMA Limits ==
    /\ MaxHeight \in Nat /\ MaxHeight > 0 /\ Target \in 1..MaxHeight /\ Target \in Alt /\ 0 \in Alt
    /\ Runaway \in Nat /\ RunawaySteps \in Nat /\ RunawaySteps > 0
    /\ Thr = 0..4 /\ None \notin Thr
  BY HeightAssumption DEF Alt, Thr, Idle, ThrMax, None

\* What a switched-off controller's fields hold.
LEMMA Zeros == 0 \in Alt /\ 0 \in Thr /\ 0 \in 0..RunawaySteps
  BY Limits

\* A hand-back holds a collective or lets the pilot's through.
LEMMA Handback ==
    ASSUME NEW h, GoodCtrl(h), NEW pilot \in Thr, NEW air \in BOOLEAN
    PROVE  LET r == HandbackStep(h, pilot, air)
           IN  /\ GoodCtrl(r.hc) /\ r.out \in Thr
               /\ r.hc.mode = h.mode
               /\ r.hc.held \in {None, h.held}
               /\ h.held # None /\ air => r.out >= h.held
               /\ h.held # None => r.hc.held = None \/ r.out = h.held
  BY Limits DEF HandbackStep, Result, GoodCtrl, HeightCtrls, Engaged

\* SafeHold is never above the collective in force nor above the baseline.
LEMMA Held ==
    ASSUME NEW h, h \in HeightCtrls, thr \in Thr
    PROVE  /\ SafeHold(h) \in Thr /\ SafeHold(h) = Least(thr, h.base)
           /\ SafeHold(h) # None /\ SafeHold(h) <= h.base
  BY Limits DEF SafeHold, Least, HeightCtrls

\* Switching off leaves nothing engaged, and an airborne aircraft held.
LEMMA Off ==
    ASSUME NEW h, GoodCtrl(h), thr \in Thr, NEW pilot \in Thr, NEW air \in BOOLEAN
    PROVE  LET r == OffStep(h, pilot, air)
           IN  /\ GoodCtrl(r.hc) /\ r.out \in Thr /\ ~Engaged(r.hc)
               /\ Engaged(h) /\ air => Caught(h, r.hc, r.out)
<1> DEFINE w == IF Engaged(h) /\ air THEN SafeHold(h) ELSE h.held
           g == [h EXCEPT !.mode = "OFF", !.tof = FALSE, !.landed = FALSE,
                          !.sp = 0, !.base = 0, !.run = 0, !.held = w]
<1>1. h \in HeightCtrls
  BY DEF GoodCtrl
<1>7. w \in Thr \cup {None}
  BY <1>1, Held DEF HeightCtrls
<1> HIDE DEF w
<1>2. g \in HeightCtrls /\ g.mode = "OFF" /\ g.held = w
  <2> DEFINE g1 == [h EXCEPT !.mode = "OFF", !.tof = FALSE, !.landed = FALSE]
             g2 == [g1 EXCEPT !.sp = 0, !.base = 0, !.run = 0, !.held = w]
  <2>1. g1 \in HeightCtrls /\ g1.mode = "OFF"
    BY <1>1 DEF HeightCtrls
  <2>2. g = g2
    OBVIOUS
  <2> HIDE DEF g1
  <2>3. g2 \in HeightCtrls /\ g2.mode = g1.mode /\ g2.held = w
    BY <2>1, <1>7, Zeros DEF HeightCtrls
  <2> QED
    BY <2>1, <2>2, <2>3
<1>3. GoodCtrl(g)
  BY <1>2 DEF GoodCtrl, Engaged
<1>4. OffStep(h, pilot, air) = HandbackStep(g, pilot, air)
  BY DEF OffStep, w
<1> DEFINE r == HandbackStep(g, pilot, air)
<1> HIDE DEF g
<1>5. /\ GoodCtrl(r.hc) /\ r.out \in Thr /\ r.hc.mode = "OFF"
      /\ w # None /\ air => r.out >= w
      /\ w # None => r.hc.held = None \/ r.out = w
  BY <1>2, <1>3, Handback
<1>6. Engaged(h) /\ air => w = Least(thr, h.base) /\ w # None /\ w <= h.base
  BY <1>1, Held DEF w
<1> HIDE DEF r
<1> QED
  BY <1>4, <1>5, <1>6 DEF Engaged, r, Caught

\* The engaged controller either stays engaged, or its runaway guard gives up
\* and holds the aircraft.
LEMMA Driven ==
    ASSUME NEW h, GoodCtrl(h), Engaged(h), thr \in Thr,
           NEW mode, NEW pilot \in Thr, NEW air \in BOOLEAN, NEW alt \in Alt, NEW pi \in 1..4
    PROVE  LET r == Drive(h, mode, pilot, air, alt, pi)
           IN  /\ GoodCtrl(r.hc) /\ r.out \in Thr
               /\ Engaged(r.hc) \/ Caught(h, r.hc, r.out)
<1> DEFINE above == air /\ alt > h.sp + Runaway
           g == [h EXCEPT !.run = IF above THEN @ + 1 ELSE 0]
           f == [g EXCEPT !.mode = "FAILED", !.held = SafeHold(h)]
<1>1. h \in HeightCtrls /\ h.run \in 0..RunawaySteps /\ h.run < RunawaySteps
  BY DEF GoodCtrl, HeightCtrls
<1>2. /\ g \in HeightCtrls /\ g.mode = h.mode /\ g.base = h.base
      /\ ~above => g.run < RunawaySteps
  BY <1>1, Limits DEF HeightCtrls
<1>3. Engaged(g)
  BY <1>2 DEF Engaged
<1>4. CASE above /\ g.run >= RunawaySteps
  <2>1. f \in HeightCtrls /\ f.mode = "FAILED" /\ f.held = SafeHold(h)
    BY <1>1, <1>2, Held DEF HeightCtrls
  <2>2. GoodCtrl(f)
    BY <2>1 DEF GoodCtrl, Engaged
  <2>3. Drive(h, mode, pilot, air, alt, pi) = HandbackStep(f, pilot, air)
    BY <1>4 DEF Drive
  <2>4. air
    BY <1>4
  <2> DEFINE r == HandbackStep(f, pilot, air)
  <2> HIDE DEF f, g
  <2>5. /\ GoodCtrl(r.hc) /\ r.out \in Thr
        /\ f.held # None => r.out >= f.held
        /\ f.held # None => r.hc.held = None \/ r.out = f.held
    BY <2>2, <2>4, Handback
  <2>6. f.held = Least(thr, h.base) /\ f.held # None /\ f.held <= h.base
    BY <1>1, <2>1, Held
  <2> HIDE DEF r
  <2> QED
    BY <2>3, <2>5, <2>6 DEF r, Caught
<1>5. CASE ~(above /\ g.run >= RunawaySteps)
  <2>1. g.run < RunawaySteps
    BY <1>2, <1>5, Limits DEF HeightCtrls
  <2> DEFINE l == [g EXCEPT !.landed = TRUE]
  <2>2. l \in HeightCtrls /\ l.mode = g.mode /\ l.run = g.run
    BY <1>2 DEF HeightCtrls
  <2>3. Drive(h, mode, pilot, air, alt, pi) \in {Result(l, Idle), Result(g, pi)}
    BY <1>5 DEF Drive
  <2> HIDE DEF l, g
  <2> QED
    BY <1>2, <1>3, <2>1, <2>2, <2>3, Limits DEF Result, GoodCtrl, Engaged, Idle
<1> QED
  BY <1>4, <1>5

\* height_ctrl_update.
LEMMA Updated ==
    ASSUME NEW h, GoodCtrl(h), thr \in Thr,
           NEW mode, NEW pilot \in Thr, NEW air \in BOOLEAN, NEW alt \in Alt,
           NEW tof \in BOOLEAN, NEW hover \in 1..3, NEW pi \in 1..4,
           NEW r, r = HeightUpdate(h, mode, pilot, air, alt, tof, hover, pi)
    PROVE  /\ GoodCtrl(r.hc) /\ r.out \in Thr
           /\ mode = "OFF" => ~Engaged(r.hc)
           /\ Engaged(h) /\ ~Engaged(r.hc) /\ air =>
                Caught(h, r.hc, r.out)
<1>1. CASE mode = "OFF"
  BY <1>1, Off DEF HeightUpdate
<1>2. CASE mode # "OFF" /\ h.mode = "FAILED"
  BY <1>2, Handback DEF HeightUpdate, Engaged
<1>3. CASE mode # "OFF" /\ h.mode # "FAILED"
  <2> DEFINE ref == IF hover >= HoverGuess /\ hover < BaseMax THEN hover ELSE HoverGuess
             n == Engage(h, pilot, air, alt, tof, ref)
             e == IF Engaged(h) THEN h ELSE n
             g == Reanchored(e, mode, alt, tof)
  <2>1. h \in HeightCtrls
    BY DEF GoodCtrl
  <2>2. ref \in Thr /\ Clamp(pilot, HoverGuess, BaseMax) \in Thr
    BY Limits DEF HoverGuess, BaseMax, Clamp
  <2> DEFINE sp == IF air THEN alt ELSE Target
             base == IF air THEN Clamp(pilot, HoverGuess, BaseMax) ELSE ref
             em == IF air THEN "FLYING" ELSE "LIFTING"
  <2>7. sp \in Alt /\ base \in Thr /\ em \in {"LIFTING", "FLYING"}
    BY <2>2, Limits
  <2>8. n = [h EXCEPT !.mode = em, !.tof = tof, !.landed = FALSE, !.run = 0, !.sp = sp, !.base = base]
    BY DEF Engage
  <2> HIDE DEF sp, base, em, n, ref
  <2>3. n \in HeightCtrls /\ n.mode \in {"LIFTING", "FLYING"} /\ n.run = 0
    <3> DEFINE n1 == [h EXCEPT !.mode = em, !.tof = tof, !.landed = FALSE]
               n2 == [n1 EXCEPT !.run = 0, !.sp = sp, !.base = base]
    <3>1. n1 \in HeightCtrls /\ n1.mode = em
      BY <2>1, <2>7 DEF HeightCtrls
    <3>2. n = n2
      BY <2>8
    <3> HIDE DEF n1
    <3>3. n2 \in HeightCtrls /\ n2.mode = n1.mode /\ n2.run = 0
      BY <2>7, <3>1, Zeros DEF HeightCtrls
    <3> QED
      BY <2>7, <3>1, <3>2, <3>3
  <2>4. e \in HeightCtrls /\ Engaged(e) /\ e.run < RunawaySteps /\ (Engaged(h) => e = h)
    BY <2>1, <2>3, Limits DEF Engaged, GoodCtrl
  <2> HIDE DEF e
  <2>5. g \in HeightCtrls /\ Engaged(g) /\ g.run = e.run /\ g.base = e.base
    BY <2>4 DEF Reanchored, HeightCtrls, Engaged
  <2>6. HeightUpdate(h, mode, pilot, air, alt, tof, hover, pi) = Drive(g, mode, pilot, air, alt, pi)
    BY <1>3 DEF HeightUpdate, n, e, ref
  <2> HIDE DEF g
  <2>9. GoodCtrl(g)
    BY <2>4, <2>5 DEF GoodCtrl
  <2>10. GoodCtrl(r.hc) /\ r.out \in Thr /\ (Engaged(r.hc) \/ Caught(g, r.hc, r.out))
    BY <2>5, <2>6, <2>9, Driven
  <2>11. Engaged(h) => g.base = h.base
    BY <2>4, <2>5
  <2> QED
    BY <1>3, <2>10, <2>11 DEF Caught
<1> QED
  BY <1>1, <1>2, <1>3

\* ... of which the first part alone.
LEMMA UpdatedGood ==
    ASSUME NEW h, GoodCtrl(h), thr \in Thr,
           NEW mode, NEW pilot \in Thr, NEW air \in BOOLEAN, NEW alt \in Alt,
           NEW tof \in BOOLEAN, NEW hover \in 1..3, NEW pi \in 1..4
    PROVE  GoodCtrl(HeightUpdate(h, mode, pilot, air, alt, tof, hover, pi).hc)
  BY Updated

----------------------------------------------------------------------------
(* The angle task. *)

\* What one tick of angle_controller_task makes of the controller, the
\* collective and the recovery: without a centred switch nothing engages, the
\* recovery has the last word, and an ended engagement is held near hover.
LEMMA AngleTick ==
    ASSUME HeightInv, NEW mode \in Modes, NEW pos \in Sticks, NEW acro \in BOOLEAN,
           NEW tilt \in {"level", "banked", "upset"}, NEW pi \in PiOutputs,
           AngleStep(mode, pos, tilt, acro, pi)
    PROVE  /\ GoodCtrl(hc') /\ thr' \in Thr
           /\ rec' \in 0..(RecoverySteps + 1)
           /\ sys' \in {sys, "FAILSAFE"}
           /\ ~centre' => ~Engaged(hc')
           /\ rec' > 0 => thr' = HoverNow /\ ~Engaged(hc')
           /\ Engaged(hc) /\ ~Engaged(hc') /\ sys = "IN_AIR" /\ rec' = 0 =>
                Caught(hc, hc', thr')
<1>1. /\ GoodCtrl(hc) /\ thr \in Thr /\ rec \in 0..(RecoverySteps + 1)
      /\ vs.hover \in 1..BaseMax /\ vs.agl \in Alt /\ vs.range \in 0..MaxHeight
  BY DEF HeightInv, TypeOK, GoodCtrl, HeightCtrls
<1>2. vs.tof \in BOOLEAN
  BY DEF HeightInv, TypeOK
<1>3. HoverNow \in 1..3
  BY <1>1 DEF HoverNow, HoverGuess, BaseMax
<1>4. pi \in 1..4
  BY HeightAssumption
<1> PICK air \in BOOLEAN : air <=> sys = "IN_AIR"
  BY Zenon
<1> PICK r : r = Recovery(tilt, acro, sys = "IN_AIR")
  OBVIOUS
<1> PICK pilot : pilot = IF r > 0 THEN HoverNow ELSE Curve(pos, HoverNow)
  OBVIOUS
<1> PICK asked : asked = IF acro \/ r > 0 \/ ~centre' \/ ~vs.valid \/ vs.unhealthy
                         THEN "OFF" ELSE mode
  OBVIOUS
<1> PICK alt : alt = IF vs.tof THEN vs.range ELSE vs.agl
  OBVIOUS
<1> PICK res : res = HeightUpdate(hc, asked, pilot, air, alt, vs.tof, HoverNow, pi)
  OBVIOUS
<1>5. /\ rec' = r /\ hc' = res.hc /\ thr' = Collective(r, HoverNow, res.out)
      /\ sys' \in {sys, "FAILSAFE"}
  <2>1. air = (sys = "IN_AIR")
    BY Zenon
  <2> QED
    BY <2>1 DEF AngleStep
<1>6. pilot \in Thr
  BY <1>3, Limits, HeightAssumption DEF Curve, Idle, ThrMax
<1>7. alt \in Alt
  BY <1>1, HeightAssumption DEF Alt
<1>8. r \in 0..(RecoverySteps + 1)
  BY <1>1, HeightAssumption DEF Recovery, RecoveryTimedOut, Cost
<1>9. r > 0 \/ ~centre' => asked = "OFF"
  OBVIOUS
<1>10. /\ GoodCtrl(res.hc) /\ res.out \in Thr
       /\ asked = "OFF" => ~Engaged(res.hc)
       /\ Engaged(hc) /\ ~Engaged(res.hc) /\ air =>
            Caught(hc, res.hc, res.out)
  <2>1. GoodCtrl(res.hc)
    BY <1>1, <1>2, <1>3, <1>4, <1>6, <1>7, UpdatedGood
  <2>4. res.out \in Thr
    BY <1>1, <1>2, <1>3, <1>4, <1>6, <1>7, Updated
  <2>2. asked = "OFF" => ~Engaged(res.hc)
    BY <1>1, <1>2, <1>3, <1>4, <1>6, <1>7, Updated
  <2>3. Engaged(hc) /\ ~Engaged(res.hc) /\ air => Caught(hc, res.hc, res.out)
    BY <1>1, <1>2, <1>3, <1>4, <1>6, <1>7, Updated
  <2> QED
    BY <2>1, <2>2, <2>3, <2>4
<1>11. thr' \in Thr /\ (r > 0 => thr' = HoverNow) /\ (r = 0 => thr' = res.out)
  BY <1>3, <1>5, <1>8, <1>10, Limits DEF Collective
<1> QED
  BY <1>5, <1>8, <1>9, <1>10, <1>11

\* The angle task keeps the switch's memory to this arming.
LEMMA AngleInv ==
    HeightInv /\ Angle => HeightInv'
<1> SUFFICES ASSUME HeightInv, Angle PROVE HeightInv'
  OBVIOUS
<1> PICK mode \in Modes, pos \in Sticks, acro \in BOOLEAN,
         tilt \in {"level", "banked", "upset"}, pi \in PiOutputs :
            AngleStep(mode, pos, tilt, acro, pi)
  BY DEF Angle
<1>1. /\ GoodCtrl(hc') /\ thr' \in Thr /\ rec' \in 0..(RecoverySteps + 1)
      /\ sys' \in {sys, "FAILSAFE"} /\ (~centre' => ~Engaged(hc'))
  BY AngleTick
<1>2. /\ faults' \in 0..MaxFaults /\ due' = due \ {"angle"}
      /\ UNCHANGED <<height, drift, fp, hov, vs, refused>>
  <2>1. \A b : Cost(b) \in 0..1
    BY DEF Cost
  <2>2. Spend(Cost(acro \/ (tilt = "upset" /\ rec = 0))) /\ due' = due \ {"angle"}
        /\ UNCHANGED <<height, drift, fp, hov, vs, refused>>
    BY DEF AngleStep
  <2> QED
    BY <2>1, <2>2, HeightAssumption DEF Spend, HeightInv, TypeOK
<1>3. /\ centre' = SeenCentre(sys', mode)
      /\ passed' = (passed \/ (Armed(sys') /\ mode = "OFF"))
  BY DEF AngleStep
<1>4. centre' \in BOOLEAN /\ passed' \in BOOLEAN
  BY <1>3, Zenon DEF SeenCentre, HeightInv, TypeOK
<1>5. TypeOK'
  <2>1. sys' \in {"STANDBY", "ARMED", "IN_AIR", "FAILSAFE"} /\ due' \subseteq Loops
    BY <1>1, <1>2 DEF HeightInv, TypeOK
  <2>2. hc' \in HeightCtrls /\ (Engaged(hc') => hc'.run < RunawaySteps)
    BY <1>1 DEF GoodCtrl
  <2> QED
    BY <1>1, <1>2, <1>4, <2>1, <2>2 DEF HeightInv, TypeOK, HeightCtrls, Engaged
<1>6. CentreInv'
  <2>1. centre' => Armed(sys') /\ (centre \/ mode = "OFF")
    BY <1>3 DEF SeenCentre
  <2>2. Armed(sys') => sys' = sys
    BY <1>1 DEF Armed
  <2> QED
    BY <1>1, <1>3, <2>1, <2>2 DEF HeightInv, CentreInv, Armed, Engaged
<1>7. HoverInv' /\ PhaseInv'
  BY <1>2 DEF HeightInv, HoverInv, PhaseInv
<1> QED
  BY <1>5, <1>6, <1>7 DEF HeightInv
----------------------------------------------------------------------------
(* The vertical task. *)

FpType == [ref : Alt, haveRef : BOOLEAN, tofRef : 0..MaxHeight, haveTof : BOOLEAN,
           agl : Alt, tof : BOOLEAN, powered : BOOLEAN,
           up : 0..(Debounce - 1), down : 0..(Debounce - 1)]
HovType == [est : 1..BaseMax, measured : BOOLEAN, saved : 1..BaseMax, wasArmed : BOOLEAN]


\* Learning moves the estimate by one, within the collectives of flight, and
\* only in the air.
LEMMA Learnt ==
    ASSUME hov \in HovType, thr \in Thr, NEW climb \in Int, NEW steady \in BOOLEAN
    PROVE  LET l == HoverUpdate(climb, steady)
           IN  /\ l \in HovType /\ l.saved = hov.saved /\ l.wasArmed = hov.wasArmed
               /\ ~Armed(sys) => l = hov
<1> DEFINE n == hov.est + Clamp(thr - hov.est, -1, 1)
<1>1. CASE sys = "IN_AIR" /\ climb = 0 /\ steady /\ thr > Idle /\ thr < ThrMax
  <2>1. hov.est \in 1..3
    BY DEF HovType, BaseMax
  <2>2. n \in 1..BaseMax
    BY <1>1, <2>1, Limits DEF Clamp, Idle, ThrMax, BaseMax
  <2>3. HoverUpdate(climb, steady) = [hov EXCEPT !.est = n, !.measured = TRUE]
    BY <1>1 DEF HoverUpdate
  <2> HIDE DEF n
  <2> QED
    BY <1>1, <2>2, <2>3 DEF HovType, Armed
<1>2. CASE ~(sys = "IN_AIR" /\ climb = 0 /\ steady /\ thr > Idle /\ thr < ThrMax)
  BY <1>2 DEF HoverUpdate
<1> QED
  BY <1>1, <1>2

\* What the vertical task hands to storage.
LEMMA HoverStep ==
    ASSUME HeightInv, NEW dh \in -MaxHeight..1, NEW e \in Events, VerticalStep(dh, e)
    PROVE  hov' \in HovType /\ HoverInv' /\ hov'.wasArmed = Armed(sys) /\ refused' \in BOOLEAN
<1> PICK l : l = HoverUpdate(dh, e = "steady")
  OBVIOUS
<1>1. hov \in HovType /\ thr \in Thr /\ dh \in Int
  BY HeightAssumption DEF HeightInv, TypeOK, HovType
<1>2. /\ l \in HovType /\ l.saved = hov.saved /\ l.wasArmed = hov.wasArmed
      /\ ~Armed(sys) => l = hov
  <2>1. (e = "steady") \in BOOLEAN
    BY Zenon
  <2> QED
    BY <1>1, <2>1, Learnt
<1>3. /\ hov' = HoverSaved(l, e # "refused")
      /\ refused' = IF SaveDue(l) THEN e = "refused" ELSE refused /\ ~Armed(sys)
  BY DEF VerticalStep
<1>9. Armed(sys) \in BOOLEAN
  BY DEF Armed
<1> PICK a \in BOOLEAN : a = Armed(sys)
  BY <1>9
<1> PICK ok \in BOOLEAN : ok = (e # "refused")
  BY Zenon
<1> PICK stored : stored = IF SaveDue(l) /\ ok THEN l.est ELSE l.saved
  OBVIOUS
<1>4. stored \in 1..BaseMax
  BY <1>2 DEF HovType
<1>5. hov' = [l EXCEPT !.saved = stored, !.wasArmed = a]
  BY <1>2, <1>3 DEF HoverSaved, HovType
<1>6. /\ hov' \in HovType /\ hov'.wasArmed = a /\ hov'.saved = stored
      /\ hov'.est = l.est /\ hov'.measured = l.measured
  BY <1>2, <1>4, <1>5 DEF HovType
<1>7. refused' \in BOOLEAN
  BY <1>3, Zenon DEF HeightInv, TypeOK
<1>8. HoverInv'
  <2> SUFFICES ASSUME ~a, l.measured, ~refused' PROVE stored = l.est
    BY <1>6 DEF HoverInv
  <2>1. l = hov
    BY <1>2
  <2>2. CASE SaveDue(l)
    BY <1>3, <2>2
  <2>3. CASE ~SaveDue(l)
    BY <1>3, <2>1, <2>3 DEF SaveDue, HeightInv, HoverInv
  <2> QED
    BY <2>2, <2>3
<1> QED
  BY <1>6, <1>7, <1>8

\* The aircraft and the barometer's drift, as the vertical task meets them.
LEMMA AirStep ==
    ASSUME HeightInv, NEW dh \in -MaxHeight..1, NEW e \in Events, VerticalStep(dh, e)
    PROVE  /\ drift' \in 0..1 /\ drift' - drift \in -1..1
           /\ height' \in 0..MaxHeight /\ height' = height + dh
           /\ height' + drift' \in 0..(MaxHeight + 1)
           /\ ~Armed(sys) => height' = 0
<1>1. drift' = IF e = "drift" THEN 1 - drift ELSE drift
  BY Zenon DEF VerticalStep
<1>2. drift \in 0..1 /\ height \in 0..MaxHeight
  BY DEF HeightInv, TypeOK
<1>3. /\ height + dh \in 0..MaxHeight /\ height' = height + dh
      /\ ~Armed(sys) => height + dh = 0
  BY DEF VerticalStep
<1>4. CASE e = "drift"
  <2>1. drift' = 1 - drift
    BY <1>1, <1>4
  <2> QED
    BY <1>2, <1>3, <2>1, HeightAssumption
<1>5. CASE e # "drift"
  <2>1. drift' = drift
    BY <1>1, <1>5
  <2> QED
    BY <1>2, <1>3, <2>1, HeightAssumption
<1> QED
  BY <1>4, <1>5

\* A debounce counter below its limit is kept, one that reaches it restarts.
LEMMA Debounced ==
    ASSUME NEW n \in 0..Debounce
    PROVE  n % Debounce \in 0..(Debounce - 1) /\ (n < Debounce => n % Debounce = n)
  BY HeightAssumption

\* The phase detector's record, its references, and what it asks of the state:
\* at rest on the ground it measures anew, in flight the height above ground
\* follows the reference in use, and losing the rangefinder re-anchors the
\* barometer at the height last measured.
LEMMA PhaseStep ==
    ASSUME HeightInv, NEW dh \in -MaxHeight..1, NEW e \in Events, VerticalStep(dh, e)
    PROVE  /\ fp' \in FpType
           /\ PhaseInv'
           /\ sys' \in {sys, "IN_AIR", "ARMED"} /\ (sys' # sys => Armed(sys))
           /\ Armed(sys) => /\ fp'.haveRef = fp.haveRef
                            /\ ~fp.tof => fp'.ref = fp.ref
                            /\ fp.tof /\ ~fp'.tof => fp'.agl = fp.agl
<1>1. PICK tof \in BOOLEAN : tof <=> e # "tof lost" /\ height <= TofBand
  OBVIOUS
<1>2. PICK d \in 0..1 : d = drift'
  BY AirStep
<1>3. PICK h \in 0..MaxHeight : h = height + dh /\ h = height'
  BY AirStep
<1>4. h + d \in 0..(MaxHeight + 1)
  BY <1>2, <1>3, HeightAssumption
<1>5. PICK alt \in 0..(MaxHeight + 1) : alt = h + d
  BY <1>4
<1>14. MaxHeight \in Nat /\ h \in 0..MaxHeight /\ d \in 0..1 /\ alt = h + d
  BY <1>2, <1>3, <1>5, HeightAssumption
<1>6. PICK p : p = PhaseUpdate(alt, h, tof, dh)
  OBVIOUS
<1>7. ~Armed(sys) => h = 0 /\ alt = d
  <2>1. ~Armed(sys) => h = 0
    BY <1>3, AirStep
  <2> QED
    BY <1>14, <2>1
<1>8. Armed(sys) /\ fp.tof /\ ~tof => dh = 0
  BY <1>1 DEF VerticalStep
<1>9. /\ fp' = [p EXCEPT !.up = @ % Debounce, !.down = @ % Debounce]
      /\ sys' = CASE p.up = Debounce -> "IN_AIR"
                  [] p.down = Debounce -> "ARMED"
                  [] OTHER -> sys
  <2>1. tof = (e # "tof lost" /\ height <= TofBand)
    BY <1>1, Zenon
  <2>2. p = PhaseUpdate(height + dh + drift', height + dh, e # "tof lost" /\ height <= TofBand, dh)
    BY <1>2, <1>3, <1>5, <1>6, <2>1, Zenon
  <2> QED
    BY <2>2, Zenon DEF VerticalStep
<1>10. hov'.wasArmed = Armed(sys)
  BY HoverStep
<1>11. /\ fp \in FpType /\ PhaseInv /\ height \in 0..MaxHeight /\ drift \in 0..1
       /\ sys \in {"STANDBY", "ARMED", "IN_AIR", "FAILSAFE"}
  BY DEF HeightInv, TypeOK, FpType
<1>12. CASE ~Armed(sys)
  <2>1. PICK ref : ref = IF ~fp.haveRef \/ dh = 0 THEN alt ELSE fp.ref
    OBVIOUS
  <2>2. PICK tofRef : tofRef = IF tof /\ (~fp.haveTof \/ dh = 0) THEN h ELSE fp.tofRef
    OBVIOUS
  <2>3. PICK haveTof \in BOOLEAN : haveTof <=> fp.haveTof \/ tof
    OBVIOUS
  <2>4. fp.haveTof \in BOOLEAN
    BY <1>11 DEF FpType
  <2>5. ref \in 0..1 /\ tofRef = 0
    BY <1>2, <1>7, <1>11, <1>12, <2>1, <2>2 DEF PhaseInv
  <2>6. haveTof = (fp.haveTof \/ tof)
    BY <2>3, <2>4, Zenon
  <2>7. p = [fp EXCEPT !.ref = ref, !.haveRef = TRUE, !.tofRef = tofRef, !.haveTof = haveTof,
                       !.tof = FALSE, !.agl = 0, !.powered = FALSE, !.up = 0, !.down = 0]
    BY <1>6, <1>12, <2>1, <2>2, <2>6 DEF PhaseUpdate, Grounded
  <2>8. p = [ref |-> ref, haveRef |-> TRUE, tofRef |-> tofRef, haveTof |-> haveTof, agl |-> 0,
             tof |-> FALSE, powered |-> FALSE, up |-> 0, down |-> 0]
    BY <1>11, <2>7 DEF FpType
  <2>9. fp' = p /\ sys' = sys
    <3>1. p.up = 0 /\ p.down = 0 /\ 0 % Debounce = 0 /\ Debounce # 0
      BY <2>8, HeightAssumption, Debounced
    <3>2. [p EXCEPT !.up = @ % Debounce, !.down = @ % Debounce] = p
      BY <2>8, <3>1
    <3> QED
      BY <1>9, <3>1, <3>2
  <2>10. fp' \in FpType
    <3>1. /\ ref \in Alt /\ 0 \in Alt /\ tofRef \in 0..MaxHeight /\ 0 \in 0..(Debounce - 1)
      BY <2>5, HeightAssumption DEF Alt
    <3> QED
      BY <2>3, <2>8, <2>9, <3>1 DEF FpType
  <2>11. PhaseInv'
    BY <1>10, <1>12, <2>5, <2>8, <2>9 DEF PhaseInv
  <2> QED
    BY <1>12, <2>9, <2>10, <2>11
<1>13. CASE Armed(sys)
  <2>1. PICK useTof \in BOOLEAN : useTof <=> tof /\ fp.haveTof
    OBVIOUS
  <2>2. PICK ref : ref = IF fp.tof /\ ~useTof /\ fp.haveRef THEN alt - fp.agl ELSE fp.ref
    OBVIOUS
  <2>3. PICK agl : agl = IF useTof THEN h - fp.tofRef ELSE IF fp.haveRef THEN alt - ref ELSE 0
    OBVIOUS
  <2>4. PICK powered \in BOOLEAN : powered <=> fp.powered \/ thr > ThrMin
    OBVIOUS
  <2>5. PICK up : up = IF sys = "ARMED" /\ agl > (IF useTof THEN 0 ELSE 1) /\ dh > 0 /\ powered
                       THEN fp.up + 1 ELSE 0
    OBVIOUS
  <2>6. PICK down : down = IF sys = "IN_AIR" /\ agl < 1 /\ dh = 0 /\ thr <= ThrMin
                           THEN fp.down + 1 ELSE 0
    OBVIOUS
  <2>7. /\ fp.haveTof \in BOOLEAN /\ fp.haveRef \in BOOLEAN /\ fp.powered \in BOOLEAN
        /\ fp.tof \in BOOLEAN
        /\ fp.up \in 0..(Debounce - 1) /\ fp.down \in 0..(Debounce - 1)
    BY <1>11 DEF FpType
  <2>8. useTof = (tof /\ fp.haveTof) /\ powered = (fp.powered \/ thr > ThrMin)
    BY <2>1, <2>4, <2>7, Zenon
  <2>9. p = [fp EXCEPT !.ref = ref, !.agl = agl, !.tof = useTof, !.powered = powered,
                       !.up = up, !.down = down]
    BY <1>6, <1>13, <2>2, <2>3, <2>5, <2>6, <2>8 DEF PhaseUpdate, Committed, GroundRef
  \* Whatever dropped out left the reference where the barometer now reads the ground.
  <2>10. /\ fp.tofRef = 0 /\ fp.ref \in 0..1 /\ (fp.haveTof => fp.haveRef)
         /\ fp.tof => fp.haveTof /\ fp.agl = height
    BY <1>11 DEF PhaseInv
  <2>11. ref \in 0..1
    <3>1. CASE fp.tof /\ ~useTof /\ fp.haveRef
      <4>1. dh = 0 /\ fp.agl = height
        BY <1>8, <1>13, <2>1, <2>10, <3>1
      <4>2. ref = d
        <5>1. h = height
          BY <1>3, <1>11, <1>14, <4>1
        <5>2. ref = (h + d) - h
          BY <1>5, <2>2, <3>1, <4>1, <5>1
        <5> QED
          BY <1>14, <5>2
      <4> QED
        BY <1>2, <4>2
    <3>2. CASE ~(fp.tof /\ ~useTof /\ fp.haveRef)
      BY <2>2, <2>10, <3>2
    <3> QED
      BY <3>1, <3>2
  <2>12. agl \in Alt
    <3>1. CASE useTof
      <4>1. agl = h - 0
        BY <2>3, <2>10, <3>1
      <4> QED
        BY <1>14, <4>1 DEF Alt
    <3>2. CASE ~useTof /\ fp.haveRef
      <4>1. agl = alt - ref
        BY <2>3, <3>2
      <4> QED
        BY <1>14, <2>11, <4>1 DEF Alt
    <3>3. CASE ~useTof /\ ~fp.haveRef
      BY <1>14, <2>3, <3>3 DEF Alt
    <3> QED
      BY <3>1, <3>2, <3>3
  <2>13. up \in 0..Debounce /\ down \in 0..Debounce /\ ~(up = Debounce /\ down = Debounce)
    BY <2>5, <2>6, <2>7, HeightAssumption
  <2>14. p = [ref |-> ref, haveRef |-> fp.haveRef, tofRef |-> fp.tofRef, haveTof |-> fp.haveTof,
              agl |-> agl, tof |-> useTof, powered |-> powered, up |-> up, down |-> down]
    BY <1>11, <2>9 DEF FpType
  <2>15. fp' = [ref |-> ref, haveRef |-> fp.haveRef, tofRef |-> fp.tofRef, haveTof |-> fp.haveTof,
                agl |-> agl, tof |-> useTof, powered |-> powered,
                up |-> up % Debounce, down |-> down % Debounce]
    BY <1>9, <2>14
  <2>16. fp' \in FpType
    <3>1. /\ ref \in Alt /\ fp.tofRef \in 0..MaxHeight
          /\ up % Debounce \in 0..(Debounce - 1) /\ down % Debounce \in 0..(Debounce - 1)
      BY <2>10, <2>11, <2>13, Debounced, HeightAssumption DEF Alt
    <3> QED
      BY <2>1, <2>4, <2>7, <2>12, <2>15, <3>1 DEF FpType
  <2>17. PhaseInv'
    <3>1. useTof => fp.haveTof /\ agl = h
      BY <1>3, <2>1, <2>3, <2>10
    <3>2. ~useTof => agl = IF fp.haveRef THEN alt - ref ELSE 0
      BY <2>3
    <3>3. /\ fp'.tofRef = 0 /\ fp'.ref = ref /\ fp'.haveTof = fp.haveTof
          /\ fp'.haveRef = fp.haveRef /\ fp'.tof = useTof /\ fp'.agl = agl
      BY <2>10, <2>15
    <3> QED
      BY <1>2, <1>3, <1>5, <1>10, <1>13, <2>10, <2>11, <3>1, <3>2, <3>3 DEF PhaseInv
  <2>18. sys' \in {sys, "IN_AIR", "ARMED"}
    <3>1. CASE p.up = Debounce
      BY <1>9, <2>13, <2>14, <3>1
    <3>2. CASE p.up # Debounce /\ p.down = Debounce
      BY <1>9, <3>2
    <3>3. CASE p.up # Debounce /\ p.down # Debounce
      BY <1>9, <3>3
    <3> QED
      BY <3>1, <3>2, <3>3
  <2>19. /\ fp'.haveRef = fp.haveRef
         /\ ~fp.tof => fp'.ref = fp.ref
         /\ fp.tof /\ ~fp'.tof => fp'.agl = fp.agl
    <3>1. ~fp.tof => ref = fp.ref
      BY <2>2
    <3>2. ASSUME fp.tof, ~useTof PROVE agl = fp.agl
      <4>1. fp.haveRef /\ ref = alt - fp.agl /\ agl = alt - ref
        BY <2>2, <2>3, <2>10, <3>2
      <4>2. alt \in Int /\ fp.agl \in Int
        BY <1>11, <1>14 DEF FpType, Alt
      <4> QED
        BY <4>1, <4>2
    <3> QED
      BY <2>15, <3>1, <3>2
  <2> QED
    BY <1>13, <2>16, <2>17, <2>18, <2>19
<1> QED
  BY <1>12, <1>13

\* The vertical task asks for a state only from an armed one.
LEMMA VerticalInv ==
    HeightInv /\ Vertical => HeightInv'
<1> SUFFICES ASSUME HeightInv, Vertical PROVE HeightInv'
  OBVIOUS
<1>1. PICK dh \in -MaxHeight..1, e \in Events : VerticalStep(dh, e)
  BY DEF Vertical
<1>2. /\ fp' \in FpType /\ PhaseInv'
      /\ sys' \in {sys, "IN_AIR", "ARMED"} /\ (sys' # sys => Armed(sys))
  BY <1>1, PhaseStep
<1>3. hov' \in HovType /\ HoverInv' /\ refused' \in BOOLEAN
  BY <1>1, HoverStep
<1>4. drift' \in 0..1 /\ height' \in 0..MaxHeight
  BY <1>1, AirStep
<1>5. /\ faults' \in 0..MaxFaults /\ due' = due \ {"vertical"}
      /\ UNCHANGED <<hc, rec, centre, thr, passed>>
  <2>1. EventCost(e) \in 0..1
    BY DEF EventCost, Cost
  <2>2. /\ Spend(EventCost(e)) /\ due' = due \ {"vertical"}
        /\ UNCHANGED <<hc, rec, centre, thr, passed>>
    BY <1>1 DEF VerticalStep
  <2> QED
    BY <2>1, <2>2, HeightAssumption DEF Spend, HeightInv, TypeOK
<1>6. vs' \in [valid : BOOLEAN, agl : Alt, range : 0..MaxHeight, tof : BOOLEAN,
               hover : 1..BaseMax, measured : BOOLEAN, unhealthy : BOOLEAN]
  <2>1. vs' = [valid |-> TRUE, agl |-> fp'.agl, range |-> height + dh,
               tof |-> (e # "tof lost" /\ height <= TofBand), hover |-> hov'.est,
               measured |-> hov'.measured, unhealthy |-> e = "unhealthy"]
    BY <1>1, Zenon DEF VerticalStep
  <2>2. PICK tof, unhealthy \in BOOLEAN : /\ tof = (e # "tof lost" /\ height <= TofBand)
                                          /\ unhealthy = (e = "unhealthy")
    BY Zenon
  <2>3. vs' = [valid |-> TRUE, agl |-> fp'.agl, range |-> height', tof |-> tof, hover |-> hov'.est,
               measured |-> hov'.measured, unhealthy |-> unhealthy]
    BY <1>1, <2>1, <2>2, AirStep, Zenon
  <2> QED
    BY <1>2, <1>3, <1>4, <2>2, <2>3 DEF FpType, HovType
<1>7. TypeOK'
  <2>1. /\ sys' \in {"STANDBY", "ARMED", "IN_AIR", "FAILSAFE"} /\ due' \subseteq Loops
        /\ UNCHANGED <<hc, rec, centre, thr, passed>>
    BY <1>2, <1>5 DEF HeightInv, TypeOK
  <2> QED
    BY <1>2, <1>3, <1>4, <1>5, <1>6, <2>1, Zenon
    DEF HeightInv, TypeOK, FpType, HovType, Engaged
<1>8. CentreInv'
  BY <1>2, <1>5 DEF HeightInv, CentreInv, Armed, Engaged
<1> QED
  BY <1>2, <1>3, <1>7, <1>8 DEF HeightInv

----------------------------------------------------------------------------
(* The RC task, and the theorems. *)

\* The RC task decides when both loops have run.
LEMMA RcInv ==
    HeightInv /\ (RcArm \/ RcDisarm) => HeightInv'
<1> SUFFICES ASSUME HeightInv, RcArm \/ RcDisarm PROVE HeightInv'
  OBVIOUS
<1>1. /\ sys' \in {"STANDBY", "ARMED", "IN_AIR", "FAILSAFE"} /\ due = {} /\ due' = Loops
      /\ passed' \in {passed, FALSE}
      /\ UNCHANGED <<height, drift, faults, fp, hov, vs, hc, rec, centre, thr, refused>>
  BY DEF RcArm, RcDisarm
<1>2. TypeOK'
  <2>1. due' \subseteq Loops
    BY <1>1
  <2>2. passed' \in BOOLEAN
    BY <1>1 DEF HeightInv, TypeOK
  <2> QED
    BY <1>1, <2>1, <2>2 DEF HeightInv, TypeOK, Engaged
<1>3. CentreInv'
  <2>1. CASE RcArm
    BY <1>1, <2>1 DEF RcArm, HeightInv, CentreInv, Armed, Engaged
  <2>2. CASE RcDisarm
    BY <1>1, <2>2 DEF RcDisarm, CentreInv, Armed, Loops
  <2> QED
    BY <2>1, <2>2
<1>4. HoverInv' /\ PhaseInv'
  BY <1>1 DEF HeightInv, HoverInv, PhaseInv
<1> QED
  BY <1>2, <1>3, <1>4 DEF HeightInv

\* Every step keeps the invariant.
LEMMA StepInv ==
    HeightInv /\ [Next]_vars => HeightInv'
<1>1. HeightInv /\ UNCHANGED vars => HeightInv'
  <2> SUFFICES ASSUME HeightInv, UNCHANGED vars PROVE HeightInv'
    OBVIOUS
  <2> USE DEF vars
  <2>1. TypeOK'
    BY DEF HeightInv, TypeOK, Engaged
  <2>2. CentreInv' /\ HoverInv' /\ PhaseInv'
    BY DEF HeightInv, CentreInv, HoverInv, PhaseInv, Armed, Engaged
  <2> QED
    BY <2>1, <2>2 DEF HeightInv
<1> QED
  BY <1>1, AngleInv, VerticalInv, RcInv DEF Next

\* The inductive invariant of the collective's two tasks.
THEOREM HeightInvariant == Spec => []HeightInv
  BY InitInv, StepInv, PTL DEF Spec

\* A switch left up starts nothing in the next flight, and the hover learnt in
\* one is stored at disarm (angle_controller.c, s_mode_seen_centre;
\* vertical_task.c, hover save), for every limit, debounce and number of faults.
THEOREM WhatOutlivesIsSafe == Spec => []VerticalSafe
<1>1. HeightInv => VerticalSafe
  BY DEF HeightInv, VerticalSafe, CentredBeforeAutoFlight, CentreInv, HoverKept, HoverInv
<1> QED
  BY <1>1, HeightInvariant, PTL

\* The collective is handed over near hover when the height mode stops flying,
\* and the recovery has the last word (height_controller.c, handback_arm;
\* angle_controller.c, upset recovery).
THEOREM TakenOverSafely == Spec => CollectiveHandled
<1> DEFINE Safe == Engaged(hc) /\ ~Engaged(hc') /\ sys = "IN_AIR" /\ rec' = 0 =>
                     /\ thr' >= Least(thr, hc.base)
                     /\ thr' <= hc.base \/ hc'.held = None
           Last == rec' # rec /\ rec' > 0 => thr' = HoverNow /\ ~Engaged(hc')
<1>1. HeightInv /\ [Next]_vars => [Safe]_vars /\ [Last]_vars
  <2> SUFFICES ASSUME HeightInv, Next PROVE Safe /\ Last
    OBVIOUS
  <2>1. CASE Angle
    <3>1. PICK mode \in Modes, pos \in Sticks, acro \in BOOLEAN,
               tilt \in {"level", "banked", "upset"}, pi \in PiOutputs :
                  AngleStep(mode, pos, tilt, acro, pi)
      BY <2>1 DEF Angle
    <3>2. /\ rec' > 0 => thr' = HoverNow /\ ~Engaged(hc')
          /\ Engaged(hc) /\ ~Engaged(hc') /\ sys = "IN_AIR" /\ rec' = 0 => Caught(hc, hc', thr')
      BY <3>1, AngleTick
    <3> QED
      BY <3>2 DEF Caught
  <2>2. CASE Vertical
    BY <2>2 DEF Vertical, VerticalStep, Engaged
  <2>3. CASE RcArm \/ RcDisarm
    BY <2>3 DEF RcArm, RcDisarm, Engaged
  <2> QED
    BY <2>1, <2>2, <2>3 DEF Next
<1> QED
  BY <1>1, HeightInvariant, PTL DEF Spec, CollectiveHandled, HandbackNearHover, RecoveryFinal

\* Height above ground moves with the aircraft and the barometer; only taking
\* the rangefinder up again may step it (flight_phase.c, the re-anchored
\* reference), for every drift and drop-out.
THEOREM AglMovesWithAircraft == Spec => AglContinuous
<1> DEFINE most == (IF height' = height THEN 0 ELSE 1) + (IF drift' = drift THEN 0 ELSE 1)
           Cont == hov.wasArmed /\ Armed(sys) /\ ~(fp'.tof /\ ~fp.tof) =>
                     fp'.agl - fp.agl \in -most..most
<1>1. HeightInv /\ [Next]_vars => [Cont]_vars
  <2> SUFFICES ASSUME HeightInv, Next, hov.wasArmed, Armed(sys), ~(fp'.tof /\ ~fp.tof)
               PROVE  fp'.agl - fp.agl \in -most..most
    OBVIOUS
  <2>1. /\ PhaseInv /\ fp.agl \in Int /\ fp.ref \in Int /\ height \in Int /\ drift \in Int
    <3>1. fp.ref \in Alt /\ fp.agl \in Alt /\ height \in 0..MaxHeight /\ drift \in 0..1
      BY DEF HeightInv, TypeOK
    <3>2. MaxHeight \in Nat
      BY HeightAssumption
    <3> QED
      BY <3>1, <3>2 DEF HeightInv, Alt
  <2>2. CASE Angle \/ RcArm \/ RcDisarm
    <3>1. UNCHANGED <<fp, height, drift>>
      BY <2>2 DEF Angle, AngleStep, RcArm, RcDisarm
    <3> QED
      BY <2>1, <3>1
  <2>3. CASE Vertical
    <3>1. PICK dh \in -MaxHeight..1, e \in Events : VerticalStep(dh, e)
      BY <2>3 DEF Vertical
    <3>2. /\ height' = height + dh /\ drift' - drift \in -1..1 /\ drift' \in Int
          /\ dh \in -1..1
      <4>1. height' = height + dh /\ drift' - drift \in -1..1 /\ drift' \in 0..1
        BY <3>1, AirStep
      <4>2. dh \in -MaxHeight..1 /\ dh >= -1
        BY <3>1 DEF VerticalStep
      <4> QED
        BY <4>1, <4>2, HeightAssumption
    <3>3. /\ PhaseInv' /\ hov'.wasArmed /\ fp'.haveRef = fp.haveRef
          /\ ~fp.tof => fp'.ref = fp.ref
          /\ fp.tof /\ ~fp'.tof => fp'.agl = fp.agl
      BY <3>1, HoverStep, PhaseStep
    <3>4. most \in 0..2 /\ dh \in -1..1 /\ (dh # 0 => most >= 1)
          /\ (drift' # drift => most >= IF dh = 0 THEN 1 ELSE 2)
      BY <2>1, <3>2
    <3>5. CASE fp.tof /\ ~fp'.tof
      BY <2>1, <3>3, <3>4, <3>5
    <3>6. CASE fp.tof /\ fp'.tof
      <4>1. fp.agl = height /\ fp'.agl = height'
        BY <2>1, <3>3, <3>6 DEF PhaseInv
      <4> QED
        BY <2>1, <3>2, <3>4, <4>1
    <3>7. CASE ~fp.tof /\ ~fp'.tof
      <4>1. CASE fp.haveRef
        <5>1. fp.agl = height + drift - fp.ref /\ fp'.agl = height' + drift' - fp.ref
          BY <2>1, <3>3, <3>7, <4>1 DEF PhaseInv
        <5>2. fp'.agl - fp.agl = dh + (drift' - drift)
          <6> HIDE DEF most
          <6> QED
            BY <2>1, <3>2, <5>1
        <5>3. drift' - drift \in Int /\ (drift' = drift => drift' - drift = 0)
          <6>1. drift \in Int /\ drift' \in Int
            BY <2>1, <3>2
          <6>2. drift' = drift => drift' - drift = 0
            BY <6>1
          <6>3. drift' - drift \in Int
            BY <6>1
          <6> QED
            BY <6>2, <6>3
        <5> HIDE DEF most
        <5> QED
          BY <3>2, <3>4, <5>2, <5>3
      <4>2. CASE ~fp.haveRef
        <5>1. fp.agl = 0 /\ fp'.agl = 0
          BY <2>1, <3>3, <3>7, <4>2 DEF PhaseInv
        <5> QED
          BY <3>4, <5>1
      <4> QED
        BY <4>1, <4>2
    <3> QED
      BY <3>5, <3>6, <3>7
  <2> QED
    BY <2>2, <2>3 DEF Next
<1> QED
  BY <1>1, HeightInvariant, PTL DEF Spec, AglContinuous
=============================================================================
