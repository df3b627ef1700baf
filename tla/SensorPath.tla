----------------------------- MODULE SensorPath -----------------------------
(***************************************************************************)
(* From a sensor reading to an estimate: the fan-out of bmx160_process_data *)
(* (or of the simulator's host_imu_feeder.c), the topics of hub/hub.c, and *)
(* the two estimation tasks, attitude_task.c and vertical_task.c.          *)
(*                                                                         *)
(* Every queued topic is a bus pipe of a few slots that drops its oldest   *)
(* message when full; baro, range and mag are latest-value slots; the      *)
(* vertical state is one slot with a sequence number.  All of the tasks    *)
(* derive time from the acquisition stamps, which are cycle counts that    *)
(* wrap, so time lost or invented by an overwritten message, a stall or a  *)
(* wrap is what can go wrong here.                                         *)
(*                                                                         *)
(* Time is counted in samples: now is the number of the last one, and its  *)
(* stamp is now modulo Wrap.  Measured values are left out; a magnetometer *)
(* reading is a direction, and two directions pass the disturbance gate    *)
(* when they are neighbours.                                               *)
(***************************************************************************)
EXTENDS Integers, Sequences, FiniteSets

CONSTANTS
    Platforms,   \* subset of {"target", "host"}: who feeds the hub
    Slots,       \* slots of each pipe (six, telemetry and reports four)
    Wrap,        \* the cycle counter's period, in samples (2^32 cycles)
    DtMax,       \* ceiling of vayu_dt_from_cycles, in samples (0.1 s)
    Decim,       \* ATTITUDE_DECIM
    PerfEvery,   \* estimator steps per est.perf report
    RejectLimit, \* EST_DEGRADED_TIMEOUT_MS, in samples
    StaleSteps,  \* VERT_TOF_STALE_STEPS
    MaxGap,      \* VERT_TOF_MAX_GAP_S, in samples
    Dirs,        \* directions of the magnetic field, a range of integers
    Polled,      \* the polled topics whose reader is running
    MaxSamples,  \* bound: IMU samples considered
    MaxEvents   \* bound: slow readings and calibrations considered

\* Topics whose reader polls, with counters; the ones a task blocks on; the rest.
Counted == {"imu.telemetry", "imu.control", "att.telemetry", "att.control"}
Waited  == {"imu.attitude", "vert.input"}
Topics  == Counted \union Waited \union {"est.perf"}

ASSUME SensorConstants ==
    /\ Platforms \subseteq {"target", "host"} /\ Platforms # {}
    /\ Slots \in [Topics -> Nat \ {0}] /\ Decim \in Nat \ {0} /\ PerfEvery \in Nat \ {0}
    /\ Wrap \in Nat /\ DtMax \in Nat \ {0} /\ DtMax < Wrap
    /\ RejectLimit \in Nat /\ StaleSteps \in Nat \ {0} /\ MaxGap \in Nat
    /\ Dirs \subseteq Nat /\ MaxSamples \in Nat /\ MaxEvents \in Nat
    /\ Polled \subseteq Counted \union {"est.perf"}

VARIABLES
    platform, \* the producer of this run
    now,      \* samples acquired
    pipe,     \* the bus topics, with the counters of hub_stat_t
    mag,      \* the compass's latest-value slot
    baro, range,  \* theirs: the number of the reading they hold, 0 when empty
    rhallOk,  \* the resistance held in the receive buffer is in its range
    lastMag,  \* last_mag of the driver, None until a reading is accepted
    calib,    \* _calib_active
    health,   \* s_in_rejection, s_rejection_start_ms and s_degraded
    badRun,   \* history: rejected samples in a row
    events,   \* readings of the slow sensors and calibrations so far
    att,      \* locals of attitude_task
    vert,     \* locals of vertical_estimator_task
    vs,       \* vertical.state: _vs_latest, _vs_seq, _vs_seq_popped
    hist      \* history: what else the properties compare the state with

driver == <<mag, lastMag, rhallOk, calib, health, badRun>>
slowVars == <<baro, range, events>>
tasks  == <<att, vert, vs, hist>>
vars   == <<platform, now, pipe, driver, slowVars, tasks>>

None == -1

\* The most that sixteen bits can say.
U16Max == 65535

\* hub_topic / hub_topic_sub: an empty pipe; gone counts overwritten messages
\* the reader has not been told of yet.
NewTopic == [q |-> <<>>, gone |-> 0, published |-> 0, popped |-> 0,
             missed |-> 0, evicted |-> 0, peak |-> 0]
EmptyMag == [valid |-> FALSE, dir |-> None]

Init ==
    /\ platform \in Platforms /\ now = 0
    /\ pipe = [t \in Topics |-> NewTopic]
    /\ mag = EmptyMag
    /\ baro = 0 /\ range = 0
    /\ lastMag = None /\ rhallOk = FALSE /\ calib = FALSE
    /\ badRun = 0 /\ events = 0
    /\ health = [rejecting |-> FALSE, since |-> 0, degraded |-> FALSE]
    /\ att = [prev |-> 0, n |-> 0, dtSum |-> 0, out |-> 0, perf |-> 0]
    /\ vert = [seeded |-> FALSE, baroStamp |-> None, tofStamp |-> None, tofAge |-> StaleSteps,
               tofDt |-> 0, havePrev |-> FALSE]
    /\ vs = [seq |-> 0, popped |-> 0, t |-> 0, tofValid |-> FALSE, valid |-> FALSE]
    /\ hist = [cut |-> FALSE, start |-> 0, attTotal |-> 0, vertTotal |-> 0, vertT |-> 0,
               corrections |-> 0,
               sent |-> 0, pair |-> <<>>, fed |-> 0, hole |-> FALSE, seen |-> 0]

-----------------------------------------------------------------------------
(* hub.c *)

\* hub_stat_pub.  live is a uint32 and peak a uint16 in the code.
StatPublished(p, slots) ==
    LET pub == p.published + 1
        ev  == IF pub - p.popped > slots THEN p.evicted + 1 ELSE p.evicted
        live == pub - p.popped - ev
    IN  [p EXCEPT !.published = pub, !.evicted = ev,
                  !.peak = IF live > @ \/ live < 0 THEN live % (U16Max + 1) ELSE @]

\* A successful v_bus_pop, which also reports how many messages were
\* overwritten since the last one, and hub_stat_pop.
StatPopped(p) ==
    [p EXCEPT !.q = Tail(@), !.popped = @ + 1, !.missed = @ + p.gone, !.gone = 0]

\* v_bus_publish on an overwriting pipe.
Stored(p, m, slots) ==
    IF Len(p.q) < slots THEN [p EXCEPT !.q = Append(@, m)]
                        ELSE [p EXCEPT !.q = Append(Tail(@), m), !.gone = @ + 1]

\* The push accessors, for a set of topics that get the same message.  Publishing
\* and counting are one step here, two in the code; so are Popped and its count.
Pushed(pp, ts, m) ==
    [t \in Topics |-> IF t \notin ts THEN pp[t]
                      ELSE IF t \in Counted THEN StatPublished(Stored(pp[t], m, Slots[t]), Slots[t])
                      ELSE Stored(pp[t], m, Slots[t])]

\* The pop accessors of the counted topics, and of est.perf, which asks for no
\* missed count.
Popped(pp, t) ==
    [pp EXCEPT ![t] = IF t \in Counted THEN StatPopped(pp[t])
                                       ELSE [pp[t] EXCEPT !.q = Tail(@), !.gone = 0]]

\* The pop of the task that waits on imu.attitude or vert.input: _imu_attitude_missed
\* and _vert_input_missed.
Received(t) == Head(pipe[t].q)
Taken(t) == [pipe EXCEPT ![t].q = Tail(@), ![t].missed = @ + pipe[t].gone, ![t].gone = 0]

\* imu_buffer_perf_fifos: a row of the FIFOS report.
PerfRow(t) ==
    [peak |-> pipe[t].peak, capacity |-> Slots[t],
     drops |-> IF pipe[t].evicted > U16Max THEN U16Max ELSE pipe[t].evicted]

\* A poll-side reader: the rate loop, the angle loop or the telemetry task.
Poll(t) ==
    /\ t \in Polled /\ pipe[t].q # <<>>
    /\ pipe' = Popped(pipe, t)
    /\ UNCHANGED <<platform, now, driver, slowVars, tasks>>

\* vertical_state_queue_push: overwrite the slot and move its sequence number.
VertPush(t, tofValid, valid) ==
    vs' = [seq |-> vs.seq + 1, popped |-> vs.popped, t |-> t, tofValid |-> tofValid, valid |-> valid]

VertPop_Repeats ==
    /\ vs.seq # 0
    /\ vs' = [vs EXCEPT !.popped = vs.seq]
    /\ hist' = [hist EXCEPT !.sent = @ + 1]
    /\ UNCHANGED <<platform, now, pipe, driver, slowVars, att, vert>>

\* vertical_state_queue_pop by the telemetry task: only what it has not sent.
VertPop ==
    /\ vs.seq # vs.popped
    /\ vs' = [vs EXCEPT !.popped = vs.seq]
    /\ hist' = [hist EXCEPT !.sent = @ + 1]
    /\ UNCHANGED <<platform, now, pipe, driver, slowVars, att, vert>>

-----------------------------------------------------------------------------
(* sys/clock.c *)

DtFromCycles_Signed(a, b) ==
    LET d == (a % Wrap) - (b % Wrap)
    IN  IF d < 1 THEN 1 ELSE IF d > DtMax THEN DtMax ELSE d

\* vayu_dt_from_cycles: the wrap-safe difference of two stamps, clamped.
DtFromCycles(a, b) ==
    LET d == ((a % Wrap) - (b % Wrap)) % Wrap
    IN  IF d < 1 THEN 1 ELSE IF d > DtMax THEN DtMax ELSE d

-----------------------------------------------------------------------------
(* The drivers *)

Happens(n) == /\ events + n <= MaxEvents
                /\ events' = events + n

Neighbours(a, b) == a - b \in {-1, 0, 1}

\* The gates of bmx160_process_mag: resistance, magnitude, and no jump away
\* from the last accepted reading.
MagAccepts(dir, ok) == ok /\ (lastMag = None \/ Neighbours(dir, lastMag))

\* bmx160_process_mag and mag_publish: a rejected reading is still published,
\* marked invalid, and is not remembered.
ProcessMag(dir, ok) ==
    /\ mag' = [valid |-> MagAccepts(dir, ok), dir |-> dir]
    /\ lastMag' = IF MagAccepts(dir, ok) THEN dir ELSE lastMag

\* estimator_mark_sample.  (since is 0 while nothing is rejected: the code
\* leaves it, and never reads it then.)
MarkSample(h, valid, t) ==
    IF valid THEN [rejecting |-> FALSE, since |-> 0, degraded |-> FALSE]
    ELSE IF ~h.rejecting THEN [h EXCEPT !.rejecting = TRUE, !.since = t]
    ELSE IF t - h.since > RejectLimit THEN [h EXCEPT !.degraded = TRUE]
    ELSE h

\* bmx160_process_data: one inertial sample, with a fresh magnetometer reading
\* or none.  The hall resistance is decoded from the bytes held, fresh or not.
\* While a calibration runs, the sample goes to its ring instead of the
\* estimator.
Sample ==
    /\ platform = "target" /\ now < MaxSamples
    /\ now' = now + 1
    /\ \/ UNCHANGED <<mag, lastMag, rhallOk>> /\ Happens(0)
       \/ \E dir \in Dirs, inBand \in BOOLEAN :
            /\ Happens(1)
            /\ rhallOk' \in BOOLEAN
            /\ ~rhallOk' => inBand
            /\ ProcessMag(dir, rhallOk' /\ inBand)
    /\ IF calib
         THEN /\ pipe' = Pushed(pipe, {"imu.telemetry", "imu.control"}, now + 1)
              /\ UNCHANGED <<health, badRun>>
         ELSE /\ pipe' = Pushed(pipe, {"imu.telemetry", "imu.control", "imu.attitude"}, now + 1)
              /\ health' = MarkSample(health, rhallOk', now + 1)
              /\ badRun' = IF rhallOk' THEN 0 ELSE badRun + 1
    /\ UNCHANGED <<platform, baro, range, calib, tasks>>

\* host_imu_feeder_pump: the simulator's frame, its magnetometer reading
\* trusted as sent; no health mark, no calibration.
HostSample ==
    /\ platform = "host" /\ now < MaxSamples
    /\ now' = now + 1
    /\ \E dir \in Dirs, n \in {0, 1} :
        /\ n = 0 => dir = mag.dir
        /\ Happens(n)
        /\ mag' = [valid |-> TRUE, dir |-> dir]
    /\ pipe' = Pushed(pipe, {"imu.control", "imu.telemetry", "imu.attitude"}, now + 1)
    /\ UNCHANGED <<platform, baro, range, lastMag, rhallOk, calib, health, badRun, tasks>>

\* baro_publish by bme280_publish, always valid; range_publish for a reading the
\* device vouches for and that lies in its window, no other is published.
BaroReading ==
    /\ Happens(1)
    /\ baro' = baro + 1
    /\ UNCHANGED <<platform, now, pipe, driver, range, tasks>>

RangeReading ==
    /\ Happens(1)
    /\ range' = range + 1
    /\ UNCHANGED <<platform, now, pipe, driver, baro, tasks>>

\* calibration_task takes the sensor and gives it back.
CalibSwitch ==
    /\ platform = "target" /\ now < MaxSamples
    /\ calib' = ~calib
    /\ Happens(IF calib THEN 0 ELSE 1)
    /\ UNCHANGED <<platform, now, pipe, mag, lastMag, rhallOk, health, badRun, baro, range, tasks>>

-----------------------------------------------------------------------------
(* attitude_task.  A wait that times out after ATTITUDE_MAX_PERIOD_MS, or a *)
(* wake that finds the queue empty, goes round the loop: nothing changes.   *)

\* dt of a sample; a gap beyond the ceiling is cut, on purpose.
AttDt(t) == IF att.prev = 0 THEN 1 ELSE DtFromCycles(t, att.prev)
Cut(t) == att.prev # 0 /\ t - att.prev > DtMax

\* A sample before the estimator step is due: only its dt counts.
AttitudeAccumulate ==
    /\ pipe["imu.attitude"].q # <<>> /\ att.n + 1 < Decim
    /\ LET t == Received("imu.attitude") IN
        /\ att' = [att EXCEPT !.prev = t, !.n = @ + 1, !.dtSum = @ + AttDt(t)]
        /\ hist' = [hist EXCEPT !.cut = @ \/ Cut(t),
                                !.start = IF att.prev = 0 THEN t - 1 ELSE @]
    /\ pipe' = Taken("imu.attitude")
    /\ UNCHANGED <<platform, now, driver, slowVars, vert, vs>>

\* What predict integrates over: the whole decimation window.
StepDt(t) == att.dtSum + AttDt(t)

VertInput_ReadTime(t) == [t |-> now, dt |-> StepDt(t)]

\* The triple handed to the vertical task, stamped with the sample's own time.
VertInput(t) == [t |-> t, dt |-> StepDt(t)]

\* The estimator step: fuse the sample, report the cost once per PerfEvery
\* steps, publish the estimate three ways, and run the safety step (modelled
\* in FlightState).
AttitudeStep ==
    /\ pipe["imu.attitude"].q # <<>> /\ att.n + 1 = Decim
    /\ LET t     == Received("imu.attitude")
           due   == att.perf + 1 = PerfEvery
           read  == Taken("imu.attitude")
           perf  == IF due THEN Pushed(read, {"est.perf"}, t) ELSE read
           euler == Pushed(perf, {"att.telemetry", "att.control"}, t)
       IN  /\ pipe' = Pushed(euler, {"vert.input"}, VertInput(t))
           /\ att' = [prev |-> t, n |-> 0, dtSum |-> 0, out |-> t, perf |-> IF due THEN 0 ELSE att.perf + 1]
           /\ hist' = [hist EXCEPT !.cut = @ \/ Cut(t),
                                   !.start = IF att.prev = 0 THEN t - 1 ELSE @,
                                   !.attTotal = @ + StepDt(t)]
    /\ UNCHANGED <<platform, now, driver, slowVars, vert, vs>>

-----------------------------------------------------------------------------
(* vertical_estimator_task; a wait that times out changes nothing here too. *)

\* A barometer reading is folded in once, when its stamp is new.
BaroDue == baro # 0 /\ vert.baroStamp # baro

\* The rangefinder's freshness: a new stamp restarts its age.
RangeSeen  == range # 0
RangeFresh == RangeSeen /\ vert.tofStamp # range
TofAge == IF ~RangeSeen THEN vert.tofAge
          ELSE IF RangeFresh THEN 0
          ELSE IF vert.tofAge < StaleSteps THEN vert.tofAge + 1 ELSE vert.tofAge

Chained_AcrossGap(fed, tofValid, seeded, dt, gateOk) ==
    IF fed THEN (IF ~seeded \/ dt > MaxGap \/ ~vert.havePrev THEN seeded ELSE gateOk)
    ELSE vert.havePrev

\* tof_have_prev after vert_est_correct_tof (the first reading of a pair, or a
\* base for the next one; dropped on an impossible velocity) or vert_est_tof_gap.
Chained(fed, tofValid, seeded, dt, gateOk) ==
    IF fed THEN (IF ~seeded \/ dt > MaxGap \/ ~vert.havePrev THEN seeded ELSE gateOk)
    ELSE IF tofValid THEN vert.havePrev ELSE FALSE

\* One turn: predict over dt, baro, range gate (tofValid: a live reading, the
\* craft level and the reading in range), range aiding of the accelerometer
\* bias, publish.  The flight phase and the hover estimate of the same turn are
\* modelled in VerticalLoop.
VerticalTurn(tofValid, velOk) ==
    LET in     == Received("vert.input")
        seeded == IF BaroDue THEN TRUE ELSE vert.seeded
        fed    == tofValid /\ RangeFresh
        tofDt  == vert.tofDt + in.dt
        paired == fed /\ seeded /\ tofDt <= MaxGap /\ vert.havePrev
    IN  /\ ~paired => velOk
        /\ vert' = [seeded |-> seeded,
                    baroStamp |-> IF BaroDue THEN baro ELSE vert.baroStamp,
                    tofStamp |-> IF RangeFresh THEN range ELSE vert.tofStamp,
                    tofAge |-> TofAge,
                    tofDt |-> IF fed THEN 0 ELSE tofDt,
                    havePrev |-> Chained(fed, tofValid, seeded, tofDt, velOk)]
        /\ VertPush(in.t, tofValid, seeded)
        /\ hist' = [hist EXCEPT
             !.vertTotal = @ + in.dt, !.vertT = in.t,
             !.corrections = IF BaroDue THEN @ + 1 ELSE @,
             !.pair = IF paired THEN <<[dt |-> tofDt, real |-> in.t - hist.fed, hole |-> hist.hole]>> ELSE <<>>,
             !.fed = IF fed THEN in.t ELSE @,
             !.hole = IF fed THEN FALSE ELSE IF tofValid THEN hist.hole ELSE TRUE,
             !.seen = IF RangeFresh THEN 0 ELSE IF @ < StaleSteps THEN @ + 1 ELSE @]

VerticalStep ==
    /\ pipe["vert.input"].q # <<>>
    /\ \E tofValid, velOk \in BOOLEAN :
        /\ tofValid => RangeSeen /\ TofAge < StaleSteps
        /\ VerticalTurn(tofValid, velOk)
    /\ pipe' = Taken("vert.input")
    /\ UNCHANGED <<platform, now, driver, slowVars, att>>

-----------------------------------------------------------------------------
Next == \/ Sample \/ HostSample \/ BaroReading \/ RangeReading \/ CalibSwitch
        \/ AttitudeAccumulate \/ AttitudeStep \/ VerticalStep \/ VertPop
        \/ \E t \in Polled : Poll(t)

Spec == Init /\ [][Next]_vars

-----------------------------------------------------------------------------
(***************************************************************************)
(* Properties.                                                             *)
(***************************************************************************)

\* The state stays in its ranges; every pipe holds at most its slots, in the
\* order the messages were published.
TypeOK ==
    /\ platform \in Platforms /\ now \in 0..MaxSamples
    /\ \A t \in Topics : /\ Len(pipe[t].q) <= Slots[t]
                          /\ pipe[t].peak <= U16Max
    /\ mag.dir \in Dirs \union {None} /\ lastMag \in Dirs \union {None}
    /\ calib \in BOOLEAN /\ health.degraded \in BOOLEAN
    /\ att.n \in 0..(Decim - 1) /\ att.perf \in 0..(PerfEvery - 1)
    /\ vert.tofAge \in 0..StaleSteps /\ vs.popped \in 0..vs.seq

\* attitude_task integrates exactly the time its samples span, however many
\* were overwritten before it read them and wherever the counter wrapped,
\* unless a gap exceeded the ceiling of vayu_dt_from_cycles.
AttitudeTimeExact ==
    ~hist.cut => hist.attTotal + att.dtSum = att.prev - hist.start

\* The vertical estimator integrates exactly that time too, as long as no
\* vert.input message was overwritten: an overwritten one takes its dt along.
VerticalTimeExact ==
    ~hist.cut /\ pipe["vert.input"].missed = 0 => hist.vertTotal = hist.vertT - (IF hist.vertT = 0 THEN 0 ELSE hist.start)

\* A barometer reading corrects the filter at most once, however often the
\* latest-value slot is read.
BaroUsedOnce == hist.corrections <= baro

\* The velocity fed to the bias state is the difference of two consecutive
\* trusted range readings, over the time that lay between them.
RangePairHonest ==
    \A p \in {hist.pair[i] : i \in DOMAIN hist.pair} :
        /\ ~p.hole
        /\ ~hist.cut /\ pipe["vert.input"].missed = 0 => p.dt = p.real

\* A rangefinder that stopped publishing is trusted for fewer than StaleSteps
\* turns of the vertical task.
DeadRangeDropped == vs.tofValid => hist.seen < StaleSteps

\* Telemetry never sends the same vertical state twice: a stalled estimator
\* shows as a stream that stops.
StalledStreamStops == hist.sent <= vs.seq

\* The drop counter of the FIFOS report never hides a loss: it is at least
\* what the reader was told it missed plus what it is still to be told, up to
\* the 65535 its sixteen bits can say.
DropsNeverHidden ==
    \A t \in Counted :
        LET lost == pipe[t].missed + pipe[t].gone
        IN  PerfRow(t).drops >= IF lost > U16Max THEN U16Max ELSE lost

\* EST-MAH-002: samples rejected for longer than the limit raise the flag at
\* the next one, whatever a calibration did to the sample stream.
DegradedOnTime == badRun > RejectLimit + 1 => health.degraded

\* The reference of the disturbance gate moves only to a neighbouring
\* direction, whatever was rejected in between.
MagReferenceContinuous ==
    [][lastMag' = lastMag \/ lastMag = None \/ Neighbours(lastMag, lastMag')]_vars

\* Whatever is overwritten on the way, the three stages see the samples in
\* acquisition order, none ahead of the stage that feeds it.
Flow == INSTANCE SampleFlow
            WITH acquired <- now, estimated <- att.out, vertical <- vs.t
InOrder == Flow!Spec

\* No task loses or invents time across dropped samples, stalls, diversions and
\* wraps of the stamp.
TimeExact == AttitudeTimeExact /\ VerticalTimeExact /\ DegradedOnTime

\* The slow sensors are used for what they are: each baro reading once, ranges
\* as consecutive pairs and only while alive, the field without a jump.
ReadingsHonest ==
    /\ [](BaroUsedOnce /\ RangePairHonest /\ DeadRangeDropped)
    /\ MagReferenceContinuous

\* A reader of the hub sees a stalled stream stop and a dropped message counted.
StreamHonest == TypeOK /\ StalledStreamStops /\ DropsNeverHidden
=============================================================================
