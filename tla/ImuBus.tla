------------------------------- MODULE ImuBus -------------------------------
(***************************************************************************)
(* The sensor bus of the flight controller: i2c_manager.c, the acquisition *)
(* chain of driver/sensor/bmx160.c and the two drivers that ride along on  *)
(* it (bme280.c, vl53l0x.c), brought up by sensor/sensor.c.                *)
(*                                                                         *)
(* One task, imu_read (bmx160_initiate_read), owns the bus at run time. It *)
(* starts a DMA burst and sleeps; the completion interrupt stores the      *)
(* bytes, picks the next operation and gives ready_sema, which wakes the   *)
(* task again.  The chain is thus one token that is either in the          *)
(* semaphore, in the task or on the bus; when it gets lost the task's own  *)
(* watchdog resets the bus and starts a new one.  Interrupts preempt the   *)
(* task between any two of its steps, and a raised interrupt is served     *)
(* before a task runs again.                                               *)
(***************************************************************************)
EXTENDS Integers, Sequences, FiniteSets, SequencesExt

CONSTANTS
    Rides,        \* sensor_rides(): the ride-along devices in the linker's order
    EveryN,       \* every_n of each device, in slots
    SlotWrap,     \* ride_slot is kept modulo this common multiple of the periods
    SlowEvery,    \* a FAST burst in this many is followed by the slow chain (13)
    StallTimeouts,\* ready_sema timeouts (2 ms each) until the watchdog acts
    ErrLimit,     \* consecutive acquire failures until read_async recovers (100)
    SemaMax,      \* capacity of ready_sema (10)
    MaxFaults     \* bound: bus faults (lost, late or refused bursts) considered

ASSUME BusConstants ==
    /\ Rides \in Seq(STRING) /\ IsInjective(Rides) /\ SlotWrap \in Nat \ {0}
    /\ EveryN \in [ToSet(Rides) -> 1..SlotWrap]
    /\ \A d \in ToSet(Rides) : SlotWrap % EveryN[d] = 0
    /\ SlowEvery \in Nat \ {0} /\ StallTimeouts \in Nat
    /\ ErrLimit \in Nat /\ SemaMax \in Nat \ {0}
    /\ MaxFaults \in Nat

VARIABLES
    boot,     \* sensor kinds still to be probed, in order
    imuUp,    \* bmx160_init succeeded: ready_sema exists
    present,  \* the devices whose _initialized flag is set
    window,   \* BMM150 register the IMU's automatic burst starts at
    lost,     \* the last MAG_IF_1 write of bmx160_set_mag_conf was lost
    pins,     \* "i2c" (alternate function) or "gpio" (after a bus-clear)
    busy,     \* _bus_busy
    trans,    \* _current_trans: "BLANK" or the operation it is BUSY with
    dma,      \* the burst the peripheral is executing, "NONE" when idle
    late,     \* that burst outlasts the watchdog (a slave stretches the clock)
    faults,   \* bus faults so far
    rx,       \* whose bytes _rx_data holds
    irq,      \* completion interrupts raised and not served
    errs,     \* _consecutive_errors
    buf,      \* whose bytes each section of _bmx_dma_rx_buffer_double holds
    nextOp,   \* _next_op
    nextRide, \* _next_ride
    lastOp,   \* _last_op
    active,   \* _active_ride
    slow,     \* slow_counter modulo SlowEvery
    slot,     \* ride_slot modulo SlotWrap
    magFresh, \* _mag_fresh
    ready,    \* count of ready_sema
    pc,       \* where imu_read stands
    op,       \* the operation it is starting
    quiet,    \* timeouts since last_tick, at most StallTimeouts
    collided, \* a watchdog restart met a completion it had given up on
    fresh,    \* _raw_fresh of each ride-along driver
    decode    \* its decode task: "idle", "copying", or "mixed" (ISR wrote mid-copy)

bootVars  == <<boot, imuUp, present, window, lost>>
busVars   == <<pins, busy, trans, dma, late, faults, rx, irq, errs>>
isrVars   == <<buf, nextOp, nextRide, slow, slot, magFresh>>
taskVars  == <<lastOp, active, pc, op, quiet, collided>>
rideVars  == <<fresh, decode>>
imuVars      == <<bootVars, busVars, isrVars, taskVars, ready, rideVars>>

Devices == ToSet(Rides)
Ops     == {"FAST", "MAG", "TEMP", "RIDE"}
Kinds   == <<"imu", "baro", "range">>

ImuInit ==
    /\ boot = Kinds /\ imuUp = FALSE /\ present = {} /\ window = "none" /\ lost = FALSE
    /\ pins = "i2c" /\ busy = FALSE /\ trans = "BLANK" /\ dma = "NONE"
    /\ late = FALSE /\ faults = 0 /\ rx = "NONE" /\ irq = 0 /\ errs = 0
    /\ buf = [s \in {"FAST", "MAG", "TEMP"} |-> "NONE"]
    /\ nextOp = "FAST" /\ nextRide = 1 /\ lastOp = "FAST" /\ active = 1
    /\ slow = 0 /\ slot = 0 /\ magFresh = FALSE
    /\ ready = 0 /\ pc = "take" /\ op = "FAST" /\ quiet = 0
    /\ collided = FALSE
    /\ fresh = [d \in Devices |-> FALSE] /\ decode = [d \in Devices |-> "idle"]

-----------------------------------------------------------------------------
(* Boot: sensor_probe_all walks the kinds in order; a failed probe only    *)
(* leaves the device absent.                                               *)

\* The register writes of bmx160_set_mag_conf that decide where the automatic
\* burst starts, in order: an indirect BMM150 access repoints MAG_IF_1 to the
\* register it names, steps 6 and 8b point it at the data registers.  The last
\* one is the write of step 8b.
MagConfPointers == <<"trim", "preset", "data", "chip_id", "data">>

\* The pointer after the writes that were not lost.
PointerAfter(lostWrites) ==
    LET done == {i \in DOMAIN MagConfPointers : i \notin lostWrites}
    IN  IF done = {} THEN "none"
        ELSE MagConfPointers[CHOOSE i \in done : \A j \in done : j <= i]

\* bmx160_init: calibration file, chip id, power modes, ranges, magnetometer;
\* the results of i2c_manager_write inside bmx160_set_mag_conf are ignored.
\* At most one of these writes is lost.  On success the two semaphores exist and the
\* chain's token is given.
ProbeImu ==
    /\ boot # <<>> /\ Head(boot) = "imu"
    /\ boot' = Tail(boot)
    /\ \/ UNCHANGED <<imuUp, window, lost, ready, faults>>        \* an id or range write failed
       \/ \E l \in DOMAIN MagConfPointers \union {0} :
            /\ imuUp' = TRUE /\ ready' = 1
            /\ window' = PointerAfter({l}) /\ lost' = (l = Len(MagConfPointers))
            /\ l # 0 => faults < MaxFaults
            /\ faults' = IF l = 0 THEN faults ELSE faults + 1
    /\ nextOp' = "FAST" /\ lastOp' = "FAST"
    /\ UNCHANGED <<present, pins, busy, trans, dma, late, rx, irq, errs, buf, nextRide, slow, slot, magFresh,
                   active, pc, op, quiet, collided, rideVars>>

\* bme280_init / vl53l0x_init: _initialized only after every required register
\* access succeeded, each tried four times.
ProbeRide(kind, d) ==
    /\ boot # <<>> /\ Head(boot) = kind
    /\ boot' = Tail(boot)
    /\ \/ present' = present
       \/ d \in Devices /\ present' = present \union {d}
    /\ fresh' = [e \in Devices |-> IF e = d THEN FALSE ELSE fresh[e]]
    /\ UNCHANGED <<imuUp, window, lost, busVars, isrVars, taskVars, ready, decode>>

ProbeBaro  == ProbeRide("baro", "bme280")
ProbeRange == ProbeRide("range", "vl53l0x")

-----------------------------------------------------------------------------
(* i2c_manager.c *)

\* i2c_manager_acquire_bus inside read_async: the transaction is claimed and
\* described, or the failure counted.
Acquired(o) ==
    /\ ~busy
    /\ busy' = TRUE /\ errs' = 0 /\ trans' = o
    /\ UNCHANGED <<pins, dma, late, faults, rx, irq>>

AcquireFailed ==
    /\ busy
    /\ IF errs + 1 > ErrLimit
         THEN /\ errs' = 0 /\ trans' = "BLANK" /\ busy' = FALSE
              /\ dma' = "NONE" /\ late' = FALSE /\ pins' = "i2c"
         ELSE errs' = errs + 1 /\ UNCHANGED <<trans, busy, dma, late, pins>>
    /\ UNCHANGED <<faults, rx, irq>>

\* hal_i2c_read_regs_dma accepts the burst.
Started(o) ==
    /\ dma' = o /\ late' = FALSE
    /\ UNCHANGED <<pins, busy, trans, faults, rx, irq, errs>>

\* ... or refuses it: release, then i2c_manager_recover.
StartFailed ==
    /\ faults < MaxFaults /\ faults' = faults + 1
    /\ busy' = FALSE /\ trans' = "BLANK" /\ pins' = "i2c"
    /\ dma' = "NONE" /\ late' = FALSE
    /\ UNCHANGED <<rx, irq, errs>>

\* init_i2c_manager as recovery, first the flags under a critical section ...
RecoverFlags ==
    /\ trans' = "BLANK" /\ busy' = FALSE
    /\ UNCHANGED <<pins, dma, late, faults, rx, irq, errs>>

RecoverHardware_KeepsBurst ==
    /\ pins' = "i2c"
    /\ UNCHANGED <<dma, late, busy, trans, faults, rx, irq, errs>>

RecoverHardware_NoPins ==
    /\ dma' = "NONE" /\ late' = FALSE
    /\ UNCHANGED <<pins, busy, trans, faults, rx, irq, errs>>

\* ... then the bus-clear, the peripheral reset and the pin set-up, ~200 us later.
RecoverHardware ==
    /\ dma' = "NONE" /\ late' = FALSE /\ pins' = "i2c"
    /\ UNCHANGED <<busy, trans, faults, rx, irq, errs>>

\* i2c_manager_unstick alone: the pins stay general-purpose outputs.
Unstick ==
    /\ pins' = "gpio"
    /\ UNCHANGED <<busy, trans, dma, late, faults, rx, irq, errs>>

-----------------------------------------------------------------------------
(* The completion interrupt *)

Give(n) == IF imuUp /\ n < SemaMax THEN n + 1 ELSE n

\* Device i is present and due in slot s.
Due(i, s) == s % EveryN[Rides[i]] = 0 /\ Rides[i] \in present

\* The devices that are due in slot s with none due before them: one or none.
DueRide(s) == {i \in 1 .. Len(Rides) : Due(i, s) /\ \A j \in 1 .. i - 1 : ~Due(j, s)}

CallbackFast ==
    /\ buf' = [buf EXCEPT !["FAST"] = rx]
    /\ slow' = (slow + 1) % SlowEvery
    /\ nextOp' = IF slow' = 0 THEN "MAG" ELSE "FAST"
    /\ UNCHANGED <<nextRide, slot, magFresh, rideVars>>

CallbackMag ==
    /\ buf' = [buf EXCEPT !["MAG"] = rx]
    /\ magFresh' = TRUE /\ nextOp' = "TEMP"
    /\ UNCHANGED <<nextRide, slow, slot, rideVars>>

CallbackTemp ==
    /\ buf' = [buf EXCEPT !["TEMP"] = rx]
    /\ slot' = (slot + 1) % SlotWrap
    /\ \/ DueRide(slot') = {} /\ nextOp' = "FAST" /\ UNCHANGED nextRide
       \/ nextOp' = "RIDE" /\ nextRide' \in DueRide(slot')
    /\ UNCHANGED <<slow, magFresh, rideVars>>

\* The device's ingest: copy the block and set _raw_fresh; a decode task that
\* was preempted inside its copy ends up with bytes of two blocks.
Ingest(d) ==
    /\ fresh' = [fresh EXCEPT ![d] = TRUE]
    /\ decode' = [decode EXCEPT ![d] = IF @ = "copying" THEN "mixed" ELSE @]

CallbackRide ==
    /\ Ingest(Rides[active])
    /\ nextOp' = "FAST"
    /\ UNCHANGED <<buf, nextRide, slow, slot, magFresh>>

Callback(o) ==
    CASE o = "FAST" -> CallbackFast
      [] o = "MAG"  -> CallbackMag
      [] o = "TEMP" -> CallbackTemp
      [] o = "RIDE" -> CallbackRide

\* i2c_manager_callback: idempotent against a repeated interrupt; the bus is
\* released before the user callback, whose last call gives ready_sema.  The
\* hardware may raise the same completion once more (again).
Isr ==
    /\ irq > 0
    /\ \E again \in (IF irq = 1 THEN BOOLEAN ELSE {FALSE}) :
         irq' = IF again /\ trans # "BLANK" THEN irq ELSE irq - 1
    /\ IF trans = "BLANK"
         THEN UNCHANGED <<busy, trans, isrVars, ready, rideVars>>
         ELSE /\ trans' = "BLANK" /\ busy' = FALSE
              /\ Callback(trans)
              /\ ready' = Give(ready)
    /\ UNCHANGED <<bootVars, pins, dma, late, faults, rx, errs, taskVars>>

-----------------------------------------------------------------------------
(* The hardware *)

DmaDone ==
    /\ dma # "NONE" /\ pins = "i2c" /\ irq = 0
    /\ rx' = dma /\ dma' = "NONE" /\ late' = FALSE /\ irq' = 1
    /\ UNCHANGED <<bootVars, pins, faults, busy, trans, errs, isrVars, taskVars, ready, rideVars>>

\* A device stops answering in the middle of a burst: no interrupt comes, or
\* it comes after the watchdog's limit.
DmaFault ==
    /\ dma # "NONE" /\ ~late /\ faults < MaxFaults
    /\ faults' = faults + 1
    /\ \/ dma' = "NONE" /\ UNCHANGED late
       \/ late' = TRUE /\ UNCHANGED dma
    /\ UNCHANGED <<bootVars, pins, busy, trans, rx, irq, errs, isrVars, taskVars,
                   ready, rideVars>>

-----------------------------------------------------------------------------
(* bmx160_initiate_read: the task imu_read.  It runs once boot is over and  *)
(* never while an interrupt is pending.                                    *)

Runs(at) == boot = <<>> /\ irq = 0 /\ pc = at

ReaderTake ==
    /\ Runs("take") /\ ready > 0
    /\ ready' = ready - 1 /\ quiet' = 0
    /\ pc' = IF lastOp = "FAST" THEN "process" ELSE "issue"
    /\ UNCHANGED <<bootVars, busVars, isrVars, lastOp, active, op, collided, rideVars>>

\* bmx160_process_data: consumes the buffer and the fresh flags.
ReaderProcess ==
    /\ Runs("process")
    /\ magFresh' = FALSE /\ pc' = "issue"
    /\ UNCHANGED <<bootVars, busVars, buf, nextOp, nextRide, slow, slot, lastOp, active,
                   op, quiet, collided, ready, rideVars>>

\* _last_op = _next_op before the burst starts.
ReaderIssue ==
    /\ Runs("issue")
    /\ lastOp' = nextOp /\ active' = nextRide /\ op' = nextOp
    /\ pc' = IF nextOp = "FAST" THEN "pace" ELSE "acquire"
    /\ UNCHANGED <<bootVars, busVars, isrVars, quiet, collided, ready, rideVars>>

\* Before a FAST burst the task drains fast_tick_sema and sleeps until the next
\* tick of the high-frequency timer, or for 2 ms: the wait always ends.
ReaderPace ==
    /\ Runs("pace")
    /\ pc' = "acquire"
    /\ UNCHANGED <<bootVars, busVars, isrVars, lastOp, active, op, quiet, collided,
                   ready, rideVars>>

ReaderAcquire ==
    /\ Runs("acquire")
    /\ \/ Acquired(op) /\ pc' = "start"
       \/ AcquireFailed /\ pc' = "failed"
    /\ UNCHANGED <<bootVars, isrVars, lastOp, active, op, quiet, collided, ready, rideVars>>

ReaderStart ==
    /\ Runs("start")
    /\ \/ Started(op) /\ pc' = "take"
       \/ StartFailed /\ pc' = "failed"
    /\ UNCHANGED <<bootVars, isrVars, lastOp, active, op, quiet, collided, ready, rideVars>>

ReaderFailed_FakeWake ==
    /\ Runs("failed")
    /\ Unstick /\ nextOp' = "FAST" /\ pc' = "take" /\ ready' = Give(ready)
    /\ UNCHANGED <<bootVars, buf, nextRide, slow, slot, magFresh, lastOp, active, op,
                   quiet, collided, rideVars>>

\* "DMA FAIL -> HARD RECOVERY": bus-clear, back to FAST, no token: the watchdog
\* has to restart the chain.
ReaderFailed ==
    /\ Runs("failed")
    /\ Unstick /\ nextOp' = "FAST" /\ pc' = "take"
    /\ UNCHANGED <<bootVars, buf, nextRide, slow, slot, magFresh, lastOp, active, op,
                   quiet, collided, ready, rideVars>>

\* ready_sema timed out; past the limit the full recovery begins.  A burst takes
\* well under a millisecond: one that is neither lost nor late ends in time.
ReaderTimeout ==
    /\ Runs("take") /\ ready = 0
    /\ quiet < StallTimeouts \/ dma = "NONE" \/ late \/ pins = "gpio"
    /\ IF quiet < StallTimeouts
         THEN quiet' = quiet + 1 /\ pc' = pc
         ELSE pc' = "recover" /\ quiet' = quiet
    /\ UNCHANGED <<bootVars, busVars, isrVars, lastOp, active, op, collided, ready, rideVars>>

ReaderRecover ==
    /\ Runs("recover")
    /\ RecoverFlags /\ pc' = "reset"
    /\ UNCHANGED <<bootVars, isrVars, lastOp, active, op, quiet, collided, ready, rideVars>>

ReaderReset ==
    /\ Runs("reset")
    /\ RecoverHardware /\ pc' = "restart"
    /\ UNCHANGED <<bootVars, isrVars, lastOp, active, op, quiet, collided, ready, rideVars>>

\* "CRITICAL: START DMA MANUALLY": a FAST burst without waiting for a tick.
\* Only this task claims the bus, so right after RecoverFlags the claim succeeds.
ReaderRestart ==
    /\ Runs("restart")
    /\ nextOp' = "FAST" /\ lastOp' = "FAST" /\ op' = "FAST" /\ quiet' = 0
    /\ collided' = (collided \/ ready > 0)
    /\ Acquired("FAST") /\ pc' = "rstart"
    /\ UNCHANGED <<bootVars, buf, nextRide, slow, slot, magFresh, active, ready, rideVars>>

ReaderRestartDma ==
    /\ Runs("rstart")
    /\ Started("FAST") \/ StartFailed
    /\ pc' = "take"
    /\ UNCHANGED <<bootVars, isrVars, lastOp, active, op, quiet, collided, ready, rideVars>>

Reader ==
    \/ ReaderTake \/ ReaderProcess \/ ReaderIssue \/ ReaderPace \/ ReaderAcquire
    \/ ReaderStart \/ ReaderFailed \/ ReaderTimeout \/ ReaderRecover \/ ReaderReset
    \/ ReaderRestart \/ ReaderRestartDma

-----------------------------------------------------------------------------
(* bme280_read_task, vl53l0x_read_task: clear the flag, copy, publish.  They *)
(* run at priority 0, imu_read at 2: only while it sleeps on a semaphore.    *)

ReaderSleeps == boot = <<>> /\ irq = 0 /\ ((pc = "take" /\ ready = 0) \/ pc = "pace")

DecodeTake(d) ==
    /\ ReaderSleeps
    /\ decode[d] = "idle" /\ fresh[d]
    /\ fresh' = [fresh EXCEPT ![d] = FALSE]
    /\ decode' = [decode EXCEPT ![d] = "copying"]
    /\ UNCHANGED <<bootVars, busVars, isrVars, taskVars, ready>>

DecodePublish(d) ==
    /\ ReaderSleeps
    /\ decode[d] # "idle"
    /\ decode' = [decode EXCEPT ![d] = "idle"]
    /\ UNCHANGED <<bootVars, busVars, isrVars, taskVars, ready, fresh>>

ImuNext ==
    \/ ProbeImu \/ ProbeBaro \/ ProbeRange
    \/ Isr \/ DmaDone \/ DmaFault
    \/ Reader
    \/ \E d \in Devices : DecodeTake(d) \/ DecodePublish(d)

\* The kernel runs the boot thread and then imu_read, a pending interrupt is
\* served, and a burst on a healthy bus ends.
Fairness ==
    /\ WF_imuVars(ProbeImu \/ ProbeBaro \/ ProbeRange \/ Reader)
    /\ WF_imuVars(Isr) /\ WF_imuVars(DmaDone)

ImuSpec == ImuInit /\ [][ImuNext]_imuVars /\ Fairness

-----------------------------------------------------------------------------
ImuTypeOK ==
    /\ boot \in Seq({"imu", "baro", "range"}) /\ imuUp \in BOOLEAN
    /\ present \subseteq Devices
    /\ window \in {"none"} \union ToSet(MagConfPointers) /\ lost \in BOOLEAN
    /\ pins \in {"i2c", "gpio"} /\ busy \in BOOLEAN
    /\ trans \in Ops \union {"BLANK"} /\ {dma, rx} \subseteq Ops \union {"NONE"}
    /\ late \in BOOLEAN /\ faults \in 0..MaxFaults /\ irq \in 0..1 /\ errs \in 0..ErrLimit
    /\ buf \in [{"FAST", "MAG", "TEMP"} -> Ops \union {"NONE"}]
    /\ {nextOp, lastOp, op} \subseteq Ops
    /\ {nextRide, active} \subseteq 1..Len(Rides) \union {1}
    /\ slow \in 0..(SlowEvery - 1) /\ slot \in 0..(SlotWrap - 1)
    /\ {magFresh, collided} \subseteq BOOLEAN
    /\ ready \in 0..SemaMax /\ quiet \in 0..StallTimeouts
    /\ pc \in {"take", "process", "issue", "pace", "acquire", "start", "failed",
               "recover", "reset", "restart", "rstart"}
    /\ fresh \in [Devices -> BOOLEAN]
    /\ decode \in [Devices -> {"idle", "copying", "mixed"}]

(* Properties *)

\* Whose bytes reach a section of the DMA buffer is decided by the callback
\* stored in _current_trans, what the bytes are by the burst that ran: across
\* lost bursts, bus recovery and repeated interrupts a section only ever gets
\* bytes of its own operation.
BytesInTheirSection ==
    /\ \A s \in DOMAIN buf : buf[s] \in {s, "NONE"}
    /\ irq > 0 /\ trans # "BLANK" => rx = trans

\* The chain has one token: while it is in the semaphore or while
\* bmx160_process_data reads the buffer no burst is running, and a burst runs
\* only on pins that are in I2C mode.  The exception is a watchdog restart that
\* meets the late completion of the burst it gave up on.
SingleToken ==
    ~collided =>
        /\ ready > 0 => ready = 1 /\ trans = "BLANK" /\ dma = "NONE"
                        /\ pc \in {"take", "recover", "reset", "restart"}
        /\ pc = "process" => dma = "NONE" /\ trans = "BLANK"
        /\ dma # "NONE" => pins = "i2c"

\* Repeated completion interrupts never multiply the token (the give storm that
\* i2c_manager_callback guards against), whatever the watchdog did.
NoGiveStorm == ready + (IF trans # "BLANK" THEN 1 ELSE 0) <= 2

\* A device that did not come up is never addressed: its NACK would trip the
\* recovery path of the whole bus.
AbsentNeverRead == "RIDE" \in {dma, trans} => Rides[active] \in present

\* Whichever configuration write the bus swallowed, except the last, the
\* automatic magnetometer burst starts at the data registers although the
\* chip-id check repointed it.
MagBurstAtData == imuUp /\ ~lost => window = "data"

\* A snapshot that the interrupt overwrote in the middle of the copy is decoded
\* again: its publication leaves _raw_fresh set.
MixedIsRedone ==
    [][\A d \in Devices : decode[d] = "mixed" /\ decode'[d] = "idle" => fresh'[d]]_imuVars

\* Acquisition survives every lost burst, refused start and bus-clear: while the
\* IMU is up there is always another sample.
SamplesForever == (imuUp /\ boot = <<>>) ~> (pc = "process")

\* No ride-along starves although the first one due always wins the slot.  With
\* two tokens in the chain the second one may overwrite _next_op and starve all
\* of them, so a collision releases the promise.
RidesServed ==
    \A d \in Devices : (imuUp /\ boot = <<>> /\ d \in present) ~> (fresh[d] \/ collided)

\* What is read is what it is taken for: bytes land in the section of their own
\* burst, from a device that is there, at the registers that hold the data.
BusHonest == BytesInTheirSection /\ AbsentNeverRead /\ MagBurstAtData

\* The acquisition chain stays one token through refused, lost and late bursts
\* (bmx160_initiate_read, its watchdog and the completion interrupt).
ChainSound == ImuTypeOK /\ SingleToken /\ NoGiveStorm

\* The bus goes on serving everyone: samples, ride-along readings, and a
\* snapshot that was overwritten during its copy is taken again.
BusServes == MixedIsRedone /\ SamplesForever /\ RidesServed
=============================================================================
