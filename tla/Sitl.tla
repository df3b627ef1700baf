-------------------------------- MODULE Sitl --------------------------------
(***************************************************************************)
(* The in-process simulator: one OS thread steps the physics and then the  *)
(* real scheduler, on ucontexts, until it is idle (host_rtos_engine.c,     *)
(* host_rtos_port.c).  Beside it run the thread that feeds the pilot's     *)
(* frames (host_rc_feeder.c), the window that reads the pose (a seqlock,   *)
(* vsim_inproc.cpp) and the external driver that writes control frames     *)
(* into a pipe (host_rtos_main.c).                                         *)
(*                                                                         *)
(* A frame on the pipe is two cells, its header and its body; the buffer   *)
(* it is parsed in is BufCells long.  A sample, and the command computed   *)
(* from it, is named by the number of its step; a motor output is zero or  *)
(* not (RateLoop has the queue it comes from).                             *)
(***************************************************************************)
EXTENDS Naturals, Sequences, FiniteSets, SequencesExt

CONSTANTS
    Scenes,     \* what the external driver writes, a sequence of frame kinds,
                \* and which of the threads "rc" and "window" there are
    BufCells,   \* sizeof buf in run_driver
    MaxSteps,   \* the steps before the driver is stopped (bound of the model)
    MotPeriod,  \* the ticks motor_task sleeps
    FlushPeriod,\* the ticks flush_task sleeps
    PtyCap,     \* what the pty holds for a ground station that does not read
    PwmPipe     \* whether the pipe of the old daemon can be opened

Settings == {"reset", "pause", "resume", "geometry", "world", "mesh", "badmesh",
             "clear", "drop", "heal", "muteAcc", "ping"}
Kinds == Settings \union {"pose", "huge", "junk"}

ASSUME SitlAssumption ==
    /\ \A s \in Scenes : s.plan \in Seq(Kinds) /\ s.threads \subseteq {"rc", "window"}
    /\ BufCells \in Nat \ {0, 1} /\ MaxSteps \in Nat
    /\ MotPeriod \in Nat \ {0} /\ FlushPeriod \in Nat \ {0}
    /\ PtyCap \in Nat /\ PwmPipe \subseteq BOOLEAN

Tasks == {"ctl", "mot", "flush"}
Prio(t) == IF t = "flush" THEN 0 ELSE 1
Flight == {"ARMED", "IN_AIR"}

VARIABLES
    plan, threads,      \* the scene
    sent, pipe,         \* the frames written, what is in the pipe
    buf, applied,       \* the parse buffer; the frames dispatched, in order
    sim,                \* the settings of the physics (below)
    step,               \* the samples fed so far
    fed, held,          \* the sample fed last; g_imu_held
    seq, poseA, poseB,  \* g_pose_seq and two fields of g_pose_buf
    rd,                 \* the window's read of the pose
    pc,                 \* where the stepping thread is
    ctx,                \* the context each thread runs: its own, or a task's
    cur,                \* current_task
    ready, sleep,       \* the ready tasks; the ticks the others still sleep
    tok,                \* the semaphore of imu.attitude
    cmd, ran,           \* the latest command; the step motor_task last ran in
    pwm, duty,          \* pwm_latest is not zero; the stepper's copy
    pwmOpen,            \* that pipe is open
    pty,                \* bytes no ground station has read
    state, quiet        \* the flight state; the steps begun since it last flew

ctlVars   == <<plan, threads, sent, pipe, buf, applied>>
simVars   == <<sim, step, fed, held>>
poseVars  == <<seq, poseA, poseB>>
schedVars == <<ctx, cur, ready, sleep, tok, pty>>
outVars   == <<cmd, ran, pwm, duty, pwmOpen>>
rcVars    == <<state, quiet>>
sitlVars  == <<ctlVars, simVars, poseVars, rd, pc, schedVars, outVars, rcVars>>

(***************************************************************************)
(* The control pipe.                                                       *)
(***************************************************************************)
Kind(cell) == plan[cell.f]

\* The cells a frame is written as.  Junk is a torn write: it has no header.
Cells(i) == IF plan[i] = "junk" THEN <<[f |-> i, part |-> 2]>>
            ELSE <<[f |-> i, part |-> 1], [f |-> i, part |-> 2]>>

\* The external driver writes a frame; the pipe takes it whole.  Nobody looks
\* at the pipe anywhere but at the top of the loop, so it is written there.
DriverWrites ==
    /\ pc = "ctl" /\ sent < Len(plan)
    /\ sent' = sent + 1
    /\ pipe' = pipe \o Cells(sent + 1)
    /\ UNCHANGED <<plan, threads, buf, applied, simVars, poseVars, rd, pc, schedVars, outVars, rcVars>>

\* The magic is there, and the size the header announces.
Magic(cell) == cell.part = 1
Need(cell) == IF Kind(cell) = "huge" THEN BufCells + 1 ELSE 2

\* The frames of b to dispatch and the cells that are done with: anything else
\* is skipped to the next header, an incomplete tail waits for more.
Parsed(b) ==
    LET p[i \in 1 .. Len(b) + 1] ==
          IF i > Len(b) THEN [done |-> Len(b), got |-> <<>>]
          ELSE IF ~Magic(b[i]) THEN p[i + 1]
          ELSE IF i - 1 + Need(b[i]) > Len(b) THEN [done |-> i - 1, got |-> <<>>]
          ELSE LET rest == p[i + Need(b[i])] IN
               [rest EXCEPT !.got = IF Kind(b[i]) \in Settings THEN <<b[i].f>> \o @ ELSE @]
    IN  p[1]

\* Mutant of Left: what is left of the buffer is thrown away.
Left_None(b) == <<>>

\* The unparsed tail, moved to the front; a buffer that is full of it is given
\* up, for no frame can ever end in it.
Left(b) == LET tail == SubSeq(b, Parsed(b).done + 1, Len(b)) IN
           IF Len(tail) = BufCells THEN <<>> ELSE tail

(***************************************************************************)
(* The settings of vsim_inproc.cpp.  sim.drone is g_drone and g_motor, the *)
(* persistent copy; sim.flown what was last pushed to the physics.         *)
(* Settings that no property tells apart (the test rig, obstacles, rates,  *)
(* wind, a dead ESC) are "ping".                                           *)
(***************************************************************************)
InitSim == [paused |-> FALSE, dropout |-> FALSE, acc |-> TRUE,
            drone |-> [rotor |-> 0, world |-> 0], flown |-> [rotor |-> 0, world |-> 0],
            mesh |-> 0, map |-> 0, epoch |-> 0]

\* applyGeometry, vsim_inproc_set_world: change one part, push the whole.
SetParam(s, what, i) ==
    LET d == [s.drone EXCEPT ![what] = i] IN [s EXCEPT !.drone = d, !.flown = d]

\* dropWorldMesh: the physics lets go, then the mapping goes.
DropMesh(s) == [s EXCEPT !.mesh = 0, !.map = 0]

\* vsim_inproc_set_world_mesh: the old one goes first, whatever becomes of the new.
SetMesh(s, i, good) == IF good THEN [DropMesh(s) EXCEPT !.mesh = i, !.map = i] ELSE DropMesh(s)

\* driver_dispatch_ctl
Dispatch(s, i) ==
    CASE plan[i] = "reset"    -> [s EXCEPT !.epoch = i]
      [] plan[i] = "pause"    -> [s EXCEPT !.paused = TRUE]
      [] plan[i] = "resume"   -> [s EXCEPT !.paused = FALSE]
      [] plan[i] = "geometry" -> SetParam(s, "rotor", i)
      [] plan[i] = "world"    -> SetParam(s, "world", i)
      [] plan[i] \in {"mesh", "badmesh"} -> SetMesh(s, i, plan[i] = "mesh")
      [] plan[i] = "clear"    -> DropMesh(s)
      [] plan[i] = "drop"     -> [s EXCEPT !.dropout = TRUE]
      [] plan[i] = "heal"     -> [s EXCEPT !.dropout = FALSE]
      [] plan[i] = "muteAcc"  -> [s EXCEPT !.acc = FALSE]
      [] OTHER -> s

\* The top of run_driver's loop: what the pipe holds, as far as the buffer has
\* room, and every complete frame of it.  It ends when the loop is stopped.
DrainCtl ==
    LET room == BufCells - Len(buf)
        r == IF Len(pipe) < room THEN Len(pipe) ELSE room
        b == buf \o SubSeq(pipe, 1, r)
    IN  /\ pc = "ctl" /\ step < MaxSteps
        /\ pc' = "physics"
        /\ pipe' = SubSeq(pipe, r + 1, Len(pipe))
        /\ buf' = IF r > 0 THEN Left(b) ELSE buf
        /\ applied' = IF r > 0 THEN applied \o Parsed(b).got ELSE applied
        /\ sim' = IF r > 0 THEN FoldLeft(Dispatch, sim, Parsed(b).got) ELSE sim
        /\ UNCHANGED <<plan, threads, sent, step, fed, held, poseVars, rd, schedVars, outVars, rcVars>>

\* SIGINT or SIGTERM.
Stopped ==
    /\ pc = "ctl"
    /\ pc' = "stopped"
    /\ UNCHANGED <<ctlVars, simVars, poseVars, rd, schedVars, outVars, rcVars>>

(***************************************************************************)
(* One step: physics under the last output, the pose, the sample, a tick.  *)
(***************************************************************************)
Frozen == sim.paused \/ sim.dropout

\* g_imu_held: the last good sample.
Held(fresh) == IF Frozen THEN held ELSE fresh

\* vsim_inproc_step, up to the pose: an accelerometer that is switched off
\* reads zero, but not while the physics is paused.
Physics ==
    LET fresh == [n |-> step + 1, epoch |-> sim.epoch, acc |-> "on"] IN
    /\ pc = "physics"
    /\ pc' = "pose"
    /\ step' = step + 1
    /\ held' = Held(fresh)
    /\ fed' = LET s == IF Frozen THEN held ELSE fresh IN
              IF sim.acc \/ sim.paused THEN s ELSE [s EXCEPT !.acc = "off"]
    /\ seq' = seq + 1                                   \* odd: writing
    /\ UNCHANGED <<ctlVars, sim, poseA, poseB, rd, schedVars, outVars, rcVars>>

PoseRest == UNCHANGED <<ctlVars, simVars, rd, schedVars, outVars, rcVars>>

\* publishPose, field by field.
PoseFirst == /\ pc = "pose" /\ pc' = "pose2" /\ poseA' = step
             /\ UNCHANGED <<seq, poseB>> /\ PoseRest
PoseSecond == /\ pc = "pose2" /\ pc' = "pose3" /\ poseB' = step
              /\ UNCHANGED <<seq, poseA>> /\ PoseRest
PoseDone == /\ pc = "pose3" /\ pc' = "inject" /\ seq' = seq + 1
            /\ UNCHANGED <<poseA, poseB>> /\ PoseRest

\* wake_up_delayed_tasks_isr: the tasks whose sleep ends with this tick.
Due == {t \in Tasks : sleep[t] = 1}

\* step_once: push the sample (the stepper is not a task, so the give only
\* makes attitude_task ready), then one tick of SysTick.
Inject ==
    /\ pc = "inject"
    /\ pc' = "run"
    /\ tok' = TRUE
    /\ ready' = ready \union {"ctl"} \union Due
    /\ sleep' = [t \in Tasks |-> IF sleep[t] > 0 THEN sleep[t] - 1 ELSE 0]
    /\ quiet' = IF state \in Flight \/ quiet > MotPeriod THEN quiet ELSE quiet + 1
    /\ UNCHANGED <<ctlVars, simVars, poseVars, rd, ctx, cur, pty, outVars, state>>

(***************************************************************************)
(* The scheduler on ucontexts.                                             *)
(***************************************************************************)
\* set_next_task: any of the ready tasks of the highest priority, or idle.
NextTasks(R) == IF R = {} THEN {"idle"}
              ELSE {t \in R : \A u \in R : Prio(u) <= Prio(t)}

\* task_yield on thread th.
Yield(th, R) == \E t \in NextTasks(R) : cur' = t /\ ctx' = [ctx EXCEPT ![th] = t]

\* Mutant of PendSv: nothing is switched.
PendSv_Noop(th, R) == UNCHANGED <<ctx, cur>>

\* v_port_trigger_pendsv: only the scheduler's thread, and only while it runs
\* tasks, switches.
PendSv(th, R) ==
    IF pc = "running" /\ th = "sched" THEN Yield(th, R) ELSE UNCHANGED <<ctx, cur>>

\* host_rtos_run_until_idle: into the task that ran last, which is idle.
RunUntilIdle ==
    /\ pc = "run"
    /\ pc' = "running"
    /\ ctx' = [ctx EXCEPT !["sched"] = cur]
    /\ UNCHANGED <<ctlVars, simVars, poseVars, rd, cur, ready, sleep, tok, pty, outVars, rcVars>>

\* Mutant of CpuIdle: idle returns to the stepper without looking.
CpuIdle_NoLook ==
    /\ pc = "running" /\ ctx["sched"] = "idle"
    /\ ctx' = [ctx EXCEPT !["sched"] = "self"]
    /\ pc' = "duty"
    /\ UNCHANGED <<ctlVars, simVars, poseVars, rd, cur, ready, sleep, tok, pty, outVars, rcVars>>

\* v_port_hw_cpu_idle: a task that became ready, or back to the stepper.
CpuIdle ==
    /\ pc = "running" /\ ctx["sched"] = "idle"
    /\ IF ready # {}
       THEN Yield("sched", ready) /\ UNCHANGED pc
       ELSE /\ ctx' = [ctx EXCEPT !["sched"] = "self"]
            /\ pc' = "duty"
            /\ UNCHANGED cur
    /\ UNCHANGED <<ctlVars, simVars, poseVars, rd, ready, sleep, tok, pty, outVars, rcVars>>

\* Task t, which is running, parks for n ticks (0: until it is given).
Parks(t, n) ==
    /\ pc = "running" /\ ctx["sched"] = t
    /\ ready' = ready \ {t}
    /\ sleep' = [sleep EXCEPT ![t] = n]
    /\ PendSv("sched", ready \ {t})

\* system_state_set(new), and the steps the vehicle has not flown for.
SetState(new) == state' = new /\ quiet' = IF new \in Flight THEN 0 ELSE quiet

\* The control pipeline, from attitude_task to the rate loop: it turns the
\* sample into a command, and may see a takeoff, a landing or an upset.
CtlRuns ==
    /\ Parks("ctl", 0)
    /\ tok' = FALSE
    /\ cmd' = IF tok THEN step ELSE cmd
    /\ \/ UNCHANGED <<state, quiet>>
       \/ state = "ARMED" /\ SetState("IN_AIR")
       \/ state = "IN_AIR" /\ SetState("ARMED")
       \/ state \in Flight /\ SetState("FAILSAFE")
    /\ UNCHANGED <<ctlVars, simVars, poseVars, rd, pc, pty, ran, pwm, duty, pwmOpen>>

\* motor_task: what the queue holds, but zero unless flying.
Output == state \in Flight

\* hal_pwm_set_duty_cycle keeps the output for the stepper only when it could
\* open the pipe of the old daemon.
MotRuns ==
    /\ Parks("mot", MotPeriod)
    /\ ran' = step
    /\ pwm' = IF pwmOpen THEN Output ELSE pwm
    /\ UNCHANGED <<ctlVars, simVars, poseVars, rd, pc, tok, pty, cmd, duty, pwmOpen, rcVars>>

\* uart2_write_bytes: what the pty has no room for is dropped.
PtyWrite(n) == pty' = IF n < PtyCap THEN n + 1 ELSE n

\* flush_task; the write is over when hal_uart_write_dma returns.
FlushRuns ==
    /\ Parks("flush", FlushPeriod)
    /\ PtyWrite(pty)
    /\ UNCHANGED <<ctlVars, simVars, poseVars, rd, pc, tok, outVars, rcVars>>

\* The end of step_once: read the output back.
ReadDuty ==
    /\ pc = "duty"
    /\ pc' = "ctl"
    /\ duty' = pwm
    /\ UNCHANGED <<ctlVars, simVars, poseVars, rd, schedVars, cmd, ran, pwm, pwmOpen, rcVars>>

(***************************************************************************)
(* The other threads.                                                      *)
(***************************************************************************)
\* apply_arm_logic, for a switch and a throttle around the limit of 1100.
ArmLogic(up, thr) ==
    \/ up  /\ state = "STANDBY" /\ thr < 1100 /\ SetState("ARMED")
    \/ up  /\ state = "STANDBY" /\ thr > 1100 /\ SetState("FAILSAFE")
    \/ up  /\ (state # "STANDBY" \/ thr = 1100) /\ UNCHANGED <<state, quiet>>
    \/ ~up /\ state \in {"ARMED", "FAILSAFE"} /\ SetState("STANDBY")
    \/ ~up /\ state \notin {"ARMED", "FAILSAFE"} /\ UNCHANGED <<state, quiet>>

FeederRest == UNCHANGED <<ctlVars, simVars, poseVars, rd, pc, ready, sleep, tok, pty, outVars>>

\* rc_feeder_thread: a line of the port is applied and published; publishing
\* ends in v_port_trigger_pendsv on the feeder's own thread.
FeedLine(up, thr) ==
    /\ "rc" \in threads
    /\ ArmLogic(up, thr)
    /\ PendSv("rc", ready)
    /\ FeederRest

\* No line (a failsafe frame) or no port (a hover frame): published only.
FeedAnyway ==
    /\ "rc" \in threads
    /\ PendSv("rc", ready)
    /\ UNCHANGED <<state, quiet>> /\ FeederRest

\* The pose is the same from one publishPose to the next, so the window is seen
\* to read only around one.
Reading == "window" \in threads /\ pc \in {"physics", "pose", "pose2", "pose3"}

\* vsim_inproc_get_pose, on the window's thread: wait for an even number, ...
ReadStarts ==
    /\ Reading /\ rd.at = "idle" /\ seq % 2 = 0
    /\ rd' = [rd EXCEPT !.at = "first", !.s = seq]
    /\ UNCHANGED <<ctlVars, simVars, poseVars, pc, schedVars, outVars, rcVars>>

\* ... copy, ...
ReadCopies ==
    /\ Reading /\ rd.at \in {"first", "second"}
    /\ rd' = IF rd.at = "first" THEN [rd EXCEPT !.at = "second", !.a = poseA]
             ELSE [rd EXCEPT !.at = "check", !.b = poseB]
    /\ UNCHANGED <<ctlVars, simVars, poseVars, pc, schedVars, outVars, rcVars>>

Stable == seq = rd.s

\* ... and try again unless the number is still the same.
ReadEnds ==
    /\ Reading /\ rd.at = "check"
    /\ rd' = [rd EXCEPT !.at = IF Stable THEN "got" ELSE "idle"]
    /\ UNCHANGED <<ctlVars, simVars, poseVars, pc, schedVars, outVars, rcVars>>

\* The window is drawn; a ground station reads the pty.
ReadDone ==
    /\ Reading /\ rd.at = "got"
    /\ rd' = [at |-> "idle", s |-> 0, a |-> 0, b |-> 0]
    /\ UNCHANGED <<ctlVars, simVars, poseVars, pc, schedVars, outVars, rcVars>>

GcsReads ==
    /\ pc = "ctl" /\ pty > 0
    /\ pty' = pty - 1
    /\ UNCHANGED <<ctlVars, simVars, poseVars, rd, pc, ctx, cur, ready, sleep, tok, outVars, rcVars>>

----------------------------------------------------------------------------
\* rtos_engine_boot has run the boot tasks to idle, run_driver has begun.
SitlInit ==
    /\ \E s \in Scenes : plan = s.plan /\ threads = s.threads
    /\ sent = 0 /\ pipe = <<>> /\ buf = <<>> /\ applied = <<>>
    /\ sim = InitSim /\ step = 0
    /\ fed = [n |-> 0, epoch |-> 0, acc |-> "on"] /\ held = fed
    /\ seq = 0 /\ poseA = 0 /\ poseB = 0
    /\ rd = [at |-> "idle", s |-> 0, a |-> 0, b |-> 0]
    /\ pc = "ctl"
    /\ ctx = [th \in {"sched", "rc"} |-> "self"] /\ cur = "idle"
    /\ ready = {} /\ tok = FALSE
    /\ sleep = [t \in Tasks |-> CASE t = "ctl" -> 0 [] t = "mot" -> MotPeriod
                                  [] t = "flush" -> FlushPeriod]
    /\ cmd = 0 /\ ran = 0 /\ pwm = FALSE /\ duty = FALSE
    /\ pwmOpen \in PwmPipe
    /\ pty = 0
    /\ state = "STANDBY" /\ quiet = 0

Stepper == \/ DrainCtl \/ Physics \/ PoseFirst \/ PoseSecond \/ PoseDone \/ Inject
           \/ RunUntilIdle \/ CpuIdle \/ CtlRuns \/ MotRuns \/ FlushRuns \/ ReadDuty

Window == ReadStarts \/ ReadCopies \/ ReadEnds \/ ReadDone

SitlNext == \/ Stepper \/ Stopped \/ DriverWrites \/ Window \/ GcsReads
        \/ \E up \in BOOLEAN, thr \in 1099 .. 1101 : FeedLine(up, thr)
        \/ FeedAnyway

\* The stepping thread runs; nothing is assumed of the others.
SitlSpec == SitlInit /\ [][SitlNext]_sitlVars /\ WF_sitlVars(Stepper)

(***************************************************************************)
(* Properties.                                                             *)
(***************************************************************************)
SitlTypeOK ==
    /\ sent \in 0 .. Len(plan)
    /\ step \in 0 .. MaxSteps /\ seq \in 0 .. 2 * MaxSteps
    /\ ready \subseteq Tasks
    /\ sleep \in [Tasks -> 0 .. MotPeriod + FlushPeriod]
    /\ cmd \in 0 .. MaxSteps /\ ran \in 0 .. MaxSteps
    /\ pwm \in BOOLEAN /\ duty \in BOOLEAN
    /\ pty \in 0 .. PtyCap /\ quiet \in 0 .. MotPeriod + 1
    /\ state \in Flight \union {"STANDBY", "FAILSAFE"}

\* run_driver: "a startup burst ... must ALL apply".  Whatever the reads cut
\* the stream into, every whole frame has been dispatched once and in order,
\* and at most an incomplete one is left over; behind a torn write, a foreign
\* frame or a header that lies about its size, frames may be lost but are never
\* dispatched twice or out of order, and the buffer never overflows.
CtlExact ==
    /\ Len(buf) <= BufCells
    /\ \A i \in 1 .. Len(applied) - 1 : applied[i] < applied[i + 1]
    /\ (\A i \in 1 .. Len(plan) : plan[i] \in Settings) =>
         /\ applied = [i \in 1 .. Len(applied) |-> i]
         /\ 2 * Len(applied) + Len(buf) + Len(pipe) = 2 * sent
         /\ Len(buf) <= 1

\* vsim_inproc.cpp, "SET_WORLD keeps the rotor layout; SET_GEOMETRY keeps
\* drag/world": the physics flies the last geometry and the last world that
\* were sent, in whichever order, through resets and pauses.
ConfigSticks ==
    LET LatestOf(kind) == LET is == {i \in 1 .. Len(applied) : plan[applied[i]] = kind}
                      IN  IF is = {} THEN 0 ELSE applied[CHOOSE i \in is : \A j \in is : j <= i]
    IN  sim.flown = [rotor |-> LatestOf("geometry"), world |-> LatestOf("world")]

\* "the mmap must outlive setWorldMesh (Bvh points into it)": the mesh the
\* physics collides with is the one that is mapped, also when a second one
\* could not be loaded.
MeshMapped == sim.mesh # 0 => sim.mesh = sim.map

\* A sample is the present one, or, paused or with the IMU dropped out, the
\* last good one for as long as that lasts; a sensor that is switched off
\* shows only in a pause.
FrozenHonest ==
    [][step' # step => /\ fed'.n = IF Frozen THEN fed.n ELSE step'
                       /\ fed'.acc = "on" => sim.acc \/ sim.paused]_sitlVars

\* vsim_inproc_get_pose, "torn-write-free": the window's copy is one pose,
\* however many were published while it copied.
PoseWhole == rd.at = "got" => rd.a = rd.b

\* host_rtos.h, "On return the tick has fully settled": when the stepper has
\* control again no task is left ready and the sample of this step has been
\* turned into a command.
StepSettled == pc = "duty" => ready = {} /\ ~tok /\ cmd = step

\* Simulated time is the count of the samples: motor_task has run within its
\* period however the steps went, so the output the physics is stepped with is
\* zero once the vehicle has left flight for longer than that.
DutyFresh ==
    pc = "ctl" => /\ step - ran < MotPeriod
                  /\ quiet > MotPeriod => ~duty

\* host_rtos_port.c, "swapcontext there would hijack that thread into a task's
\* stack": a publish on the feeder's thread leaves it, and the scheduler's own
\* idea of what runs, alone.
ThreadsApart == /\ ctx["rc"] = "self"
                /\ pc = "running" => ctx["sched"] = cur

\* Every step ends: tasks that block give the processor up, and nothing the
\* ground station does not do can hold it.
StepsEnd == pc = "run" ~> pc = "duty"

\* Control frames apply once, in order and with what was set before, wherever
\* they were cut.
ControlExact == CtlExact /\ ConfigSticks /\ MeshMapped

\* A step ends with every task settled on it and a duty that is its own, beside
\* threads that read whole poses and are never switched into a task.
StepSound == SitlTypeOK /\ PoseWhole /\ StepSettled /\ DutyFresh /\ ThreadsApart

\* Every step ends, and a frozen sensor repeats its last good sample only.
StepsHonest == FrozenHonest /\ StepsEnd
=============================================================================
