------------------------- MODULE FlightStateProofs -------------------------
(***************************************************************************)
(* Theorems about FlightState, for every scheduler policy, every set of    *)
(* active tasks, every number of calibration tasks and all bounds.         *)
(***************************************************************************)
EXTENDS FlightState, TLAPS

\* A call to system_state_set keeps the record of calls well typed.
LEMMA SetCallType ==
    ASSUME TypeOK, NEW t \in Tasks, NEW new \in SysStates, SetCall(t, new)
    PROVE  call' \in [Tasks -> Calls]
  BY DEF TypeOK, SetCall, Calls, NoCall, Refused

\* So does returning from it.
LEMMA ReturnType ==
    ASSUME TypeOK, NEW t \in Tasks, NEW r \in {NoCall, Refused},
           call' = [call EXCEPT ![t] = r]
    PROVE  call' \in [Tasks -> Calls]
  BY DEF TypeOK, Calls

\* The initial state is well typed.
LEMMA TypeInit == Init => TypeOK
  <1> SUFFICES ASSUME Init PROVE TypeOK
    OBVIOUS
  <1>1. call \in [Tasks -> Calls]
    BY DEF Init, Calls
  <1>2. rcAge \in 0 .. RcLoss + 1 /\ recTicks \in 0 .. RecoveryTicks
        /\ escTimer \in 0 .. EscTimeout + EscSettle
    BY BoundsAssumption DEF Init
  <1> QED
    BY <1>1, <1>2 DEF Init, TypeOK, SysStates, Outputs

\* The steps of system_state_set itself keep every variable well typed.
LEMMA TypeSet ==
    ASSUME TypeOK, NEW t \in Tasks, SetStep(t)
    PROVE  TypeOK'
  <1>1. CASE SetCheck(t)
    <2>1. call[t].tgt \in SysStates
      BY <1>1 DEF SetCheck, TypeOK, Calls, NoCall, Refused
    <2>2. call' \in [Tasks -> Calls]
      BY <1>1, <2>1 DEF SetCheck, TypeOK, Calls
    <2> QED
      BY <1>1, <2>2 DEF SetCheck, TypeOK, rcVars, estVars, angVars, escVars, calVars, motorVars
  <1>2. CASE SetWrite(t)
    <2>1. call[t].tgt \in SysStates
      BY <1>2 DEF SetWrite, TypeOK, Calls, NoCall, Refused
    <2>2. call' \in [Tasks -> Calls]
      BY <1>2, ReturnType DEF SetWrite
    <2> QED
      BY <1>2, <2>1, <2>2
         DEF SetWrite, TypeOK, rcVars, estVars, angVars, escVars, calVars, motorVars
  <1> QED
    BY <1>1, <1>2 DEF SetStep

\* boot_task keeps the types.
LEMMA TypeBoot ==
    ASSUME TypeOK, BootTask
    PROVE  TypeOK'
  <1> USE DEF rcVars, estVars, angVars, escVars, calVars, motorVars
  <1>1. ASSUME NEW request \in EscRequests, BootLateInit(request)
        PROVE  TypeOK'
    BY <1>1, InputsAssumption DEF BootLateInit, TypeOK, SysStates
  <1>2. ASSUME NEW clockOk \in BOOLEAN, BootEvaluate(clockOk)
        PROVE  TypeOK'
    <2>1. call' \in [Tasks -> Calls]
      BY <1>2, SetCallType DEF BootEvaluate, TypeOK, Tasks, FixedTasks, SysStates
    <2> QED
      BY <1>2, <2>1 DEF BootEvaluate, TypeOK
  <1> QED
    BY <1>1, <1>2 DEF BootTask

\* rc_ibus_task keeps the types.
LEMMA TypeRc ==
    ASSUME TypeOK, RcTask
    PROVE  TypeOK'
  <1> USE DEF estVars, angVars, calVars, motorVars
  <1>0. "rc" \in Tasks /\ {"FAILSAFE", "STANDBY", "ARMED"} \subseteq SysStates
    BY DEF Tasks, FixedTasks, SysStates
  <1>1. ASSUME NEW throttleLow \in BOOLEAN, NEW snapped \in BOOLEAN,
               RcFrame(throttleLow, snapped)
        PROVE  TypeOK'
    <2>1. call' \in [Tasks -> Calls]
      BY <1>1, <1>0, SetCallType DEF RcFrame, TypeOK
    <2>2. rcAge' \in 0 .. RcLoss + 1
      BY <1>1, BoundsAssumption DEF RcFrame
    <2> QED
      BY <1>1, <2>1, <2>2 DEF RcFrame, TypeOK, escVars
  <1>2. ASSUME NEW closing \in BOOLEAN, RcEscStep(closing)
        PROVE  TypeOK'
    <2>1. call' \in [Tasks -> Calls]
      BY <1>2, <1>0, SetCallType DEF RcEscStep, EscFinish, EscAbandon, TypeOK
    <2>2. escTimer' \in 0 .. EscTimeout + EscSettle
      BY <1>2, BoundsAssumption DEF RcEscStep, EscFinish, EscAbandon, escVars, TypeOK
    <2>3. escPhase' \in {"OFF", "HIGH", "SETTLE"}
      BY <1>2 DEF RcEscStep, EscFinish, EscAbandon, escVars, TypeOK
    <2>4. rcFail' \in BOOLEAN
      BY <1>2 DEF RcEscStep
    <2> QED
      BY <1>2, <2>1, <2>2, <2>3, <2>4 DEF RcEscStep, TypeOK
  <1>3. CASE RcTimeout
    BY <1>3 DEF RcTimeout, setVars, escVars, TypeOK
  <1>4. CASE RcWatchdog
    <2>1. call' \in [Tasks -> Calls]
      BY <1>4, <1>0, SetCallType DEF RcWatchdog, TypeOK
    <2> QED
      BY <1>4, <2>1 DEF RcWatchdog, TypeOK, escVars
  <1> QED
    BY <1>1, <1>2, <1>3, <1>4 DEF RcTask

\* The priority-1 tasks keep the types.
LEMMA TypeControl ==
    ASSUME TypeOK, EstimatorSafetyStep \/ VerticalStep \/ AngleTask \/ MotorTask
    PROVE  TypeOK'
  <1> USE DEF rcVars, estVars, escVars, calVars
  <1>0. /\ {"att", "vert", "ang"} \subseteq Tasks
        /\ {"FAILSAFE", "ARMED", "IN_AIR"} \subseteq SysStates
    BY DEF Tasks, FixedTasks, SysStates
  <1>1. CASE EstimatorSafetyStep
    <2>1. call' \in [Tasks -> Calls]
      BY <1>1, <1>0, SetCallType DEF EstimatorSafetyStep
    <2> QED
      BY <1>1, <2>1 DEF EstimatorSafetyStep, TypeOK, angVars, motorVars
  <1>2. CASE VerticalStep
    <2>1. call' \in [Tasks -> Calls]
      BY <1>2, <1>0, SetCallType DEF VerticalStep
    <2> QED
      BY <1>2, <2>1 DEF VerticalStep, TypeOK, angVars, motorVars
  <1>3. ASSUME NEW acro \in AcroInputs, AngleStep(acro)
        PROVE  TypeOK'
    <2>1. call' \in [Tasks -> Calls]
      BY <1>3, <1>0, SetCallType DEF AngleStep, TypeOK
    <2>2. recTicks' \in 0 .. RecoveryTicks
      BY <1>3, BoundsAssumption DEF AngleStep, RecoveryExpired, angVars, TypeOK
    <2>3. recovering' \in BOOLEAN
      BY <1>3 DEF AngleStep, angVars, TypeOK
    <2> QED
      BY <1>3, <2>1, <2>2, <2>3 DEF AngleStep, TypeOK, motorVars
  <1>4. CASE MotorSample
    BY <1>4 DEF MotorSample, TypeOK, Outputs, setVars, angVars
  <1>5. CASE MotorWrite
    BY <1>5 DEF MotorWrite, TypeOK, Outputs, setVars, angVars
  <1> QED
    BY <1>1, <1>2, <1>3, <1>4, <1>5 DEF AngleTask, MotorTask

\* comm_processor_task keeps the types.
LEMMA TypeComm ==
    ASSUME TypeOK, CommTask
    PROVE  TypeOK'
  <1> USE DEF CommOthers, rcVars, estVars, angVars, escVars, motorVars
  <1>1. CASE CommArm
    BY <1>1 DEF CommArm, calVars, TypeOK
  <1>2. CASE CommDisarm
    <2>1. swArm' \in BOOLEAN
      BY <1>2 DEF CommDisarm
    <2> QED
      BY <1>2, <2>1 DEF CommDisarm, calVars, TypeOK
  <1>3. CASE CommCalibrate
    BY <1>3 DEF CommCalibrate, CalibrateStart, TypeOK
  <1>4. CASE CommCancel
    <2>1. call' \in [Tasks -> Calls]
      BY <1>4, SetCallType DEF CommCancel, TypeOK, Tasks, FixedTasks, SysStates
    <2>2. calibCancel' \in BOOLEAN /\ calibTask' \in CalTasks \union {"none"}
      BY <1>4 DEF CommCancel, TypeOK
    <2> QED
      BY <1>4, <2>1, <2>2 DEF CommCancel, TypeOK
  <1> QED
    BY <1>1, <1>2, <1>3, <1>4 DEF CommTask

\* calibration_task keeps the types.
LEMMA TypeCal ==
    ASSUME TypeOK, NEW c \in CalTasks, CalTask(c)
    PROVE  TypeOK'
  <1> USE DEF CalOthers, CalGoto, rcVars, estVars, angVars, escVars, motorVars
  <1>0. c \in Tasks /\ {"CALIBRATING", "STANDBY"} \subseteq SysStates
    BY DEF Tasks, SysStates
  <1>1. call' \in [Tasks -> Calls]
    BY <1>0, SetCallType, ReturnType
       DEF CalTask, CalEnter, CalEntered, CalRefused, CalCaptureEnds, CalTeardown,
           CalExit, TypeOK
  <1>2. calibActive' \in BOOLEAN /\ calibCancel' \in BOOLEAN
    BY DEF CalTask, CalEnter, CalEntered, CalRefused, CalCaptureEnds, CalTeardown,
           CalExit, TypeOK
  <1>3. calPc' \in [CalTasks -> {"none", "spawned", "enter", "run", "done", "leave"}]
    BY DEF CalTask, CalEnter, CalEntered, CalRefused, CalCaptureEnds, CalTeardown,
           CalExit, TypeOK
  <1>4. CalOthers
    BY DEF CalTask, CalEnter, CalEntered, CalRefused, CalCaptureEnds, CalTeardown, CalExit
  <1> QED
    BY <1>1, <1>2, <1>3, <1>4 DEF TypeOK

\* The world keeps the types.
LEMMA TypeWorld ==
    ASSUME TypeOK, World
    PROVE  TypeOK'
  <1> USE DEF setVars, rcVars, estVars, angVars, escVars, calVars, motorVars
  <1>1. CASE PilotSwitch
    BY <1>1 DEF PilotSwitch, TypeOK
  <1>2. CASE EstimatorHealth
    BY <1>2 DEF EstimatorHealth, TypeOK
  <1>3. CASE Attitude
    BY <1>3 DEF Attitude, TypeOK
  <1>4. CASE Tick
    <2>1. rcAge' \in 0 .. RcLoss + 1 /\ escTimer' \in 0 .. EscTimeout + EscSettle
      BY <1>4, BoundsAssumption DEF Tick, TypeOK
    <2> QED
      BY <1>4, <2>1 DEF Tick, TypeOK
  <1> QED
    BY <1>1, <1>2, <1>3, <1>4 DEF World

\* Type correctness: every variable of every reachable state is in its type.
THEOREM TypeCorrect == Spec => []TypeOK
  <1>1. TypeOK /\ [Next]_vars => TypeOK'
    <2> SUFFICES ASSUME TypeOK, [Next]_vars PROVE TypeOK'
      OBVIOUS
    <2>1. CASE UNCHANGED vars
      BY <2>1 DEF vars, rcVars, estVars, angVars, escVars, calVars, motorVars, TypeOK
    <2>2. CASE Next
      BY <2>2, TypeSet, TypeBoot, TypeRc, TypeControl, TypeComm, TypeCal, TypeWorld
         DEF Next
    <2> QED
      BY <2>1, <2>2
  <1> QED
    BY <1>1, TypeInit, PTL DEF Spec

----------------------------------------------------------------------------
(***************************************************************************)
(* What a step does to the flight state and to the calls in progress, for  *)
(* the arguments about races.                                              *)
(***************************************************************************)

\* The targets task t ever passes to system_state_set.
Targets(t) ==
    IF t \in {"att", "ang"} THEN {"FAILSAFE"}
    ELSE IF t = "vert" THEN {"IN_AIR", "ARMED"}
    ELSE IF t = "motor" THEN {}
    ELSE IF t \in CalTasks THEN {"CALIBRATING", "STANDBY"}
    ELSE IF t = "rc" THEN {"FAILSAFE", "STANDBY", "ARMED"}
    ELSE {"FAILSAFE", "STANDBY"}

\* t takes a decision and calls system_state_set(new).
Decides(t, new) ==
    /\ call[t] = NoCall
    /\ MayRun(t)
    /\ bootPc # "start"
    /\ SetCall(t, new)
    /\ sysState' = sysState
    /\ t = "vert" => sysState \in {"ARMED", "IN_AIR"}
    /\ t = "rc" /\ new = "ARMED" => sysState = "STANDBY"
    /\ t = "boot" /\ new = "STANDBY" => sysState # "ESC_CALIB"

Decision == \E t \in Tasks : \E new \in Targets(t) : Decides(t, new)
Quiet == sysState' = sysState /\ call' = call
CalReturn == \E c \in CalTasks : /\ sysState' = sysState
                                 /\ call[c] \in {NoCall, Refused}
                                 /\ call' = [call EXCEPT ![c] = NoCall]

\* The decisions of the fixed tasks, one by one.
LEMMA DecisionShape ==
    ASSUME TypeOK,
           BootTask \/ RcTask \/ EstimatorSafetyStep \/ VerticalStep \/ AngleTask \/ CommTask
    PROVE  \/ Quiet
           \/ Decision
           \/ \E request \in EscRequests : BootLateInit(request)
  <1> USE DEF Quiet, Decides, Ready
  <1>0. /\ {"boot", "rc", "comm", "att", "ang", "vert"} \subseteq Tasks
        /\ \A t \in {"boot", "rc", "comm", "att", "ang", "vert"} : t \notin CalTasks
    BY TasksAssumption DEF Tasks, FixedTasks
  <1>a. /\ "FAILSAFE" \in Targets("boot") /\ "STANDBY" \in Targets("boot")
        /\ "FAILSAFE" \in Targets("rc") /\ "STANDBY" \in Targets("rc") /\ "ARMED" \in Targets("rc")
        /\ "STANDBY" \in Targets("comm")
        /\ "FAILSAFE" \in Targets("att") /\ "FAILSAFE" \in Targets("ang")
        /\ "IN_AIR" \in Targets("vert") /\ "ARMED" \in Targets("vert")
    BY <1>0 DEF Targets
  <1>b. \A t \in Tasks \ {"boot"} : MayRun(t) => bootPc # "start"
    BY DEF MayRun
  <1>1. ASSUME NEW clockOk \in BOOLEAN, BootEvaluate(clockOk)
        PROVE  Quiet \/ Decision
    <2>1. CASE SetCall("boot", "FAILSAFE")
      <3>1. Decides("boot", "FAILSAFE")
        BY <1>1, <2>1 DEF BootEvaluate
      <3> QED
        BY <3>1, <1>0, <1>a DEF Decision
    <2>2. CASE sysState # "ESC_CALIB" /\ SetCall("boot", "STANDBY")
      <3>1. Decides("boot", "STANDBY")
        BY <1>1, <2>2 DEF BootEvaluate
      <3> QED
        BY <3>1, <1>0, <1>a DEF Decision
    <2> QED
      BY <1>1, <2>1, <2>2 DEF BootEvaluate
  <1>2. ASSUME NEW throttleLow \in BOOLEAN, NEW snapped \in BOOLEAN,
               RcFrame(throttleLow, snapped)
        PROVE  Quiet \/ Decision
    <2>0. call["rc"] = NoCall /\ MayRun("rc") /\ bootPc # "start" /\ sysState' = sysState
      BY <1>2, <1>b, <1>0 DEF RcFrame
    <2>1. CASE SetCall("rc", "FAILSAFE")
      <3>1. Decides("rc", "FAILSAFE")
        BY <2>0, <2>1
      <3> QED
        BY <3>1, <1>0, <1>a DEF Decision
    <2>2. CASE SetCall("rc", "STANDBY")
      <3>1. Decides("rc", "STANDBY")
        BY <2>0, <2>2
      <3> QED
        BY <3>1, <1>0, <1>a DEF Decision
    <2>3. CASE SetCall("rc", "ARMED") /\ sysState = "STANDBY"
      <3>1. Decides("rc", "ARMED")
        BY <2>0, <2>3
      <3> QED
        BY <3>1, <1>0, <1>a DEF Decision
    <2> QED
      BY <1>2, <2>0, <2>1, <2>2, <2>3 DEF RcFrame
  <1>3. ASSUME NEW closing \in BOOLEAN, RcEscStep(closing)
        PROVE  Quiet \/ Decision
    <2>0. call["rc"] = NoCall /\ MayRun("rc") /\ bootPc # "start" /\ sysState' = sysState
      BY <1>3, <1>b, <1>0 DEF RcEscStep
    <2>1. CASE SetCall("rc", "STANDBY")
      <3>1. Decides("rc", "STANDBY")
        BY <2>0, <2>1
      <3> QED
        BY <3>1, <1>0, <1>a DEF Decision
    <2>2. SetCall("rc", "STANDBY") \/ UNCHANGED call
      BY <1>3 DEF RcEscStep, EscFinish, EscAbandon
    <2> QED
      BY <2>0, <2>1, <2>2
  <1>4. CASE RcTimeout
    BY <1>4 DEF RcTimeout, setVars
  <1>5. CASE RcWatchdog
    <2>0. call["rc"] = NoCall /\ MayRun("rc") /\ bootPc # "start" /\ sysState' = sysState
      BY <1>5, <1>b, <1>0 DEF RcWatchdog
    <2>1. CASE SetCall("rc", "FAILSAFE")
      <3>1. Decides("rc", "FAILSAFE")
        BY <2>0, <2>1
      <3> QED
        BY <3>1, <1>0, <1>a DEF Decision
    <2> QED
      BY <1>5, <2>0, <2>1 DEF RcWatchdog
  <1>6. CASE EstimatorSafetyStep
    <2>1. Decides("att", "FAILSAFE")
      BY <1>6, <1>b, <1>0 DEF EstimatorSafetyStep
    <2> QED
      BY <2>1, <1>0, <1>a DEF Decision
  <1>7. CASE VerticalStep
    <2>1. Decides("vert", "IN_AIR") \/ Decides("vert", "ARMED")
      BY <1>7, <1>b, <1>0 DEF VerticalStep
    <2> QED
      BY <2>1, <1>0, <1>a DEF Decision
  <1>8. ASSUME NEW acro \in AcroInputs, AngleStep(acro)
        PROVE  Quiet \/ Decision
    <2>0. call["ang"] = NoCall /\ MayRun("ang") /\ bootPc # "start" /\ sysState' = sysState
      BY <1>8, <1>b, <1>0 DEF AngleStep
    <2>1. CASE SetCall("ang", "FAILSAFE")
      <3>1. Decides("ang", "FAILSAFE")
        BY <2>0, <2>1
      <3> QED
        BY <3>1, <1>0, <1>a DEF Decision
    <2> QED
      BY <1>8, <2>0, <2>1 DEF AngleStep
  <1>9. CASE CommTask
    <2>1. CASE CommCancel /\ SetCall("comm", "STANDBY")
      <3>1. Decides("comm", "STANDBY")
        BY <2>1, <1>b, <1>0 DEF CommCancel, Received, CommOthers
      <3> QED
        BY <3>1, <1>0, <1>a DEF Decision
    <2> QED
      BY <1>9, <2>1 DEF CommTask, CommArm, CommDisarm, CommCalibrate,
                        CommCancel, CommOthers
  <1> QED
    BY <1>1, <1>2, <1>3, <1>4, <1>5, <1>6, <1>7, <1>8, <1>9 DEF BootTask, RcTask, AngleTask

\* Every step is quiet, a decision, a step of system_state_set, the return of a
\* calibration task's call, or the single-threaded part of the boot.
LEMMA StepShape ==
    ASSUME TypeOK, [Next]_vars
    PROVE  \/ Quiet
           \/ Decision
           \/ \E t \in Tasks : SetStep(t)
           \/ CalReturn
           \/ \E request \in EscRequests : BootLateInit(request)
  <1>1. CASE UNCHANGED vars
    BY <1>1 DEF vars, Quiet
  <1>2. CASE MotorTask \/ World
    BY <1>2 DEF MotorTask, MotorSample, MotorWrite, World, PilotSwitch, EstimatorHealth,
                Attitude, Tick, setVars, Quiet
  <1>3. ASSUME NEW c \in CalTasks, CalTask(c)
        PROVE  Quiet \/ Decision \/ CalReturn
    <2>0. c \in Tasks /\ c \notin {"vert", "rc", "boot", "motor"}
          /\ Targets(c) = {"CALIBRATING", "STANDBY"}
      BY TasksAssumption DEF Tasks, FixedTasks, Targets
    <2>1. CASE CalEnter(c)
      <3>1. Decides(c, "CALIBRATING")
        BY <2>0, <2>1 DEF CalEnter, CalOthers, Ready, MayRun, Decides
      <3> QED
        BY <3>1, <2>0 DEF Decision
    <2>2. CASE CalTeardown(c)
      <3>1. Decides(c, "STANDBY")
        BY <2>0, <2>2 DEF CalTeardown, CalOthers, Ready, MayRun, Decides
      <3> QED
        BY <3>1, <2>0 DEF Decision
    <2>3. CASE CalEntered(c) \/ CalCaptureEnds(c)
      BY <2>3 DEF CalEntered, CalCaptureEnds, CalOthers, Quiet
    <2>4. CASE CalRefused(c) \/ CalExit(c)
      BY <2>4 DEF CalRefused, CalExit, CalOthers, CalReturn
    <2> QED
      BY <1>3, <2>1, <2>2, <2>3, <2>4 DEF CalTask
  <1>4. CASE \/ BootTask \/ RcTask \/ EstimatorSafetyStep
             \/ VerticalStep \/ AngleTask \/ CommTask
    BY <1>4, DecisionShape
  <1> QED
    BY <1>1, <1>2, <1>3, <1>4 DEF Next

----------------------------------------------------------------------------
(***************************************************************************)
(* Boot happens once, and nothing else happens before it.                  *)
(***************************************************************************)

\* Nothing returns boot_task to its single-threaded part.
LEMMA BootOnward ==
    ASSUME [Next]_vars
    PROVE  bootPc' = "start" => bootPc = "start"
  <1>1. CASE UNCHANGED vars
    BY <1>1 DEF vars
  <1>2. ASSUME NEW t \in Tasks, SetStep(t) PROVE UNCHANGED bootPc
    BY <1>2 DEF SetStep, SetCheck, SetWrite
  <1>3. CASE BootTask
    BY <1>3 DEF BootTask, BootLateInit, BootEvaluate
  <1>4. CASE RcTask
    BY <1>4 DEF RcTask, RcFrame, RcEscStep, RcTimeout, RcWatchdog
  <1>5. CASE EstimatorSafetyStep \/ VerticalStep \/ AngleTask \/ MotorTask
    BY <1>5 DEF EstimatorSafetyStep, VerticalStep, AngleTask, AngleStep, MotorTask,
                MotorSample, MotorWrite
  <1>6. CASE CommTask
    BY <1>6 DEF CommTask, CommArm, CommDisarm, CommCalibrate, CommCancel,
                CommOthers
  <1>7. ASSUME NEW c \in CalTasks, CalTask(c) PROVE UNCHANGED bootPc
    BY <1>7 DEF CalTask, CalEnter, CalEntered, CalRefused, CalCaptureEnds, CalTeardown,
                CalExit, CalOthers
  <1>8. CASE World
    BY <1>8 DEF World, PilotSwitch, EstimatorHealth, Attitude, Tick
  <1> QED
    BY <1>1, <1>2, <1>3, <1>4, <1>5, <1>6, <1>7, <1>8 DEF Next

Pending(t) == call[t].pc \in {"check", "write"}

\* Before the spawn nobody is inside a call; afterwards every call carries one
\* of its task's targets; a store waiting while the state is ESC_CALIB is one of
\* its two exits; and the boot's verdict, if one is on its way, is FAILSAFE.
EscInv ==
    /\ bootPc = "start" => sysState = "INIT" /\ \A t \in Tasks : call[t] = NoCall
    /\ \A t \in Tasks : Pending(t) => call[t].tgt \in Targets(t)
    /\ \A t \in Tasks : sysState = "ESC_CALIB" /\ call[t].pc = "write"
                          => call[t].tgt \in {"STANDBY", "FAILSAFE"}
    /\ sysState = "ESC_CALIB" /\ Pending("boot") => call["boot"].tgt # "STANDBY"

\* No task ever asks for ESC_CALIB: only the boot enters it.
LEMMA NoTargetEsc == \A t \in Tasks : "ESC_CALIB" \notin Targets(t)
  BY DEF Targets

\* EscInv is inductive.
LEMMA EscInvStep ==
    ASSUME TypeOK, EscInv, [Next]_vars
    PROVE  EscInv'
  <1> USE DEF Pending
  <1>0. /\ \A t \in Tasks : call[t] \in Calls
        /\ "boot" \in Tasks
    BY DEF TypeOK, Tasks, FixedTasks
  <1>1. CASE Quiet
    BY <1>1, BootOnward DEF Quiet, EscInv
  <1>2. ASSUME NEW t \in Tasks, NEW new \in Targets(t), Decides(t, new)
        PROVE  EscInv'
    <2>1. /\ bootPc' # "start"
          /\ sysState' = sysState
          /\ call' = [call EXCEPT ![t] = [pc |-> "check", tgt |-> new]]
      BY <1>2, BootOnward DEF Decides, SetCall
    <2>2. call'[t] = [pc |-> "check", tgt |-> new] /\ \A u \in Tasks : u # t => call'[u] = call[u]
      BY <2>1 DEF TypeOK
    <2>3. sysState = "ESC_CALIB" => ~(t = "boot" /\ new = "STANDBY")
      BY <1>2 DEF Decides
    <2>4. sysState' = "ESC_CALIB" /\ call'["boot"].pc \in {"check", "write"}
            => call'["boot"].tgt # "STANDBY"
      BY <1>0, <2>1, <2>2, <2>3 DEF EscInv
    <2> QED
      BY <2>1, <2>2, <2>4 DEF EscInv
  <1>3. ASSUME NEW t \in Tasks, SetCheck(t)
        PROVE  EscInv'
    <2>1. bootPc' # "start" /\ sysState' = sysState
      BY <1>3, BootOnward DEF SetCheck, EscInv, NoCall
    <2>2. \A u \in Tasks : u # t => call'[u] = call[u]
      BY <1>3 DEF SetCheck, TypeOK
    <2>3. call'[t].pc \in {"check", "write"}
            => /\ call'[t].tgt = call[t].tgt
               /\ Admits(sysState, call[t].tgt)
      BY <1>3 DEF SetCheck, TypeOK, NoCall, Refused
    <2>4. call[t].tgt \in Targets(t)
      BY <1>3 DEF SetCheck, EscInv
    <2>5. sysState = "ESC_CALIB" /\ call'[t].pc = "write"
            => call'[t].tgt \in {"STANDBY", "FAILSAFE"}
      BY <2>3 DEF Admits, Allowed, AllowedTable
    <2>6. sysState' = "ESC_CALIB" /\ call'["boot"].pc \in {"check", "write"}
            => call'["boot"].tgt # "STANDBY"
      BY <1>0, <1>3, <2>1, <2>2, <2>3 DEF EscInv, SetCheck
    <2> QED
      BY <2>1, <2>2, <2>3, <2>4, <2>5, <2>6 DEF EscInv
  <1>4. ASSUME NEW t \in Tasks, SetWrite(t)
        PROVE  EscInv'
    <2>1. bootPc' # "start" /\ sysState' # "ESC_CALIB"
      BY <1>4, BootOnward, NoTargetEsc DEF SetWrite, EscInv, NoCall
    <2>2. call' = [call EXCEPT ![t] = NoCall]
      BY <1>4 DEF SetWrite
    <2> QED
      BY <2>1, <2>2 DEF EscInv, TypeOK, NoCall
  <1>5. CASE CalReturn
    <2>1. PICK c \in CalTasks : call' = [call EXCEPT ![c] = NoCall]
      BY <1>5 DEF CalReturn
    <2>2. sysState' = sysState
      BY <1>5 DEF CalReturn
    <2> QED
      BY <2>1, <2>2, BootOnward DEF EscInv, TypeOK, NoCall
  <1>6. ASSUME NEW request \in EscRequests, BootLateInit(request)
        PROVE  EscInv'
    BY <1>0, <1>6 DEF BootLateInit, EscInv, NoCall
  <1> QED
    BY StepShape, <1>1, <1>2, <1>3, <1>4, <1>5, <1>6 DEF Decision, SetStep

\* EscInv holds in every reachable state.
LEMMA EscInvAlways == Spec => [](TypeOK /\ EscInv)
  <1>1. Init => EscInv
    BY DEF Init, EscInv, Pending, NoCall
  <1>2. TypeOK /\ EscInv /\ [Next]_vars => EscInv'
    BY EscInvStep
  <1> QED
    BY <1>1, <1>2, TypeCorrect, PTL DEF Spec

\* The isolation of ESC_CALIB, for every policy: it is entered only before
\* boot_task spawns the other tasks, and left only to STANDBY or FAILSAFE, even
\* by a system_state_set whose decision was taken from a stale load; and the
\* boot's verdict never takes it to STANDBY.
THEOREM EscCalibIsolation == Spec => EscCalibIsolated
  <1>1. ASSUME TypeOK, EscInv, [Next]_vars, sysState' # sysState
        PROVE  /\ sysState' = "ESC_CALIB" => bootPc = "start"
               /\ sysState = "ESC_CALIB" => sysState' \in {"STANDBY", "FAILSAFE"}
               /\ sysState = "ESC_CALIB" /\ sysState' = "STANDBY"
                    => call'["boot"] = call["boot"]
    <2>1. CASE \E t \in Tasks : SetWrite(t)
      <3>1. PICK t \in Tasks : SetWrite(t)
        BY <2>1
      <3>2. sysState' = call[t].tgt /\ call[t].pc = "write" /\ call[t].tgt \in Targets(t)
        BY <1>1, <3>1 DEF SetWrite, EscInv, Pending
      <3>3. t # "boot" => call'["boot"] = call["boot"]
        BY <1>1, <3>1 DEF SetWrite, TypeOK
      <3> QED
        BY <1>1, <3>2, <3>3, NoTargetEsc DEF EscInv, Pending
    <2>2. CASE \E request \in EscRequests : BootLateInit(request)
      BY <1>1, <2>2 DEF BootLateInit, EscInv
    <2>3. ~Quiet /\ ~Decision /\ ~CalReturn /\ \A t \in Tasks : ~SetCheck(t)
      BY <1>1 DEF Quiet, Decision, Decides, CalReturn, SetCheck
    <2> QED
      BY <1>1, StepShape, <2>1, <2>2, <2>3 DEF SetStep
  <1>2. TypeOK /\ EscInv /\ [Next]_vars
          => [/\ sysState' = "ESC_CALIB" => bootPc = "start"
              /\ sysState = "ESC_CALIB" => sysState' \in {"STANDBY", "FAILSAFE"}
              /\ sysState = "ESC_CALIB" /\ sysState' = "STANDBY"
                   => call'["boot"] = call["boot"]]_sysState
    BY <1>1
  <1> QED
    BY <1>2, EscInvAlways, PTL DEF Spec, EscCalibIsolated

----------------------------------------------------------------------------
(***************************************************************************)
(* Full throttle.                                                          *)
(***************************************************************************)

\* Whatever could put full throttle on the ESCs was preceded by a request.
ThrottleInv ==
    /\ bootPc = "start" => motors = "zero" /\ motorOut = "zero" /\ escPhase = "OFF"
    /\ motors = "max" \/ motorOut = "max" \/ escPhase # "OFF" => escTaken

throttleVars == <<motors, motorOut, escPhase, escTaken>>

\* The steps that touch those variables.
LEMMA ThrottleShape ==
    ASSUME [Next]_vars
    PROVE  \/ UNCHANGED throttleVars
           \/ \E request \in EscRequests : BootLateInit(request)
           \/ \E closing \in BOOLEAN : RcEscStep(closing)
           \/ MotorSample
           \/ MotorWrite
  <1> USE DEF throttleVars, motorVars, escVars
  <1>1. CASE UNCHANGED vars
    BY <1>1 DEF vars
  <1>2. ASSUME NEW t \in Tasks, SetStep(t) PROVE UNCHANGED throttleVars
    BY <1>2 DEF SetStep, SetCheck, SetWrite
  <1>3. ASSUME NEW clockOk \in BOOLEAN, BootEvaluate(clockOk)
        PROVE  UNCHANGED throttleVars
    BY <1>3 DEF BootEvaluate
  <1>4. ASSUME NEW throttleLow \in BOOLEAN, NEW snapped \in BOOLEAN,
               RcFrame(throttleLow, snapped)
        PROVE  UNCHANGED throttleVars
    BY <1>4 DEF RcFrame
  <1>5. CASE RcTimeout \/ RcWatchdog
    BY <1>5 DEF RcTimeout, RcWatchdog
  <1>6. CASE EstimatorSafetyStep \/ VerticalStep \/ AngleTask
    BY <1>6 DEF EstimatorSafetyStep, VerticalStep, AngleTask, AngleStep
  <1>7. CASE CommTask
    BY <1>7 DEF CommTask, CommArm, CommDisarm, CommCalibrate, CommCancel,
                CommOthers
  <1>8. ASSUME NEW c \in CalTasks, CalTask(c) PROVE UNCHANGED throttleVars
    BY <1>8 DEF CalTask, CalEnter, CalEntered, CalRefused, CalCaptureEnds, CalTeardown,
                CalExit, CalOthers
  <1>9. CASE World
    BY <1>9 DEF World, PilotSwitch, EstimatorHealth, Attitude, Tick
  <1> QED
    BY <1>1, <1>2, <1>3, <1>4, <1>5, <1>6, <1>7, <1>8, <1>9
       DEF Next, BootTask, RcTask, MotorTask

\* ThrottleInv is inductive.
LEMMA ThrottleInvStep ==
    ASSUME ThrottleInv, [Next]_vars
    PROVE  ThrottleInv'
  <1>1. CASE UNCHANGED throttleVars
    BY <1>1, BootOnward DEF throttleVars, ThrottleInv
  <1>2. ASSUME NEW request \in EscRequests, BootLateInit(request)
        PROVE  ThrottleInv'
    <2>1. motors = "zero" /\ motorOut = "zero" /\ escPhase = "OFF"
      BY <1>2 DEF BootLateInit, ThrottleInv
    <2> QED
      BY <1>2, <2>1 DEF BootLateInit, ThrottleInv, motorVars
  <1>3. ASSUME NEW closing \in BOOLEAN, RcEscStep(closing)
        PROVE  ThrottleInv'
    <2>1. bootPc' # "start"
      BY <1>3, BootOnward DEF RcEscStep, Ready, MayRun
    <2>2. escPhase' # "OFF" => escPhase # "OFF"
      BY <1>3 DEF RcEscStep, EscFinish, EscAbandon, escVars
    <2>3. UNCHANGED <<motors, motorOut, escTaken>>
      BY <1>3 DEF RcEscStep, motorVars
    <2> QED
      BY <2>1, <2>2, <2>3 DEF ThrottleInv
  <1>4. CASE MotorSample
    <2>1. bootPc' # "start"
      BY <1>4, BootOnward DEF MotorSample, Ready, MayRun
    <2>2. motorOut' = "max" => escPhase = "HIGH" \/ motors = "max"
      BY <1>4 DEF MotorSample
    <2>3. UNCHANGED <<motors, escPhase, escTaken>>
      BY <1>4 DEF MotorSample, escVars
    <2> QED
      BY <2>1, <2>2, <2>3 DEF ThrottleInv
  <1>5. CASE MotorWrite
    <2>1. bootPc' # "start"
      BY <1>5, BootOnward DEF MotorWrite, MayRun
    <2> QED
      BY <1>5, <2>1 DEF MotorWrite, ThrottleInv, escVars
  <1> QED
    BY ThrottleShape, <1>1, <1>2, <1>3, <1>4, <1>5

\* The ESCs are given full throttle only in a boot that took a calibration
\* request from the card: neither motor_task's replay of its previous outputs
\* nor a late sample of ESC_CALIB can produce it otherwise.
THEOREM FullThrottle == Spec => []FullThrottleNeedsRequest
  <1>1. Init => ThrottleInv
    BY DEF Init, ThrottleInv
  <1>2. ThrottleInv /\ [Next]_vars => ThrottleInv'
    BY ThrottleInvStep
  <1>3. ThrottleInv => FullThrottleNeedsRequest
    BY DEF ThrottleInv, FullThrottleNeedsRequest
  <1> QED
    BY <1>1, <1>2, <1>3, PTL DEF Spec

----------------------------------------------------------------------------
(***************************************************************************)
(* The transition table under the host's cooperative scheduler.            *)
(***************************************************************************)

\* A store that is waiting is still one the table admits.
FreshInv == \A t \in Tasks : call[t].pc = "write" => Admits(sysState, call[t].tgt)

\* Without preemption nothing separates the load from the store.
LEMMA FreshInvStep ==
    ASSUME Policy = "cooperative", TypeOK, FreshInv, [Next]_vars
    PROVE  FreshInv'
  <1>0. ASSUME NEW t \in Tasks, MayRun(t), NEW u \in Tasks \ {t}
        PROVE  call[u].pc # "write"
    BY <1>0 DEF MayRun, Busy
  <1>1. CASE Quiet
    BY <1>1 DEF Quiet, FreshInv
  <1>2. CASE Decision
    BY <1>2 DEF Decision, Decides, SetCall, FreshInv, TypeOK
  <1>3. ASSUME NEW t \in Tasks, SetCheck(t)
        PROVE  FreshInv'
    BY <1>3 DEF SetCheck, FreshInv, TypeOK, NoCall, Refused
  <1>4. ASSUME NEW t \in Tasks, SetWrite(t)
        PROVE  FreshInv'
    BY <1>0, <1>4 DEF SetWrite, FreshInv, TypeOK, NoCall
  <1>5. CASE CalReturn
    BY <1>5 DEF CalReturn, FreshInv, TypeOK, NoCall, Tasks
  <1>6. ASSUME NEW request \in EscRequests, BootLateInit(request)
        PROVE  FreshInv'
    <2>1. "boot" \in Tasks /\ call' = call
      BY <1>6 DEF BootLateInit, Tasks, FixedTasks
    <2>2. \A u \in Tasks : call[u].pc # "write"
      BY <1>0, <1>6, <2>1 DEF BootLateInit, Ready, NoCall
    <2> QED
      BY <2>1, <2>2 DEF FreshInv
  <1> QED
    BY StepShape, <1>1, <1>2, <1>3, <1>4, <1>5, <1>6 DEF SetStep

\* On the host port, where a task runs until it blocks, every change of the
\* flight state is a row of k_allowed_transitions.
THEOREM CooperativeTable ==
    ASSUME Policy = "cooperative"
    PROVE  Spec => TableRespected
  <1>1. Init => FreshInv
    BY DEF Init, FreshInv, NoCall
  <1>2. TypeOK /\ FreshInv /\ [Next]_vars => FreshInv'
    BY FreshInvStep
  <1>3. TypeOK /\ FreshInv /\ [Next]_vars => [Allowed(sysState, sysState')]_sysState
    <2> SUFFICES ASSUME TypeOK, FreshInv, [Next]_vars, sysState' # sysState
                 PROVE  Allowed(sysState, sysState')
      OBVIOUS
    <2>1. CASE \E t \in Tasks : SetWrite(t)
      BY <2>1 DEF SetWrite, FreshInv, Admits
    <2>2. CASE \E request \in EscRequests : BootLateInit(request)
      BY <2>2 DEF BootLateInit
    <2>3. ~Quiet /\ ~Decision /\ ~CalReturn /\ \A t \in Tasks : ~SetCheck(t)
      BY DEF Quiet, Decision, Decides, CalReturn, SetCheck
    <2> QED
      BY StepShape, <2>1, <2>2, <2>3 DEF SetStep
  <1> QED
    BY <1>1, <1>2, <1>3, TypeCorrect, PTL DEF Spec, TableRespected

----------------------------------------------------------------------------
(***************************************************************************)
(* The transition table on the target, where only a strictly higher        *)
(* priority preempts.  A priority-1 store is never stale.  A priority-0    *)
(* store may be overtaken, but only by a priority-1 task, and what those   *)
(* tasks can have written meanwhile is limited by the state the call was   *)
(* decided in.                                                             *)
(***************************************************************************)
Ground == {"STANDBY", "FAILSAFE"}

StaleInv ==
    \A t \in Tasks :
      /\ call[t].pc = "write" /\ Prio(t) = 1 => Admits(sysState, call[t].tgt)
      /\ call[t].pc = "write" /\ call[t].tgt = "STANDBY"
           => <<sysState, "STANDBY">> \in AllowedTable
      /\ call[t].pc = "write" /\ call[t].tgt = "CALIBRATING"
           => sysState \in Ground /\ ~Busy("vert")
      /\ t = "rc" /\ Pending(t) /\ call[t].tgt = "ARMED"
           => sysState \in Ground /\ ~Busy("vert")

\* Under the target's scheduler a priority-0 task runs only when nobody is
\* inside a call, a priority-1 task only when no other priority-1 task is.
LEMMA Preempts ==
    ASSUME Policy = "preemptive", NEW t \in Tasks, MayRun(t), NEW u \in Tasks \ {t}, Busy(u)
    PROVE  Prio(t) = 1 /\ Prio(u) = 0
  BY DEF MayRun, Prio

\* StaleInv is inductive.
LEMMA StaleInvStep ==
    ASSUME Policy = "preemptive", TypeOK, EscInv, StaleInv, [Next]_vars
    PROVE  StaleInv'
  <1> USE DEF Pending
  <1>a. "vert" \in Tasks /\ "rc" \in Tasks /\ "boot" \in Tasks /\ Prio("vert") = 1 /\ Prio("rc") = 0
    BY DEF Tasks, FixedTasks, Prio
  <1>b. Busy("vert") <=> Pending("vert")
    BY DEF Busy
  <1>c. Busy("vert")' <=> Pending("vert")'
    BY DEF Busy
  <1>1. CASE Quiet
    BY <1>1, <1>b, <1>c DEF Quiet, StaleInv
  <1>2. ASSUME NEW t \in Tasks, NEW new \in Targets(t), Decides(t, new)
        PROVE  StaleInv'
    <2>1. /\ sysState' = sysState
          /\ call' = [call EXCEPT ![t] = [pc |-> "check", tgt |-> new]]
          /\ MayRun(t)
      BY <1>2 DEF Decides, SetCall
    <2>2. \A u \in Tasks : u # t => call'[u] = call[u]
      BY <2>1 DEF TypeOK
    <2>3. call'[t].pc = "check" /\ call'[t].tgt = new
      BY <2>1 DEF TypeOK
    <2>4. CASE t = "vert"
      <3>1. sysState \notin Ground
        BY <1>2, <2>4 DEF Decides, Ground
      <3> QED
        BY <2>1, <2>2, <2>3, <2>4, <3>1, <1>a DEF StaleInv
    <2>5. CASE t # "vert"
      <3>1. Busy("vert")' <=> Busy("vert")
        BY <2>2, <2>5, <1>a, <1>b, <1>c
      <3>2. t = "rc" /\ new = "ARMED" => sysState \in Ground /\ ~Busy("vert")
        BY <1>2, <2>1, <1>a, Preempts DEF Decides, Ground
      <3> QED
        BY <2>1, <2>2, <2>3, <3>1, <3>2 DEF StaleInv
    <2> QED
      BY <2>4, <2>5
  <1>3. ASSUME NEW t \in Tasks, SetCheck(t)
        PROVE  StaleInv'
    <2>1. sysState' = sysState /\ MayRun(t) /\ call[t].pc = "check"
      BY <1>3 DEF SetCheck
    <2>2. \A u \in Tasks : u # t => call'[u] = call[u]
      BY <1>3 DEF SetCheck, TypeOK
    <2>3. Pending(t)' => /\ call'[t].tgt = call[t].tgt
                         /\ Admits(sysState, call[t].tgt)
      BY <1>3 DEF SetCheck, TypeOK, NoCall, Refused
    <2>4. Busy("vert")' => Busy("vert")
      BY <2>1, <2>2, <1>a, <1>b, <1>c
    <2>5. Prio(t) = 0 => ~Busy("vert")
      BY <2>1, <1>a, Preempts
    <2>6. call[t].tgt = "CALIBRATING" => Prio(t) = 0
      BY <2>1, TasksAssumption DEF EscInv, Targets, Prio, FixedTasks
    <2>7. /\ Admits(sysState, "STANDBY") => <<sysState, "STANDBY">> \in AllowedTable
          /\ Admits(sysState, "CALIBRATING") => sysState \in Ground
      BY DEF Admits, Allowed, AllowedTable, Ground
    <2>8. t = "rc" /\ call[t].tgt = "ARMED" => sysState \in Ground
      BY <2>1 DEF StaleInv
    <2> QED
      BY <2>1, <2>2, <2>3, <2>4, <2>5, <2>6, <2>7, <2>8, <1>a DEF StaleInv
  <1>4. ASSUME NEW t \in Tasks, SetWrite(t)
        PROVE  StaleInv'
    <2>1. sysState' = call[t].tgt /\ MayRun(t) /\ call[t].pc = "write"
          /\ call[t].tgt \in Targets(t)
      BY <1>4 DEF SetWrite, EscInv
    <2>2. /\ \A u \in Tasks : u # t => call'[u] = call[u]
          /\ call'[t] = NoCall
      BY <1>4 DEF SetWrite, TypeOK
    <2>3. ASSUME NEW u \in Tasks, Pending(u)'
          PROVE  u # t /\ Prio(t) = 1 /\ Prio(u) = 0 /\ Pending(u) /\ call'[u] = call[u]
      <3>1. u # t /\ Pending(u) /\ call'[u] = call[u]
        BY <2>2, <2>3 DEF NoCall
      <3> QED
        BY <3>1, <2>1, Preempts DEF Busy
    <2>4. Prio(t) = 1 => \/ t = "vert" /\ call[t].tgt \in {"ARMED", "IN_AIR"}
                         \/ t # "vert" /\ call[t].tgt = "FAILSAFE"
      BY <2>1 DEF Targets, Prio
    <2>5. ~Busy("vert")'
      BY <2>3, <1>a, <1>c
    <2>6. t = "vert" => Busy("vert")
      BY <2>1, <1>b
    <2>7. /\ <<"FAILSAFE", "STANDBY">> \in AllowedTable
          /\ <<"ARMED", "STANDBY">> \in AllowedTable
          /\ <<"IN_AIR", "STANDBY">> \in AllowedTable
      BY DEF AllowedTable
    <2> QED
      BY <2>1, <2>3, <2>4, <2>5, <2>6, <2>7 DEF StaleInv, Ground
  <1>5. CASE CalReturn
    <2>1. PICK c \in CalTasks : call' = [call EXCEPT ![c] = NoCall]
      BY <1>5 DEF CalReturn
    <2>2. sysState' = sysState /\ c \in Tasks /\ c # "vert"
      BY <1>5, TasksAssumption DEF CalReturn, Tasks, FixedTasks
    <2>3. Busy("vert")' <=> Busy("vert")
      BY <2>1, <2>2, <1>a, <1>b, <1>c DEF TypeOK
    <2> QED
      BY <2>1, <2>2, <2>3 DEF StaleInv, TypeOK, NoCall
  <1>6. ASSUME NEW request \in EscRequests, BootLateInit(request)
        PROVE  StaleInv'
    BY <1>6 DEF BootLateInit, EscInv, StaleInv, NoCall
  <1> QED
    BY StepShape, <1>1, <1>2, <1>3, <1>4, <1>5, <1>6 DEF Decision, SetStep

\* On the target every change of the flight state is a row of
\* k_allowed_transitions, except that rc_apply_frame's ARMED may overwrite a
\* FAILSAFE stored between its load and its store.  This is what SYS-SAFE-006
\* is worth on the target, for any number of calibration tasks.
THEOREM PreemptiveTable ==
    ASSUME Policy = "preemptive"
    PROVE  Spec => OnlyArmOverwritesFailsafe
  <1>1. Init => StaleInv
    BY DEF Init, StaleInv, Pending, NoCall
  <1>2. TypeOK /\ EscInv /\ StaleInv /\ [Next]_vars => StaleInv'
    BY StaleInvStep
  <1>3. TypeOK /\ EscInv /\ StaleInv /\ [Next]_vars
          => [\/ Allowed(sysState, sysState')
              \/ sysState = "FAILSAFE" /\ sysState' = "ARMED"]_sysState
    <2> SUFFICES ASSUME TypeOK, EscInv, StaleInv, [Next]_vars, sysState' # sysState
                 PROVE  \/ Allowed(sysState, sysState')
                        \/ sysState = "FAILSAFE" /\ sysState' = "ARMED"
      OBVIOUS
    <2>1. ASSUME NEW t \in Tasks, SetWrite(t)
          PROVE  \/ Allowed(sysState, sysState')
                 \/ sysState = "FAILSAFE" /\ sysState' = "ARMED"
      <3>1. sysState' = call[t].tgt /\ call[t].pc = "write" /\ call[t].tgt \in Targets(t)
        BY <2>1 DEF SetWrite, EscInv, Pending
      <3>2. CASE Prio(t) = 1
        BY <3>1, <3>2 DEF StaleInv, Admits
      <3>3. CASE Prio(t) # 1
        <4>1. \/ call[t].tgt \in {"FAILSAFE", "STANDBY", "CALIBRATING"}
              \/ t = "rc" /\ call[t].tgt = "ARMED"
          BY <3>1, <3>3 DEF Targets, Prio
        <4>2. /\ call[t].tgt = "CALIBRATING" => sysState \in Ground
              /\ t = "rc" /\ call[t].tgt = "ARMED" => sysState \in Ground
              /\ call[t].tgt = "STANDBY" => <<sysState, "STANDBY">> \in AllowedTable
          BY <3>1 DEF StaleInv, Pending
        <4>3. /\ <<"STANDBY", "CALIBRATING">> \in AllowedTable
              /\ <<"FAILSAFE", "CALIBRATING">> \in AllowedTable
              /\ <<"STANDBY", "ARMED">> \in AllowedTable
          BY DEF AllowedTable
        <4> QED
          BY <3>1, <4>1, <4>2, <4>3 DEF Allowed, Ground
      <3> QED
        BY <3>2, <3>3
    <2>2. CASE \E request \in EscRequests : BootLateInit(request)
      BY <2>2 DEF BootLateInit
    <2>3. ~Quiet /\ ~Decision /\ ~CalReturn /\ \A t \in Tasks : ~SetCheck(t)
      BY DEF Quiet, Decision, Decides, CalReturn, SetCheck
    <2> QED
      BY StepShape, <2>1, <2>2, <2>3 DEF SetStep
  <1> QED
    BY <1>1, <1>2, <1>3, EscInvAlways, PTL DEF Spec, OnlyArmOverwritesFailsafe

----------------------------------------------------------------------------
(***************************************************************************)
(* The diversion of IMU samples.                                           *)
(***************************************************************************)

\* The steps that touch the diversion or a calibration task's position.
LEMMA DiversionStep ==
    ASSUME TypeOK, DiversionNotStranded, [Next]_vars
    PROVE  DiversionNotStranded'
  <1> USE DEF DiversionNotStranded
  <1>1. CASE UNCHANGED <<calPc, calibActive>>
    BY <1>1
  <1>2. CASE CommCalibrate
    <2>1. UNCHANGED calibActive
      BY <1>2 DEF CommCalibrate
    <2>2. \A c \in CalTasks : calPc[c] # "none" => calPc'[c] = calPc[c]
      BY <1>2 DEF CommCalibrate, CalibrateStart, TypeOK
    <2> QED
      BY <2>1, <2>2
  <1>3. ASSUME NEW c \in CalTasks, CalTask(c)
        PROVE  DiversionNotStranded'
    <2> USE DEF CalGoto, TypeOK
    <2>1. CASE CalEnter(c)
      BY <2>1 DEF CalEnter
    <2>2. CASE CalEntered(c)
      BY <2>2 DEF CalEntered
    <2>3. CASE CalRefused(c)
      BY <2>3 DEF CalRefused
    <2>4. CASE CalCaptureEnds(c)
      BY <2>4 DEF CalCaptureEnds
    <2>5. CASE CalTeardown(c)
      BY <2>5 DEF CalTeardown
    <2>6. CASE CalExit(c)
      BY <2>6 DEF CalExit
    <2> QED
      BY <1>3, <2>1, <2>2, <2>3, <2>4, <2>5, <2>6 DEF CalTask
  <1>4. CASE UNCHANGED vars
    BY <1>4 DEF vars, calVars
  <1>5. ASSUME NEW t \in Tasks, SetStep(t) PROVE UNCHANGED <<calPc, calibActive>>
    BY <1>5 DEF SetStep, SetCheck, SetWrite, calVars
  <1>6. CASE BootTask \/ RcTask
    BY <1>6 DEF BootTask, BootLateInit, BootEvaluate, RcTask, RcFrame, RcEscStep, RcTimeout,
                RcWatchdog, calVars
  <1>7. CASE EstimatorSafetyStep \/ VerticalStep \/ AngleTask \/ MotorTask
    BY <1>7 DEF EstimatorSafetyStep, VerticalStep, AngleTask, AngleStep, MotorTask,
                MotorSample, MotorWrite, calVars
  <1>8. CASE CommArm \/ CommDisarm \/ CommCancel
    BY <1>8 DEF CommArm, CommDisarm, CommCancel, calVars
  <1>9. CASE World
    BY <1>9 DEF World, PilotSwitch, EstimatorHealth, Attitude, Tick, calVars
  <1> QED
    BY <1>1, <1>2, <1>3, <1>4, <1>5, <1>6, <1>7, <1>8, <1>9 DEF Next, CommTask

\* Whatever is cancelled, refused or abandoned, and however many calibrations
\* overlap, IMU samples are diverted only while some calibration task is still
\* going to restore them.
THEOREM DiversionEnds == Spec => []DiversionNotStranded
  <1>1. Init => DiversionNotStranded
    BY DEF Init, DiversionNotStranded
  <1>2. TypeOK /\ DiversionNotStranded /\ [Next]_vars => DiversionNotStranded'
    BY DiversionStep
  <1> QED
    BY <1>1, <1>2, TypeCorrect, PTL DEF Spec

============================================================================
