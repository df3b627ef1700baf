------------------------------- MODULE Bench --------------------------------
(***************************************************************************)
(* The vehicle on the bench: the ESC calibration across power cycles       *)
(* (EscCalib), the IMU calibration (Calibration), the annunciator that     *)
(* shows the operator the flight state (Annunciator) and the pack voltage  *)
(* (BatterySense).  They meet in the flight state only, whose interleaving *)
(* is FlightState's; each behaviour exercises one of them (scene), with    *)
(* the flight state moving freely under it.                                *)
(***************************************************************************)
EXTENDS EscCalib, Calibration, Annunciator, BatterySense

CONSTANT Scenes
ASSUME BenchAssumption == Scenes \subseteq {"esc", "imu", "lights", "pack"}

VARIABLE scene

benchVars == <<vars, calVars, lightsVars, battVars, scene>>

BenchTypeOK ==
    /\ scene = "esc" => TypeOK
    /\ scene = "imu" => CalTypeOK
    /\ scene = "lights" => LightsTypeOK
    /\ scene = "pack" => BattTypeOK

\* Only the scene's own part starts in each of its initial states.
BenchInit ==
    /\ scene \in Scenes
    /\ Init /\ CalInit /\ LightsInit /\ BattInit
    /\ scene # "imu"    => plan = CHOOSE p \in CalibPlans : TRUE
    /\ scene # "imu"    => calState = "STANDBY"
    /\ scene # "lights" => faults = {} /\ shown = CHOOSE s \in ShownStates : TRUE
    /\ scene # "pack"   => ready /\ cardScale = "absent"

BenchNext ==
    /\ UNCHANGED scene
    /\ \/ scene = "esc"    /\ Next       /\ UNCHANGED <<calVars, lightsVars, battVars>>
       \/ scene = "imu"    /\ CalNext    /\ UNCHANGED <<vars, lightsVars, battVars>>
       \/ scene = "lights" /\ LightsNext /\ UNCHANGED <<vars, calVars, battVars>>
       \/ scene = "pack"   /\ BattNext   /\ UNCHANGED <<vars, calVars, lightsVars>>

BenchSpec == BenchInit /\ [][BenchNext]_benchVars /\ (scene = "imu" => CalFairness)

\* An IMU calibration neither feeds the estimator a half-written result nor
\* keeps its samples, and fits distinct sides.
CalibrationSound ==
    /\ BenchTypeOK
    /\ EstimatorNeverTorn
    /\ DiversionEnds
    /\ SidesDistinct

\* What the operator is told is so: that a request is stored, what became of a
\* calibration, the flight state on the LEDs, the voltage of the pack.
OperatorTold ==
    /\ ToldOnCardIsStored
    /\ OutcomeHonest
    /\ PatternOfState
    /\ ActivityHonest
    /\ PresentEarned
    /\ PackSeen
=============================================================================
