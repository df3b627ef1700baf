---------------------------- MODULE MCSensorPath ----------------------------
(* SensorPath with pipes short enough to overflow within the bound. *)
EXTENDS SensorPath

MCSlots == [t \in Topics |-> IF t = "imu.attitude" THEN 2 ELSE 1]

=============================================================================
