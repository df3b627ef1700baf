------------------------------ MODULE CommLink ------------------------------
(***************************************************************************)
(* The vehicle's links to the ground together: the telemetry downlink      *)
(* (Channel), the command uplink and the clock it disciplines (Uplink) and *)
(* the radio-control receiver (RcLink).  The first two share the transmit  *)
(* channel; the receiver has its own UART, DMA and task, and meets them in *)
(* the flight state only (FlightState).                                    *)
(*                                                                         *)
(* Which traffic a behaviour has is chosen at the start (offered), so that *)
(* a scene is explored to the end beside the traffic it contends with and  *)
(* not beside all of it.                                                   *)
(***************************************************************************)
EXTENDS Uplink, RcLink

vars == <<linkVars, rcVars>>

Init == LinkInit /\ RcInit

Next ==
    \/ LinkNext /\ UNCHANGED rcVars
    \/ "rc" \in offered /\ RcNext /\ UNCHANGED linkVars

Spec == Init /\ [][Next]_vars /\ LinkFairness
=============================================================================
