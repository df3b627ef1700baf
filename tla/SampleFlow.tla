----------------------------- MODULE SampleFlow -----------------------------
(***************************************************************************)
(* What the sensing pipeline promises its readers, whatever is dropped on  *)
(* the way: the attitude estimate and the vertical estimate are of samples *)
(* that were acquired, each later than the one before, and the vertical    *)
(* estimate is never of a sample the attitude estimate has not reached.    *)
(***************************************************************************)
EXTENDS Naturals

VARIABLES
    acquired,   \* the last sample acquired
    estimated,  \* the sample of the newest attitude estimate, 0 before the first
    vertical    \* the sample of the newest vertical estimate

flow == <<acquired, estimated, vertical>>

Init == acquired = 0 /\ estimated = 0 /\ vertical = 0

Acquire  == acquired' = acquired + 1 /\ UNCHANGED <<estimated, vertical>>
Estimate == estimated' \in (estimated + 1)..acquired /\ UNCHANGED <<acquired, vertical>>
Follow   == vertical' \in (vertical + 1)..estimated /\ UNCHANGED <<acquired, estimated>>

Next == Acquire \/ Estimate \/ Follow

Spec == Init /\ [][Next]_flow

=============================================================================
