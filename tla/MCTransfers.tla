---------------------------- MODULE MCTransfers ----------------------------
(***************************************************************************)
(* The instance of Transfers for TLC: upload session s0 sends a whole      *)
(* file, s1 resumes one at its last chunk.                                 *)
(***************************************************************************)
EXTENDS Transfers

MCStarts == [s \in Sessions |-> IF s = "s0" THEN {0} ELSE {MaxOff}]
=============================================================================
