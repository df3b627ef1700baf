------------------------------- MODULE FsLoop -------------------------------
(***************************************************************************)
(* What the services of the filesystem task share: fs_owner_task           *)
(* (fs_owner.c) is one loop that serves the save lane, the write lane, the *)
(* flight recorder and one synchronous request, in this order, and is the  *)
(* only task that writes to the card while the vehicle runs.               *)
(*                                                                         *)
(* offered is the traffic this behaviour has, chosen at the start from     *)
(* Scenes, so that a scene is explored to the end.                         *)
(***************************************************************************)
EXTENDS Integers, Sequences

CONSTANTS
    Scenes,         \* the sets of traffic explored, each a set of names
    MaxFails,       \* bound: failed card operations
    MaxBoots        \* bound: power cuts

ASSUME LoopAssumption == MaxFails \in Nat /\ MaxBoots \in Nat

VARIABLES
    offered,
    turn,           \* the lane fs_owner_task is serving
    fails,          \* card operations that failed so far
    boots,          \* power cuts so far
    suppressed      \* s_logs_suppressed: a bulk transfer is running

loopVars == <<offered, turn, fails, boots, suppressed>>

Turns == {"saves", "writes", "log", "sync"}

LoopTypeOK ==
    /\ offered \in Scenes
    /\ turn \in Turns
    /\ fails \in 0..MaxFails
    /\ boots \in 0..MaxBoots
    /\ suppressed \in BOOLEAN

LoopInit ==
    /\ offered \in Scenes
    /\ turn = "saves"
    /\ fails = 0
    /\ boots = 0
    /\ suppressed = FALSE

\* The next lane of the loop.
After(t) ==
    CASE t = "saves" -> "writes" [] t = "writes" -> "log"
      [] t = "log" -> "sync"     [] t = "sync" -> "saves"

\* A card operation works, or fails within the bound.
CardWorks == fails' = fails
CardFails == "fault" \in offered /\ fails < MaxFails /\ fails' = fails + 1
=============================================================================
