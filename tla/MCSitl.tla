------------------------------- MODULE MCSitl -------------------------------
(***************************************************************************)
(* The pilot and the window beside a quiet control pipe, where the tasks   *)
(* and the pose matter; the window beside a reset; and every kind of frame *)
(* on the control pipe of a headless run.                                  *)
(***************************************************************************)
EXTENDS Sitl

Headless == {<<"geometry", "world", "reset", "geometry">>, <<"mesh", "badmesh", "mesh", "clear">>,
             <<"pose", "junk", "mesh", "ping">>, <<"huge", "world", "clear">>,
             <<"drop", "muteAcc", "heal", "pause">>, <<"pause", "muteAcc", "resume", "drop">>}

MCScenes == {[plan |-> <<>>, threads |-> {"rc", "window"}],
             [plan |-> <<"reset">>, threads |-> {"window"}],
             [plan |-> <<"pause", "resume">>, threads |-> {"rc"}]}
            \union [plan : Headless, threads : {{}}]
=============================================================================
