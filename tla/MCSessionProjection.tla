------------------------ MODULE MCSessionProjection ------------------------
(* Values of the constants of SessionProjection for TLC.                   *)
EXTENDS SessionProjection, TLC

CONSTANTS r1, r2, local, cli

(* The recovery loop alone.                                                *)
SingleHandle == r1 :> local
(* Belay Local twice on one database, each with its recovery loop.         *)
TwoProcesses == r1 :> local @@ r2 :> cli

ProjectA(quality) == [id |-> "project a", quality |-> quality]
ProjectB(quality) == [id |-> "project b", quality |-> quality]

NoScopes == {}
TwoProjects == {ProjectA("lexical"), ProjectA("resolved"), ProjectB("resolved")}
=============================================================================
