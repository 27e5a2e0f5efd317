----------------------- MODULE MCProjectionRetention -----------------------
(* Values of the constants of ProjectionRetention for TLC: the recovery    *)
(* loop of Belay Local; the prune is a process of its own.                 *)
EXTENDS ProjectionRetention, TLC

CONSTANTS r1, r2, local

SingleHandle == r1 :> local
NoScopes == {}
=============================================================================
