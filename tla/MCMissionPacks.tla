---------------------------- MODULE MCMissionPacks ----------------------------
(* The second experience expires by itself while packs are in flight. *)
EXTENDS MissionPacks, TLC

CONSTANTS e1, e2

OneExpires == e1 :> MaxTime + 1 @@ e2 :> 2
=============================================================================
