------------------------- MODULE MCExperienceReview -------------------------
(* One candidate with two proposals. *)
EXTENDS ExperienceReview, TLC

CONSTANTS c1, p1, p2

OneCandidate == p1 :> c1 @@ p2 :> c1
=============================================================================
