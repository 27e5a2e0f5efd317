-------------------------- MODULE ExperienceStates --------------------------
(***************************************************************************)
(* What the lifecycle of an experience promises, without tokens, clocks or *)
(* transactions: which state may follow which.  ExperienceReview, the      *)
(* detailed module, is shown to implement it; MissionPacks takes its       *)
(* lifecycle operators from here.                                          *)
(*                                                                         *)
(* Only the four actions a user can take are steps (experience/            *)
(* lifecycle.go).  The wider table ValidTransition also allows a           *)
(* contradicted state and a resumed pause, which no caller of the program  *)
(* asks for.                                                               *)
(***************************************************************************)
CONSTANT Experiences          \* the candidates an experience may grow from

VARIABLE lifecycle            \* [Experiences -> LifecycleStates], or "none"

LifecycleActions == {"activate", "pause", "supersede", "expire"}

LifecycleStates ==
    {"approved", "active", "paused", "contradicted", "superseded", "expired"}

(* What may follow a state at all, whoever asks. *)
ValidTransition ==
    [approved     |-> {"active", "paused", "superseded", "expired"},
     active       |-> {"paused", "contradicted", "superseded", "expired"},
     paused       |-> {"active", "contradicted", "superseded", "expired"},
     contradicted |-> {"active", "paused", "superseded"},
     superseded   |-> {},
     expired      |-> {}]

(* Where an action leads, and from which states it may be taken. *)
ActionTarget == [activate  |-> "active",     pause  |-> "paused",
                 supersede |-> "superseded", expire |-> "expired"]

TransitionAllowed(action, current) ==
    CASE action = "activate" -> current = "approved"
      [] action = "pause"    -> current = "active"
      [] OTHER               -> /\ current \in LifecycleStates
                                /\ ActionTarget[action] \in ValidTransition[current]
-----------------------------------------------------------------------------
Init == lifecycle = [e \in Experiences |-> "none"]

Approve(e) ==
    /\ lifecycle[e] = "none"
    /\ lifecycle' = [lifecycle EXCEPT ![e] = "approved"]

Act(e, action) ==
    /\ TransitionAllowed(action, lifecycle[e])
    /\ lifecycle' = [lifecycle EXCEPT ![e] = ActionTarget[action]]

Next == \E e \in Experiences :
            \/ Approve(e)
            \/ \E action \in LifecycleActions : Act(e, action)

Spec == Init /\ [][Next]_lifecycle
=============================================================================
