------------------------ MODULE RecurrenceEvaluation ------------------------
(***************************************************************************)
(* What recurrence monitoring promises: every analysis published after a   *)
(* fix was recorded is compared with that fix once, in the order the fixes *)
(* were recorded, whoever does it and however often it is interrupted.     *)
(* RecurrenceJobs implements it.                                           *)
(***************************************************************************)
EXTENDS Integers, Sequences, FiniteSets

CONSTANTS Occurrences,  \* issue occurrences, the same in every revision
          MaxFixes,     \* bound: fixes ever recorded
          MaxJobs       \* bound: completed analyses ever published

VARIABLES fixes,        \* a fix recorded: is a project scope known for it?
          retracted,    \* fixes taken back
          evaluations,  \* one for each published analysis
          observed      \* recurrences shown to the user

evaluationVars == <<fixes, retracted, evaluations, observed>>

(* matches is what the published occurrences have in common with the fixes *)
(* there were; through is the last fix it was compared with.               *)
Evaluation == [snapshot: Nat, matches: SUBSET ((Nat \ {0}) \X Occurrences), through: Nat]

EvaluationInit ==
    /\ fixes = <<>>
    /\ retracted = {}
    /\ evaluations = <<>>
    /\ observed = {}

RecordFix ==
    /\ Len(fixes) < MaxFixes
    /\ \E captured \in BOOLEAN : fixes' = Append(fixes, captured)
    /\ UNCHANGED <<retracted, evaluations, observed>>

RetractFix ==
    /\ \E a \in 1..Len(fixes) : retracted' = retracted \cup {a}
    /\ UNCHANGED <<fixes, evaluations, observed>>

PublishAnalysis ==
    /\ Len(evaluations) < MaxJobs
    /\ \E matches \in SUBSET ((1..Len(fixes)) \X Occurrences) :
          evaluations' = Append(evaluations,
              [snapshot |-> Len(fixes), matches |-> matches, through |-> 0])
    /\ UNCHANGED <<fixes, retracted, observed>>

(* The fixes up to n are judged, as they stand now, and every match of one *)
(* that is not retracted is shown.                                         *)
Judge(i, n) ==
    /\ n \in evaluations[i].through + 1..evaluations[i].snapshot
    /\ evaluations' = [evaluations EXCEPT ![i].through = n]
    /\ observed' = observed \cup
          {m \in evaluations[i].matches :
              m[1] \in (evaluations[i].through + 1..n) \ retracted /\ fixes[m[1]]}
    /\ UNCHANGED <<fixes, retracted>>

EvaluationNext ==
    \/ RecordFix
    \/ RetractFix
    \/ PublishAnalysis
    \/ \E i \in 1..Len(evaluations) : \E n \in 1..evaluations[i].snapshot : Judge(i, n)

EvaluationSpec == EvaluationInit /\ [][EvaluationNext]_evaluationVars
=============================================================================
