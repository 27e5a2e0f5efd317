--------------------------- MODULE TranscriptAnalysis ---------------------------
(***************************************************************************)
(* What is derived from the transcripts of a project: the trajectories of  *)
(* each session, and the issues of the project, which are computed from    *)
(* the turns and from the trajectories.                                    *)
(*                                                                         *)
(* Importers, here and in other processes, add turns and raise the         *)
(* project's generation in one transaction.  One worker derives: it lists  *)
(* the sessions whose fingerprint changed, reads a session, inserts each   *)
(* edge in a transaction of its own, publishes the derivation under the    *)
(* fingerprint it claimed, and, if it inserted any edge, raises the        *)
(* generation so that the issues are computed again.  Another worker       *)
(* analyses: it lists the project with its generation, loads the sessions  *)
(* one query after the other, then the edges, and replaces the issues if   *)
(* the generation still is the one it listed.                              *)
(*                                                                         *)
(* Abstracted: a session's content is the number of batches imported, and  *)
(* its fingerprint is that number; a batch completes an edge when it is in *)
(* Edging, and edges never go away; outcomes and evidence episodes are     *)
(* edges; derivations are complete or failed (a partial one is complete    *)
(* and derived again); the delay of a retry; one project.                  *)
(***************************************************************************)
EXTENDS Integers, FiniteSets

CONSTANTS Sessions,
          Edging,          \* set of <<session, batch>> that complete an edge
          MaxBatches,      \* bound on the batches imported
          MaxFaults        \* bound on crashes and errors

ASSUME AnalysisAssumption == {MaxBatches, MaxFaults} \subseteq Nat

VARIABLES content,         \* [Sessions -> batches in the store]
          generation,      \* transcript_project_analysis_state
          analyzed,        \*   .analyzed_generation
          edges,           \* trajectory_edges
          derivation,      \* [Sessions -> trajectory_derivation_state]
          issues,          \* what the stored issues were computed from
          deriver,         \* what the deriving worker has in hand
          analyzer,        \* what the analysing worker has in hand
          batches, faults

inputVars == <<content, batches>>
boundVars == <<batches, faults>>
storeVars == <<content, generation, analyzed, edges, derivation, issues>>
vars == <<storeVars, deriver, analyzer, boundVars>>

Idle == [phase |-> "idle"]
NoDerivation == [of |-> 0, status |-> "none"]

Init ==
    /\ content = [s \in Sessions |-> 0]
    /\ generation = 0
    /\ analyzed = 0
    /\ edges = {}
    /\ derivation = [s \in Sessions |-> NoDerivation]
    /\ issues = [content |-> [s \in Sessions |-> 0], edges |-> {}]
    /\ deriver = Idle
    /\ analyzer = Idle
    /\ batches = 0
    /\ faults = 0

EdgesOf(s, n) == {e \in Edging : e[1] = s /\ e[2] <= n}
-----------------------------------------------------------------------------
ImportBatch(s) ==
    /\ batches < MaxBatches
    /\ batches' = batches + 1
    /\ content' = [content EXCEPT ![s] = @ + 1]
    /\ generation' = generation + 1
    /\ UNCHANGED <<analyzed, edges, derivation, issues, deriver, analyzer, faults>>
-----------------------------------------------------------------------------
(* The deriving worker.                                                    *)
(* Mutant: a failed derivation is not taken up again.                      *)
MutDirtySessions == {s \in Sessions : content[s] > 0 /\ derivation[s].of # content[s]}

DirtySessions ==
    {s \in Sessions : /\ content[s] > 0
                      /\ \/ derivation[s].of # content[s]
                         \/ derivation[s].status = "failed"}

(* A claim carries the fingerprint the list was made from.                 *)
ListDirtySessions ==
    /\ deriver = Idle
    /\ DirtySessions # {}
    /\ deriver' = [phase |-> "listed", claims |-> [s \in DirtySessions |-> content[s]]]
    /\ UNCHANGED <<storeVars, analyzer, boundVars>>

(* What is left of the list when a session is done.                        *)
Others == LET rest == DOMAIN deriver.claims \ {deriver.session}
          IN IF rest = {} THEN Idle
             ELSE [phase |-> "listed", claims |-> [s \in rest |-> deriver.claims[s]]]

Claim == deriver.claims[deriver.session]

ReadSession(s) ==
    /\ deriver.phase = "listed"
    /\ s \in DOMAIN deriver.claims
    /\ deriver' = [phase |-> "inserting", claims |-> deriver.claims, session |-> s,
                   inserted |-> FALSE, left |-> EdgesOf(s, content[s])]
    /\ UNCHANGED <<storeVars, analyzer, boundVars>>

(* An edge that is there already is replayed.                              *)
InsertTrajectoryEdge ==
    /\ deriver.phase = "inserting"
    /\ \E e \in deriver.left :
           /\ edges' = edges \cup {e}
           /\ deriver' = [deriver EXCEPT !.left = @ \ {e},
                                         !.inserted = @ \/ e \notin edges]
    /\ UNCHANGED <<content, generation, analyzed, derivation, issues, analyzer,
                   boundVars>>

(* Mutant: the state is stored under the fingerprint of now.               *)
MutPublish(status) ==
    derivation' = [derivation EXCEPT ![deriver.session] =
                      [of |-> content[deriver.session], status |-> status]]

(* The state is kept only while the claimed fingerprint is the current.    *)
Publish(status) ==
    IF content[deriver.session] = Claim
    THEN derivation' = [derivation EXCEPT ![deriver.session] =
                           [of |-> Claim, status |-> status]]
    ELSE UNCHANGED derivation

MarkDerivationCurrent ==
    /\ deriver.phase = "inserting"
    /\ deriver.left = {}
    /\ Publish("complete")
    /\ deriver' = IF content[deriver.session] = Claim /\ deriver.inserted
                  THEN [phase |-> "requeue", claims |-> deriver.claims,
                        session |-> deriver.session]
                  ELSE Others
    /\ UNCHANGED <<content, generation, analyzed, edges, issues, analyzer, boundVars>>

(* A read or an insertion fails: the failure is recorded, to be retried.   *)
DerivationFails ==
    /\ deriver.phase = "inserting"
    /\ faults < MaxFaults
    /\ faults' = faults + 1
    /\ Publish("failed")
    /\ deriver' = Others
    /\ UNCHANGED <<content, generation, analyzed, edges, issues, analyzer, batches>>

MarkAnalysisDirty ==
    /\ deriver.phase = "requeue"
    /\ generation' = generation + 1
    /\ deriver' = Others
    /\ UNCHANGED <<content, analyzed, edges, derivation, issues, analyzer, boundVars>>
-----------------------------------------------------------------------------
(* The analysing worker.                                                   *)
ListDirty ==
    /\ analyzer = Idle
    /\ generation > analyzed
    /\ analyzer' = [phase |-> "loading", generation |-> generation,
                    content |-> [s \in {} |-> 0]]
    /\ UNCHANGED <<storeVars, deriver, boundVars>>

LoadSession(s) ==
    /\ analyzer.phase = "loading"
    /\ s \notin DOMAIN analyzer.content
    /\ analyzer' = [analyzer EXCEPT !.content =
                       [t \in DOMAIN @ \cup {s} |->
                           IF t = s THEN content[s] ELSE @[t]]]
    /\ UNCHANGED <<storeVars, deriver, boundVars>>

LoadEdges ==
    /\ analyzer.phase = "loading"
    /\ DOMAIN analyzer.content = Sessions
    /\ analyzer' = [phase |-> "analyzed", generation |-> analyzer.generation,
                    content |-> analyzer.content, edges |-> edges]
    /\ UNCHANGED <<storeVars, deriver, boundVars>>

(* Mutant: the issues are replaced whatever the generation is.             *)
MutReplaceIssues ==
    /\ analyzer.phase = "analyzed"
    /\ issues' = [content |-> analyzer.content, edges |-> analyzer.edges]
    /\ analyzed' = generation
    /\ analyzer' = Idle
    /\ UNCHANGED <<content, generation, edges, derivation, deriver, boundVars>>

ReplaceIssues ==
    /\ analyzer.phase = "analyzed"
    /\ analyzer.generation = generation
    /\ issues' = [content |-> analyzer.content, edges |-> analyzer.edges]
    /\ analyzed' = generation
    /\ analyzer' = Idle
    /\ UNCHANGED <<content, generation, edges, derivation, deriver, boundVars>>

(* ErrTranscriptProjectGenerationChanged: the project stays dirty.         *)
AnalysisIsStale ==
    /\ analyzer.phase = "analyzed"
    /\ analyzer.generation # generation
    /\ analyzer' = Idle
    /\ UNCHANGED <<storeVars, deriver, boundVars>>

(* The process dies, and with it what both workers had in hand.            *)
Crash ==
    /\ faults < MaxFaults
    /\ deriver # Idle \/ analyzer # Idle
    /\ faults' = faults + 1
    /\ deriver' = Idle
    /\ analyzer' = Idle
    /\ UNCHANGED <<storeVars, batches>>

DeriverStep ==
    \/ ListDirtySessions
    \/ \E s \in Sessions : ReadSession(s)
    \/ InsertTrajectoryEdge \/ MarkDerivationCurrent
    \/ MarkAnalysisDirty

AnalyzerStep ==
    \/ \E s \in Sessions : LoadSession(s)
    \/ ListDirty \/ LoadEdges \/ ReplaceIssues \/ AnalysisIsStale

Next ==
    \/ \E s \in Sessions : ImportBatch(s)
    \/ DeriverStep \/ DerivationFails
    \/ AnalyzerStep
    \/ Crash

(* Both workers poll every two seconds.                                    *)
Spec == Init /\ [][Next]_vars /\ WF_vars(DeriverStep) /\ WF_vars(AnalyzerStep)
-----------------------------------------------------------------------------
(* Issues stored for the current generation were computed from the turns   *)
(* of every session as they are, although the sessions were loaded one     *)
(* query after the other while imports went on.                            *)
IssuesAreOfTheGeneration == analyzed = generation => issues.content = content

(* A derivation that is current has every edge of its session stored: the  *)
(* claim is older than what was read, and the edges are inserted before    *)
(* the state.                                                              *)
DerivationsAreWhole ==
    \A s \in Sessions :
        derivation[s].status = "complete" /\ derivation[s].of = content[s] =>
            EdgesOf(s, content[s]) \subseteq edges

(* When the imports stop, every session is derived and the issues are of   *)
(* the turns there are, whatever crashed or failed on the way.             *)
AnalysisSettles ==
    <>[](/\ issues.content = content
         /\ \A s \in Sessions : EdgesOf(s, content[s]) \subseteq edges)

(* The evidence that derivation adds reaches the issues in the end: the    *)
(* project's analysis is requeued after non-transcript evidence changes.   *)
EvidenceReachesIssues == <>[](edges \subseteq issues.edges)
=============================================================================
