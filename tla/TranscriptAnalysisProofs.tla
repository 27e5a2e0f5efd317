---------------------- MODULE TranscriptAnalysisProofs ----------------------
(***************************************************************************)
(* Proofs about TranscriptAnalysis, for every set of sessions and edges    *)
(* and every bound.                                                        *)
(***************************************************************************)
EXTENDS TranscriptAnalysis, TLAPS

CountsInv ==
    /\ content \in [Sessions -> Nat]
    /\ generation \in Nat
    /\ analyzed \in Nat
    /\ analyzed <= generation

(* What the analysing worker loaded is of now, if the generation it listed *)
(* still is the project's: whatever was imported since raised it.          *)
Loaded(a) ==
    /\ a.generation \in Nat
    /\ a.generation <= generation
    /\ a.content = [s \in DOMAIN a.content |-> a.content[s]]
    /\ DOMAIN a.content \subseteq Sessions
    /\ a.generation = generation =>
           \A s \in DOMAIN a.content : a.content[s] = content[s]

AnalyzerInv ==
    /\ analyzer.phase = "loading" =>
           /\ DOMAIN analyzer = {"phase", "generation", "content"}
           /\ Loaded(analyzer)
    /\ analyzer.phase = "analyzed" =>
           /\ Loaded(analyzer)
           /\ DOMAIN analyzer.content = Sessions

(* A claim is never of more than there is; and while it is of what there   *)
(* is, every edge of its session is stored or still to be inserted.        *)
Claimed(d) ==
    /\ DOMAIN d.claims \subseteq Sessions
    /\ \A s \in DOMAIN d.claims : d.claims[s] \in Nat /\ d.claims[s] <= content[s]

DeriverInv ==
    /\ deriver.phase \in {"idle", "listed", "inserting", "requeue"}
    /\ deriver.phase # "idle" => Claimed(deriver)
    /\ deriver.phase \in {"inserting", "requeue"} =>
           deriver.session \in DOMAIN deriver.claims
    /\ deriver.phase = "inserting" =>
           /\ DOMAIN deriver = {"phase", "claims", "session", "inserted", "left"}
           /\ content[deriver.session] = Claim =>
                  EdgesOf(deriver.session, Claim) \subseteq edges \cup deriver.left

DerivationInv ==
    /\ DOMAIN derivation = Sessions
    /\ \A s \in Sessions : derivation[s].of \in Nat /\ derivation[s].of <= content[s]

AnalysisInv ==
    /\ CountsInv /\ AnalyzerInv /\ DeriverInv /\ DerivationInv
    /\ IssuesAreOfTheGeneration
    /\ DerivationsAreWhole
-----------------------------------------------------------------------------
(* An empty project.                                                       *)
LEMMA InitAnalysis == Init => AnalysisInv
<1> SUFFICES ASSUME Init PROVE AnalysisInv
  OBVIOUS
<1> USE DEF Init
<1>1. CountsInv /\ AnalyzerInv /\ DeriverInv
  BY DEF CountsInv, AnalyzerInv, DeriverInv, Idle
<1>2. DerivationInv
  BY DEF DerivationInv, NoDerivation
<1>3. IssuesAreOfTheGeneration
  BY DEF IssuesAreOfTheGeneration
<1>4. DerivationsAreWhole
  BY DEF DerivationsAreWhole, NoDerivation
<1> QED
  BY <1>1, <1>2, <1>3, <1>4 DEF AnalysisInv

(* A batch makes every claim, derivation and load of its session old.      *)
LEMMA ImportKeeps ==
    ASSUME AnalysisInv, NEW s \in Sessions, ImportBatch(s)
    PROVE  AnalysisInv'
<1> USE DEF AnalysisInv, ImportBatch
<1>1. /\ content' \in [Sessions -> Nat]
      /\ content'[s] = content[s] + 1
      /\ \A t \in Sessions \ {s} : content'[t] = content[t]
      /\ generation' = generation + 1
  BY DEF CountsInv
<1>2. CountsInv'
  BY <1>1 DEF CountsInv
<1>3. AnalyzerInv'
  BY <1>1 DEF CountsInv, AnalyzerInv, Loaded
<1>4. DeriverInv'
  <2>1. \A t \in Sessions : content[t] \in Nat
    BY DEF CountsInv
  <2>2. deriver.phase # "idle" => Claimed(deriver)'
    BY <1>1, <2>1 DEF DeriverInv, Claimed
  <2>3. ASSUME deriver.phase = "inserting", content'[deriver.session] = Claim
        PROVE  EdgesOf(deriver.session, Claim) \subseteq edges \cup deriver.left
    <3>1. deriver.session \in Sessions /\ Claim \in Nat /\ Claim <= content[deriver.session]
      BY <2>3 DEF DeriverInv, Claimed, Claim
    <3>2. deriver.session # s
      BY <3>1, <2>3, <2>1, <1>1
    <3> QED
      BY <3>1, <3>2, <2>3, <1>1 DEF DeriverInv
  <2> QED
    BY <2>2, <2>3 DEF DeriverInv, EdgesOf, Claim
<1>5. DerivationInv'
  BY <1>1 DEF CountsInv, DerivationInv
<1>6. IssuesAreOfTheGeneration'
  BY <1>1 DEF CountsInv, IssuesAreOfTheGeneration
<1>7. DerivationsAreWhole'
  BY <1>1 DEF CountsInv, DerivationInv, DerivationsAreWhole, EdgesOf
<1> QED
  BY <1>2, <1>3, <1>4, <1>5, <1>6, <1>7

(* What is left of a list of claims is a list of claims.                   *)
LEMMA OthersClaimed ==
    ASSUME DeriverInv, deriver.phase # "idle"
    PROVE  /\ Others.phase \in {"idle", "listed"}
           /\ Others.phase # "idle" => Claimed(Others)
BY DEF DeriverInv, Claimed, Others, Idle

(* The deriving worker, all of whose steps leave content and issues alone. *)
LEMMA DeriverKeeps ==
    ASSUME AnalysisInv, DeriverStep \/ DerivationFails
    PROVE  AnalysisInv'
<1> USE DEF AnalysisInv
<1>1. UNCHANGED <<content, analyzed, issues, analyzer>>
  BY DEF DeriverStep, ListDirtySessions, ReadSession, InsertTrajectoryEdge,
     MarkDerivationCurrent, MarkAnalysisDirty, DerivationFails, storeVars, boundVars
<1>2. generation' \in Nat /\ generation' >= generation
  <2>1. generation' \in {generation, generation + 1}
    BY DEF DeriverStep, ListDirtySessions, ReadSession, InsertTrajectoryEdge,
       MarkDerivationCurrent, MarkAnalysisDirty, DerivationFails, storeVars
  <2> QED
    BY <2>1 DEF CountsInv
<1>3. CountsInv' /\ AnalyzerInv' /\ IssuesAreOfTheGeneration'
  BY <1>1, <1>2 DEF CountsInv, AnalyzerInv, Loaded, IssuesAreOfTheGeneration
<1>4. CASE ListDirtySessions
  <2>1. DeriverInv'
    BY <1>4, <1>1 DEF ListDirtySessions, DirtySessions, DeriverInv, Claimed, CountsInv
  <2> QED
    BY <2>1, <1>3, <1>4 DEF ListDirtySessions, storeVars, DerivationInv,
       DerivationsAreWhole, EdgesOf
<1>5. ASSUME NEW s \in Sessions, ReadSession(s)
      PROVE  AnalysisInv'
  <2>1. /\ deriver' = [phase |-> "inserting", claims |-> deriver.claims, session |-> s,
                       inserted |-> FALSE, left |-> EdgesOf(s, content[s])]
        /\ s \in DOMAIN deriver.claims
        /\ deriver.phase = "listed"
    BY <1>5 DEF ReadSession
  <2>2. Claimed(deriver)'
    BY <2>1, <1>1 DEF DeriverInv, Claimed
  <2>3. content'[deriver'.session] = Claim' =>
            EdgesOf(deriver.session, Claim)' \subseteq edges' \cup deriver'.left
    BY <2>1, <1>1 DEF EdgesOf, Claim
  <2>4. DeriverInv'
    BY <2>1, <2>2, <2>3 DEF DeriverInv
  <2> QED
    BY <2>4, <1>3, <1>5 DEF ReadSession, storeVars, DerivationInv,
       DerivationsAreWhole, EdgesOf
<1>6. CASE InsertTrajectoryEdge
  <2>1. PICK e \in deriver.left :
           /\ edges' = edges \cup {e}
           /\ deriver' = [deriver EXCEPT !.left = @ \ {e},
                                         !.inserted = @ \/ e \notin edges]
    BY <1>6 DEF InsertTrajectoryEdge
  <2>2. /\ deriver.phase = "inserting"
        /\ DOMAIN deriver = {"phase", "claims", "session", "inserted", "left"}
    BY <1>6 DEF InsertTrajectoryEdge, DeriverInv
  <2>3. /\ deriver'.phase = "inserting"
        /\ deriver'.claims = deriver.claims
        /\ deriver'.session = deriver.session
        /\ deriver'.left = deriver.left \ {e}
        /\ DOMAIN deriver' = DOMAIN deriver
    BY <2>1, <2>2
  <2>4. edges' \cup deriver'.left = edges \cup deriver.left
    BY <2>1, <2>3
  <2>5. DeriverInv'
    BY <2>2, <2>3, <2>4, <1>1 DEF DeriverInv, Claimed, Claim, EdgesOf
  <2>6. DerivationInv' /\ DerivationsAreWhole'
    BY <2>1, <1>1, <1>6 DEF InsertTrajectoryEdge, DerivationInv, DerivationsAreWhole,
       EdgesOf
  <2> QED
    BY <2>5, <2>6, <1>3
<1>7. ASSUME NEW status, Publish(status), deriver.phase = "inserting", edges' = edges,
             status = "complete" => deriver.left = {}
      PROVE  DerivationInv' /\ DerivationsAreWhole'
  <2>1. /\ deriver.session \in Sessions
        /\ Claim \in Nat /\ Claim <= content[deriver.session]
    BY <1>7 DEF DeriverInv, Claimed, Claim
  <2>2. CASE content[deriver.session] = Claim
    <3> DEFINE row == [of |-> Claim, status |-> status]
    <3>1. /\ DOMAIN derivation' = Sessions
          /\ derivation'[deriver.session] = row
          /\ \A t \in Sessions \ {deriver.session} : derivation'[t] = derivation[t]
      BY <1>7, <2>1, <2>2 DEF Publish, DerivationInv
    <3>2. row.of = Claim /\ row.status = status
      OBVIOUS
    <3> HIDE DEF row
    <3>3. DerivationInv'
      BY <3>1, <3>2, <2>1, <1>1 DEF DerivationInv
    <3>4. status = "complete" => EdgesOf(deriver.session, Claim) \subseteq edges
      BY <1>7, <2>2 DEF DeriverInv
    <3>5. DerivationsAreWhole'
      BY <3>1, <3>2, <3>4, <2>2, <1>1, <1>7 DEF DerivationsAreWhole, EdgesOf
    <3> QED
      BY <3>3, <3>5
  <2>3. CASE content[deriver.session] # Claim
    BY <2>3, <1>1, <1>7 DEF Publish, DerivationInv, DerivationsAreWhole, EdgesOf
  <2> QED
    BY <2>2, <2>3
<1>8. ASSUME deriver' = Others, deriver.phase # "idle"
      PROVE  DeriverInv'
  <2>1. deriver'.phase \in {"idle", "listed"}
    BY <1>8, OthersClaimed
  <2>2. deriver'.phase # "idle" => Claimed(deriver)'
    BY <1>8, <1>1, OthersClaimed DEF Claimed
  <2> QED
    BY <2>1, <2>2 DEF DeriverInv
<1>9. CASE MarkDerivationCurrent
  <2>1. DerivationInv' /\ DerivationsAreWhole'
    BY <1>7, <1>9 DEF MarkDerivationCurrent
  <2>2. CASE deriver' = Others
    BY <2>1, <2>2, <1>3, <1>8, <1>9 DEF MarkDerivationCurrent
  <2>3. CASE deriver' = [phase |-> "requeue", claims |-> deriver.claims,
                         session |-> deriver.session]
    <3>1. DeriverInv'
      BY <2>3, <1>1, <1>9 DEF MarkDerivationCurrent, DeriverInv, Claimed
    <3> QED
      BY <3>1, <2>1, <1>3
  <2> QED
    BY <2>2, <2>3, <1>9 DEF MarkDerivationCurrent
<1>10. CASE DerivationFails
  BY <1>3, <1>7, <1>8, <1>10 DEF DerivationFails
<1>11. CASE MarkAnalysisDirty
  BY <1>3, <1>8, <1>11 DEF MarkAnalysisDirty, DerivationInv, DerivationsAreWhole, EdgesOf
<1> QED
  BY <1>4, <1>5, <1>6, <1>9, <1>10, <1>11 DEF DeriverStep

(* The analysing worker, which leaves content, edges and claims alone.     *)
LEMMA AnalyzerKeeps ==
    ASSUME AnalysisInv, AnalyzerStep
    PROVE  AnalysisInv'
<1> USE DEF AnalysisInv
<1>1. UNCHANGED <<content, generation, edges, derivation, deriver>>
  BY DEF AnalyzerStep, ListDirty, LoadSession, LoadEdges, ReplaceIssues,
     AnalysisIsStale, storeVars
<1>2. DeriverInv' /\ DerivationInv' /\ DerivationsAreWhole'
  BY <1>1 DEF DeriverInv, Claimed, Claim, DerivationInv, DerivationsAreWhole, EdgesOf
<1>3. CASE ListDirty
  <2>1. AnalyzerInv'
    BY <1>1, <1>3 DEF ListDirty, AnalyzerInv, Loaded, CountsInv
  <2> QED
    BY <2>1, <1>1, <1>2, <1>3 DEF ListDirty, storeVars, CountsInv, IssuesAreOfTheGeneration
<1>4. ASSUME NEW s \in Sessions, LoadSession(s)
      PROVE  AnalysisInv'
  <2> DEFINE loaded == [t \in DOMAIN analyzer.content \cup {s} |->
                           IF t = s THEN content[s] ELSE analyzer.content[t]]
  <2>1. /\ analyzer.phase = "loading"
        /\ analyzer' = [analyzer EXCEPT !.content = loaded]
    BY <1>4 DEF LoadSession
  <2>2. /\ DOMAIN analyzer' = {"phase", "generation", "content"}
        /\ analyzer'.phase = "loading"
        /\ analyzer'.generation = analyzer.generation
        /\ analyzer'.content = loaded
    BY <2>1 DEF AnalyzerInv
  <2>3. Loaded(analyzer)'
    BY <2>1, <2>2, <1>1 DEF AnalyzerInv, Loaded
  <2>4. AnalyzerInv'
    BY <2>2, <2>3 DEF AnalyzerInv
  <2> QED
    BY <2>4, <1>1, <1>2, <1>4 DEF LoadSession, storeVars, CountsInv,
       IssuesAreOfTheGeneration
<1>5. CASE LoadEdges
  <2>1. AnalyzerInv'
    BY <1>1, <1>5 DEF LoadEdges, AnalyzerInv, Loaded
  <2> QED
    BY <2>1, <1>1, <1>2, <1>5 DEF LoadEdges, storeVars, CountsInv,
       IssuesAreOfTheGeneration
<1>6. CASE ReplaceIssues
  <2>1. Loaded(analyzer) /\ DOMAIN analyzer.content = Sessions
    BY <1>6 DEF ReplaceIssues, AnalyzerInv
  <2>2. \A s \in Sessions : analyzer.content[s] = content[s]
    BY <2>1, <1>6 DEF ReplaceIssues, Loaded
  <2>3. analyzer.content = [s \in Sessions |-> analyzer.content[s]]
    BY <2>1 DEF Loaded
  <2>4. content = [s \in Sessions |-> content[s]]
    BY DEF CountsInv
  <2>5. analyzer.content = content
    BY <2>2, <2>3, <2>4
  <2>6. IssuesAreOfTheGeneration'
    BY <2>5, <1>1, <1>6 DEF ReplaceIssues, IssuesAreOfTheGeneration
  <2>7. AnalyzerInv' /\ CountsInv'
    BY <1>1, <1>6 DEF ReplaceIssues, AnalyzerInv, Idle, CountsInv
  <2> QED
    BY <2>6, <2>7, <1>2
<1>7. CASE AnalysisIsStale
  BY <1>1, <1>2, <1>7 DEF AnalysisIsStale, storeVars, AnalyzerInv, Idle, CountsInv,
     IssuesAreOfTheGeneration
<1> QED
  BY <1>3, <1>4, <1>5, <1>6, <1>7 DEF AnalyzerStep

(* Every step keeps the invariant.                                         *)
LEMMA NextAnalysis ==
    ASSUME AnalysisInv, [Next]_vars
    PROVE  AnalysisInv'
<1>1. CASE Crash \/ UNCHANGED vars
  <2>1. UNCHANGED storeVars
    BY <1>1 DEF Crash, vars
  <2>2. CASE deriver' = Idle /\ analyzer' = Idle
    BY <2>1, <2>2 DEF storeVars, AnalysisInv, CountsInv, AnalyzerInv, DeriverInv, Idle,
       DerivationInv, IssuesAreOfTheGeneration, DerivationsAreWhole, EdgesOf
  <2>3. CASE UNCHANGED <<deriver, analyzer>>
    BY <2>1, <2>3 DEF storeVars, AnalysisInv, CountsInv, AnalyzerInv, Loaded, DeriverInv,
       Claimed, Claim, DerivationInv, IssuesAreOfTheGeneration, DerivationsAreWhole, EdgesOf
  <2> QED
    BY <1>1, <2>2, <2>3 DEF Crash, vars
<1> QED
  BY <1>1, ImportKeeps, DeriverKeeps, AnalyzerKeeps DEF Next
-----------------------------------------------------------------------------
(* The inductive invariant holds throughout, under any order of imports,   *)
(* failures, crashes and the steps of both workers.                        *)
THEOREM AnalysisSafe == Spec => []AnalysisInv
<1>1. Init => AnalysisInv
  BY InitAnalysis
<1>2. AnalysisInv /\ [Next]_vars => AnalysisInv'
  BY NextAnalysis
<1> QED
  BY <1>1, <1>2, PTL DEF Spec

(* Issues of the current generation are of the turns there are: a batch    *)
(* that committed between two loads raised the generation                  *)
(* (ReplaceTranscriptIssues).                                              *)
THEOREM IssuesOfGeneration == Spec => []IssuesAreOfTheGeneration
<1>1. AnalysisInv => IssuesAreOfTheGeneration
  BY DEF AnalysisInv
<1> QED
  BY <1>1, AnalysisSafe, PTL

(* A current derivation has all its edges in the store: the claim, taken   *)
(* before the read, is compared again when the state is published          *)
(* (MarkTrajectoryDerivationCurrent).                                      *)
THEOREM WholeDerivations == Spec => []DerivationsAreWhole
<1>1. AnalysisInv => DerivationsAreWhole
  BY DEF AnalysisInv
<1> QED
  BY <1>1, AnalysisSafe, PTL
=============================================================================
