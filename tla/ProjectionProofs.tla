-------------------------- MODULE ProjectionProofs --------------------------
(***************************************************************************)
(* Proofs about SessionProjection and ProjectionRetention, for every set   *)
(* of sessions (finite ones, where rows are pruned), reconcilers,          *)
(* processes and scopes and every bound.                                   *)
(***************************************************************************)
EXTENDS ProjectionRetention, FiniteSetTheorems, TLAPS

-----------------------------------------------------------------------------
(* The values a reconciler is given.                                       *)

(* The empty values of a worker have the type of a worker: the states a    *)
(* drain, a Startup and a crash leave a reconciler in.                     *)
LEMMA RestingWorkers == {Idle, Down, StartupDrain, Marking} \subseteq Worker
<1>1. SomeSession \in Sessions
  BY SessionsAssumption DEF SomeSession
<1>2. NoInputs \in Inputs
  BY DEF NoInputs, Inputs, NoScope, ScopeRow, NoId
<1>3. Idle \in Worker
  BY <1>1, <1>2 DEF Idle, Worker, Phases
<1>4. StartupDrain \in Worker
  BY <1>3 DEF StartupDrain, Worker
<1>5. Down \in Worker
  BY <1>3 DEF Down, Worker, Phases
<1>6. Marking \in Worker
  BY <1>4 DEF Marking, Worker, Phases
<1> QED
  BY <1>3, <1>4, <1>5, <1>6

(* NextClaim, where drainLocked goes after each session, is idle.          *)
LEMMA NextClaimRests ==
    ASSUME NEW r \in Reconcilers
    PROVE  /\ NextClaim(r) \in Worker
           /\ NextClaim(r).phase = "idle"
<1>1. NextClaim(r) \in {Idle, StartupDrain}
  BY DEF NextClaim
<1>2. Idle.phase = "idle" /\ StartupDrain.phase = "idle"
  BY DEF Idle, StartupDrain
<1> QED
  BY <1>1, <1>2, RestingWorkers

(* mergeSessionScope returns a row of the table.                           *)
LEMMA MergedScopeIsRow ==
    ASSUME NEW old \in ScopeRow, NEW new \in Scopes
    PROVE  /\ new \in ScopeRow
           /\ MergeScope(old, new) \in ScopeRow
<1>1. new \in ScopeRow
  <2>1. new \in [id: {new.id}, quality: {"resolved", "lexical", "unscoped"}]
    BY ConstantsAssumption
  <2>2. new.id \in {x.id : x \in Scopes}
    OBVIOUS
  <2> QED
    BY <2>1, <2>2 DEF ScopeRow, Qualities
<1>2. [id |-> NoId, quality |-> "conflict"] \in ScopeRow
  BY DEF ScopeRow, Qualities
<1>3. CASE old.quality = "conflict" \/ new.id = NoId
  <2>1. MergeScope(old, new) = old
    BY <1>3 DEF MergeScope
  <2> QED
    BY <1>1, <2>1
<1>4. CASE old.quality # "conflict" /\ new.id # NoId /\ old.id = NoId
  <2>1. MergeScope(old, new) = new
    BY <1>4 DEF MergeScope
  <2> QED
    BY <1>1, <2>1
<1>5. CASE old.quality # "conflict" /\ new.id # NoId /\ old.id \notin {NoId, new.id}
  <2>1. MergeScope(old, new) = [id |-> NoId, quality |-> "conflict"]
    BY <1>5 DEF MergeScope
  <2> QED
    BY <1>1, <1>2, <2>1
<1>6. CASE old.quality # "conflict" /\ new.id # NoId /\ old.id = new.id
  <2>1. MergeScope(old, new) = IF old.quality = "lexical" /\ new.quality = "resolved"
                               THEN new ELSE old
    BY <1>6 DEF MergeScope
  <2> QED
    BY <1>1, <2>1
<1> QED
  BY <1>3, <1>4, <1>5, <1>6

-----------------------------------------------------------------------------
(* The table operators.                                                    *)

(* Closing the open row of a session keeps the rows revisions.             *)
LEMMA CloseRevisions ==
    ASSUME NEW rows, rows \subseteq Revision, NEW s \in Sessions, NEW g \in Nat
    PROVE  Close(rows, s, g) \subseteq Revision
<1> SUFFICES ASSUME NEW q \in rows
             PROVE  (IF q.session = s /\ IsOpen(q) THEN [q EXCEPT !.until = g] ELSE q) \in Revision
  BY DEF Close
<1>1. q \in Revision
  OBVIOUS
<1> QED
  BY <1>1 DEF Revision

(* And the rows of occurrences.                                            *)
LEMMA CloseOccurrences ==
    ASSUME NEW rows, rows \subseteq Occurrence, NEW s \in Sessions, NEW g \in Nat
    PROVE  Close(rows, s, g) \subseteq Occurrence
<1> SUFFICES ASSUME NEW q \in rows
             PROVE  (IF q.session = s /\ IsOpen(q) THEN [q EXCEPT !.until = g] ELSE q) \in Occurrence
  BY DEF Close
<1>1. q \in Occurrence
  OBVIOUS
<1> QED
  BY <1>1 DEF Occurrence

(* insertAnalysisRevisionTx writes a revision.                             *)
LEMMA NewRevisionType ==
    ASSUME NEW s \in Sessions, NEW status \in {"pending", "failed"} \cup Completed,
           NEW target \in Nat \ {0}, NEW analyzed \in Nat, NEW g \in Nat \ {0}
    PROVE  NewRevision(s, status, target, analyzed, g) \in Revision
BY DEF NewRevision, Revision, Open

(* Before a revision is closed at g, none of a smaller generation is:      *)
(* markSessionDirtyTx reads no analysed generation at all.                 *)
LEMMA NothingClosedYet ==
    ASSUME NEW s, NEW g \in Nat, \A q \in revs : q.until # g
    PROVE  AnalyzedAt(revs, s, g) = 0
BY DEF AnalyzedAt

(* After the close one row at most has until = g: PublishAnalysisFailure   *)
(* copies its analysed generation.                                         *)
LEMMA ClosedAnalyzedIsNat ==
    ASSUME NEW s \in Sessions, NEW g \in Nat \ {0}, revs \subseteq Revision,
           \A q \in revs : q.until < g,
           \A p, q \in revs : p.session = q.session /\ IsOpen(p) /\ IsOpen(q) => p = q
    PROVE  AnalyzedAt(Close(revs, s, g), s, g) \in Nat
<1> DEFINE closed == {q \in Close(revs, s, g) : q.session = s /\ q.until = g}
<1>1. \A p, q \in closed : p = q
  <2> SUFFICES ASSUME NEW p \in closed, NEW q \in closed
               PROVE  p = q
    OBVIOUS
  <2>1. PICK a \in revs : p = IF a.session = s /\ IsOpen(a) THEN [a EXCEPT !.until = g] ELSE a
    BY DEF Close
  <2>2. PICK b \in revs : q = IF b.session = s /\ IsOpen(b) THEN [b EXCEPT !.until = g] ELSE b
    BY DEF Close
  <2>3. a.until < g /\ b.until < g
    OBVIOUS
  <2>4. a.session = s /\ IsOpen(a)
    <3>1. p.until = g
      OBVIOUS
    <3>2. a \in Revision
      OBVIOUS
    <3>3. a.until \in Nat
      BY <3>2 DEF Revision
    <3> QED
      BY <2>1, <2>3, <3>1, <3>3
  <2>5. b.session = s /\ IsOpen(b)
    <3>1. q.until = g
      OBVIOUS
    <3>2. b \in Revision
      OBVIOUS
    <3>3. b.until \in Nat
      BY <3>2 DEF Revision
    <3> QED
      BY <2>2, <2>3, <3>1, <3>3
  <2> QED
    BY <2>1, <2>2, <2>4, <2>5
<1>2. CASE closed = {}
  BY <1>2 DEF AnalyzedAt
<1>3. CASE closed # {}
  <2>1. closed \subseteq Revision
    BY CloseRevisions
  <2>2. PICK p \in closed : TRUE
    BY <1>3
  <2>3. \A q \in closed : q.from <= p.from
    <3>1. p.from \in Nat
      BY <2>1, <2>2 DEF Revision
    <3> QED
      BY <1>1, <2>2, <3>1
  <2>4. (CHOOSE q \in closed : \A x \in closed : x.from <= q.from) \in closed
    BY <2>2, <2>3
  <2>5. (CHOOSE q \in closed : \A x \in closed : x.from <= q.from).analyzed \in Nat
    BY <2>1, <2>4 DEF Revision
  <2> QED
    BY <1>3, <2>5 DEF AnalyzedAt
<1> QED
  BY <1>2, <1>3

(* Closing the open row and opening a new one leaves one open at most, and *)
(* closes nothing later than g.                                            *)
LEMMA ReplaceRevision ==
    ASSUME NEW s \in Sessions, NEW g \in Nat \ {0}, revs \subseteq Revision,
           \A q \in revs : q.until <= g,
           \A p, q \in revs : p.session = q.session /\ IsOpen(p) /\ IsOpen(q) => p = q,
           NEW row \in Revision, row.session = s, row.until = Open
    PROVE  LET rows == Close(revs, s, g) \cup {row} IN
           /\ \A q \in rows : q.until <= g
           /\ \A p, q \in rows : p.session = q.session /\ IsOpen(p) /\ IsOpen(q) => p = q
<1>1. \A q \in Close(revs, s, g) :
        /\ q.until <= g
        /\ IsOpen(q) => q \in revs /\ q.session # s
  <2> SUFFICES ASSUME NEW a \in revs
               PROVE  LET q == IF a.session = s /\ IsOpen(a) THEN [a EXCEPT !.until = g] ELSE a
                      IN  q.until <= g /\ (IsOpen(q) => q \in revs /\ q.session # s)
    BY DEF Close
  <2>1. a \in Revision /\ a.until <= g
    OBVIOUS
  <2>2. CASE a.session = s /\ IsOpen(a)
    <3>1. [a EXCEPT !.until = g].until = g
      BY <2>1 DEF Revision
    <3> QED
      BY <2>2, <3>1 DEF IsOpen, Open
  <2>3. CASE ~(a.session = s /\ IsOpen(a))
    BY <2>1, <2>3
  <2> QED
    BY <2>2, <2>3
<1>2. row.until <= g
  BY DEF Open
<1> QED
  BY <1>1, <1>2

-----------------------------------------------------------------------------
(* markSessionDirtyTx.                                                     *)

DirtyRow == [state: RowStates, target: Nat, backoff: BOOLEAN]

(* A mark keeps the tables well formed, and makes every claim of its       *)
(* session stale.                                                          *)
LEMMA MarkDirtyStep ==
    ASSUME TypeOK, RevisionsOrdered, NEW s \in Sessions, MarkDirty(s)
    PROVE  /\ dirty' \in [Sessions -> DirtyRow]
           /\ dirty'[s].target = dirty[s].target + 1
           /\ dirty'[s].state = "pending"
           /\ \A x \in Sessions \ {s} : dirty'[x] = dirty[x]
           /\ gen' \in Nat
           /\ revs' \subseteq Revision
           /\ RevisionsOrdered'
           /\ UNCHANGED <<occs, jobs, published>>
<1> DEFINE g == gen + 1
           target == dirty[s].target + 1
           row == NewRevision(s, "pending", target, AnalyzedAt(revs, s, g), g)
<1>1. /\ dirty \in [Sessions -> DirtyRow]
      /\ gen \in Nat
      /\ revs \subseteq Revision
  BY DEF TypeOK, DirtyRow
<1>2. target \in Nat \ {0} /\ g \in Nat \ {0}
  BY <1>1 DEF DirtyRow
<1>3. \A q \in revs : q.until <= gen /\ q.until \in Nat
  BY <1>1 DEF RevisionsOrdered, Revision
<1>4. AnalyzedAt(revs, s, g) = 0
  <2>1. \A q \in revs : q.until # g
    BY <1>1, <1>3
  <2> QED
    BY <1>2, <2>1, NothingClosedYet
<1>5. row \in Revision /\ row.session = s /\ row.until = Open
  BY <1>2, <1>4, NewRevisionType DEF NewRevision
<1>6. revs' = Close(revs, s, g) \cup {row} /\ gen' = g
  BY DEF MarkDirty
<1>7. revs' \subseteq Revision
  BY <1>1, <1>2, <1>5, <1>6, CloseRevisions
<1>8. RevisionsOrdered'
  <2>1. \A q \in revs : q.until <= g
    BY <1>1, <1>3
  <2>2. \A p, q \in revs : p.session = q.session /\ IsOpen(p) /\ IsOpen(q) => p = q
    BY DEF RevisionsOrdered
  <2>3. LET rows == Close(revs, s, g) \cup {row} IN
        /\ \A q \in rows : q.until <= g
        /\ \A p, q \in rows : p.session = q.session /\ IsOpen(p) /\ IsOpen(q) => p = q
    <3> HIDE DEF g, target, row
    <3> QED
      BY <1>1, <1>2, <1>5, <2>1, <2>2, ReplaceRevision
  <2> QED
    BY <1>6, <2>3 DEF RevisionsOrdered
<1>9. dirty' = [dirty EXCEPT ![s] = [state |-> "pending", target |-> target, backoff |-> FALSE]]
  BY DEF MarkDirty
<1>10. [state |-> "pending", target |-> target, backoff |-> FALSE] \in DirtyRow
  BY <1>2 DEF DirtyRow, RowStates
<1>11. /\ dirty' \in [Sessions -> DirtyRow]
       /\ dirty'[s] = [state |-> "pending", target |-> target, backoff |-> FALSE]
       /\ \A x \in Sessions \ {s} : dirty'[x] = dirty[x]
  BY <1>1, <1>9, <1>10
<1>12. UNCHANGED <<occs, jobs, published>>
  BY DEF MarkDirty
<1> QED
  BY <1>1, <1>2, <1>6, <1>7, <1>8, <1>11, <1>12

-----------------------------------------------------------------------------
(* Type correctness.                                                       *)

(* The importer's transactions keep the types.                             *)
LEMMA ImportTypes ==
    ASSUME TypeOK, RevisionsOrdered, NEW s \in Sessions, Import(s)
    PROVE  TypeOK' /\ RevisionsOrdered'
<1>1. CASE AppendEvent(s)
  <2>1. MarkDirty(s)
    BY <1>1 DEF AppendEvent
  <2>2. lastEvent' = lastEvent + 1 /\ events' = [events EXCEPT ![s] = @ \cup {lastEvent'}]
    BY <1>1 DEF AppendEvent
  <2>3. lastEvent' \in Nat \ {0}
    BY <2>2 DEF TypeOK
  <2>4. events' \in [Sessions -> SUBSET (Nat \ {0})]
    BY <2>2, <2>3 DEF TypeOK
  <2> QED
    BY <1>1, <2>1, <2>3, <2>4, MarkDirtyStep DEF AppendEvent, TypeOK, DirtyRow
<1>2. CASE \E new \in Scopes : UpsertSessionScope(s, new)
  <2>1. PICK new \in Scopes : UpsertSessionScope(s, new)
    BY <1>2
  <2>2. MarkDirty(s)
    BY <2>1 DEF UpsertSessionScope
  <2>3. scope' \in [Sessions -> ScopeRow]
    <3>1. scope[s] \in ScopeRow
      BY DEF TypeOK
    <3>2. new \in ScopeRow /\ MergeScope(scope[s], new) \in ScopeRow
      BY <3>1, MergedScopeIsRow
    <3> QED
      BY <2>1, <3>2 DEF UpsertSessionScope, TypeOK
  <2>4. expiry' \in Nat
    BY <2>1 DEF UpsertSessionScope, TypeOK
  <2> QED
    BY <2>1, <2>2, <2>3, <2>4, MarkDirtyStep DEF UpsertSessionScope, TypeOK, DirtyRow
<1>3. CASE UpsertEventEnrichment(s)
  <2>1. MarkDirty(s)
    BY <1>3 DEF UpsertEventEnrichment
  <2>2. enrich' \in [Sessions -> Nat] /\ changes' \in Nat
    BY <1>3 DEF UpsertEventEnrichment, TypeOK
  <2> QED
    BY <1>3, <2>1, <2>2, MarkDirtyStep DEF UpsertEventEnrichment, TypeOK, DirtyRow
<1>4. CASE RecordFinding(s)
  <2>1. finds' \in [Sessions -> Nat] /\ changes' \in Nat /\ unmarked' \subseteq Sessions
    BY <1>4 DEF RecordFinding, TypeOK
  <2> QED
    BY <1>4, <2>1 DEF RecordFinding, TypeOK, RevisionsOrdered, projectionVars
<1>5. CASE MarkFinding(s)
  <2>1. MarkDirty(s)
    BY <1>5 DEF MarkFinding
  <2>2. unmarked' \subseteq Sessions
    BY <1>5 DEF MarkFinding, TypeOK
  <2> QED
    BY <1>5, <2>1, <2>2, MarkDirtyStep DEF MarkFinding, TypeOK, DirtyRow, inputVars
<1> QED
  BY <1>1, <1>2, <1>3, <1>4, <1>5 DEF Import

(* A step that changes one reconciler and what its Startup has to mark.    *)
LEMMA WorkerTypes ==
    ASSUME TypeOK, RevisionsOrdered, NEW r \in Reconcilers, NEW w \in Worker,
           worker' = [worker EXCEPT ![r] = w],
           todo' \in [Reconcilers -> SUBSET Sessions],
           faults' \in Nat,
           UNCHANGED <<inputVars, unmarked, expiry, projectionVars, published, changes>>
    PROVE  TypeOK' /\ RevisionsOrdered'
<1>1. worker' \in [Reconcilers -> Worker]
  BY DEF TypeOK
<1> QED
  BY <1>1 DEF TypeOK, RevisionsOrdered, inputVars, projectionVars

(* Startup marks, claims and reads.                                        *)
LEMMA StartupTypes ==
    ASSUME TypeOK, RevisionsOrdered, NEW r \in Reconcilers,
           \/ StartupSnapshot(r)
           \/ \E s \in Sessions : StartupMark(r, s)
           \/ StartupEnds(r)
    PROVE  TypeOK' /\ RevisionsOrdered'
<1>0. /\ faults \in Nat
      /\ todo \in [Reconcilers -> SUBSET Sessions]
      /\ worker \in [Reconcilers -> Worker]
  BY DEF TypeOK
<1>1. CASE StartupSnapshot(r)
  <2> DEFINE listed == {s \in Sessions : events[s] # {}}
  <2>1. todo' \in [Reconcilers -> SUBSET Sessions]
    BY <1>0, <1>1 DEF StartupSnapshot
  <2>2. PICK w \in Worker : worker' = [worker EXCEPT ![r] = w]
    BY <1>1, RestingWorkers DEF StartupSnapshot
  <2>3. UNCHANGED <<inputVars, unmarked, expiry, projectionVars, published, changes, faults>>
    BY <1>1 DEF StartupSnapshot
  <2> QED
    BY <1>0, <2>1, <2>2, <2>3, WorkerTypes
<1>2. CASE \E s \in Sessions : StartupMark(r, s)
  <2>1. PICK s \in Sessions : StartupMark(r, s)
    BY <1>2
  <2>2. MarkDirty(s)
    BY <2>1 DEF StartupMark
  <2>3. todo' \in [Reconcilers -> SUBSET Sessions]
    BY <1>0, <2>1 DEF StartupMark
  <2>4. worker' \in [Reconcilers -> Worker]
    BY <1>0, <2>1, RestingWorkers DEF StartupMark
  <2> QED
    BY <2>1, <2>2, <2>3, <2>4, MarkDirtyStep DEF StartupMark, TypeOK, DirtyRow, inputVars
<1>3. CASE StartupEnds(r)
  <2>1. Idle \in Worker /\ worker' = [worker EXCEPT ![r] = Idle]
    BY <1>3, RestingWorkers DEF StartupEnds
  <2>2. UNCHANGED <<inputVars, unmarked, expiry, projectionVars, todo, published, changes, faults>>
    BY <1>3 DEF StartupEnds
  <2> QED
    BY <1>0, <2>1, <2>2, WorkerTypes
<1> QED
  BY <1>1, <1>2, <1>3

(* ClaimDirtySession writes a row and a claim of its target.               *)
LEMMA ClaimTypes ==
    ASSUME TypeOK, RevisionsOrdered, NEW r \in Reconcilers, NEW s \in Sessions, Claim(r, s)
    PROVE  TypeOK' /\ RevisionsOrdered'
<1>1. worker[r] \in Worker /\ dirty[s] \in DirtyRow
  BY DEF TypeOK, DirtyRow
<1>2. [worker[r] EXCEPT !.phase = "claimed", !.session = s, !.target = dirty[s].target] \in Worker
  BY <1>1 DEF Worker, Phases, DirtyRow
<1>3. worker' \in [Reconcilers -> Worker]
  BY <1>2 DEF Claim, TypeOK
<1>4. [dirty[s] EXCEPT !.state = "claimed"] \in DirtyRow
  BY <1>1 DEF DirtyRow, RowStates
<1>5. dirty' \in [Sessions -> DirtyRow]
  BY <1>4 DEF Claim, TypeOK, DirtyRow
<1> QED
  BY <1>3, <1>5 DEF Claim, TypeOK, RevisionsOrdered, inputVars, DirtyRow

(* Each read of reconcileSession adds to the input what its table holds.   *)
LEMMA ReadTypes ==
    ASSUME TypeOK, RevisionsOrdered, NEW r \in Reconcilers,
           ReadScope(r) \/ ReadEvents(r) \/ ReadEnrichments(r) \/ ReadFindings(r)
    PROVE  TypeOK' /\ RevisionsOrdered'
<1> DEFINE s == worker[r].session
           in == worker[r].input
<1>1. worker[r] \in Worker
  BY DEF TypeOK
<1>2. s \in Sessions /\ in \in Inputs
  BY <1>1 DEF Worker
<1>3. /\ scope[s] \in ScopeRow
      /\ events[s] \in SUBSET (Nat \ {0})
      /\ lastEvent \in Nat
      /\ enrich[s] \in Nat
      /\ finds[s] \in Nat
  BY <1>2 DEF TypeOK
<1>4. /\ [in EXCEPT !.scope = scope[s]] \in Inputs
      /\ [in EXCEPT !.events = events[s], !.through = lastEvent] \in Inputs
      /\ [in EXCEPT !.enrich = enrich[s]] \in Inputs
      /\ [in EXCEPT !.finds = finds[s]] \in Inputs
  BY <1>2, <1>3 DEF Inputs
<1>5. PICK before, after \in Phases, input \in Inputs : Read(r, before, after, input)
  BY <1>4 DEF ReadScope, ReadEvents, ReadEnrichments, ReadFindings, Phases
<1>6. [worker[r] EXCEPT !.phase = after, !.input = input] \in Worker
  BY <1>1 DEF Worker
<1>7. worker' = [worker EXCEPT ![r] = [worker[r] EXCEPT !.phase = after, !.input = input]]
  BY <1>5 DEF Read
<1>8. UNCHANGED <<inputVars, unmarked, expiry, projectionVars, todo, published, changes, faults>>
  BY <1>5 DEF Read
<1> QED
  BY <1>6, <1>7, <1>8, WorkerTypes DEF TypeOK

(* ClaimDirtySession hands out the target of an existing row.              *)
ClaimedTargets == \A r \in Reconcilers : worker[r].phase \in Busy => 1 <= worker[r].target

(* replaceSessionProjection and PublishAnalysisFailure close the open      *)
(* revision and insert another of the claimed target.                      *)
LEMMA SettleRevisions ==
    ASSUME TypeOK, RevisionsOrdered, ClaimedTargets, NEW r \in Reconcilers,
           worker[r].phase \in Busy,
           NEW status \in {"failed"} \cup Completed, NEW analyzed \in Nat,
           gen' = gen + 1,
           revs' = Close(revs, worker[r].session, gen + 1) \cup
                     {NewRevision(worker[r].session, status, worker[r].target, analyzed, gen + 1)}
    PROVE  gen' \in Nat /\ revs' \subseteq Revision /\ RevisionsOrdered'
<1> DEFINE s == worker[r].session
           g == gen + 1
           row == NewRevision(s, status, worker[r].target, analyzed, g)
<1>1. /\ worker[r] \in Worker
      /\ gen \in Nat
      /\ revs \subseteq Revision
  BY DEF TypeOK
<1>2. s \in Sessions /\ worker[r].target \in Nat \ {0} /\ g \in Nat \ {0}
  BY <1>1 DEF Worker, ClaimedTargets
<1>3. row \in Revision /\ row.session = s /\ row.until = Open
  BY <1>2, NewRevisionType DEF NewRevision
<1>4. revs' \subseteq Revision
  BY <1>1, <1>2, <1>3, CloseRevisions
<1>5. \A q \in revs : q.until <= g
  <2>1. \A q \in revs : q.until <= gen /\ q.until \in Nat
    BY <1>1 DEF RevisionsOrdered, Revision
  <2> QED
    BY <1>1, <2>1
<1>6. \A p, q \in revs : p.session = q.session /\ IsOpen(p) /\ IsOpen(q) => p = q
  BY DEF RevisionsOrdered
<1>7. revs' = Close(revs, s, g) \cup {row} /\ gen' = g
  OBVIOUS
<1>8. LET rows == Close(revs, s, g) \cup {row} IN
      /\ \A q \in rows : q.until <= g
      /\ \A p, q \in rows : p.session = q.session /\ IsOpen(p) /\ IsOpen(q) => p = q
  <2> HIDE DEF s, g, row
  <2> QED
    BY <1>1, <1>2, <1>3, <1>5, <1>6, ReplaceRevision
<1> QED
  BY <1>1, <1>4, <1>7, <1>8 DEF RevisionsOrdered

(* A publication writes a revision of the target the row has.              *)
LEMMA PublishTypes ==
    ASSUME TypeOK, RevisionsOrdered, ClaimedTargets, NEW r \in Reconcilers,
           NEW status \in Completed, NEW cites \in SUBSET worker[r].input.events,
           Publish(r, status, cites)
    PROVE  TypeOK' /\ RevisionsOrdered'
<1> DEFINE s == worker[r].session
           g == gen + 1
           found == [session |-> s, cites |-> cites, from |-> g, until |-> Open]
           job == [session |-> s, from |-> g,
                   state |-> IF FixesRecorded THEN "pending" ELSE "complete"]
<1>1. worker[r] \in Worker /\ worker[r].phase = "ready"
  BY DEF TypeOK, Publish
<1>2. /\ s \in Sessions
      /\ worker[r].target \in Nat
      /\ worker[r].input \in Inputs
      /\ worker[r].phase \in Busy
      /\ g \in Nat \ {0}
  BY <1>1 DEF Worker, Busy, TypeOK
<1>3. gen' \in Nat /\ revs' \subseteq Revision /\ RevisionsOrdered'
  <2>1. gen' = g /\ revs' = Close(revs, s, g) \cup
                              {NewRevision(s, status, worker[r].target, worker[r].target, g)}
    BY DEF Publish
  <2> QED
    BY <1>2, <2>1, SettleRevisions
<1>4. occs' \subseteq Occurrence
  <2>1. occs' \subseteq Close(occs, s, g) \cup {found}
    BY DEF Publish
  <2>2. cites \in SUBSET (Nat \ {0})
    BY <1>2 DEF Inputs
  <2>3. found \in Occurrence
    BY <1>2, <2>2 DEF Occurrence, Open
  <2>4. occs \subseteq Occurrence /\ g \in Nat
    BY <1>2 DEF TypeOK
  <2> QED
    BY <1>2, <2>1, <2>3, <2>4, CloseOccurrences
<1>5. jobs' \subseteq Job
  <2>1. job \in Job
    BY <1>2 DEF Job
  <2>2. jobs' = jobs \cup {job}
    BY DEF Publish
  <2> QED
    BY <2>1, <2>2 DEF TypeOK
<1>6. dirty' \in [Sessions -> DirtyRow]
  <2>1. dirty[s] \in DirtyRow /\ status \in RowStates
    BY <1>2 DEF TypeOK, DirtyRow, Completed, RowStates
  <2>2. [dirty[s] EXCEPT !.state = status] \in DirtyRow
    BY <2>1 DEF DirtyRow
  <2>3. [[dirty[s] EXCEPT !.state = status] EXCEPT !.backoff = FALSE] \in DirtyRow
    BY <2>2 DEF DirtyRow
  <2>4. dirty' = [dirty EXCEPT ![s].state = status, ![s].backoff = FALSE]
    BY DEF Publish
  <2> QED
    BY <1>2, <2>3, <2>4 DEF TypeOK, DirtyRow
<1>7. published' \in [Sessions -> Inputs]
  BY <1>2 DEF Publish, TypeOK
<1>8. worker' \in [Reconcilers -> Worker]
  BY NextClaimRests DEF Publish, TypeOK
<1> QED
  BY <1>3, <1>4, <1>5, <1>6, <1>7, <1>8 DEF Publish, TypeOK, inputVars, DirtyRow

(* A discarded analysis changes its reconciler only.                       *)
LEMMA DiscardTypes ==
    ASSUME TypeOK, RevisionsOrdered, NEW r \in Reconcilers, Discard(r)
    PROVE  TypeOK' /\ RevisionsOrdered'
<1>1. NextClaim(r) \in Worker /\ worker' = [worker EXCEPT ![r] = NextClaim(r)]
  BY NextClaimRests DEF Discard
<1>2. UNCHANGED <<inputVars, unmarked, expiry, projectionVars, todo, published, changes, faults>>
  BY DEF Discard
<1> QED
  BY <1>1, <1>2, WorkerTypes DEF TypeOK

(* A failed analysis copies the analysed generation of the revision it     *)
(* closes.                                                                 *)
LEMMA FailTypes ==
    ASSUME TypeOK, RevisionsOrdered, ClaimedTargets, NEW r \in Reconcilers, Fail(r)
    PROVE  TypeOK' /\ RevisionsOrdered'
<1> DEFINE s == worker[r].session
           g == gen + 1
           analyzed == AnalyzedAt(Close(revs, s, g), s, g)
<1>1. worker' \in [Reconcilers -> Worker] /\ faults' \in Nat
  BY NextClaimRests DEF Fail, TypeOK
<1>2. CASE ~Fresh(r)
  BY <1>1, <1>2 DEF Fail, TypeOK, RevisionsOrdered, inputVars
<1>3. CASE Fresh(r)
  <2>1. worker[r] \in Worker /\ worker[r].phase \in Busy
    BY DEF TypeOK, Fail
  <2>2. s \in Sessions /\ gen \in Nat /\ g \in Nat \ {0} /\ revs \subseteq Revision
    BY <2>1 DEF Worker, TypeOK
  <2>3. \A q \in revs : q.until < g
    <3>1. \A q \in revs : q.until <= gen /\ q.until \in Nat
      BY <2>2 DEF RevisionsOrdered, Revision
    <3> QED
      BY <2>2, <3>1
  <2>4. analyzed \in Nat
    <3>1. \A p, q \in revs : p.session = q.session /\ IsOpen(p) /\ IsOpen(q) => p = q
      BY DEF RevisionsOrdered
    <3> QED
      BY <2>2, <2>3, <3>1, ClosedAnalyzedIsNat
  <2>5. gen' \in Nat /\ revs' \subseteq Revision /\ RevisionsOrdered'
    <3>1. gen' = g /\ revs' = Close(revs, s, g) \cup
                                {NewRevision(s, "failed", worker[r].target, analyzed, g)}
      BY <1>3 DEF Fail
    <3> QED
      BY <2>1, <2>4, <3>1, SettleRevisions
  <2>6. dirty' \in [Sessions -> DirtyRow]
    <3>1. dirty[s] \in DirtyRow
      BY <2>2 DEF TypeOK, DirtyRow
    <3>2. [dirty[s] EXCEPT !.state = "failed"] \in DirtyRow
      BY <3>1 DEF DirtyRow, RowStates
    <3>3. [[dirty[s] EXCEPT !.state = "failed"] EXCEPT !.backoff = TRUE] \in DirtyRow
      BY <3>2 DEF DirtyRow
    <3>4. dirty' = [dirty EXCEPT ![s].state = "failed", ![s].backoff = TRUE]
      BY <1>3 DEF Fail
    <3> QED
      BY <2>2, <3>3, <3>4 DEF TypeOK, DirtyRow
  <2> QED
    BY <1>1, <2>5, <2>6 DEF Fail, TypeOK, inputVars, DirtyRow
<1> QED
  BY <1>2, <1>3

(* A storage error, a retry time that passes, a crash and a restart.       *)
LEMMA FaultTypes ==
    ASSUME TypeOK, RevisionsOrdered,
           \/ \E r \in Reconcilers : Abandon(r) \/ Restart(r)
           \/ \E s \in Sessions : RetryDue(s)
           \/ \E p \in Processes : Crash(p)
    PROVE  TypeOK' /\ RevisionsOrdered'
<1>1. ASSUME NEW r \in Reconcilers, Abandon(r)
      PROVE  TypeOK' /\ RevisionsOrdered'
  <2>1. PICK w \in Worker : worker' = [worker EXCEPT ![r] = w]
    BY <1>1, RestingWorkers DEF Abandon
  <2>2. todo' \in [Reconcilers -> SUBSET Sessions] /\ faults' \in Nat
    BY <1>1 DEF Abandon, TypeOK
  <2>3. UNCHANGED <<inputVars, unmarked, expiry, projectionVars, published, changes>>
    BY <1>1 DEF Abandon
  <2> QED
    BY <2>1, <2>2, <2>3, WorkerTypes
<1>2. ASSUME NEW r \in Reconcilers, Restart(r)
      PROVE  TypeOK' /\ RevisionsOrdered'
  <2>1. PICK w \in Worker : worker' = [worker EXCEPT ![r] = w]
    BY <1>2, RestingWorkers DEF Restart
  <2>2. UNCHANGED <<inputVars, unmarked, expiry, projectionVars, todo, published, changes, faults>>
    BY <1>2 DEF Restart
  <2> QED
    BY <2>1, <2>2, WorkerTypes DEF TypeOK
<1>3. ASSUME NEW s \in Sessions, RetryDue(s)
      PROVE  TypeOK' /\ RevisionsOrdered'
  <2>1. [dirty[s] EXCEPT !.backoff = FALSE] \in DirtyRow
    BY DEF TypeOK, DirtyRow
  <2>2. dirty' \in [Sessions -> DirtyRow]
    BY <1>3, <2>1 DEF RetryDue, TypeOK, DirtyRow
  <2> QED
    BY <1>3, <2>2 DEF RetryDue, TypeOK, RevisionsOrdered, inputVars, DirtyRow
<1>4. ASSUME NEW p \in Processes, Crash(p)
      PROVE  TypeOK' /\ RevisionsOrdered'
  <2>1. /\ worker' \in [Reconcilers -> Worker]
        /\ todo' \in [Reconcilers -> SUBSET Sessions]
        /\ unmarked' \subseteq Sessions
        /\ faults' \in Nat
    BY <1>4, RestingWorkers DEF Crash, TypeOK
  <2> QED
    BY <1>4, <2>1 DEF Crash, TypeOK, RevisionsOrdered, inputVars, projectionVars
<1> QED
  BY <1>1, <1>2, <1>3, <1>4

(* Every step keeps the types.                                             *)
LEMMA StepTypes ==
    ASSUME TypeOK, RevisionsOrdered, ClaimedTargets, [Next]_vars
    PROVE  TypeOK' /\ RevisionsOrdered'
<1>1. CASE \E s \in Sessions : Import(s)
  BY <1>1, ImportTypes
<1>2. ASSUME NEW r \in Reconcilers, Reconcile(r)
      PROVE  TypeOK' /\ RevisionsOrdered'
  <2>1. CASE StartupSnapshot(r) \/ (\E s \in Sessions : StartupMark(r, s)) \/ StartupEnds(r)
    BY <2>1, StartupTypes
  <2>2. CASE \E s \in Sessions : Claim(r, s)
    BY <2>2, ClaimTypes
  <2>3. CASE ReadScope(r) \/ ReadEvents(r) \/ ReadEnrichments(r) \/ ReadFindings(r)
    BY <2>3, ReadTypes
  <2>4. CASE PublishAny(r)
    BY <2>4, PublishTypes DEF PublishAny
  <2>5. CASE Discard(r)
    BY <2>5, DiscardTypes
  <2> QED
    BY <1>2, <2>1, <2>2, <2>3, <2>4, <2>5 DEF Reconcile
<1>3. CASE \E r \in Reconcilers : Fail(r)
  BY <1>3, FailTypes
<1>4. CASE \/ \E r \in Reconcilers : Abandon(r) \/ Restart(r)
           \/ \E s \in Sessions : RetryDue(s)
           \/ \E p \in Processes : Crash(p)
  BY <1>4, FaultTypes
<1>5. CASE UNCHANGED vars
  BY <1>5 DEF vars, TypeOK, RevisionsOrdered
<1> QED
  BY <1>1, <1>2, <1>3, <1>4, <1>5 DEF Next

-----------------------------------------------------------------------------
(* Claims and inputs.                                                      *)

(* The parts of ProjectionInv that speak of a claim.                       *)
ClaimsInv == ClaimsFollowRow /\ AtMostOneFreshClaim /\ FreshInputs /\ CurrentIsComplete

(* A mark of s is seen by every claim of s: none can be published any      *)
(* more, whatever else the transaction changed of s.                       *)
LEMMA MarkedSession ==
    ASSUME TypeOK, ClaimsInv, NEW s \in Sessions,
           dirty'[s].target = dirty[s].target + 1,
           dirty'[s].state = "pending",
           \A x \in Sessions \ {s} :
              /\ dirty'[x] = dirty[x]
              /\ scope'[x] = scope[x]
              /\ events'[x] = events[x]
              /\ enrich'[x] = enrich[x],
           \A r \in Reconcilers :
              worker'[r].phase \in Busy => worker'[r] = worker[r],
           UNCHANGED published
    PROVE  ClaimsInv'
<1>1. \A r \in Reconcilers : worker[r].session \in Sessions /\ worker[r].target \in Nat
  BY DEF TypeOK, Worker
<1>2. dirty[s].target \in Nat
  BY DEF TypeOK
<1>3. \A r \in Reconcilers : worker'[r].phase \in Busy /\ worker'[r].session = s => ~Fresh(r)'
  BY <1>1, <1>2 DEF ClaimsInv, ClaimsFollowRow, Fresh
<1>4. \A r \in Reconcilers : worker'[r].phase \in Busy /\ worker'[r].session # s =>
          (Fresh(r)' <=> Fresh(r))
  BY <1>1 DEF Fresh
<1>5. ClaimsFollowRow'
  BY <1>1, <1>2, <1>3, <1>4 DEF ClaimsInv, ClaimsFollowRow
<1>6. AtMostOneFreshClaim'
  BY <1>1, <1>3, <1>4 DEF ClaimsInv, AtMostOneFreshClaim
<1>7. FreshInputs'
  BY <1>1, <1>3, <1>4 DEF ClaimsInv, FreshInputs
<1>8. CurrentIsComplete'
  BY DEF ClaimsInv, CurrentIsComplete
<1> QED
  BY <1>5, <1>6, <1>7, <1>8 DEF ClaimsInv

(* A step that only puts reconcilers to rest, and leaves the dirty rows'   *)
(* states and targets.                                                     *)
LEMMA RestingStep ==
    ASSUME TypeOK, ClaimsInv,
           \A s \in Sessions : /\ dirty'[s].target = dirty[s].target
                               /\ dirty'[s].state = dirty[s].state,
           \A r \in Reconcilers : worker'[r].phase \in Busy => worker'[r] = worker[r],
           UNCHANGED <<scope, events, enrich, published>>
    PROVE  ClaimsInv'
<1>1. \A r \in Reconcilers : worker[r].session \in Sessions
  BY DEF TypeOK, Worker
<1>2. \A r \in Reconcilers : worker'[r].phase \in Busy => (Fresh(r)' <=> Fresh(r))
  BY <1>1 DEF Fresh
<1>3. ClaimsFollowRow'
  BY <1>1, <1>2 DEF ClaimsInv, ClaimsFollowRow
<1>4. AtMostOneFreshClaim'
  BY <1>1, <1>2 DEF ClaimsInv, AtMostOneFreshClaim
<1>5. FreshInputs'
  BY <1>1, <1>2 DEF ClaimsInv, FreshInputs
<1>6. CurrentIsComplete'
  BY DEF ClaimsInv, CurrentIsComplete
<1> QED
  BY <1>3, <1>4, <1>5, <1>6 DEF ClaimsInv

(* Every transaction of the importer that changes an input of an analysis  *)
(* marks the session.                                                      *)
LEMMA ImportClaims ==
    ASSUME TypeOK, RevisionsOrdered, ClaimsInv, NEW s \in Sessions, Import(s)
    PROVE  ClaimsInv'
<1>0. UNCHANGED worker
  BY DEF Import, AppendEvent, UpsertSessionScope, UpsertEventEnrichment, RecordFinding, MarkFinding
<1>1. CASE RecordFinding(s)
  BY <1>1, RestingStep DEF RecordFinding, projectionVars
<1>2. CASE ~RecordFinding(s)
  <2>1. MarkDirty(s)
    BY <1>2 DEF Import, AppendEvent, UpsertSessionScope, UpsertEventEnrichment, MarkFinding
  <2>2. \A x \in Sessions \ {s} : /\ scope'[x] = scope[x]
                                  /\ events'[x] = events[x]
                                  /\ enrich'[x] = enrich[x]
    BY <1>2 DEF Import, AppendEvent, UpsertSessionScope, UpsertEventEnrichment, MarkFinding,
               inputVars, TypeOK
  <2> QED
    BY <1>0, <2>1, <2>2, MarkDirtyStep, MarkedSession
<1> QED
  BY <1>1, <1>2

(* Idle, Down and the like are no claims.                                  *)
LEMMA RestingPhases ==
    /\ \A w \in {Idle, Down, StartupDrain, Marking} : w.phase \notin Busy
    /\ \A r \in Reconcilers : NextClaim(r).phase \notin Busy
BY NextClaimRests DEF Idle, Down, StartupDrain, Marking, Busy

(* A Startup marks the sessions it lists, and claims nothing itself.       *)
LEMMA StartupClaims ==
    ASSUME TypeOK, RevisionsOrdered, ClaimsInv, NEW r \in Reconcilers,
           \/ StartupSnapshot(r)
           \/ \E s \in Sessions : StartupMark(r, s)
           \/ StartupEnds(r)
    PROVE  ClaimsInv'
<1>1. \A x \in Reconcilers : worker'[x].phase \in Busy => worker'[x] = worker[x]
  BY RestingPhases DEF StartupSnapshot, StartupMark, StartupEnds, TypeOK
<1>2. CASE \E s \in Sessions : StartupMark(r, s)
  <2>1. PICK s \in Sessions : StartupMark(r, s)
    BY <1>2
  <2>2. MarkDirty(s) /\ UNCHANGED inputVars
    BY <2>1 DEF StartupMark
  <2> QED
    BY <1>1, <2>2, MarkDirtyStep, MarkedSession DEF inputVars
<1>3. CASE StartupSnapshot(r) \/ StartupEnds(r)
  <2>1. UNCHANGED <<inputVars, projectionVars, published>>
    BY <1>3 DEF StartupSnapshot, StartupEnds
  <2> QED
    BY <1>1, <2>1, RestingStep DEF inputVars, projectionVars
<1> QED
  BY <1>2, <1>3

(* Only a row that no publishable claim holds is claimed, because such a   *)
(* claim has its row in state claimed.                                     *)
LEMMA ClaimClaims ==
    ASSUME TypeOK, ClaimsInv, NEW r \in Reconcilers, NEW s \in Sessions, Claim(r, s)
    PROVE  ClaimsInv'
<1>1. \A x \in Reconcilers : worker[x].session \in Sessions
  BY DEF TypeOK, Worker
<1>2. /\ worker'[r].phase = "claimed"
      /\ worker'[r].session = s
      /\ worker'[r].target = dirty[s].target
      /\ \A x \in Reconcilers \ {r} : worker'[x] = worker[x]
  BY DEF Claim, TypeOK, Worker
<1>3. /\ dirty'[s].state = "claimed" /\ dirty'[s].target = dirty[s].target
      /\ \A x \in Sessions \ {s} : dirty'[x] = dirty[x]
      /\ UNCHANGED <<scope, events, enrich, published>>
  BY DEF Claim, TypeOK, inputVars
<1>4. dirty[s].state \in {"pending", "failed"} /\ dirty[s].target \in Nat
  BY DEF Claim, Due, Claimable, TypeOK
<1>5. \A x \in Reconcilers \ {r} :
        worker[x].phase \in Busy /\ worker[x].session = s => ~Fresh(x)
  BY <1>4 DEF ClaimsInv, ClaimsFollowRow
<1>6. \A x \in Reconcilers \ {r} : Fresh(x)' <=> Fresh(x)
  BY <1>1, <1>2, <1>3 DEF Fresh
<1>7. ClaimsFollowRow'
  <2>1. 1 <= dirty[s].target /\ dirty[s].target <= dirty[s].target
    BY <1>4 DEF ClaimsInv, ClaimsFollowRow
  <2>2. ASSUME NEW x \in Reconcilers \ {r}, worker[x].phase \in Busy
        PROVE  /\ 1 <= worker[x].target
               /\ worker[x].target <= dirty'[worker[x].session].target
               /\ Fresh(x) => dirty'[worker[x].session].state = "claimed"
    BY <1>1, <1>3, <2>2 DEF ClaimsInv, ClaimsFollowRow
  <2>3. \A x \in Sessions : dirty'[x].state # "none" => 1 <= dirty'[x].target
    BY <1>3, <2>1 DEF ClaimsInv, ClaimsFollowRow
  <2> QED
    BY <1>2, <1>3, <1>6, <2>1, <2>2, <2>3 DEF ClaimsFollowRow
<1>8. AtMostOneFreshClaim'
  BY <1>2, <1>5, <1>6 DEF ClaimsInv, AtMostOneFreshClaim
<1>9. FreshInputs'
  BY <1>2, <1>3, <1>6 DEF ClaimsInv, FreshInputs
<1>10. CurrentIsComplete'
  BY <1>3 DEF ClaimsInv, CurrentIsComplete
<1> QED
  BY <1>7, <1>8, <1>9, <1>10 DEF ClaimsInv

(* A read takes what is there now, and moves on to the next phase.         *)
LEMMA ReadClaims ==
    ASSUME TypeOK, ClaimsInv, NEW r \in Reconcilers,
           ReadScope(r) \/ ReadEvents(r) \/ ReadEnrichments(r) \/ ReadFindings(r)
    PROVE  ClaimsInv'
<1> DEFINE s == worker[r].session
<1>1. /\ worker[r] \in Worker
      /\ worker[r].input \in Inputs
      /\ \A x \in Reconcilers : worker[x].session \in Sessions
  BY DEF TypeOK, Worker
<1>2. UNCHANGED <<dirty, scope, events, enrich, published>>
  BY DEF ReadScope, ReadEvents, ReadEnrichments, ReadFindings, Read, inputVars, projectionVars
<1>3. /\ worker[r].phase \in Busy
      /\ worker'[r].session = s /\ worker'[r].target = worker[r].target
      /\ \A x \in Reconcilers \ {r} : worker'[x] = worker[x]
  BY <1>1 DEF ReadScope, ReadEvents, ReadEnrichments, ReadFindings, Read, TypeOK, Worker, Busy
<1>4. \A x \in Reconcilers : Fresh(x)' <=> Fresh(x)
  BY <1>2, <1>3 DEF Fresh
<1>5. ClaimsFollowRow'
  BY <1>2, <1>3, <1>4 DEF ClaimsInv, ClaimsFollowRow
<1>6. AtMostOneFreshClaim'
  BY <1>3, <1>4 DEF ClaimsInv, AtMostOneFreshClaim
<1>7. FreshInputs'
  <2>1. ASSUME Fresh(r)
        PROVE  /\ worker'[r].phase # "claimed" => worker'[r].input.scope = scope[s]
               /\ worker'[r].phase \in {"loaded", "enriched", "ready"} =>
                     worker'[r].input.events = events[s]
               /\ worker'[r].phase \in {"enriched", "ready"} =>
                     worker'[r].input.enrich = enrich[s]
    <3> DEFINE in == worker[r].input
    <3>1. /\ worker[r].phase # "claimed" => in.scope = scope[s]
          /\ worker[r].phase \in {"loaded", "enriched", "ready"} => in.events = events[s]
          /\ worker[r].phase \in {"enriched", "ready"} => in.enrich = enrich[s]
      BY <1>3, <2>1 DEF ClaimsInv, FreshInputs
    <3>2. CASE ReadScope(r)
      <4>1. worker'[r].phase = "scoped" /\ worker'[r].input = [in EXCEPT !.scope = scope[s]]
        BY <1>1, <3>2 DEF ReadScope, Read, TypeOK, Worker
      <4> QED
        BY <1>1, <4>1 DEF Inputs
    <3>3. CASE ReadEvents(r)
      <4>1. /\ worker[r].phase = "scoped" /\ worker'[r].phase = "loaded"
            /\ worker'[r].input = [in EXCEPT !.events = events[s], !.through = lastEvent]
        BY <1>1, <3>3 DEF ReadEvents, Read, TypeOK, Worker
      <4> QED
        BY <1>1, <3>1, <4>1 DEF Inputs
    <3>4. CASE ReadEnrichments(r)
      <4>1. /\ worker[r].phase = "loaded" /\ worker'[r].phase = "enriched"
            /\ worker'[r].input = [in EXCEPT !.enrich = enrich[s]]
        BY <1>1, <3>4 DEF ReadEnrichments, Read, TypeOK, Worker
      <4> QED
        BY <1>1, <3>1, <4>1 DEF Inputs
    <3>5. CASE ReadFindings(r)
      <4>1. /\ worker[r].phase = "enriched" /\ worker'[r].phase = "ready"
            /\ worker'[r].input = [in EXCEPT !.finds = finds[s]]
        BY <1>1, <3>5 DEF ReadFindings, Read, TypeOK, Worker
      <4> QED
        BY <1>1, <3>1, <4>1 DEF Inputs
    <3> QED
      BY <3>2, <3>3, <3>4, <3>5
  <2> QED
    BY <1>2, <1>3, <1>4, <2>1 DEF ClaimsInv, FreshInputs
<1>8. CurrentIsComplete'
  BY <1>2 DEF ClaimsInv, CurrentIsComplete
<1> QED
  BY <1>5, <1>6, <1>7, <1>8 DEF ClaimsInv

(* A claim that ends with a compare that succeeds was the only publishable *)
(* one of its session, and what it publishes is what is there.             *)
LEMMA SettleClaims ==
    ASSUME TypeOK, ClaimsInv, NEW r \in Reconcilers, NEW status \in {"failed"} \cup Completed,
           worker[r].phase \in Busy, Fresh(r),
           worker' = [worker EXCEPT ![r] = NextClaim(r)],
           dirty'[worker[r].session].target = dirty[worker[r].session].target,
           dirty'[worker[r].session].state = status,
           \A x \in Sessions \ {worker[r].session} :
               dirty'[x] = dirty[x] /\ published'[x] = published[x],
           \/ status = "failed"
           \/ worker[r].phase = "ready" /\ published'[worker[r].session] = worker[r].input,
           UNCHANGED <<scope, events, enrich>>
    PROVE  ClaimsInv'
<1> DEFINE s == worker[r].session
<1>1. \A x \in Reconcilers : worker[x].session \in Sessions
  BY DEF TypeOK, Worker
<1>2. /\ worker'[r].phase \notin Busy
      /\ \A x \in Reconcilers \ {r} : worker'[x] = worker[x]
  BY RestingPhases DEF TypeOK
<1>3. \A x \in Reconcilers \ {r} :
        /\ Fresh(x)' <=> Fresh(x)
        /\ worker[x].phase \in Busy /\ worker[x].session = s => ~Fresh(x)
  BY <1>1, <1>2 DEF ClaimsInv, AtMostOneFreshClaim, Fresh
<1>4. ClaimsFollowRow'
  <2>1. 1 <= dirty[s].target
    BY <1>1 DEF ClaimsInv, ClaimsFollowRow, Fresh
  <2>2. \A x \in Sessions : dirty'[x].state # "none" => 1 <= dirty'[x].target
    BY <2>1 DEF ClaimsInv, ClaimsFollowRow
  <2>3. ASSUME NEW x \in Reconcilers \ {r}, worker[x].phase \in Busy
        PROVE  /\ 1 <= worker[x].target
               /\ worker[x].target <= dirty'[worker[x].session].target
               /\ Fresh(x) => dirty'[worker[x].session].state = "claimed"
    BY <1>1, <1>3, <2>3 DEF ClaimsInv, ClaimsFollowRow
  <2> QED
    BY <1>2, <1>3, <2>2, <2>3 DEF ClaimsFollowRow
<1>5. AtMostOneFreshClaim'
  BY <1>2, <1>3 DEF ClaimsInv, AtMostOneFreshClaim
<1>6. FreshInputs'
  BY <1>2, <1>3 DEF ClaimsInv, FreshInputs
<1>7. CurrentIsComplete'
  <2>1. status = "current" => /\ published'[s].scope = scope[s]
                              /\ published'[s].events = events[s]
                              /\ published'[s].enrich = enrich[s]
    BY DEF ClaimsInv, FreshInputs
  <2> QED
    BY <2>1 DEF ClaimsInv, CurrentIsComplete
<1> QED
  BY <1>4, <1>5, <1>6, <1>7 DEF ClaimsInv

(* A publication is the end of the one publishable claim of its session.   *)
LEMMA PublishClaims ==
    ASSUME TypeOK, ClaimsInv, NEW r \in Reconcilers, PublishAny(r)
    PROVE  ClaimsInv'
<1>1. PICK status \in Completed, cites \in SUBSET worker[r].input.events :
        Publish(r, status, cites)
  BY DEF PublishAny
<1> DEFINE s == worker[r].session
<1>2. s \in Sessions
  BY DEF TypeOK, Worker
<1>3. worker[r].phase = "ready" /\ worker[r].phase \in Busy /\ Fresh(r)
  BY <1>1 DEF Publish, Busy
<1>4. dirty' = [dirty EXCEPT ![s].state = status, ![s].backoff = FALSE]
  BY <1>1 DEF Publish
<1>5. /\ dirty'[s].target = dirty[s].target
      /\ dirty'[s].state = status
      /\ \A x \in Sessions \ {s} : dirty'[x] = dirty[x]
  BY <1>2, <1>4 DEF TypeOK
<1>6. /\ published'[s] = worker[r].input
      /\ \A x \in Sessions \ {s} : published'[x] = published[x]
  BY <1>1, <1>2 DEF Publish, TypeOK
<1>7. worker' = [worker EXCEPT ![r] = NextClaim(r)] /\ UNCHANGED <<scope, events, enrich>>
  BY <1>1 DEF Publish, inputVars
<1> QED
  BY <1>3, <1>5, <1>6, <1>7, SettleClaims

(* A failure ends a publishable claim and leaves a stale one to its        *)
(* session's next claim; a discarded claim was stale.                      *)
LEMMA FailClaims ==
    ASSUME TypeOK, ClaimsInv, NEW r \in Reconcilers, Fail(r) \/ Discard(r)
    PROVE  ClaimsInv'
<1> DEFINE s == worker[r].session
<1>1. s \in Sessions
  BY DEF TypeOK, Worker
<1>2. /\ worker' = [worker EXCEPT ![r] = NextClaim(r)]
      /\ UNCHANGED <<scope, events, enrich, published>>
  BY DEF Fail, Discard, inputVars
<1>3. CASE Fail(r) /\ Fresh(r)
  <2>1. worker[r].phase \in Busy
    BY <1>3 DEF Fail
  <2>2. dirty' = [dirty EXCEPT ![s].state = "failed", ![s].backoff = TRUE]
    BY <1>3 DEF Fail
  <2>3. /\ dirty'[s].target = dirty[s].target
        /\ dirty'[s].state = "failed"
        /\ \A x \in Sessions \ {s} : dirty'[x] = dirty[x]
    BY <1>1, <2>2 DEF TypeOK
  <2> QED
    BY <1>2, <1>3, <2>1, <2>3, SettleClaims
<1>4. CASE Discard(r) \/ ~Fresh(r)
  <2>1. UNCHANGED dirty
    BY <1>4 DEF Fail, Discard, projectionVars
  <2>2. \A x \in Reconcilers : worker'[x].phase \in Busy => worker'[x] = worker[x]
    BY <1>2, RestingPhases DEF TypeOK
  <2> QED
    BY <1>2, <2>1, <2>2, RestingStep
<1> QED
  BY <1>3, <1>4

(* Storage errors, restarts, passing retry times and crashes only drop     *)
(* claims.                                                                 *)
LEMMA FaultClaims ==
    ASSUME TypeOK, ClaimsInv,
           \/ \E r \in Reconcilers : Abandon(r) \/ Restart(r)
           \/ \E s \in Sessions : RetryDue(s)
           \/ \E p \in Processes : Crash(p)
    PROVE  ClaimsInv'
<1>1. UNCHANGED <<scope, events, enrich, published>>
  BY DEF Abandon, Restart, RetryDue, Crash, inputVars
<1>2. \A s \in Sessions : /\ dirty'[s].target = dirty[s].target
                           /\ dirty'[s].state = dirty[s].state
  BY DEF Abandon, Restart, RetryDue, Crash, projectionVars, TypeOK
<1>3. \A r \in Reconcilers : worker'[r].phase \in Busy => worker'[r] = worker[r]
  BY RestingPhases DEF Abandon, Restart, RetryDue, Crash, TypeOK
<1> QED
  BY <1>1, <1>2, <1>3, RestingStep

(* Every step keeps the invariants of claims.                              *)
LEMMA StepClaims ==
    ASSUME TypeOK, RevisionsOrdered, ClaimsInv, [Next]_vars
    PROVE  ClaimsInv'
<1>1. CASE \E s \in Sessions : Import(s)
  BY <1>1, ImportClaims
<1>2. ASSUME NEW r \in Reconcilers, Reconcile(r)
      PROVE  ClaimsInv'
  <2>1. CASE StartupSnapshot(r) \/ (\E s \in Sessions : StartupMark(r, s)) \/ StartupEnds(r)
    BY <2>1, StartupClaims
  <2>2. CASE \E s \in Sessions : Claim(r, s)
    BY <2>2, ClaimClaims
  <2>3. CASE ReadScope(r) \/ ReadEvents(r) \/ ReadEnrichments(r) \/ ReadFindings(r)
    BY <2>3, ReadClaims
  <2>4. CASE PublishAny(r)
    BY <2>4, PublishClaims
  <2>5. CASE Discard(r)
    BY <2>5, FailClaims
  <2> QED
    BY <1>2, <2>1, <2>2, <2>3, <2>4, <2>5 DEF Reconcile
<1>3. CASE \E r \in Reconcilers : Fail(r)
  BY <1>3, FailClaims
<1>4. CASE \/ \E r \in Reconcilers : Abandon(r) \/ Restart(r)
           \/ \E s \in Sessions : RetryDue(s)
           \/ \E p \in Processes : Crash(p)
  BY <1>4, FaultClaims
<1>5. CASE UNCHANGED vars
  BY <1>5, RestingStep DEF vars
<1> QED
  BY <1>1, <1>2, <1>3, <1>4, <1>5 DEF Next

-----------------------------------------------------------------------------
(* The theorems.                                                           *)

(* An empty store satisfies the invariant.                                 *)
LEMMA InitInv == Init => ProjectionInv
<1> SUFFICES ASSUME Init
             PROVE  ProjectionInv
  OBVIOUS
<1>1. NoScope \in ScopeRow /\ NoInputs \in Inputs
  BY DEF NoScope, ScopeRow, NoInputs, Inputs, NoId
<1>2. /\ worker \in [Reconcilers -> Worker]
      /\ \A r \in Reconcilers : worker[r].phase \notin Busy
  BY RestingWorkers, RestingPhases DEF Init
<1>3. dirty \in [Sessions -> [state: RowStates, target: Nat, backoff: BOOLEAN]]
  BY DEF Init, NoRow, RowStates
<1>4. TypeOK
  BY <1>1, <1>2, <1>3 DEF Init, TypeOK
<1>5. RevisionsOrdered
  BY DEF Init, RevisionsOrdered
<1>6. ClaimsFollowRow /\ AtMostOneFreshClaim /\ FreshInputs /\ CurrentIsComplete
  BY <1>2 DEF Init, NoRow, ClaimsFollowRow, AtMostOneFreshClaim, FreshInputs, CurrentIsComplete
<1> QED
  BY <1>4, <1>5, <1>6 DEF ProjectionInv

(* Whatever importers, reconcilers, failures and crashes interleave, the   *)
(* claims of the store, the inputs they have read and the rows they are    *)
(* made from agree.                                                        *)
THEOREM ProjectionSafe == Spec => []ProjectionInv
<1>1. Init => ProjectionInv
  BY InitInv
<1>2. ClaimsFollowRow => ClaimedTargets
  BY DEF ClaimsFollowRow, ClaimedTargets
<1>3. ProjectionInv /\ [Next]_vars => ProjectionInv'
  BY <1>2, StepTypes, StepClaims DEF ProjectionInv, ClaimsInv
<1> QED
  BY <1>1, <1>3, PTL DEF Spec

(* Every table and every value in memory keeps its shape.                  *)
THEOREM TypeCorrect == Spec => []TypeOK
<1>1. ProjectionInv => TypeOK
  BY DEF ProjectionInv
<1> QED
  BY <1>1, ProjectionSafe, PTL

(* A session shown as current was analysed with the scope, the events and  *)
(* the enrichments it has: the compare of the target in                    *)
(* replaceSessionProjection is enough.                                     *)
THEOREM CurrentComplete == Spec => []CurrentIsComplete
<1>1. ProjectionInv => CurrentIsComplete
  BY DEF ProjectionInv
<1> QED
  BY <1>1, ProjectionSafe, PTL

(* No two reconcilers hold claims of one session that both may publish.    *)
THEOREM OneFreshClaim == Spec => []AtMostOneFreshClaim
<1>1. ProjectionInv => AtMostOneFreshClaim
  BY DEF ProjectionInv
<1> QED
  BY <1>1, ProjectionSafe, PTL

-----------------------------------------------------------------------------
(* Scopes.                                                                 *)

(* mergeSessionScope keeps a conflict, and gives an identified scope up    *)
(* only for a conflict.                                                    *)
LEMMA MergeKeepsScope ==
    ASSUME NEW old \in ScopeRow, NEW new \in Scopes
    PROVE  /\ old.quality = "conflict" => MergeScope(old, new) = old
           /\ old.id # NoId =>
                 \/ MergeScope(old, new).id = old.id
                 \/ MergeScope(old, new).quality = "conflict"
<1>1. CASE old.quality = "conflict" \/ new.id = NoId
  <2>1. MergeScope(old, new) = old
    BY <1>1 DEF MergeScope
  <2> QED
    BY <2>1
<1>2. CASE old.quality # "conflict" /\ new.id # NoId /\ old.id = NoId
  BY <1>2
<1>3. CASE old.quality # "conflict" /\ new.id # NoId /\ old.id \notin {NoId, new.id}
  <2>1. MergeScope(old, new) = [id |-> NoId, quality |-> "conflict"]
    BY <1>3 DEF MergeScope
  <2> QED
    BY <1>3, <2>1
<1>4. CASE old.quality # "conflict" /\ new.id # NoId /\ old.id = new.id
  <2>1. MergeScope(old, new) = IF old.quality = "lexical" /\ new.quality = "resolved"
                               THEN new ELSE old
    BY <1>4 DEF MergeScope
  <2> QED
    BY <1>4, <2>1
<1> QED
  BY <1>1, <1>2, <1>3, <1>4

(* No order of imports moves a session from one project to another.        *)
THEOREM ScopeKept == Spec => ScopeNeverReassigned
<1> DEFINE Kept(s) == /\ scope[s].quality = "conflict" => scope'[s] = scope[s]
                      /\ scope[s].id # NoId =>
                            scope'[s].id = scope[s].id \/ scope'[s].quality = "conflict"
<1>1. TypeOK /\ [Next]_vars => [\A s \in Sessions : Kept(s)]_vars
  <2> SUFFICES ASSUME TypeOK, Next, NEW s \in Sessions
               PROVE  Kept(s)
    OBVIOUS
  <2>1. CASE \E x \in Sessions, new \in Scopes : UpsertSessionScope(x, new)
    <3>1. PICK x \in Sessions, new \in Scopes : UpsertSessionScope(x, new)
      BY <2>1
    <3>2. CASE x # s
      BY <3>1, <3>2 DEF UpsertSessionScope, TypeOK
    <3>3. CASE x = s
      <4> DEFINE merged == IF scope[s] = NoScope THEN new ELSE MergeScope(scope[s], new)
      <4>1. scope'[s] = merged
        BY <3>1, <3>3 DEF UpsertSessionScope, TypeOK
      <4>2. scope[s] \in ScopeRow
        BY DEF TypeOK
      <4>3. CASE scope[s] = NoScope
        BY <4>3 DEF NoScope
      <4>4. CASE scope[s] # NoScope
        <5>1. scope'[s] = MergeScope(scope[s], new)
          BY <4>1, <4>4
        <5> QED
          BY <4>2, <5>1, MergeKeepsScope
      <4> QED
        BY <4>3, <4>4
    <3> QED
      BY <3>2, <3>3
  <2>2. CASE ~(\E x \in Sessions, new \in Scopes : UpsertSessionScope(x, new))
    <3>1. CASE \E x \in Sessions : Import(x)
      BY <2>2, <3>1 DEF Import, AppendEvent, UpsertEventEnrichment, RecordFinding, MarkFinding,
                        inputVars
    <3>2. CASE \E r \in Reconcilers : Reconcile(r)
      <4>1. PICK r \in Reconcilers : Reconcile(r)
        BY <3>2
      <4> QED
        BY <4>1 DEF Reconcile, StartupSnapshot, StartupMark, StartupEnds, Claim, ReadScope,
                    ReadEvents, ReadEnrichments, ReadFindings, Read, PublishAny, Publish,
                    Discard, inputVars
    <3>3. CASE \/ \E r \in Reconcilers : Fail(r) \/ Abandon(r) \/ Restart(r)
               \/ \E x \in Sessions : RetryDue(x)
               \/ \E p \in Processes : Crash(p)
      BY <3>3 DEF Fail, Abandon, Restart, RetryDue, Crash, inputVars
    <3> QED
      BY <3>1, <3>2, <3>3 DEF Next
  <2> QED
    BY <2>1, <2>2
<1> QED
  BY <1>1, TypeCorrect, PTL DEF Spec, ScopeNeverReassigned

-----------------------------------------------------------------------------
(* Findings.                                                               *)

(* Belay Local, which imports, runs the recovery loop.  A process that     *)
(* imports and ends, like the import command, leaves what it did not mark  *)
(* to the next start of Belay Local, and the promise does not speak of it. *)
ImporterRecovers == \E r \in Starters : ProcessOf[r] = Importer

(* What is dirty, or owed a mark, has events; nothing is listed by a       *)
(* process that is down.                                                   *)
EventsFirst ==
    /\ \A s \in Sessions : dirty[s].state # "none" \/ s \in unmarked => events[s] # {}
    /\ \A r \in Reconcilers : \A s \in todo[r] : events[s] # {}
    /\ \A r \in Reconcilers : worker[r].phase = "down" => todo[r] = {}

(* A reconciler of the importer's process that has its mark of s ahead.    *)
Ahead(r, s) ==
    /\ r \in Starters /\ ProcessOf[r] = Importer
    /\ \/ worker[r].phase = "down"
       \/ worker[r].phase = "marking" /\ (todo[r] = {} \/ s \in todo[r])

Covered(s) == s \in unmarked \/ \E r \in Reconcilers : Ahead(r, s)

(* Neither the last analysis nor a claim that may still be published       *)
(* misses a finding, unless a mark is owed.                                *)
FindsAccounted(s) ==
    /\ dirty[s].state \in Completed => published[s].finds = finds[s] \/ Covered(s)
    /\ \A r \in Reconcilers : worker[r].phase = "ready" /\ worker[r].session = s /\ Fresh(r) =>
          worker[r].input.finds = finds[s] \/ Covered(s)

FindingsInv == EventsFirst /\ \A s \in Sessions : FindsAccounted(s)

(* Events are never taken back, so it is enough to look at what is new.    *)
LEMMA EventsFirstKept ==
    ASSUME EventsFirst,
           \A s \in Sessions : events[s] # {} => events'[s] # {},
           \A s \in Sessions : dirty'[s].state # "none" \/ s \in unmarked' =>
              dirty[s].state # "none" \/ s \in unmarked \/ events'[s] # {},
           \A r \in Reconcilers : \A s \in todo'[r] :
              s \in Sessions /\ (s \in todo[r] \/ events'[s] # {}),
           \A r \in Reconcilers : worker'[r].phase = "down" => todo'[r] = {}
    PROVE  EventsFirst'
BY DEF EventsFirst

(* A mark of s makes what was read of it stale.                            *)
LEMMA MarkedAccounted ==
    ASSUME TypeOK, ClaimsInv, NEW s \in Sessions,
           dirty'[s].target = dirty[s].target + 1, dirty'[s].state = "pending",
           \A r \in Reconcilers : worker'[r].phase \in Busy => worker'[r] = worker[r]
    PROVE  FindsAccounted(s)'
<1>1. dirty[s].target \in Nat /\ \A r \in Reconcilers : worker[r].target \in Nat
  BY DEF TypeOK, Worker
<1>2. ASSUME NEW r \in Reconcilers, worker'[r].phase = "ready", worker'[r].session = s
      PROVE  ~Fresh(r)'
  <2>1. worker'[r] = worker[r] /\ worker[r].phase \in Busy /\ worker[r].session = s
    BY <1>2 DEF Busy
  <2>2. worker[r].target <= dirty[s].target
    BY <2>1 DEF ClaimsInv, ClaimsFollowRow
  <2> QED
    BY <1>1, <2>1, <2>2 DEF Fresh
<1>3. dirty'[s].state \notin Completed
  BY DEF Completed
<1> QED
  BY <1>2, <1>3 DEF FindsAccounted

(* Without a mark: no analysis ends, what is read is what is there, and    *)
(* who owed a mark still does.                                             *)
LEMMA KeptAccounted ==
    ASSUME TypeOK, ClaimsInv, EventsFirst, NEW s \in Sessions, FindsAccounted(s),
           events[s] # {} /\ Covered(s) => Covered(s)',
           dirty'[s].target = dirty[s].target,
           dirty'[s].state \in Completed => dirty[s].state \in Completed,
           published'[s] = published[s], finds'[s] = finds[s],
           \A r \in Reconcilers : worker'[r].phase = "ready" /\ worker'[r].session = s =>
              worker'[r] = worker[r] \/ worker'[r].input.finds = finds[s]
    PROVE  FindsAccounted(s)'
<1>1. dirty[s].state \in Completed => events[s] # {}
  BY DEF EventsFirst, Completed
<1>2. ASSUME NEW r \in Reconcilers, worker'[r].phase = "ready", worker'[r].session = s, Fresh(r)'
      PROVE  worker'[r].input.finds = finds'[s] \/ Covered(s)'
  <2>1. CASE worker'[r] = worker[r]
    <3>1. Fresh(r) /\ worker[r].phase \in Busy /\ worker[r].session = s
      BY <1>2, <2>1 DEF Fresh, Busy
    <3>2. dirty[s].state = "claimed"
      BY <3>1 DEF ClaimsInv, ClaimsFollowRow
    <3>3. events[s] # {}
      BY <3>2 DEF EventsFirst
    <3> QED
      BY <1>2, <2>1, <3>1, <3>3 DEF FindsAccounted
  <2>2. CASE worker'[r].input.finds = finds[s]
    BY <2>2
  <2> QED
    BY <1>2, <2>1, <2>2
<1> QED
  BY <1>1, <1>2 DEF FindsAccounted

(* A reconciler that is neither down nor marking owes nothing, so that     *)
(* what it does takes no debt away.                                        *)
LEMMA CoveredKept ==
    ASSUME NEW r \in Reconcilers, worker[r].phase \notin {"down", "marking"},
           \A x \in Reconcilers \ {r} : worker'[x] = worker[x] /\ todo'[x] = todo[x],
           unmarked' = unmarked
    PROVE  \A s \in Sessions : Covered(s) => Covered(s)'
BY DEF Covered, Ahead

(* The importer: a finding is owed a mark until it has it.                 *)
LEMMA ImportFindings ==
    ASSUME TypeOK, RevisionsOrdered, ClaimsInv, FindingsInv, NEW s \in Sessions, Import(s)
    PROVE  FindingsInv'
<1>0. UNCHANGED <<worker, todo>> /\ todo \in [Reconcilers -> SUBSET Sessions]
  BY DEF Import, AppendEvent, UpsertSessionScope, UpsertEventEnrichment, RecordFinding,
         MarkFinding, TypeOK
<1>1. \A x \in Sessions : x \in unmarked /\ x \in unmarked' => (Covered(x) => Covered(x)')
  BY DEF Covered
<1>2. \A x \in Sessions : (x \in unmarked => x \in unmarked') => (Covered(x) => Covered(x)')
  BY <1>0 DEF Covered, Ahead
<1>3. CASE RecordFinding(s)
  <2>1. /\ UNCHANGED <<events, dirty, published>> /\ events[s] # {}
        /\ unmarked' = unmarked \cup {s}
        /\ \A x \in Sessions \ {s} : finds'[x] = finds[x]
    BY <1>3 DEF RecordFinding, projectionVars, TypeOK
  <2>2. EventsFirst'
    BY <1>0, <2>1 DEF FindingsInv, EventsFirst
  <2>3. \A x \in Sessions \ {s} : FindsAccounted(x)'
    BY <1>0, <1>2, <2>1, KeptAccounted DEF FindingsInv
  <2>4. FindsAccounted(s)'
    BY <2>1 DEF FindsAccounted, Covered
  <2> QED
    BY <2>2, <2>3, <2>4 DEF FindingsInv
<1>4. CASE ~RecordFinding(s)
  <2>1. MarkDirty(s)
    BY <1>4 DEF Import, AppendEvent, UpsertSessionScope, UpsertEventEnrichment, MarkFinding
  <2>2. /\ dirty'[s].target = dirty[s].target + 1 /\ dirty'[s].state = "pending"
        /\ \A x \in Sessions \ {s} : dirty'[x] = dirty[x]
        /\ published' = published
    BY <2>1, MarkDirtyStep
  <2>3. /\ finds' = finds
        /\ unmarked' \subseteq unmarked /\ unmarked \subseteq unmarked' \cup {s}
        /\ events'[s] # {} /\ \A x \in Sessions \ {s} : events'[x] = events[x]
    BY <1>4 DEF Import, AppendEvent, UpsertSessionScope, UpsertEventEnrichment, MarkFinding,
               inputVars, TypeOK, FindingsInv, EventsFirst
  <2>4. EventsFirst'
    BY <1>0, <2>2, <2>3 DEF FindingsInv, EventsFirst
  <2>5. \A x \in Sessions \ {s} : FindsAccounted(x)'
    BY <1>0, <1>2, <2>2, <2>3, KeptAccounted DEF FindingsInv
  <2>6. FindsAccounted(s)'
    BY <1>0, <2>2, MarkedAccounted
  <2> QED
    BY <2>4, <2>5, <2>6 DEF FindingsInv
<1> QED
  BY <1>3, <1>4

(* A Startup lists every session with events, and has each ahead of it     *)
(* until it is marked.                                                     *)
LEMMA StartupFindings ==
    ASSUME TypeOK, RevisionsOrdered, ClaimsInv, FindingsInv, NEW r \in Reconcilers,
           \/ StartupSnapshot(r)
           \/ \E s \in Sessions : StartupMark(r, s)
           \/ StartupEnds(r)
    PROVE  FindingsInv'
<1>1. /\ worker \in [Reconcilers -> Worker]
      /\ todo \in [Reconcilers -> SUBSET Sessions]
  BY DEF TypeOK
<1>2. /\ StartupDrain.phase = "idle" /\ Marking.phase = "marking" /\ Idle.phase = "idle"
  BY DEF StartupDrain, Marking, Idle
<1>3. /\ \A x \in Reconcilers \ {r} : worker'[x] = worker[x] /\ todo'[x] = todo[x]
      /\ worker'[r].phase \in {"idle", "marking"}
      /\ UNCHANGED <<events, finds, unmarked, published>>
  <2>1. \A x \in Reconcilers \ {r} : worker'[x] = worker[x] /\ todo'[x] = todo[x]
    BY <1>1 DEF StartupSnapshot, StartupMark, StartupEnds
  <2>2. worker'[r] \in {Idle, StartupDrain, Marking}
    BY <1>1 DEF StartupSnapshot, StartupMark, StartupEnds
  <2>3. UNCHANGED <<events, finds, unmarked>>
    BY DEF StartupSnapshot, StartupMark, StartupEnds, inputVars
  <2>4. UNCHANGED published
    BY DEF StartupSnapshot, StartupMark, StartupEnds, MarkDirty
  <2> QED
    BY <1>2, <2>1, <2>2, <2>3, <2>4
<1>4. \A x \in Reconcilers : worker'[x].phase \in Busy => worker'[x] = worker[x]
  BY <1>3 DEF Busy
<1>5. CASE StartupSnapshot(r)
  <2> DEFINE listed == {s \in Sessions : events[s] # {}}
  <2>1. /\ todo'[r] = listed
        /\ worker'[r] = IF listed = {} THEN StartupDrain ELSE Marking
        /\ UNCHANGED dirty
    BY <1>1, <1>5 DEF StartupSnapshot, projectionVars
  <2>2. EventsFirst'
    BY <1>3, <2>1 DEF FindingsInv, EventsFirst
  <2>3. ASSUME NEW s \in Sessions, events[s] # {}, Covered(s)
        PROVE  Covered(s)'
    <3>1. s \in listed /\ worker'[r].phase = "marking" /\ s \in todo'[r]
      BY <1>2, <2>1, <2>3
    <3> QED
      BY <1>3, <2>3, <3>1 DEF Covered, Ahead
  <2>4. ASSUME NEW s \in Sessions
        PROVE  FindsAccounted(s)'
    <3>1. FindsAccounted(s) /\ EventsFirst /\ dirty'[s] = dirty[s]
      BY <2>1 DEF FindingsInv
    <3>2. \A x \in Reconcilers : worker'[x].phase = "ready" => worker'[x] = worker[x]
      BY <1>4 DEF Busy
    <3> QED
      BY <1>3, <2>3, <3>1, <3>2, KeptAccounted
  <2> QED
    BY <2>2, <2>4 DEF FindingsInv
<1>6. ASSUME NEW s \in Sessions, StartupMark(r, s)
      PROVE  FindingsInv'
  <2>1. MarkDirty(s) /\ worker[r].phase = "marking" /\ s \in todo[r]
    BY <1>6 DEF StartupMark
  <2>2. /\ dirty'[s].target = dirty[s].target + 1 /\ dirty'[s].state = "pending"
        /\ \A x \in Sessions \ {s} : dirty'[x] = dirty[x]
    BY <2>1, MarkDirtyStep
  <2>3. /\ todo'[r] = todo[r] \ {s}
        /\ worker'[r] = IF todo[r] = {s} THEN StartupDrain ELSE Marking
    BY <1>1, <1>6 DEF StartupMark
  <2>4. EventsFirst'
    <3>1. events[s] # {}
      BY <2>1 DEF FindingsInv, EventsFirst
    <3> QED
      BY <1>3, <2>2, <2>3, <3>1 DEF FindingsInv, EventsFirst
  <2>5. ASSUME NEW x \in Sessions \ {s}, Covered(x)
        PROVE  Covered(x)'
    <3>1. Ahead(r, x) => Ahead(r, x)'
      BY <1>2, <2>1, <2>3 DEF Ahead
    <3> QED
      BY <1>3, <2>5, <3>1 DEF Covered, Ahead
  <2>6. ASSUME NEW x \in Sessions \ {s}
        PROVE  FindsAccounted(x)'
    <3>1. FindsAccounted(x) /\ EventsFirst /\ dirty'[x] = dirty[x]
      BY <2>2 DEF FindingsInv
    <3>2. \A y \in Reconcilers : worker'[y].phase = "ready" => worker'[y] = worker[y]
      BY <1>4 DEF Busy
    <3> QED
      BY <1>3, <2>5, <3>1, <3>2, KeptAccounted
  <2>7. FindsAccounted(s)'
    BY <1>4, <2>2, MarkedAccounted
  <2> QED
    BY <2>4, <2>6, <2>7 DEF FindingsInv
<1>7. CASE StartupEnds(r)
  <2>1. UNCHANGED <<dirty, todo>> /\ worker[r].phase = "idle"
    BY <1>2, <1>7 DEF StartupEnds, projectionVars
  <2>2. EventsFirst'
    BY <1>1, <1>2, <1>3, <1>7, <2>1 DEF FindingsInv, EventsFirst, StartupEnds
  <2>3. \A s \in Sessions : Covered(s) => Covered(s)'
    BY <1>3, <2>1, CoveredKept
  <2>4. \A x \in Reconcilers : worker'[x].phase = "ready" => worker'[x] = worker[x]
    BY <1>4 DEF Busy
  <2>5. \A s \in Sessions : FindsAccounted(s)'
    BY <1>3, <2>1, <2>3, <2>4, KeptAccounted DEF FindingsInv
  <2> QED
    BY <2>2, <2>5 DEF FindingsInv
<1> QED
  BY <1>5, <1>6, <1>7

(* A reconciler that goes on with its drain: what it reads is what is      *)
(* there, and a row that it writes is not complete.                        *)
LEMMA DrainFindings ==
    ASSUME TypeOK, ClaimsInv, FindingsInv, NEW r \in Reconcilers,
           \/ \E s \in Sessions : Claim(r, s)
           \/ ReadScope(r) \/ ReadEvents(r) \/ ReadEnrichments(r) \/ ReadFindings(r)
           \/ Discard(r)
           \/ Fail(r)
    PROVE  FindingsInv'
<1>1. /\ worker \in [Reconcilers -> Worker] /\ worker[r] \in Worker
      /\ worker[r].session \in Sessions /\ worker[r].input \in Inputs
      /\ todo \in [Reconcilers -> SUBSET Sessions]
  BY DEF TypeOK, Worker
<1>2. worker[r].phase \notin {"down", "marking"}
  BY DEF Claim, ReadScope, ReadEvents, ReadEnrichments, ReadFindings, Read, Discard, Fail, Busy
<1>3. UNCHANGED <<events, finds, unmarked, published, todo>>
  BY DEF Claim, ReadScope, ReadEvents, ReadEnrichments, ReadFindings, Read, Discard, Fail,
         inputVars
<1>4. \A x \in Reconcilers \ {r} : worker'[x] = worker[x]
  BY <1>1 DEF Claim, ReadScope, ReadEvents, ReadEnrichments, ReadFindings, Read, Discard, Fail
<1>5. /\ worker'[r].phase # "down"
      /\ worker'[r].phase = "ready" => worker'[r].input.finds = finds[worker'[r].session]
  <2>1. CASE \E s \in Sessions : Claim(r, s)
    <3>1. PICK s \in Sessions : Claim(r, s)
      BY <2>1
    <3>2. worker'[r].phase = "claimed"
      BY <1>1, <3>1 DEF Claim, Worker
    <3> QED
      BY <3>2
  <2>2. CASE ReadScope(r) \/ ReadEvents(r) \/ ReadEnrichments(r)
    <3>1. worker'[r].phase \in {"scoped", "loaded", "enriched"}
      BY <1>1, <2>2 DEF ReadScope, ReadEvents, ReadEnrichments, Read, Worker
    <3> QED
      BY <3>1
  <2>3. CASE ReadFindings(r)
    <3>1. /\ worker'[r].phase = "ready" /\ worker'[r].session = worker[r].session
          /\ worker'[r].input = [worker[r].input EXCEPT !.finds = finds[worker[r].session]]
      BY <1>1, <2>3 DEF ReadFindings, Read, Worker
    <3> QED
      BY <1>1, <3>1 DEF Inputs
  <2>4. CASE Discard(r) \/ Fail(r)
    <3>1. worker'[r] = NextClaim(r)
      BY <1>1, <2>4 DEF Discard, Fail
    <3> QED
      BY <3>1, NextClaimRests
  <2> QED
    BY <2>1, <2>2, <2>3, <2>4
<1>6. \A s \in Sessions :
         /\ dirty'[s].target = dirty[s].target
         /\ dirty'[s].state \in Completed => dirty[s].state \in Completed
         /\ dirty'[s].state # "none" => dirty[s].state # "none"
  <2>1. dirty \in [Sessions -> DirtyRow]
    BY DEF TypeOK, DirtyRow
  <2>2. ASSUME NEW s \in Sessions, Claim(r, s)
        PROVE  dirty[s].state # "none" /\ dirty' = [dirty EXCEPT ![s].state = "claimed"]
    BY <2>2 DEF Claim, Due, Claimable
  <2>3. ASSUME Fail(r), Fresh(r)
        PROVE  /\ dirty[worker[r].session].state # "none"
               /\ dirty' = [dirty EXCEPT ![worker[r].session].state = "failed",
                                         ![worker[r].session].backoff = TRUE]
    BY <2>3 DEF Fail, ClaimsInv, ClaimsFollowRow
  <2>4. CASE \E s \in Sessions : Claim(r, s)
    BY <2>1, <2>2, <2>4 DEF DirtyRow, Completed
  <2>5. CASE Fail(r) /\ Fresh(r)
    BY <1>1, <2>1, <2>3, <2>5 DEF DirtyRow, Completed
  <2>6. CASE UNCHANGED dirty
    BY <2>6
  <2> QED
    BY <2>4, <2>5, <2>6 DEF ReadScope, ReadEvents, ReadEnrichments, ReadFindings, Read, Discard,
                            Fail, projectionVars
<1>7. EventsFirst'
  BY <1>1, <1>3, <1>4, <1>5, <1>6 DEF FindingsInv, EventsFirst
<1>8. \A s \in Sessions : Covered(s) => Covered(s)'
  BY <1>2, <1>3, <1>4, CoveredKept
<1>9. \A s \in Sessions : FindsAccounted(s)'
  BY <1>3, <1>4, <1>5, <1>6, <1>8, KeptAccounted DEF FindingsInv
<1> QED
  BY <1>7, <1>9 DEF FindingsInv

(* A publication has the findings of its claim, and ends the only claim of *)
(* the session that could be published.                                    *)
LEMMA PublishFindings ==
    ASSUME TypeOK, ClaimsInv, FindingsInv, NEW r \in Reconcilers, PublishAny(r)
    PROVE  FindingsInv'
<1> DEFINE s == worker[r].session
<1>1. PICK status \in Completed, cites \in SUBSET worker[r].input.events :
         Publish(r, status, cites)
  BY DEF PublishAny
<1>2. /\ worker \in [Reconcilers -> Worker] /\ s \in Sessions
      /\ dirty \in [Sessions -> DirtyRow] /\ todo \in [Reconcilers -> SUBSET Sessions]
  BY DEF TypeOK, Worker, DirtyRow
<1>3. /\ worker[r].phase = "ready" /\ worker[r].phase \in Busy /\ Fresh(r)
      /\ UNCHANGED <<events, finds, unmarked, todo>>
  BY <1>1 DEF Publish, Busy, inputVars
<1>4. /\ worker'[r].phase = "idle"
      /\ \A x \in Reconcilers \ {r} : worker'[x] = worker[x]
  BY <1>1, <1>2, NextClaimRests DEF Publish
<1>5. /\ dirty'[s].target = dirty[s].target /\ dirty'[s].state = status
      /\ \A x \in Sessions \ {s} : dirty'[x] = dirty[x]
  BY <1>1, <1>2 DEF Publish, DirtyRow
<1>6. /\ published'[s] = worker[r].input
      /\ \A x \in Sessions \ {s} : published'[x] = published[x]
  BY <1>1, <1>2 DEF Publish, TypeOK
<1>7. \A x \in Sessions : Covered(x) => Covered(x)'
  BY <1>3, <1>4, CoveredKept
<1>8. dirty[s].state = "claimed" /\ events[s] # {}
  BY <1>2, <1>3 DEF ClaimsInv, ClaimsFollowRow, FindingsInv, EventsFirst
<1>9. EventsFirst'
  BY <1>3, <1>4, <1>5, <1>8 DEF FindingsInv, EventsFirst
<1>10. ASSUME NEW x \in Sessions \ {s}
       PROVE  FindsAccounted(x)'
  <2>1. FindsAccounted(x) /\ EventsFirst
    BY DEF FindingsInv
  <2> QED
    BY <1>3, <1>4, <1>5, <1>6, <1>7, <2>1, KeptAccounted
<1>11. ASSUME NEW x \in Sessions, x = s
       PROVE  FindsAccounted(x)'
  <2>1. worker[r].input.finds = finds[x] \/ Covered(x)
    BY <1>3, <1>11 DEF FindingsInv, FindsAccounted
  <2>2. published'[x].finds = finds'[x] \/ Covered(x)'
    BY <1>3, <1>6, <1>7, <1>11, <2>1
  <2>3. ASSUME NEW y \in Reconcilers, worker'[y].phase = "ready", worker'[y].session = x
        PROVE  ~Fresh(y)'
    <3>1. y # r /\ worker'[y] = worker[y] /\ worker[y].phase \in Busy
      BY <1>4, <2>3 DEF Busy
    <3>2. ~Fresh(y)
      BY <1>3, <1>11, <2>3, <3>1 DEF ClaimsInv, AtMostOneFreshClaim
    <3> QED
      BY <1>5, <1>11, <2>3, <3>1, <3>2 DEF Fresh
  <2> QED
    BY <2>2, <2>3 DEF FindsAccounted
<1> QED
  BY <1>2, <1>9, <1>10, <1>11 DEF FindingsInv

(* Storage errors and crashes: what a process of the importer owed when it *)
(* died is ahead of its Startup.                                           *)
LEMMA FaultFindings ==
    ASSUME ImporterRecovers, TypeOK, ClaimsInv, FindingsInv,
           \/ \E r \in Reconcilers : Abandon(r) \/ Restart(r)
           \/ \E s \in Sessions : RetryDue(s)
           \/ \E p \in Processes : Crash(p)
    PROVE  FindingsInv'
<1>1. /\ worker \in [Reconcilers -> Worker] /\ todo \in [Reconcilers -> SUBSET Sessions]
      /\ Starters \subseteq Reconcilers
  BY ConstantsAssumption DEF TypeOK
<1>2. UNCHANGED <<events, finds, published>>
  BY DEF Abandon, Restart, RetryDue, Crash, inputVars
<1>3. \A s \in Sessions : /\ dirty'[s].target = dirty[s].target
                           /\ dirty'[s].state = dirty[s].state
  BY DEF Abandon, Restart, RetryDue, Crash, projectionVars, TypeOK
<1>4. \A r \in Reconcilers : worker'[r].phase = "ready" => worker'[r] = worker[r]
  <2>1. \A r \in Reconcilers : worker'[r] \in {worker[r], Idle, Down, Marking}
    BY <1>1 DEF Abandon, Restart, RetryDue, Crash
  <2>2. \A w \in {Idle, Down, Marking} : w.phase # "ready"
    BY RestingPhases DEF Busy
  <2> QED
    BY <2>1, <2>2
<1>5. Marking.phase = "marking" /\ Down.phase = "down" /\ Idle.phase = "idle"
  BY DEF Marking, StartupDrain, Down, Idle
<1>6. ASSUME EventsFirst', \A s \in Sessions : Covered(s) => Covered(s)'
      PROVE  FindingsInv'
  BY <1>2, <1>3, <1>4, <1>6, KeptAccounted DEF FindingsInv
<1>7. ASSUME NEW r \in Reconcilers, Abandon(r) \/ Restart(r)
      PROVE  FindingsInv'
  <2>1. /\ unmarked' = unmarked
        /\ \A x \in Reconcilers \ {r} : worker'[x] = worker[x] /\ todo'[x] = todo[x]
        /\ worker'[r].phase \in {"marking", "idle"}
        /\ todo'[r] \subseteq todo[r]
    BY <1>1, <1>5, <1>7 DEF Abandon, Restart
  <2>2. EventsFirst'
    BY <1>2, <1>3, <2>1 DEF FindingsInv, EventsFirst
  <2>3. ASSUME NEW s \in Sessions, Ahead(r, s)
        PROVE  Ahead(r, s)'
    <3>1. CASE Abandon(r)
      <4>1. worker[r].starting
        BY <2>3, <3>1 DEF Abandon, Ahead, Busy
      <4>2. worker'[r].phase = "marking" /\ todo'[r] = {}
        BY <1>1, <1>5, <3>1, <4>1 DEF Abandon
      <4> QED
        BY <2>3, <4>2 DEF Ahead
    <3>2. CASE Restart(r)
      <4>1. worker[r].phase = "down" /\ todo'[r] = todo[r] /\ todo[r] = {}
        BY <3>2 DEF Restart, FindingsInv, EventsFirst
      <4>2. r \in Starters
        BY <2>3 DEF Ahead
      <4>3. worker'[r].phase = "marking"
        BY <1>1, <1>5, <3>2, <4>2 DEF Restart
      <4> QED
        BY <2>3, <4>1, <4>3 DEF Ahead
    <3> QED
      BY <1>7, <3>1, <3>2
  <2>4. \A s \in Sessions : Covered(s) => Covered(s)'
    BY <2>1, <2>3 DEF Covered, Ahead
  <2> QED
    BY <1>6, <2>2, <2>4
<1>8. ASSUME NEW s \in Sessions, RetryDue(s)
      PROVE  FindingsInv'
  <2>1. UNCHANGED <<worker, todo, unmarked>>
    BY <1>8 DEF RetryDue
  <2>2. EventsFirst'
    BY <1>2, <1>3, <2>1 DEF FindingsInv, EventsFirst
  <2>3. \A x \in Sessions : Covered(x) => Covered(x)'
    BY <2>1 DEF Covered, Ahead
  <2> QED
    BY <1>6, <2>2, <2>3
<1>9. ASSUME NEW p \in Processes, Crash(p)
      PROVE  FindingsInv'
  <2>1. /\ \A r \in Reconcilers : ProcessOf[r] = p => worker'[r] = Down /\ todo'[r] = {}
        /\ \A r \in Reconcilers : ProcessOf[r] # p => worker'[r] = worker[r] /\ todo'[r] = todo[r]
        /\ unmarked' = IF p = Importer THEN {} ELSE unmarked
    BY <1>9 DEF Crash
  <2>2. EventsFirst'
    BY <1>1, <1>2, <1>3, <2>1 DEF FindingsInv, EventsFirst
  <2>3. ASSUME NEW s \in Sessions, Covered(s)
        PROVE  Covered(s)'
    <3>1. CASE p = Importer
      <4>1. PICK r \in Starters : ProcessOf[r] = Importer
        BY DEF ImporterRecovers
      <4>2. r \in Reconcilers /\ worker'[r].phase = "down"
        BY <1>1, <1>5, <2>1, <3>1, <4>1
      <4> QED
        BY <4>1, <4>2 DEF Covered, Ahead
    <3>2. CASE p # Importer
      BY <2>1, <2>3, <3>2 DEF Covered, Ahead
    <3> QED
      BY <3>1, <3>2
  <2> QED
    BY <1>6, <2>2, <2>3
<1> QED
  BY <1>7, <1>8, <1>9

(* Every step keeps findings accounted for.                                *)
LEMMA StepFindings ==
    ASSUME ImporterRecovers, ProjectionInv, FindingsInv, [Next]_vars
    PROVE  FindingsInv'
<1>1. TypeOK /\ RevisionsOrdered /\ ClaimsInv
  BY DEF ProjectionInv, ClaimsInv
<1>2. CASE \E s \in Sessions : Import(s)
  BY <1>1, <1>2, ImportFindings
<1>3. ASSUME NEW r \in Reconcilers, Reconcile(r)
      PROVE  FindingsInv'
  <2>1. CASE StartupSnapshot(r) \/ (\E s \in Sessions : StartupMark(r, s)) \/ StartupEnds(r)
    BY <1>1, <2>1, StartupFindings
  <2>2. CASE PublishAny(r)
    BY <1>1, <2>2, PublishFindings
  <2>3. CASE \/ \E s \in Sessions : Claim(r, s)
             \/ ReadScope(r) \/ ReadEvents(r) \/ ReadEnrichments(r) \/ ReadFindings(r)
             \/ Discard(r)
    BY <1>1, <2>3, DrainFindings
  <2> QED
    BY <1>3, <2>1, <2>2, <2>3 DEF Reconcile
<1>4. CASE \E r \in Reconcilers : Fail(r)
  BY <1>1, <1>4, DrainFindings
<1>5. CASE \/ \E r \in Reconcilers : Abandon(r) \/ Restart(r)
           \/ \E s \in Sessions : RetryDue(s)
           \/ \E p \in Processes : Crash(p)
  BY <1>1, <1>5, FaultFindings
<1>6. CASE UNCHANGED vars
  BY <1>6 DEF vars, FindingsInv, EventsFirst, FindsAccounted, Covered, Ahead, Fresh
<1> QED
  BY <1>2, <1>3, <1>4, <1>5, <1>6 DEF Next

(* When the importer's process runs the recovery loop, every finding that  *)
(* the last completed analysis of its session did not see is owed a mark.  *)
THEOREM FindingsSafe == ASSUME ImporterRecovers PROVE Spec => []FindingsInv
<1>1. Init => FindingsInv
  BY DEF Init, FindingsInv, EventsFirst, FindsAccounted, NoRow, Completed, Idle, Marking,
         StartupDrain
<1>2. ProjectionInv /\ FindingsInv /\ [Next]_vars => FindingsInv'
  BY StepFindings
<1> QED
  BY <1>1, <1>2, ProjectionSafe, PTL DEF Spec

(* The gap between RecordFindingResolved and MarkSessionDirty loses no     *)
(* finding: who has still to mark the session is there, or comes back.     *)
THEOREM FindingsOwed == ASSUME ImporterRecovers PROVE Spec => []FindingsCovered
<1>1. FindingsInv => FindingsCovered
  BY DEF FindingsInv, FindsAccounted, Covered, Ahead, FindingsCovered
<1> QED
  BY <1>1, FindingsSafe, PTL

-----------------------------------------------------------------------------
(* What readers of a generation see.                                       *)

(* The revisions of a session follow each other: one is closed when the    *)
(* next opens, or before.                                                  *)
RevisionsDisjoint ==
    /\ \A q \in revs : q.from <= gen
    /\ \A p, q \in revs : p.session = q.session /\ p.from < q.from =>
          ~IsOpen(p) /\ p.until <= q.from

(* An occurrence is of a completed revision, and closed when the next      *)
(* completed one opens.                                                    *)
PublishedBy(o, q) == q.session = o.session /\ q.from = o.from /\ q.status \in Completed
OccurrencesReplaced ==
    \A o \in occs :
        /\ o.until <= gen
        /\ \E q \in revs : PublishedBy(o, q)
        /\ \A q \in revs : q.session = o.session /\ q.status \in Completed /\ o.from < q.from =>
              ~IsOpen(o) /\ o.until <= q.from

HistoryInv == RevisionsDisjoint /\ OccurrencesReplaced /\ JobPerCompletedRevision

(* What closing a table's open rows of a session keeps and changes.        *)
LEMMA ClosedRevision ==
    ASSUME NEW rows, rows \subseteq Revision, NEW s, NEW g \in Nat \ {0}
    PROVE  /\ \A q \in Close(rows, s, g) : \E a \in rows :
                 /\ q.session = a.session /\ q.from = a.from
                 /\ q.status = a.status /\ q.target = a.target
                 /\ IF a.session = s /\ IsOpen(a) THEN q.until = g ELSE q = a
           /\ \A a \in rows : \E q \in Close(rows, s, g) :
                 /\ q.session = a.session /\ q.from = a.from
                 /\ q.status = a.status /\ q.target = a.target
                 /\ IF a.session = s /\ IsOpen(a) THEN q.until = g ELSE q = a
<1> DEFINE closed(a) == IF a.session = s /\ IsOpen(a) THEN [a EXCEPT !.until = g] ELSE a
<1>1. \A a \in rows :
         /\ closed(a).session = a.session /\ closed(a).from = a.from
         /\ closed(a).status = a.status /\ closed(a).target = a.target
         /\ IF a.session = s /\ IsOpen(a) THEN closed(a).until = g ELSE closed(a) = a
  BY DEF Revision
<1>2. Close(rows, s, g) = {closed(a) : a \in rows}
  BY DEF Close
<1> HIDE DEF closed
<1> QED
  BY <1>1, <1>2

LEMMA ClosedOccurrence ==
    ASSUME NEW rows, rows \subseteq Occurrence, NEW s, NEW g \in Nat \ {0}
    PROVE  /\ \A q \in Close(rows, s, g) : \E a \in rows :
                 /\ q.session = a.session /\ q.from = a.from /\ q.cites = a.cites
                 /\ IF a.session = s /\ IsOpen(a) THEN q.until = g ELSE q = a
           /\ \A a \in rows : \E q \in Close(rows, s, g) :
                 /\ q.session = a.session /\ q.from = a.from /\ q.cites = a.cites
                 /\ IF a.session = s /\ IsOpen(a) THEN q.until = g ELSE q = a
<1> DEFINE closed(a) == IF a.session = s /\ IsOpen(a) THEN [a EXCEPT !.until = g] ELSE a
<1>1. \A a \in rows :
         /\ closed(a).session = a.session /\ closed(a).from = a.from
         /\ closed(a).cites = a.cites
         /\ IF a.session = s /\ IsOpen(a) THEN closed(a).until = g ELSE closed(a) = a
  BY DEF Occurrence
<1>2. Close(rows, s, g) = {closed(a) : a \in rows}
  BY DEF Close
<1> HIDE DEF closed
<1> QED
  BY <1>1, <1>2

(* Every transaction that opens a revision: of a mark, a failure or a      *)
(* publication.                                                            *)
Opens(s, status, target, analyzed) ==
    /\ gen' = gen + 1
    /\ revs' = Close(revs, s, gen + 1) \cup {NewRevision(s, status, target, analyzed, gen + 1)}

(* The new revision is the last of its session, and the earlier ones keep  *)
(* their place and status.                                                 *)
LEMMA OpenedRevision ==
    ASSUME TypeOK, RevisionsOrdered, NEW s, NEW status, NEW target, NEW analyzed,
           Opens(s, status, target, analyzed)
    PROVE  \E row :
              /\ row.session = s /\ row.from = gen + 1 /\ IsOpen(row)
              /\ row.status = status /\ row.target = target
              /\ row \in revs'
              /\ \A q \in revs' : q = row \/ \E a \in revs :
                    /\ q.session = a.session /\ q.from = a.from
                    /\ q.status = a.status /\ q.target = a.target
                    /\ IF a.session = s /\ IsOpen(a) THEN q.until = gen + 1 ELSE q = a
              /\ \A a \in revs : \E q \in revs' :
                    /\ q.session = a.session /\ q.from = a.from
                    /\ q.status = a.status /\ q.target = a.target
                    /\ IF a.session = s /\ IsOpen(a) THEN q.until = gen + 1 ELSE q = a
<1> DEFINE row == NewRevision(s, status, target, analyzed, gen + 1)
<1>1. revs \subseteq Revision /\ gen + 1 \in Nat \ {0}
  BY DEF TypeOK
<1>2. /\ row.session = s /\ row.from = gen + 1 /\ IsOpen(row)
      /\ row.status = status /\ row.target = target
  BY DEF NewRevision, IsOpen
<1>3. revs' = Close(revs, s, gen + 1) \cup {row}
  BY DEF Opens
<1> HIDE DEF row
<1> QED
  BY <1>1, <1>2, <1>3, ClosedRevision

(* Revisions stay disjoint.                                                *)
LEMMA OpensDisjoint ==
    ASSUME TypeOK, RevisionsOrdered, RevisionsDisjoint, NEW s, NEW status, NEW target,
           NEW analyzed, Opens(s, status, target, analyzed)
    PROVE  RevisionsDisjoint'
<1>1. gen \in Nat /\ gen' = gen + 1 /\ revs \subseteq Revision
  BY DEF TypeOK, Opens
<1>2. \A a \in revs : a.from \in Nat /\ a.until \in Nat /\ a.from <= gen /\ a.until <= gen
  BY <1>1 DEF Revision, RevisionsDisjoint, RevisionsOrdered
<1>3. PICK row :
         /\ row.session = s /\ row.from = gen + 1 /\ IsOpen(row)
         /\ \A q \in revs' : q = row \/ \E a \in revs :
               /\ q.session = a.session /\ q.from = a.from /\ q.status = a.status
               /\ IF a.session = s /\ IsOpen(a) THEN q.until = gen + 1 ELSE q = a
  BY OpenedRevision
<1>4. \A q \in revs' : q.from <= gen'
  BY <1>1, <1>2, <1>3
<1>5. ASSUME NEW p \in revs', NEW q \in revs', p.session = q.session, p.from < q.from
      PROVE  ~IsOpen(p) /\ p.until <= q.from
  <2>1. p # row
    BY <1>1, <1>2, <1>3, <1>5
  <2>2. PICK a \in revs :
           /\ p.session = a.session /\ p.from = a.from
           /\ IF a.session = s /\ IsOpen(a) THEN p.until = gen + 1 ELSE p = a
    BY <1>3, <2>1
  <2>3. CASE q = row
    <3>1. CASE IsOpen(a)
      <4>1. a.session = s
        BY <1>3, <1>5, <2>2, <2>3
      <4>2. p.until = gen + 1
        BY <2>2, <3>1, <4>1
      <4>3. q.from = gen + 1
        BY <1>3, <2>3
      <4> QED
        BY <1>1, <4>2, <4>3 DEF IsOpen, Open
    <3>2. CASE ~IsOpen(a)
      BY <1>1, <1>2, <1>3, <2>2, <2>3, <3>2
    <3> QED
      BY <3>1, <3>2
  <2>4. CASE q # row
    <3>1. PICK b \in revs : q.session = b.session /\ q.from = b.from
      BY <1>3, <2>4
    <3>2. ~IsOpen(a) /\ a.until <= b.from
      BY <1>5, <2>2, <3>1 DEF RevisionsDisjoint
    <3> QED
      BY <2>2, <3>1, <3>2
  <2> QED
    BY <2>3, <2>4
<1> QED
  BY <1>4, <1>5 DEF RevisionsDisjoint

(* A revision that is not completed changes no evidence and no job.        *)
LEMMA OpensIncomplete ==
    ASSUME TypeOK, RevisionsOrdered, HistoryInv, NEW s, NEW status, NEW target, NEW analyzed,
           Opens(s, status, target, analyzed), status \notin Completed,
           UNCHANGED <<occs, jobs>>
    PROVE  HistoryInv'
<1>1. gen \in Nat /\ gen' = gen + 1 /\ occs \subseteq Occurrence
  BY DEF TypeOK, Opens
<1>2. PICK row :
         /\ row.status = status
         /\ \A q \in revs' : q = row \/ \E a \in revs :
               q.session = a.session /\ q.from = a.from /\ q.status = a.status
         /\ \A a \in revs : \E q \in revs' :
               q.session = a.session /\ q.from = a.from /\ q.status = a.status
  BY OpenedRevision
<1>3. RevisionsDisjoint'
  BY OpensDisjoint DEF HistoryInv
<1>4. OccurrencesReplaced'
  <2> SUFFICES ASSUME NEW o \in occs
               PROVE  /\ o.until <= gen'
                      /\ \E q \in revs' : PublishedBy(o, q)
                      /\ \A q \in revs' : q.session = o.session /\ q.status \in Completed
                                            /\ o.from < q.from =>
                            ~IsOpen(o) /\ o.until <= q.from
    BY DEF OccurrencesReplaced
  <2>1. /\ o.until <= gen
        /\ \E q \in revs : PublishedBy(o, q)
        /\ \A q \in revs : q.session = o.session /\ q.status \in Completed /\ o.from < q.from =>
              ~IsOpen(o) /\ o.until <= q.from
    BY DEF HistoryInv, OccurrencesReplaced
  <2>2. o.until <= gen'
    BY <1>1, <2>1 DEF Occurrence
  <2>3. \E q \in revs' : PublishedBy(o, q)
    BY <1>2, <2>1 DEF PublishedBy
  <2>4. ASSUME NEW q \in revs', q.session = o.session, q.status \in Completed, o.from < q.from
        PROVE  ~IsOpen(o) /\ o.until <= q.from
    <3>1. PICK a \in revs : q.session = a.session /\ q.from = a.from /\ q.status = a.status
      BY <1>2, <2>4
    <3> QED
      BY <2>1, <2>4, <3>1
  <2> QED
    BY <2>2, <2>3, <2>4
<1>5. JobPerCompletedRevision'
  <2>1. {[session |-> q.session, from |-> q.from] : q \in {p \in revs' : p.status \in Completed}} =
        {[session |-> q.session, from |-> q.from] : q \in {p \in revs : p.status \in Completed}}
    BY <1>2
  <2> QED
    BY <2>1 DEF HistoryInv, JobPerCompletedRevision
<1> QED
  BY <1>3, <1>4, <1>5 DEF HistoryInv

(* A publication replaces the evidence of its session and adds its job.    *)
LEMMA PublishHistory ==
    ASSUME TypeOK, RevisionsOrdered, HistoryInv, NEW r \in Reconcilers, PublishAny(r)
    PROVE  HistoryInv'
<1> DEFINE s == worker[r].session
           g == gen + 1
<1>1. PICK status \in Completed, cites \in SUBSET worker[r].input.events :
         Publish(r, status, cites)
  BY DEF PublishAny
<1>2. gen \in Nat /\ gen' = g /\ occs \subseteq Occurrence /\ g \in Nat \ {0}
  BY <1>1 DEF TypeOK, Publish
<1>3. Opens(s, status, worker[r].target, worker[r].target)
  BY <1>1 DEF Publish, Opens
<1>4. PICK row :
         /\ row.session = s /\ row.status = status /\ row.from = g
         /\ row \in revs'
         /\ \A q \in revs' : q = row \/ \E a \in revs :
               q.session = a.session /\ q.from = a.from /\ q.status = a.status
         /\ \A a \in revs : \E q \in revs' :
               q.session = a.session /\ q.from = a.from /\ q.status = a.status
  <2> HIDE DEF s
  <2> QED
    BY <1>3, OpenedRevision
<1>5. RevisionsDisjoint'
  <2> HIDE DEF s
  <2> QED
    BY <1>3, OpensDisjoint DEF HistoryInv
<1>6. PICK found :
         /\ found.session = s /\ found.from = g /\ IsOpen(found)
         /\ \A o \in occs' : o = found \/ o \in Close(occs, s, g)
  <2>1. occs' \subseteq Close(occs, s, g) \cup
           {[session |-> s, cites |-> cites, from |-> g, until |-> Open]}
    BY <1>1 DEF Publish
  <2>2. IsOpen([session |-> s, cites |-> cites, from |-> g, until |-> Open])
    BY DEF IsOpen
  <2> QED
    BY <2>1, <2>2
<1>7. PICK job : /\ job.session = s /\ job.from = g
                 /\ jobs' = jobs \cup {job}
  <2> DEFINE queued == IF FixesRecorded THEN "pending" ELSE "complete"
  <2>1. jobs' = jobs \cup {[session |-> s, from |-> g, state |-> queued]}
    BY <1>1 DEF Publish
  <2> HIDE DEF queued
  <2> QED
    BY <2>1
<1> HIDE DEF s, g
<1>8. OccurrencesReplaced'
  <2> SUFFICES ASSUME NEW o \in occs'
               PROVE  /\ o.until <= g
                      /\ \E q \in revs' : PublishedBy(o, q)
                      /\ \A q \in revs' : q.session = o.session /\ q.status \in Completed
                                            /\ o.from < q.from =>
                            ~IsOpen(o) /\ o.until <= q.from
    BY <1>2 DEF OccurrencesReplaced
  <2>1. \A q \in revs : q.from <= gen /\ q.from \in Nat
    BY DEF HistoryInv, RevisionsDisjoint, TypeOK, Revision
  <2>2. CASE o = found
    <3>1. o.until <= g /\ PublishedBy(o, row)
      BY <1>2, <1>4, <1>6, <2>2 DEF IsOpen, Open, PublishedBy
    <3>2. \A q \in revs' : q.from <= g
      BY <1>2, <1>4, <2>1 DEF g
    <3>3. \A q \in revs' : ~(o.from < q.from)
      <4>1. \A q \in revs' : q.from \in Nat
        BY <1>2, <1>4, <2>1
      <4> QED
        BY <1>2, <1>6, <2>2, <3>2, <4>1
    <3> QED
      BY <1>4, <3>1, <3>3
  <2>3. CASE o \in Close(occs, s, g)
    <3>1. PICK a \in occs :
             /\ o.session = a.session /\ o.from = a.from
             /\ IF a.session = s /\ IsOpen(a) THEN o.until = g ELSE o = a
      BY <1>2, <2>3, ClosedOccurrence
    <3>2. /\ a.until <= gen /\ a.until \in Nat
          /\ \E q \in revs : PublishedBy(a, q)
          /\ \A q \in revs : q.session = a.session /\ q.status \in Completed /\ a.from < q.from =>
                ~IsOpen(a) /\ a.until <= q.from
      BY <1>2 DEF HistoryInv, OccurrencesReplaced, Occurrence
    <3>3. o.until <= g
      BY <1>2, <3>1, <3>2 DEF g
    <3>4. \E q \in revs' : PublishedBy(o, q)
      BY <1>4, <3>1, <3>2 DEF PublishedBy
    <3>5. ASSUME NEW q \in revs', q.session = o.session, q.status \in Completed, o.from < q.from
          PROVE  ~IsOpen(o) /\ o.until <= q.from
      <4>1. CASE q = row
        <5>1. o.until <= q.from
          BY <1>4, <3>3, <4>1
        <5>2. ~IsOpen(o)
          BY <1>2, <1>4, <3>1, <3>5, <4>1 DEF IsOpen, Open
        <5> QED
          BY <5>1, <5>2
      <4>2. CASE q # row
        <5>1. PICK b \in revs : q.session = b.session /\ q.from = b.from /\ q.status = b.status
          BY <1>4, <4>2
        <5> QED
          BY <3>1, <3>2, <3>5, <5>1
      <4> QED
        BY <4>1, <4>2
    <3> QED
      BY <3>3, <3>4, <3>5
  <2> QED
    BY <1>6, <2>2, <2>3
<1>9. JobPerCompletedRevision'
  <2>1. {[session |-> q.session, from |-> q.from] : q \in {p \in revs' : p.status \in Completed}} =
        {[session |-> q.session, from |-> q.from] : q \in {p \in revs : p.status \in Completed}}
           \cup {[session |-> s, from |-> g]}
    BY <1>1, <1>4
  <2>2. {[session |-> j.session, from |-> j.from] : j \in jobs'} =
        {[session |-> j.session, from |-> j.from] : j \in jobs} \cup {[session |-> s, from |-> g]}
    BY <1>7
  <2> QED
    BY <2>1, <2>2 DEF HistoryInv, JobPerCompletedRevision
<1> QED
  BY <1>5, <1>8, <1>9 DEF HistoryInv

(* Every step of SessionProjection opens a revision, publishes, or leaves  *)
(* the versioned tables alone.                                             *)
LEMMA StepShapes ==
    ASSUME [Next]_vars
    PROVE  \/ UNCHANGED <<gen, revs, occs, jobs>>
           \/ /\ \E s, status, target, analyzed :
                    Opens(s, status, target, analyzed) /\ status \notin Completed
              /\ UNCHANGED <<occs, jobs>>
           \/ \E r \in Reconcilers : PublishAny(r)
<1>1. ASSUME NEW s \in Sessions, MarkDirty(s)
      PROVE  /\ \E x, status, target, analyzed :
                   Opens(x, status, target, analyzed) /\ status \notin Completed
             /\ UNCHANGED <<occs, jobs>>
  BY <1>1 DEF MarkDirty, Opens, Completed
<1>2. CASE \E s \in Sessions : Import(s)
  BY <1>1, <1>2 DEF Import, AppendEvent, UpsertSessionScope, UpsertEventEnrichment,
                    RecordFinding, MarkFinding, projectionVars
<1>3. CASE \E r \in Reconcilers, s \in Sessions : StartupMark(r, s)
  BY <1>1, <1>3 DEF StartupMark
<1>4. CASE \E r \in Reconcilers :
              \/ StartupSnapshot(r) \/ StartupEnds(r) \/ \E s \in Sessions : Claim(r, s)
              \/ ReadScope(r) \/ ReadEvents(r) \/ ReadEnrichments(r) \/ ReadFindings(r)
              \/ Discard(r)
  BY <1>4 DEF StartupSnapshot, StartupEnds, Claim, ReadScope, ReadEvents, ReadEnrichments,
              ReadFindings, Read, Discard, projectionVars
<1>5. ASSUME NEW r \in Reconcilers, Fail(r)
      PROVE  \/ UNCHANGED <<gen, revs, occs, jobs>>
             \/ /\ \E s, status, target, analyzed :
                    Opens(s, status, target, analyzed) /\ status \notin Completed
                /\ UNCHANGED <<occs, jobs>>
  BY <1>5 DEF Fail, Opens, Completed
<1>6. CASE \/ \E r \in Reconcilers : Abandon(r) \/ Restart(r)
           \/ \E s \in Sessions : RetryDue(s)
           \/ \E p \in Processes : Crash(p)
           \/ UNCHANGED vars
  BY <1>6 DEF Abandon, Restart, RetryDue, Crash, projectionVars, vars
<1> QED
  BY <1>2, <1>3, <1>4, <1>5, <1>6 DEF Next, Reconcile

(* Every step keeps the history.                                           *)
LEMMA StepHistory ==
    ASSUME TypeOK, RevisionsOrdered, HistoryInv, [Next]_vars
    PROVE  HistoryInv'
<1>1. CASE UNCHANGED <<gen, revs, occs, jobs>>
  BY <1>1 DEF HistoryInv, RevisionsDisjoint, OccurrencesReplaced, JobPerCompletedRevision
<1>2. CASE /\ \E s, status, target, analyzed :
                 Opens(s, status, target, analyzed) /\ status \notin Completed
           /\ UNCHANGED <<occs, jobs>>
  BY <1>2, OpensIncomplete
<1>3. CASE \E r \in Reconcilers : PublishAny(r)
  BY <1>3, PublishHistory
<1> QED
  BY <1>1, <1>2, <1>3, StepShapes

(* Revisions follow each other, completed ones replace the evidence before *)
(* them, and each has its job.                                             *)
THEOREM HistorySafe == Spec => []HistoryInv
<1>1. Init => HistoryInv
  BY DEF Init, HistoryInv, RevisionsDisjoint, OccurrencesReplaced, JobPerCompletedRevision
<1>2. ProjectionInv /\ HistoryInv /\ [Next]_vars => HistoryInv'
  BY StepHistory DEF ProjectionInv
<1> QED
  BY <1>1, <1>2, ProjectionSafe, PTL DEF Spec

(* A cursor of any generation reads one revision of a session at most, and *)
(* the evidence of the session's last completed analysis: a failure keeps  *)
(* it, the next publication replaces all of it.                            *)
THEOREM EvidenceFollows == Spec => []OccurrencesFollowAnalysis
<1>1. ASSUME TypeOK, HistoryInv
      PROVE  OccurrencesFollowAnalysis
  <2> SUFFICES ASSUME NEW g \in 1..gen
               PROVE  /\ \A q1, q2 \in VisibleAt(revs, g) : q1.session = q2.session => q1 = q2
                      /\ \A o \in VisibleAt(occs, g) : \E q \in revs :
                            /\ q.session = o.session /\ q.from = o.from /\ q.status \in Completed
                            /\ \A p \in revs : p.session = o.session /\ p.status \in Completed
                                                 /\ p.from <= g => p.from <= q.from
    BY DEF OccurrencesFollowAnalysis
  <2>1. /\ g \in Nat /\ gen \in Nat
        /\ \A q \in revs : q.from \in Nat /\ q.until \in Nat
        /\ \A o \in occs : o.from \in Nat /\ o.until \in Nat
    BY <1>1 DEF TypeOK, Revision, Occurrence
  <2>2. ASSUME NEW q1 \in VisibleAt(revs, g), NEW q2 \in VisibleAt(revs, g),
               q1.session = q2.session
        PROVE  q1 = q2
    <3>1. PICK a \in revs : /\ q1 = [session |-> a.session, from |-> a.from]
                            /\ a.from <= g /\ (IsOpen(a) \/ a.until > g)
      BY DEF VisibleAt
    <3>2. PICK b \in revs : /\ q2 = [session |-> b.session, from |-> b.from]
                            /\ b.from <= g /\ (IsOpen(b) \/ b.until > g)
      BY DEF VisibleAt
    <3>3. a.session = b.session
      BY <2>2, <3>1, <3>2
    <3>4. ~(a.from < b.from) /\ ~(b.from < a.from)
      BY <1>1, <2>1, <3>1, <3>2, <3>3 DEF HistoryInv, RevisionsDisjoint
    <3>5. a.from = b.from
      BY <2>1, <3>4
    <3> QED
      BY <3>1, <3>2, <3>3, <3>5
  <2>3. ASSUME NEW v \in VisibleAt(occs, g)
        PROVE  \E q \in revs :
                  /\ q.session = v.session /\ q.from = v.from /\ q.status \in Completed
                  /\ \A p \in revs : p.session = v.session /\ p.status \in Completed
                                       /\ p.from <= g => p.from <= q.from
    <3>1. PICK o \in occs : /\ v = [session |-> o.session, from |-> o.from]
                            /\ o.from <= g /\ (IsOpen(o) \/ o.until > g)
      BY DEF VisibleAt
    <3>2. v.session = o.session /\ v.from = o.from
      BY <3>1
    <3>3. PICK q \in revs : PublishedBy(o, q)
      BY <1>1 DEF HistoryInv, OccurrencesReplaced
    <3>4. ASSUME NEW p \in revs, p.session = o.session, p.status \in Completed, p.from <= g
          PROVE  p.from <= q.from
      <4>1. o.from < p.from => ~IsOpen(o) /\ o.until <= p.from
        BY <1>1, <3>4 DEF HistoryInv, OccurrencesReplaced
      <4>2. ~(o.from < p.from)
        BY <2>1, <3>1, <3>4, <4>1
      <4> QED
        BY <2>1, <3>3, <4>2 DEF PublishedBy
    <3> QED
      BY <3>2, <3>3, <3>4 DEF PublishedBy
  <2> QED
    BY <2>2, <2>3
<1>2. ProjectionInv => TypeOK
  BY DEF ProjectionInv
<1> QED
  BY <1>1, <1>2, ProjectionSafe, HistorySafe, PTL

(* Each completed analysis, and nothing else, has its recurrence job.      *)
THEOREM JobForEachCompleted == Spec => []JobPerCompletedRevision
<1>1. HistoryInv => JobPerCompletedRevision
  BY DEF HistoryInv
<1> QED
  BY <1>1, HistorySafe, PTL

-----------------------------------------------------------------------------
(* Retention: what the steps of SessionProjection keep.                    *)

(* A row exists exactly when it has a target.                              *)
RowTargets == \A s \in Sessions : dirty[s].state = "none" <=> dirty[s].target = 0

(* RetainedRevisionAgrees, without what RevisionsOrdered says of it.       *)
RowShown ==
    \A s \in Sessions :
        IF dirty[s].state = "none" THEN events[s] = {}
        ELSE \E q \in revs : /\ q.session = s /\ IsOpen(q) /\ q.target = dirty[s].target
                             /\ q.status \in ShownStatus[dirty[s].state]

(* A pending job has the revision that the pinned column joins.            *)
PendingHasRevision ==
    \A j \in jobs : j.state = "pending" =>
        \E q \in revs : q.session = j.session /\ q.from = j.from

(* What a prune, unlike every other step, does not keep is that a target   *)
(* of a session is never used again; that is not needed here.              *)
RetentionInv ==
    /\ TypeOK
    /\ RevisionsOrdered
    /\ ClaimedTargets
    /\ RowTargets
    /\ oldest \in Nat /\ prunes \in Nat
    /\ CitationsResolve
    /\ RowShown
    /\ PendingHasRevision

(* The evidence of the pending jobs is kept, in one step.                  *)
EvidenceKept ==
    \A j \in jobs : j.state = "pending" =>
        /\ \A o \in occs : o.session = j.session /\ o.from = j.from =>
              \E p \in occs' : p.session = j.session /\ p.from = j.from /\ p.cites = o.cites
        /\ \E q \in revs' : q.session = j.session /\ q.from = j.from

(* What a cursor taken at g reads is the same after a step.                *)
SnapshotKept(g) ==
    /\ VisibleAt(revs, g)' = VisibleAt(revs, g)
    /\ VisibleAt(occs, g)' = VisibleAt(occs, g)

(* Marks, failures, publications and prunes open rows at generations       *)
(* beyond every cursor, and close earlier rows there.                      *)
LEMMA ReplacedRows ==
    ASSUME NEW rows, NEW later, NEW g \in Nat,
           \A a \in rows : a.from \in Nat /\ a.until \in Nat,
           \A q \in later : \/ q.from \in Nat /\ g < q.from
                            \/ \E a \in rows :
                                  /\ q.session = a.session /\ q.from = a.from
                                  /\ \/ q = a
                                     \/ IsOpen(a) /\ q.until \in Nat /\ g < q.until,
           \A a \in rows : \E q \in later :
              /\ q.session = a.session /\ q.from = a.from
              /\ q = a \/ (IsOpen(a) /\ q.until \in Nat /\ g < q.until)
    PROVE  VisibleAt(later, g) = VisibleAt(rows, g)
<1>1. ASSUME NEW q \in later, q.from <= g, IsOpen(q) \/ q.until > g
      PROVE  \E a \in rows : /\ a.from <= g /\ (IsOpen(a) \/ a.until > g)
                             /\ a.session = q.session /\ a.from = q.from
  BY <1>1 DEF IsOpen, Open
<1>2. ASSUME NEW a \in rows, a.from <= g, IsOpen(a) \/ a.until > g
      PROVE  \E q \in later : /\ q.from <= g /\ (IsOpen(q) \/ q.until > g)
                              /\ a.session = q.session /\ a.from = q.from
  BY <1>2 DEF IsOpen, Open
<1>3. VisibleAt(later, g) \subseteq VisibleAt(rows, g)
  <2> SUFFICES ASSUME NEW q \in later, q.from <= g, IsOpen(q) \/ q.until > g
               PROVE  [session |-> q.session, from |-> q.from] \in VisibleAt(rows, g)
    BY DEF VisibleAt
  <2> QED
    BY <1>1 DEF VisibleAt
<1>4. VisibleAt(rows, g) \subseteq VisibleAt(later, g)
  <2> SUFFICES ASSUME NEW a \in rows, a.from <= g, IsOpen(a) \/ a.until > g
               PROVE  [session |-> a.session, from |-> a.from] \in VisibleAt(later, g)
    BY DEF VisibleAt
  <2> QED
    BY <1>2 DEF VisibleAt
<1> QED
  BY <1>3, <1>4

(* Opening a revision changes no snapshot, loses no revision, and keeps    *)
(* what the rows of the other sessions are shown as.                       *)
LEMMA OpensKeeps ==
    ASSUME TypeOK, RevisionsOrdered, NEW s, NEW status, NEW target, NEW analyzed,
           Opens(s, status, target, analyzed)
    PROVE  /\ \A g \in 0..gen : VisibleAt(revs, g)' = VisibleAt(revs, g)
           /\ \A a \in revs : \E q \in revs' : q.session = a.session /\ q.from = a.from
           /\ \E q \in revs' : /\ q.session = s /\ IsOpen(q)
                               /\ q.status = status /\ q.target = target
           /\ \A a \in revs : a.session # s => a \in revs'
<1>1. gen \in Nat /\ gen + 1 \in Nat /\ \A a \in revs : a.from \in Nat /\ a.until \in Nat
  BY DEF TypeOK, Revision
<1>2. PICK row :
         /\ row.session = s /\ row.from = gen + 1 /\ IsOpen(row)
         /\ row.status = status /\ row.target = target
         /\ row \in revs'
         /\ \A q \in revs' : q = row \/ \E a \in revs :
               /\ q.session = a.session /\ q.from = a.from
               /\ q.status = a.status /\ q.target = a.target
               /\ IF a.session = s /\ IsOpen(a) THEN q.until = gen + 1 ELSE q = a
         /\ \A a \in revs : \E q \in revs' :
               /\ q.session = a.session /\ q.from = a.from
               /\ q.status = a.status /\ q.target = a.target
               /\ IF a.session = s /\ IsOpen(a) THEN q.until = gen + 1 ELSE q = a
  BY OpenedRevision
<1>3. ASSUME NEW g \in 0..gen
      PROVE  VisibleAt(revs', g) = VisibleAt(revs, g)
  <2>1. g \in Nat /\ gen + 1 \in Nat /\ g < gen + 1
    BY <1>1
  <2>2. \A q \in revs' : \/ q.from \in Nat /\ g < q.from
                         \/ \E a \in revs :
                               /\ q.session = a.session /\ q.from = a.from
                               /\ q = a \/ (IsOpen(a) /\ q.until \in Nat /\ g < q.until)
    <3> SUFFICES ASSUME NEW q \in revs', ~(q.from \in Nat /\ g < q.from)
                 PROVE  \E a \in revs :
                           /\ q.session = a.session /\ q.from = a.from
                           /\ q = a \/ (IsOpen(a) /\ q.until \in Nat /\ g < q.until)
      OBVIOUS
    <3>1. PICK a \in revs :
             /\ q.session = a.session /\ q.from = a.from
             /\ IF a.session = s /\ IsOpen(a) THEN q.until = gen + 1 ELSE q = a
      BY <1>2, <2>1
    <3>2. q = a \/ (IsOpen(a) /\ q.until = gen + 1)
      BY <3>1
    <3> QED
      BY <2>1, <3>1, <3>2
  <2>3. \A a \in revs : \E q \in revs' :
           /\ q.session = a.session /\ q.from = a.from
           /\ q = a \/ (IsOpen(a) /\ q.until \in Nat /\ g < q.until)
    <3> SUFFICES ASSUME NEW a \in revs
                 PROVE  \E q \in revs' :
                           /\ q.session = a.session /\ q.from = a.from
                           /\ q = a \/ (IsOpen(a) /\ q.until \in Nat /\ g < q.until)
      OBVIOUS
    <3>1. PICK q \in revs' :
             /\ q.session = a.session /\ q.from = a.from
             /\ IF a.session = s /\ IsOpen(a) THEN q.until = gen + 1 ELSE q = a
      BY <1>2
    <3>2. q = a \/ (IsOpen(a) /\ q.until = gen + 1)
      BY <3>1
    <3> QED
      BY <2>1, <3>1, <3>2
  <2>4. \A a \in revs : a.from \in Nat /\ a.until \in Nat
    BY <1>1
  <2> QED
    BY <2>1, <2>2, <2>3, <2>4, ReplacedRows
<1>4. \A g \in 0..gen : VisibleAt(revs, g)' = VisibleAt(revs, g)
  BY <1>3 DEF VisibleAt
<1> QED
  BY <1>2, <1>4

(* A publication keeps the occurrences of every snapshot, with what they   *)
(* cite, and cites events of its session.                                  *)
LEMMA PublishKeeps ==
    ASSUME TypeOK, NEW r \in Reconcilers, PublishAny(r)
    PROVE  /\ \A g \in 0..gen : VisibleAt(occs, g)' = VisibleAt(occs, g)
           /\ \A a \in occs : \E o \in occs' :
                 o.session = a.session /\ o.from = a.from /\ o.cites = a.cites
           /\ \A o \in occs' : \/ o.session \in Sessions /\ o.cites \subseteq events[o.session]
                               \/ \E a \in occs : o.session = a.session /\ o.cites = a.cites
           /\ \E job : job.session = worker[r].session /\ job.from = gen + 1
                       /\ jobs' = jobs \cup {job}
           /\ events' = events
<1> DEFINE s == worker[r].session
           g == gen + 1
<1>1. PICK status \in Completed, cites \in SUBSET worker[r].input.events :
         Publish(r, status, cites)
  BY DEF PublishAny
<1>2. /\ gen \in Nat /\ g \in Nat \ {0} /\ s \in Sessions
      /\ occs \subseteq Occurrence
      /\ \A a \in occs : a.from \in Nat /\ a.until \in Nat
  BY DEF TypeOK, Occurrence, Worker
<1>3. PICK found :
         /\ found.session = s /\ found.from = g /\ found.cites \subseteq events[s]
         /\ occs' \subseteq Close(occs, s, g) \cup {found}
         /\ Close(occs, s, g) \subseteq occs'
  <2> DEFINE row == [session |-> s, cites |-> cites, from |-> g, until |-> Open]
  <2>1. row.session = s /\ row.from = g /\ row.cites = cites /\ cites \subseteq events[s]
    BY <1>1 DEF Publish
  <2>2. occs' \subseteq Close(occs, s, g) \cup {row} /\ Close(occs, s, g) \subseteq occs'
    BY <1>1 DEF Publish
  <2> HIDE DEF row
  <2> QED
    BY <2>1, <2>2
<1>4. events' = events
  BY <1>1 DEF Publish, inputVars
<1>5. \E job : job.session = s /\ job.from = g /\ jobs' = jobs \cup {job}
  <2> DEFINE queued == IF FixesRecorded THEN "pending" ELSE "complete"
  <2>1. jobs' = jobs \cup {[session |-> s, from |-> g, state |-> queued]}
    BY <1>1 DEF Publish
  <2> HIDE DEF queued
  <2> QED
    BY <2>1
<1> HIDE DEF s, g
<1>6. /\ \A q \in Close(occs, s, g) : \E a \in occs :
            /\ q.session = a.session /\ q.from = a.from /\ q.cites = a.cites
            /\ IF a.session = s /\ IsOpen(a) THEN q.until = g ELSE q = a
      /\ \A a \in occs : \E q \in Close(occs, s, g) :
            /\ q.session = a.session /\ q.from = a.from /\ q.cites = a.cites
            /\ IF a.session = s /\ IsOpen(a) THEN q.until = g ELSE q = a
  BY <1>2, ClosedOccurrence
<1>7. ASSUME NEW h \in 0..gen
      PROVE  VisibleAt(occs', h) = VisibleAt(occs, h)
  <2>1. h \in Nat /\ h < g /\ g \in Nat
    BY <1>2 DEF g
  <2>2. \A q \in occs' : \/ q.from \in Nat /\ h < q.from
                         \/ \E a \in occs :
                               /\ q.session = a.session /\ q.from = a.from
                               /\ q = a \/ (IsOpen(a) /\ q.until \in Nat /\ h < q.until)
    <3> SUFFICES ASSUME NEW q \in occs', ~(q.from \in Nat /\ h < q.from)
                 PROVE  \E a \in occs :
                           /\ q.session = a.session /\ q.from = a.from
                           /\ q = a \/ (IsOpen(a) /\ q.until \in Nat /\ h < q.until)
      OBVIOUS
    <3>1. PICK a \in occs :
             /\ q.session = a.session /\ q.from = a.from
             /\ IF a.session = s /\ IsOpen(a) THEN q.until = g ELSE q = a
      BY <1>3, <1>6, <2>1
    <3>2. q = a \/ (IsOpen(a) /\ q.until = g)
      BY <3>1
    <3> QED
      BY <2>1, <3>1, <3>2
  <2>3. \A a \in occs : \E q \in occs' :
           /\ q.session = a.session /\ q.from = a.from
           /\ q = a \/ (IsOpen(a) /\ q.until \in Nat /\ h < q.until)
    <3> SUFFICES ASSUME NEW a \in occs
                 PROVE  \E q \in occs' :
                           /\ q.session = a.session /\ q.from = a.from
                           /\ q = a \/ (IsOpen(a) /\ q.until \in Nat /\ h < q.until)
      OBVIOUS
    <3>1. PICK q \in occs' :
             /\ q.session = a.session /\ q.from = a.from
             /\ IF a.session = s /\ IsOpen(a) THEN q.until = g ELSE q = a
      BY <1>3, <1>6
    <3>2. q = a \/ (IsOpen(a) /\ q.until = g)
      BY <3>1
    <3> QED
      BY <2>1, <3>1, <3>2
  <2>4. \A a \in occs : a.from \in Nat /\ a.until \in Nat
    BY <1>2
  <2> QED
    BY <2>1, <2>2, <2>3, <2>4, ReplacedRows
<1>8. \A h \in 0..gen : VisibleAt(occs, h)' = VisibleAt(occs, h)
  BY <1>7 DEF VisibleAt
<1> QED
  BY <1>2, <1>3, <1>4, <1>5, <1>6, <1>8 DEF s, g

(* Events are only added.                                                  *)
LEMMA EventsGrow ==
    ASSUME TypeOK, [Next]_vars
    PROVE  \A s \in Sessions : events[s] \subseteq events'[s]
<1>1. CASE \E s \in Sessions : AppendEvent(s)
  BY <1>1 DEF AppendEvent, TypeOK
<1>2. CASE ~\E s \in Sessions : AppendEvent(s)
  <2>1. CASE \E s \in Sessions : Import(s)
    BY <1>2, <2>1 DEF Import, UpsertSessionScope, UpsertEventEnrichment, RecordFinding,
                      MarkFinding, inputVars
  <2>2. CASE \E r \in Reconcilers : Reconcile(r)
    BY <2>2 DEF Reconcile, StartupSnapshot, StartupMark, StartupEnds, Claim, ReadScope,
                ReadEvents, ReadEnrichments, ReadFindings, Read, PublishAny, Publish,
                Discard, inputVars
  <2>3. CASE \/ \E r \in Reconcilers : Fail(r) \/ Abandon(r) \/ Restart(r)
             \/ \E s \in Sessions : RetryDue(s)
             \/ \E p \in Processes : Crash(p)
             \/ UNCHANGED vars
    BY <2>3 DEF Fail, Abandon, Restart, RetryDue, Crash, inputVars, vars
  <2> QED
    BY <2>1, <2>2, <2>3 DEF Next
<1> QED
  BY <1>1, <1>2

(* What a step of SessionProjection keeps of the evidence.                 *)
LEMMA StepKeeps ==
    ASSUME TypeOK, RevisionsOrdered, CitationsResolve, PendingHasRevision, [Next]_vars
    PROVE  /\ CitationsResolve'
           /\ PendingHasRevision'
           /\ EvidenceKept
           /\ \A g \in 0..gen : SnapshotKept(g)
<1>1. CASE UNCHANGED <<revs, occs, jobs>>
  <2>1. \A s \in Sessions : events[s] \subseteq events'[s]
    BY EventsGrow
  <2>2. CitationsResolve'
    BY <1>1, <2>1 DEF CitationsResolve, TypeOK, Occurrence
  <2> QED
    BY <1>1, <2>2 DEF PendingHasRevision, EvidenceKept, SnapshotKept, VisibleAt
<1>2. ASSUME NEW s, NEW status, NEW target, NEW analyzed, Opens(s, status, target, analyzed),
             UNCHANGED <<occs, jobs>>
      PROVE  /\ CitationsResolve'
             /\ PendingHasRevision'
             /\ EvidenceKept
             /\ \A g \in 0..gen : SnapshotKept(g)
  <2>1. \A x \in Sessions : events[x] \subseteq events'[x]
    BY EventsGrow
  <2>2. CitationsResolve'
    BY <1>2, <2>1 DEF CitationsResolve, TypeOK, Occurrence
  <2>3. /\ \A g \in 0..gen : VisibleAt(revs, g)' = VisibleAt(revs, g)
        /\ \A a \in revs : \E q \in revs' : q.session = a.session /\ q.from = a.from
    BY <1>2, OpensKeeps
  <2>4. \A j \in jobs : j.state = "pending" =>
           \E q \in revs' : q.session = j.session /\ q.from = j.from
    BY <2>3 DEF PendingHasRevision
  <2> QED
    BY <1>2, <2>2, <2>3, <2>4 DEF PendingHasRevision, EvidenceKept, SnapshotKept, VisibleAt
<1>3. ASSUME NEW r \in Reconcilers, PublishAny(r)
      PROVE  /\ CitationsResolve'
             /\ PendingHasRevision'
             /\ EvidenceKept
             /\ \A g \in 0..gen : SnapshotKept(g)
  <2> DEFINE s == worker[r].session
  <2>1. PICK status, target, analyzed : Opens(s, status, target, analyzed)
    BY <1>3 DEF PublishAny, Publish, Opens
  <2>2. /\ \A g \in 0..gen : VisibleAt(revs, g)' = VisibleAt(revs, g)
        /\ \A a \in revs : \E q \in revs' : q.session = a.session /\ q.from = a.from
    <3> HIDE DEF s
    <3> QED
      BY <2>1, OpensKeeps
  <2>3. \E q \in revs' : q.session = s /\ q.from = gen + 1
    <3> HIDE DEF s
    <3> QED
      BY <2>1, OpenedRevision
  <2>4. /\ \A g \in 0..gen : VisibleAt(occs, g)' = VisibleAt(occs, g)
        /\ \A a \in occs : \E o \in occs' :
              o.session = a.session /\ o.from = a.from /\ o.cites = a.cites
        /\ \A o \in occs' : \/ o.session \in Sessions /\ o.cites \subseteq events[o.session]
                            \/ \E a \in occs : o.session = a.session /\ o.cites = a.cites
        /\ events' = events
    BY <1>3, PublishKeeps
  <2>5. PICK job : job.session = s /\ job.from = gen + 1 /\ jobs' = jobs \cup {job}
    BY <1>3, PublishKeeps
  <2> HIDE DEF s
  <2>6. CitationsResolve'
    BY <2>4 DEF CitationsResolve
  <2>7. PendingHasRevision'
    BY <2>2, <2>3, <2>5 DEF PendingHasRevision
  <2>8. EvidenceKept
    BY <2>2, <2>4 DEF EvidenceKept, PendingHasRevision
  <2> QED
    BY <2>2, <2>4, <2>6, <2>7, <2>8 DEF SnapshotKept
<1> QED
  BY <1>1, <1>2, <1>3, StepShapes

(* The rows after a transaction that opens a revision for the row of s.    *)
LEMMA OpensShown ==
    ASSUME TypeOK, RevisionsOrdered, RowTargets, RowShown,
           NEW s \in Sessions, NEW status, NEW target \in Nat \ {0}, NEW analyzed,
           Opens(s, status, target, analyzed),
           dirty'[s].target = target, dirty'[s].state # "none",
           status \in ShownStatus[dirty'[s].state],
           \A x \in Sessions \ {s} : dirty'[x] = dirty[x] /\ events'[x] = events[x]
    PROVE  RowTargets' /\ RowShown'
<1>1. /\ \E q \in revs' : /\ q.session = s /\ IsOpen(q)
                          /\ q.status = status /\ q.target = target
      /\ \A a \in revs : a.session # s => a \in revs'
  BY OpensKeeps
<1>2. RowTargets'
  BY DEF RowTargets
<1>3. ASSUME NEW x \in Sessions
      PROVE  IF dirty'[x].state = "none" THEN events'[x] = {}
             ELSE \E q \in revs' : /\ q.session = x /\ IsOpen(q) /\ q.target = dirty'[x].target
                                   /\ q.status \in ShownStatus[dirty'[x].state]
  <2>1. CASE x = s
    BY <1>1, <2>1
  <2>2. CASE x # s
    <3>1. dirty'[x] = dirty[x] /\ events'[x] = events[x]
      BY <2>2
    <3>2. CASE dirty[x].state = "none"
      BY <3>1, <3>2 DEF RowShown
    <3>3. CASE dirty[x].state # "none"
      <4>1. PICK q \in revs : /\ q.session = x /\ IsOpen(q) /\ q.target = dirty[x].target
                              /\ q.status \in ShownStatus[dirty[x].state]
        BY <3>3 DEF RowShown
      <4>2. q \in revs'
        BY <1>1, <2>2, <4>1
      <4> QED
        BY <3>1, <3>3, <4>1, <4>2
    <3> QED
      BY <3>2, <3>3
  <2> QED
    BY <2>1, <2>2
<1> QED
  BY <1>2, <1>3 DEF RowShown

(* A mark, of a session with events or listed by a Startup.                *)
LEMMA MarkShown ==
    ASSUME TypeOK, RevisionsOrdered, RowTargets, RowShown, NEW s \in Sessions, MarkDirty(s),
           \A x \in Sessions \ {s} : events'[x] = events[x]
    PROVE  RowTargets' /\ RowShown'
<1> DEFINE target == dirty[s].target + 1
<1>1. target \in Nat \ {0}
  BY DEF TypeOK
<1>2. PICK analyzed : Opens(s, "pending", target, analyzed)
  BY DEF MarkDirty, Opens
<1>3. /\ dirty'[s].target = target /\ dirty'[s].state = "pending"
      /\ \A x \in Sessions \ {s} : dirty'[x] = dirty[x]
  BY MarkDirtyStep
<1>4. "pending" \in ShownStatus["pending"]
  BY DEF ShownStatus
<1> HIDE DEF target
<1> QED
  BY <1>1, <1>2, <1>3, <1>4, OpensShown

(* A publication or the record of a failure, of a claim whose row exists.  *)
LEMMA SettleShown ==
    ASSUME TypeOK, RevisionsOrdered, ClaimedTargets, RowTargets, RowShown,
           NEW r \in Reconcilers, worker[r].phase \in Busy, Fresh(r),
           NEW status \in {"failed", "current", "truncated"}, NEW analyzed, NEW backoff,
           Opens(worker[r].session, status, worker[r].target, analyzed),
           dirty' = [dirty EXCEPT ![worker[r].session].state = status,
                                  ![worker[r].session].backoff = backoff],
           events' = events
    PROVE  RowTargets' /\ RowShown'
<1> DEFINE s == worker[r].session
<1>1. /\ s \in Sessions /\ worker[r].target \in Nat \ {0}
      /\ dirty \in [Sessions -> DirtyRow]
  BY DEF TypeOK, Worker, ClaimedTargets, DirtyRow
<1>2. dirty[s].target = worker[r].target
  BY DEF Fresh
<1>3. /\ dirty'[s].target = dirty[s].target /\ dirty'[s].state = status
      /\ \A x \in Sessions \ {s} : dirty'[x] = dirty[x]
  BY <1>1 DEF DirtyRow
<1>4. status \in ShownStatus[status] /\ status # "none"
  BY DEF ShownStatus
<1>5. Opens(s, status, worker[r].target, analyzed)
  OBVIOUS
<1> HIDE DEF s
<1> QED
  BY <1>1, <1>2, <1>3, <1>4, <1>5, OpensShown

(* A claim and a retry time that passes keep the targets.                  *)
LEMMA RowKept ==
    ASSUME RowTargets, RowShown, UNCHANGED <<revs, events>>,
           \A s \in Sessions :
              /\ dirty'[s].target = dirty[s].target
              /\ \/ dirty'[s].state = dirty[s].state
                 \/ dirty[s].state \in Claimable /\ dirty'[s].state = "claimed"
    PROVE  RowTargets' /\ RowShown'
<1>1. RowTargets'
  BY DEF RowTargets, Claimable
<1>2. ASSUME NEW s \in Sessions
      PROVE  IF dirty'[s].state = "none" THEN events[s] = {}
             ELSE \E q \in revs : /\ q.session = s /\ IsOpen(q) /\ q.target = dirty'[s].target
                                  /\ q.status \in ShownStatus[dirty'[s].state]
  <2>1. CASE dirty'[s].state = dirty[s].state
    BY <2>1 DEF RowShown
  <2>2. CASE dirty[s].state \in Claimable /\ dirty'[s].state = "claimed"
    <3>1. ShownStatus[dirty[s].state] \subseteq ShownStatus["claimed"]
      BY <2>2 DEF Claimable, ShownStatus
    <3> QED
      BY <2>2, <3>1 DEF RowShown, Claimable
  <2> QED
    BY <2>1, <2>2
<1> QED
  BY <1>1, <1>2 DEF RowShown

(* Every step of SessionProjection keeps the rows shown as they are.       *)
LEMMA StepShown ==
    ASSUME TypeOK, RevisionsOrdered, ClaimedTargets, RowTargets, RowShown, [Next]_vars
    PROVE  RowTargets' /\ RowShown'
<1>1. ASSUME NEW s \in Sessions, Import(s)
      PROVE  RowTargets' /\ RowShown'
  <2>1. CASE RecordFinding(s)
    BY <2>1, RowKept DEF RecordFinding, projectionVars
  <2>2. CASE ~RecordFinding(s)
    <3>1. MarkDirty(s)
      BY <1>1, <2>2 DEF Import, AppendEvent, UpsertSessionScope, UpsertEventEnrichment,
                        MarkFinding
    <3>2. \A x \in Sessions \ {s} : events'[x] = events[x]
      BY <1>1, <2>2 DEF Import, AppendEvent, UpsertSessionScope, UpsertEventEnrichment,
                        MarkFinding, inputVars, TypeOK
    <3> QED
      BY <3>1, <3>2, MarkShown
  <2> QED
    BY <2>1, <2>2
<1>2. ASSUME NEW r \in Reconcilers, NEW s \in Sessions, StartupMark(r, s)
      PROVE  RowTargets' /\ RowShown'
  BY <1>2, MarkShown DEF StartupMark, inputVars
<1>3. ASSUME NEW r \in Reconcilers, NEW s \in Sessions, Claim(r, s)
      PROVE  RowTargets' /\ RowShown'
  <2>1. /\ \A x \in Sessions : /\ dirty'[x].target = dirty[x].target
                               /\ \/ dirty'[x].state = dirty[x].state
                                  \/ dirty[x].state \in Claimable /\ dirty'[x].state = "claimed"
        /\ UNCHANGED <<revs, events>>
    BY <1>3 DEF Claim, Due, inputVars, TypeOK
  <2> QED
    BY <2>1, RowKept
<1>4. ASSUME NEW s \in Sessions, RetryDue(s)
      PROVE  RowTargets' /\ RowShown'
  <2>1. /\ \A x \in Sessions : /\ dirty'[x].target = dirty[x].target
                               /\ dirty'[x].state = dirty[x].state
        /\ UNCHANGED <<revs, events>>
    BY <1>4 DEF RetryDue, inputVars, TypeOK
  <2> QED
    BY <2>1, RowKept
<1>5. ASSUME NEW r \in Reconcilers, PublishAny(r)
      PROVE  RowTargets' /\ RowShown'
  <2>1. PICK status \in Completed, cites \in SUBSET worker[r].input.events :
           Publish(r, status, cites)
    BY <1>5 DEF PublishAny
  <2>2. worker[r].phase \in Busy /\ Fresh(r) /\ events' = events
    BY <2>1 DEF Publish, Busy, inputVars
  <2>3. Opens(worker[r].session, status, worker[r].target, worker[r].target)
    BY <2>1 DEF Publish, Opens
  <2>4. dirty' = [dirty EXCEPT ![worker[r].session].state = status,
                               ![worker[r].session].backoff = FALSE]
    BY <2>1 DEF Publish
  <2>5. status \in {"failed", "current", "truncated"}
    BY DEF Completed
  <2> QED
    BY <2>2, <2>3, <2>4, <2>5, SettleShown
<1>6. ASSUME NEW r \in Reconcilers, Fail(r)
      PROVE  RowTargets' /\ RowShown'
  <2>1. CASE Fresh(r)
    <3>1. PICK analyzed : Opens(worker[r].session, "failed", worker[r].target, analyzed)
      BY <1>6, <2>1 DEF Fail, Opens
    <3>2. dirty' = [dirty EXCEPT ![worker[r].session].state = "failed",
                                 ![worker[r].session].backoff = TRUE]
      BY <1>6, <2>1 DEF Fail
    <3>3. worker[r].phase \in Busy /\ events' = events
      BY <1>6 DEF Fail, inputVars
    <3> QED
      BY <2>1, <3>1, <3>2, <3>3, SettleShown
  <2>2. CASE ~Fresh(r)
    BY <1>6, <2>2, RowKept DEF Fail, inputVars
  <2> QED
    BY <2>1, <2>2
<1>7. CASE UNCHANGED <<dirty, revs, events>>
  BY <1>7, RowKept
<1>8. CASE \E r \in Reconcilers :
              \/ StartupSnapshot(r) \/ StartupEnds(r)
              \/ ReadScope(r) \/ ReadEvents(r) \/ ReadEnrichments(r) \/ ReadFindings(r)
              \/ Discard(r) \/ Abandon(r) \/ Restart(r)
  BY <1>7, <1>8 DEF StartupSnapshot, StartupEnds, ReadScope, ReadEvents, ReadEnrichments,
                    ReadFindings, Read, Discard, Abandon, Restart, inputVars, projectionVars
<1>9. CASE (\E p \in Processes : Crash(p)) \/ UNCHANGED vars
  BY <1>7, <1>9 DEF Crash, inputVars, projectionVars, vars
<1> QED
  BY <1>1, <1>2, <1>3, <1>4, <1>5, <1>6, <1>8, <1>9 DEF Next, Reconcile

(* A claim is of an existing row.                                          *)
LEMMA StepClaimed ==
    ASSUME TypeOK, ClaimedTargets, RowTargets, [Next]_vars
    PROVE  ClaimedTargets'
<1>1. CASE \A r \in Reconcilers : worker'[r].phase \in Busy =>
              worker[r].phase \in Busy /\ worker'[r].target = worker[r].target
  BY <1>1 DEF ClaimedTargets
<1>2. ASSUME NEW s \in Sessions, Import(s) \/ RetryDue(s)
      PROVE  ClaimedTargets'
  BY <1>1, <1>2 DEF Import, AppendEvent, UpsertSessionScope, UpsertEventEnrichment,
                    RecordFinding, MarkFinding, RetryDue
<1>3. ASSUME NEW r \in Reconcilers, NEW s \in Sessions, Claim(r, s)
      PROVE  ClaimedTargets'
  <2>1. /\ worker'[r].target = dirty[s].target
        /\ \A x \in Reconcilers \ {r} : worker'[x] = worker[x]
    BY <1>3 DEF Claim, TypeOK, Worker
  <2>2. dirty[s].target \in Nat /\ dirty[s].target # 0
    BY <1>3 DEF Claim, Due, Claimable, RowTargets, TypeOK
  <2> QED
    BY <2>1, <2>2 DEF ClaimedTargets
<1>4. ASSUME NEW r \in Reconcilers,
             ReadScope(r) \/ ReadEvents(r) \/ ReadEnrichments(r) \/ ReadFindings(r)
      PROVE  ClaimedTargets'
  <2>1. /\ worker[r].phase \in Busy /\ worker'[r].target = worker[r].target
        /\ \A x \in Reconcilers \ {r} : worker'[x] = worker[x]
    BY <1>4 DEF ReadScope, ReadEvents, ReadEnrichments, ReadFindings, Read, TypeOK, Worker, Busy
  <2> QED
    BY <1>1, <2>1
<1>5. ASSUME NEW r \in Reconcilers,
             \/ StartupSnapshot(r) \/ (\E s \in Sessions : StartupMark(r, s)) \/ StartupEnds(r)
             \/ PublishAny(r) \/ Discard(r) \/ Fail(r) \/ Abandon(r) \/ Restart(r)
      PROVE  ClaimedTargets'
  <2>1. /\ worker'[r].phase \notin Busy
        /\ \A x \in Reconcilers \ {r} : worker'[x] = worker[x]
    BY <1>5, RestingPhases DEF StartupSnapshot, StartupMark, StartupEnds, PublishAny, Publish,
                               Discard, Fail, Abandon, Restart, TypeOK
  <2> QED
    BY <1>1, <2>1
<1>6. ASSUME NEW p \in Processes, Crash(p)
      PROVE  ClaimedTargets'
  BY <1>1, <1>6, RestingPhases DEF Crash
<1>7. CASE UNCHANGED vars
  BY <1>1, <1>7 DEF vars
<1> QED
  BY <1>2, <1>3, <1>4, <1>5, <1>6, <1>7 DEF Next, Reconcile

-----------------------------------------------------------------------------
(* Retention: the prune.                                                   *)

(* The marks of a prune, each at a generation of its own.                  *)
LEMMA MarkedRows ==
    ASSUME TypeOK, NEW S \in SUBSET Sessions, NEW order \in Orders(S)
    PROVE  LET Reopened(q, s) == /\ q.session = s /\ IsOpen(q) /\ q.from = gen + order[s]
                                 /\ q.status = "pending" /\ q.target = dirty[s].target + 1
               Row(s) == NewRevision(s, "pending", dirty[s].target + 1, 0, gen + order[s])
               Carried(q, a) == /\ q.session = a.session /\ q.from = a.from
                                /\ IF a.session \in S /\ IsOpen(a)
                                   THEN q.until = gen + order[a.session] ELSE q = a
           IN  /\ Cardinality(S) \in Nat
               /\ \A s \in S : order[s] \in 1..Cardinality(S)
               /\ MarkedRevisions(S, order) \subseteq Revision
               /\ \A q \in MarkedRevisions(S, order) :
                     (\E s \in S : Reopened(q, s) /\ q = Row(s)) \/ \E a \in revs : Carried(q, a)
               /\ \A s \in S : \E q \in MarkedRevisions(S, order) : Reopened(q, s)
               /\ \A a \in revs : \E q \in MarkedRevisions(S, order) : Carried(q, a)
<1> DEFINE closed(a) == IF a.session \in S /\ IsOpen(a)
                        THEN [a EXCEPT !.until = gen + order[a.session]] ELSE a
           opened(s) == NewRevision(s, "pending", dirty[s].target + 1, 0, gen + order[s])
           n == Cardinality(S)
<1>1. n \in Nat
  BY RetentionAssumption, FS_Subset, FS_CardinalityType
<1>2. order \in [S -> 1..n] /\ \A s \in S : order[s] \in 1..n
  BY DEF Orders
<1> HIDE DEF n
<1>3. \A s \in S : gen + order[s] \in Nat \ {0}
  BY <1>1, <1>2 DEF TypeOK
<1>4. \A a \in revs : /\ closed(a) \in Revision
                      /\ closed(a).session = a.session /\ closed(a).from = a.from
                      /\ IF a.session \in S /\ IsOpen(a)
                         THEN closed(a).until = gen + order[a.session] ELSE closed(a) = a
  <2> SUFFICES ASSUME NEW a \in revs
               PROVE  /\ closed(a) \in Revision
                      /\ closed(a).session = a.session /\ closed(a).from = a.from
                      /\ IF a.session \in S /\ IsOpen(a)
                         THEN closed(a).until = gen + order[a.session] ELSE closed(a) = a
    OBVIOUS
  <2>1. a \in Revision
    BY DEF TypeOK
  <2>2. CASE a.session \in S /\ IsOpen(a)
    <3>1. gen + order[a.session] \in Nat
      BY <1>3, <2>2
    <3>2. closed(a) = [a EXCEPT !.until = gen + order[a.session]]
      BY <2>2
    <3> QED
      BY <2>1, <2>2, <3>1, <3>2 DEF Revision
  <2>3. CASE ~(a.session \in S /\ IsOpen(a))
    BY <2>1, <2>3
  <2> QED
    BY <2>2, <2>3
<1>5. \A s \in S : /\ opened(s) \in Revision
                   /\ opened(s).session = s /\ IsOpen(opened(s))
                   /\ opened(s).from = gen + order[s]
                   /\ opened(s).status = "pending" /\ opened(s).target = dirty[s].target + 1
  <2> SUFFICES ASSUME NEW s \in S
               PROVE  /\ opened(s) \in Revision
                      /\ opened(s).session = s /\ IsOpen(opened(s))
                      /\ opened(s).from = gen + order[s]
                      /\ opened(s).status = "pending"
                      /\ opened(s).target = dirty[s].target + 1
    OBVIOUS
  <2>1. dirty[s].target + 1 \in Nat \ {0}
    BY DEF TypeOK
  <2>2. opened(s) \in Revision
    BY <1>3, <2>1, NewRevisionType
  <2> QED
    BY <2>2 DEF NewRevision, IsOpen
<1>6. MarkedRevisions(S, order) = {closed(a) : a \in revs} \cup {opened(s) : s \in S}
  BY DEF MarkedRevisions
<1> HIDE DEF closed, opened
<1>7. Cardinality(S) \in Nat /\ \A s \in S : order[s] \in 1..Cardinality(S)
  BY <1>1, <1>2 DEF n
<1> QED
  <2>1. \A s \in S : opened(s) = NewRevision(s, "pending", dirty[s].target + 1, 0, gen + order[s])
    BY DEF opened
  <2> QED
    BY <1>4, <1>5, <1>6, <1>7, <2>1

(* They leave one revision of a session open, and close none after the     *)
(* last mark.                                                              *)
LEMMA MarkedOrdered ==
    ASSUME TypeOK, RevisionsOrdered, NEW S \in SUBSET Sessions, NEW order \in Orders(S)
    PROVE  /\ \A q \in MarkedRevisions(S, order) : q.until <= gen + Cardinality(S)
           /\ \A p, q \in MarkedRevisions(S, order) :
                 p.session = q.session /\ IsOpen(p) /\ IsOpen(q) => p = q
           /\ \A a \in revs : a.session \notin S => a \in MarkedRevisions(S, order)
<1> DEFINE marked == MarkedRevisions(S, order)
           n == Cardinality(S)
<1>1. gen \in Nat /\ \A a \in revs : a.until \in Nat /\ a.until <= gen
  BY DEF TypeOK, Revision, RevisionsOrdered
<1>2. /\ n \in Nat
      /\ \A s \in S : order[s] \in 1..n
      /\ \A q \in marked :
            \/ \E s \in S : /\ q.session = s /\ IsOpen(q)
                           /\ q = NewRevision(s, "pending", dirty[s].target + 1, 0, gen + order[s])
            \/ \E a \in revs :
                  /\ q.session = a.session /\ q.from = a.from
                  /\ IF a.session \in S /\ IsOpen(a)
                     THEN q.until = gen + order[a.session] ELSE q = a
      /\ \A a \in revs : \E q \in marked :
            IF a.session \in S /\ IsOpen(a) THEN q.until = gen + order[a.session] ELSE q = a
  BY MarkedRows
<1> HIDE DEF marked, n
<1>3. ASSUME NEW q \in marked
      PROVE  /\ q.until <= gen + n
             /\ IsOpen(q) => IF q.session \in S
                             THEN q = NewRevision(q.session, "pending", dirty[q.session].target + 1,
                                                  0, gen + order[q.session])
                             ELSE q \in revs
  <2>1. CASE \E s \in S : /\ q.session = s /\ IsOpen(q)
                          /\ q = NewRevision(s, "pending", dirty[s].target + 1, 0, gen + order[s])
    <3>1. q.until <= gen + n
      BY <1>1, <1>2, <2>1 DEF IsOpen, Open
    <3> QED
      BY <2>1, <3>1
  <2>2. ASSUME NEW a \in revs, a.session \in S, IsOpen(a),
               q.session = a.session, q.until = gen + order[a.session]
        PROVE  q.until <= gen + n /\ ~IsOpen(q)
    <3>1. order[a.session] \in 1..n
      BY <1>2, <2>2
    <3> QED
      BY <1>1, <1>2, <2>2, <3>1 DEF IsOpen, Open
  <2>3. ASSUME NEW a \in revs, ~(a.session \in S /\ IsOpen(a)), q = a
        PROVE  q.until <= gen + n /\ q \in revs /\ (IsOpen(q) => q.session \notin S)
    BY <1>1, <1>2, <2>3
  <2> QED
    BY <1>2, <2>1, <2>2, <2>3
<1>4. ASSUME NEW p \in marked, NEW q \in marked, p.session = q.session, IsOpen(p), IsOpen(q)
      PROVE  p = q
  BY <1>3, <1>4 DEF RevisionsOrdered
<1>5. \A a \in revs : a.session \notin S => a \in marked
  BY <1>2
<1> QED
  BY <1>3, <1>4, <1>5 DEF marked, n

(* A prune takes nothing that a pending job reads or that a retained       *)
(* occurrence cites, shows the sessions it marks as pending, and moves     *)
(* the horizon when it takes anything a cursor could read.                 *)
LEMMA PruneKeeps ==
    ASSUME RetentionInv, NEW deadEvents, NEW deadOccs \in SUBSET occs,
           NEW deadFindings \in SUBSET Sessions, NEW cut, NEW order,
           Selectable(deadEvents, deadOccs, cut),
           order \in Orders({s \in Sessions : events[s] \cap deadEvents # {}}
                              \cup {o.session : o \in deadOccs} \cup deadFindings),
           PruneSelected(deadEvents, deadOccs, deadFindings, cut, order),
           UNCHANGED <<lastEvent, unmarked, worker, todo, published, changes, faults>>
    PROVE  /\ TypeOK' /\ RevisionsOrdered' /\ ClaimedTargets' /\ oldest' \in Nat
           /\ RowTargets' /\ RowShown' /\ CitationsResolve' /\ PendingHasRevision'
           /\ EvidenceKept
           /\ \A g \in oldest'..gen : SnapshotKept(g)
<1> DEFINE affected == {s \in Sessions : events[s] \cap deadEvents # {}}
                          \cup {o.session : o \in deadOccs} \cup deadFindings
           left == [s \in Sessions |-> events[s] \ deadEvents]
           marked == MarkedRevisions(affected, order)
           aged == {q \in marked : left[q.session] = {} /\ WrittenAt(q) <= cut}
           deadRevs == {q \in aged : ~HasPendingJob(q.session, q.from)}
           changed == ProjectionChanged(deadEvents, deadOccs, deadRevs)
           n == Cardinality(affected)
<1>1. affected \in SUBSET Sessions /\ order \in Orders(affected)
  BY DEF RetentionInv, TypeOK, Occurrence
<1>2. gen \in Nat /\ oldest \in Nat /\ expiry \in Nat
  BY DEF RetentionInv, TypeOK
<1>3. /\ events' = left
      /\ finds' = [s \in Sessions |-> IF s \in deadFindings THEN finds[s] + 1 ELSE finds[s]]
      /\ enrich' = [s \in Sessions |->
                      IF enrich[s] > 0 /\ left[s] # events[s] THEN enrich[s] + 1 ELSE enrich[s]]
      /\ scope' = [s \in Sessions |-> IF left[s] = {} THEN NoScope ELSE scope[s]]
      /\ dirty' = [s \in Sessions |-> RowAfterPrune(s, affected, left[s])]
      /\ revs' = marked \ deadRevs
      /\ occs' = occs \ deadOccs
      /\ jobs' \subseteq jobs
  BY DEF PruneSelected
<1>4. /\ gen' = gen + n + (IF changed THEN 1 ELSE 0)
      /\ oldest' = IF changed THEN gen' ELSE oldest
      /\ ~changed => deadOccs = {} /\ deadRevs = {}
  BY DEF PruneSelected, ProjectionChanged
<1>5. expiry' = expiry \/ expiry' = expiry + 1
  BY DEF PruneSelected
<1>6. \A j \in jobs : j.state = "pending" => HasPendingJob(j.session, j.from)
  BY DEF HasPendingJob
<1>7. \A q \in deadRevs : left[q.session] = {} /\ ~HasPendingJob(q.session, q.from)
  OBVIOUS
<1>8. \A s \in Sessions : left[s] = events[s] \ deadEvents
  OBVIOUS
<1>9. \A s \in Sessions : s \notin affected => left[s] = events[s]
  OBVIOUS
<1> HIDE DEF affected, left, marked, aged, deadRevs, changed, n
<1>10. /\ n \in Nat
       /\ \A s \in affected : order[s] \in 1..n
       /\ marked \subseteq Revision
       /\ \A q \in marked :
             \/ \E s \in affected : q.from = gen + order[s]
             \/ \E a \in revs : /\ q.session = a.session /\ q.from = a.from
                                /\ IF a.session \in affected /\ IsOpen(a)
                                   THEN q.until = gen + order[a.session] ELSE q = a
       /\ \A s \in affected : \E q \in marked :
             /\ q.session = s /\ IsOpen(q) /\ q.status = "pending"
             /\ q.target = dirty[s].target + 1
       /\ \A a \in revs : \E q \in marked :
             /\ q.session = a.session /\ q.from = a.from
             /\ IF a.session \in affected /\ IsOpen(a)
                THEN q.until = gen + order[a.session] ELSE q = a
  BY <1>1, MarkedRows DEF RetentionInv, marked, n
<1>11. /\ \A q \in marked : q.until <= gen + n
       /\ \A p, q \in marked : p.session = q.session /\ IsOpen(p) /\ IsOpen(q) => p = q
       /\ \A a \in revs : a.session \notin affected => a \in marked
  BY <1>1, MarkedOrdered DEF RetentionInv, marked, n
<1>12. /\ gen' \in Nat /\ oldest' \in Nat /\ gen + n <= gen'
       /\ \/ oldest' > gen
          \/ deadOccs = {} /\ deadRevs = {}
  <2>1. CASE changed
    BY <1>2, <1>4, <1>10, <2>1
  <2>2. CASE ~changed
    BY <1>2, <1>4, <1>10, <2>2
  <2> QED
    BY <2>1, <2>2
<1>13. \A a \in revs : HasPendingJob(a.session, a.from) =>
          \E q \in revs' : q.session = a.session /\ q.from = a.from
  BY <1>3, <1>7, <1>10
<1>14. TypeOK'
  <2>1. /\ events' \in [Sessions -> SUBSET (Nat \ {0})]
        /\ finds' \in [Sessions -> Nat]
        /\ enrich' \in [Sessions -> Nat]
    <3>1. \A s \in Sessions : /\ events[s] \subseteq Nat \ {0}
                              /\ finds[s] \in Nat /\ finds[s] + 1 \in Nat
                              /\ enrich[s] \in Nat /\ enrich[s] + 1 \in Nat
      BY DEF RetentionInv, TypeOK
    <3>2. events' = [s \in Sessions |-> events[s] \ deadEvents]
      BY <1>3 DEF left
    <3> QED
      BY <1>3, <3>1, <3>2
  <2>2. scope' \in [Sessions -> ScopeRow]
    BY <1>3 DEF RetentionInv, TypeOK, NoScope, ScopeRow
  <2>3. dirty' \in [Sessions -> DirtyRow]
    <3>1. \A s \in Sessions : dirty[s] \in DirtyRow
      BY DEF RetentionInv, TypeOK, DirtyRow
    <3>2. NoRow \in DirtyRow
      BY DEF NoRow, DirtyRow, RowStates
    <3>3. \A s \in Sessions :
             [state |-> "pending", target |-> dirty[s].target + 1, backoff |-> FALSE] \in DirtyRow
      BY <3>1 DEF DirtyRow, RowStates
    <3> QED
      BY <1>3, <3>1, <3>2, <3>3 DEF RowAfterPrune
  <2>4. revs' \subseteq Revision /\ occs' \subseteq Occurrence /\ jobs' \subseteq Job
    BY <1>3, <1>10 DEF RetentionInv, TypeOK
  <2>5. expiry' \in Nat
    BY <1>2, <1>5
  <2>6. UNCHANGED <<lastEvent, unmarked, worker, todo, published, changes, faults>>
    OBVIOUS
  <2> QED
    BY <1>12, <2>1, <2>2, <2>3, <2>4, <2>5, <2>6 DEF RetentionInv, TypeOK, DirtyRow
<1>15. RevisionsOrdered'
  <2>1. \A q \in revs' : q.until <= gen'
    BY <1>2, <1>3, <1>10, <1>11, <1>12 DEF Revision
  <2> QED
    BY <1>3, <1>11, <2>1 DEF RevisionsOrdered
<1>16. ClaimedTargets'
  BY DEF RetentionInv, ClaimedTargets
<1>17. ASSUME NEW s \in Sessions
       PROVE  /\ dirty'[s].state = "none" <=> dirty'[s].target = 0
              /\ IF dirty'[s].state = "none" THEN events'[s] = {}
                 ELSE \E q \in revs' : /\ q.session = s /\ IsOpen(q)
                                       /\ q.target = dirty'[s].target
                                       /\ q.status \in ShownStatus[dirty'[s].state]
  <2>1. events'[s] = left[s] /\ dirty'[s] = RowAfterPrune(s, affected, left[s])
    BY <1>3, <1>8
  <2>2. CASE left[s] = {}
    <3>1. dirty'[s] = NoRow
      BY <2>1, <2>2 DEF RowAfterPrune
    <3> QED
      BY <2>1, <2>2, <3>1 DEF NoRow
  <2>3. CASE left[s] # {} /\ s \in affected
    <3>1. dirty'[s] = [state |-> "pending", target |-> dirty[s].target + 1, backoff |-> FALSE]
      BY <2>1, <2>3 DEF RowAfterPrune
    <3>2. dirty[s].target \in Nat
      BY DEF RetentionInv, TypeOK
    <3>3. PICK q \in marked : /\ q.session = s /\ IsOpen(q) /\ q.status = "pending"
                              /\ q.target = dirty[s].target + 1
      BY <1>10, <2>3
    <3>4. q \in revs'
      BY <1>3, <1>7, <2>3, <3>3
    <3> QED
      BY <3>1, <3>2, <3>3, <3>4 DEF ShownStatus
  <2>4. CASE left[s] # {} /\ s \notin affected
    <3>1. dirty'[s] = dirty[s] /\ events[s] # {}
      BY <1>9, <2>1, <2>4 DEF RowAfterPrune
    <3>2. PICK q \in revs : /\ q.session = s /\ IsOpen(q) /\ q.target = dirty[s].target
                            /\ q.status \in ShownStatus[dirty[s].state]
      BY <3>1 DEF RetentionInv, RowShown
    <3>3. q \in revs'
      BY <1>3, <1>7, <1>11, <2>4, <3>2
    <3> QED
      BY <3>1, <3>2, <3>3 DEF RetentionInv, RowTargets, RowShown
  <2> QED
    BY <2>2, <2>3, <2>4
<1>18. CitationsResolve'
  <2> SUFFICES ASSUME NEW o \in occs \ deadOccs
               PROVE  o.cites \subseteq events'[o.session]
    BY <1>3 DEF CitationsResolve
  <2>1. o.session \in Sessions /\ o.cites \subseteq events[o.session]
    BY DEF RetentionInv, CitationsResolve, TypeOK, Occurrence
  <2>2. o.cites \cap deadEvents = {}
    BY DEF Selectable
  <2> QED
    BY <1>3, <1>8, <2>1, <2>2
<1>19. \A j \in jobs : j.state = "pending" =>
          \E q \in revs' : q.session = j.session /\ q.from = j.from
  BY <1>6, <1>13 DEF RetentionInv, PendingHasRevision
<1>20. PendingHasRevision'
  BY <1>3, <1>19 DEF PendingHasRevision
<1>21. EvidenceKept
  <2>1. ASSUME NEW j \in jobs, j.state = "pending",
               NEW o \in occs, o.session = j.session, o.from = j.from
        PROVE  o \in occs'
    <3>1. Pinned(o)
      BY <1>6, <2>1 DEF Pinned, RetentionInv, PendingHasRevision
    <3> QED
      BY <1>3, <2>1, <3>1 DEF Selectable
  <2> QED
    BY <1>19, <2>1 DEF EvidenceKept
<1>22. ASSUME NEW g \in oldest'..gen
       PROVE  SnapshotKept(g)
  <2>1. /\ g \in Nat /\ g <= gen
        /\ occs' = occs /\ revs' = marked
    BY <1>2, <1>3, <1>12
  <2>2. \A a \in revs : a.from \in Nat /\ a.until \in Nat
    BY DEF RetentionInv, TypeOK, Revision
  <2>3. \A s \in affected : gen + order[s] \in Nat /\ g < gen + order[s]
    BY <1>2, <1>10, <2>1
  <2>4. \A q \in marked : \/ q.from \in Nat /\ g < q.from
                          \/ \E a \in revs :
                                /\ q.session = a.session /\ q.from = a.from
                                /\ q = a \/ (IsOpen(a) /\ q.until \in Nat /\ g < q.until)
    <3> SUFFICES ASSUME NEW q \in marked, ~(q.from \in Nat /\ g < q.from)
                 PROVE  \E a \in revs :
                           /\ q.session = a.session /\ q.from = a.from
                           /\ q = a \/ (IsOpen(a) /\ q.until \in Nat /\ g < q.until)
      OBVIOUS
    <3>1. PICK a \in revs : /\ q.session = a.session /\ q.from = a.from
                            /\ IF a.session \in affected /\ IsOpen(a)
                               THEN q.until = gen + order[a.session] ELSE q = a
      BY <1>10, <2>3
    <3> QED
      BY <2>3, <3>1
  <2>5. \A a \in revs : \E q \in marked :
           /\ q.session = a.session /\ q.from = a.from
           /\ q = a \/ (IsOpen(a) /\ q.until \in Nat /\ g < q.until)
    <3> SUFFICES ASSUME NEW a \in revs
                 PROVE  \E q \in marked :
                           /\ q.session = a.session /\ q.from = a.from
                           /\ q = a \/ (IsOpen(a) /\ q.until \in Nat /\ g < q.until)
      OBVIOUS
    <3>1. PICK q \in marked : /\ q.session = a.session /\ q.from = a.from
                              /\ IF a.session \in affected /\ IsOpen(a)
                                 THEN q.until = gen + order[a.session] ELSE q = a
      BY <1>10
    <3> QED
      BY <2>3, <3>1
  <2>6. VisibleAt(marked, g) = VisibleAt(revs, g)
    BY <2>1, <2>2, <2>4, <2>5, ReplacedRows
  <2> QED
    BY <2>1, <2>6 DEF SnapshotKept, VisibleAt
<1> QED
  BY <1>12, <1>14, <1>15, <1>16, <1>17, <1>18, <1>20, <1>21, <1>22 DEF RowTargets, RowShown

(* Every step of a store that is pruned.                                   *)
LEMMA RetentionStep ==
    ASSUME RetentionInv, [RetentionNext]_retentionVars
    PROVE  /\ RetentionInv'
           /\ EvidenceKept
           /\ \A g \in oldest'..gen : SnapshotKept(g)
<1>1. CASE [Next]_vars /\ UNCHANGED <<oldest, prunes>>
  <2>1. TypeOK' /\ RevisionsOrdered'
    BY <1>1, StepTypes DEF RetentionInv
  <2>2. ClaimedTargets' /\ RowTargets' /\ RowShown'
    BY <1>1, StepClaimed, StepShown DEF RetentionInv
  <2>3. /\ CitationsResolve' /\ PendingHasRevision' /\ EvidenceKept
        /\ \A g \in 0..gen : SnapshotKept(g)
    BY <1>1, StepKeeps DEF RetentionInv
  <2>4. \A g \in oldest'..gen : g \in 0..gen
    BY <1>1 DEF RetentionInv, TypeOK
  <2> QED
    BY <1>1, <2>1, <2>2, <2>3, <2>4 DEF RetentionInv
<1>2. CASE Prune
  <2>1. PICK deadEvents \in SUBSET UNION {events[s] : s \in Sessions},
             deadOccs \in SUBSET occs,
             deadFindings \in SUBSET {s \in Sessions : finds[s] > 0}, cut \in 0..gen :
           /\ Selectable(deadEvents, deadOccs, cut)
           /\ \E order \in Orders({s \in Sessions : events[s] \cap deadEvents # {}}
                                    \cup {o.session : o \in deadOccs} \cup deadFindings) :
                 PruneSelected(deadEvents, deadOccs, deadFindings, cut, order)
    BY <1>2 DEF Prune
  <2>2. PICK order \in Orders({s \in Sessions : events[s] \cap deadEvents # {}}
                                \cup {o.session : o \in deadOccs} \cup deadFindings) :
           PruneSelected(deadEvents, deadOccs, deadFindings, cut, order)
    BY <2>1
  <2>3. deadFindings \in SUBSET Sessions
    OBVIOUS
  <2>4. UNCHANGED <<lastEvent, unmarked, worker, todo, published, changes, faults>>
    BY <1>2 DEF Prune
  <2>5. /\ TypeOK' /\ RevisionsOrdered' /\ ClaimedTargets' /\ oldest' \in Nat
        /\ RowTargets' /\ RowShown' /\ CitationsResolve' /\ PendingHasRevision'
        /\ EvidenceKept
        /\ \A g \in oldest'..gen : SnapshotKept(g)
    BY <2>1, <2>2, <2>3, <2>4, PruneKeeps
  <2>6. prunes' \in Nat
    BY <1>2 DEF Prune, RetentionInv
  <2> QED
    BY <2>5, <2>6 DEF RetentionInv
<1>3. CASE FinishRecurrenceJob
  <2>1. PICK j \in jobs : /\ j.state = "pending"
                          /\ jobs' = (jobs \ {j}) \cup {[j EXCEPT !.state = "complete"]}
    BY <1>3 DEF FinishRecurrenceJob
  <2>2. UNCHANGED <<inputVars, unmarked, dirty, gen, expiry, revs, occs, worker, todo,
                    published, changes, faults, oldest, prunes>>
    BY <1>3 DEF FinishRecurrenceJob
  <2>3. j \in Job
    BY DEF RetentionInv, TypeOK
  <2>4. [j EXCEPT !.state = "complete"] \in Job /\ [j EXCEPT !.state = "complete"].state # "pending"
    BY <2>3 DEF Job
  <2>5. jobs' \subseteq Job /\ \A k \in jobs' : k.state = "pending" => k \in jobs
    BY <2>1, <2>4 DEF RetentionInv, TypeOK
  <2>6. TypeOK' /\ RevisionsOrdered'
    BY <2>2, <2>5 DEF RetentionInv, TypeOK, RevisionsOrdered, inputVars
  <2>7. ClaimedTargets' /\ RowTargets' /\ RowShown' /\ CitationsResolve'
    BY <2>2 DEF RetentionInv, ClaimedTargets, RowTargets, RowShown, CitationsResolve, inputVars
  <2>8. PendingHasRevision'
    BY <2>2, <2>5 DEF RetentionInv, PendingHasRevision
  <2>9. EvidenceKept
    BY <2>2 DEF EvidenceKept, RetentionInv, PendingHasRevision
  <2>10. \A g \in oldest'..gen : SnapshotKept(g)
    BY <2>2 DEF SnapshotKept, VisibleAt
  <2> QED
    BY <2>2, <2>6, <2>7, <2>8, <2>9, <2>10 DEF RetentionInv
<1>4. CASE UNCHANGED retentionVars
  BY <1>1, <1>4 DEF retentionVars
<1> QED
  BY <1>1, <1>2, <1>3, <1>4 DEF RetentionNext

(* Next to any importers, reconcilers and recurrence workers, prunes leave *)
(* the tables whole: Prune deletes what its selection may delete.          *)
THEOREM RetentionSafe == RetentionSpec => []RetentionInv
<1>1. RetentionInit => RetentionInv
  <2> SUFFICES ASSUME RetentionInit
               PROVE  RetentionInv
    OBVIOUS
  <2>1. TypeOK /\ RevisionsOrdered
    BY InitInv DEF RetentionInit, ProjectionInv
  <2>2. \A r \in Reconcilers : worker[r].phase \notin Busy
    BY RestingPhases DEF RetentionInit, Init
  <2>3. RowTargets /\ RowShown
    BY DEF RetentionInit, Init, RowTargets, RowShown, NoRow
  <2>4. CitationsResolve /\ PendingHasRevision /\ oldest \in Nat /\ prunes \in Nat
    BY DEF RetentionInit, Init, CitationsResolve, PendingHasRevision
  <2> QED
    BY <2>1, <2>2, <2>3, <2>4 DEF RetentionInv, ClaimedTargets
<1>2. RetentionInv /\ [RetentionNext]_retentionVars => RetentionInv'
  BY RetentionStep
<1> QED
  BY <1>1, <1>2, PTL DEF RetentionSpec

(* No retained occurrence cites an event that a prune took.                *)
THEOREM CitationsKept == RetentionSpec => []CitationsResolve
<1>1. RetentionInv => CitationsResolve
  BY DEF RetentionInv
<1> QED
  BY <1>1, RetentionSafe, PTL

(* The row of a session with events and its one open revision agree        *)
(* through every prune.                                                    *)
THEOREM RetainedShown == RetentionSpec => []RetainedRevisionAgrees
<1>1. ASSUME RetentionInv
      PROVE  RetainedRevisionAgrees
  <2> SUFFICES ASSUME NEW s \in Sessions
               PROVE  LET open == {q \in revs : q.session = s /\ IsOpen(q)} IN
                      IF dirty[s].state = "none"
                      THEN events[s] = {} /\ Cardinality(open) <= 1
                      ELSE \E q \in open :
                              /\ open = {q}
                              /\ q.target = dirty[s].target
                              /\ q.status \in ShownStatus[dirty[s].state]
    BY DEF RetainedRevisionAgrees
  <2> DEFINE open == {q \in revs : q.session = s /\ IsOpen(q)}
  <2>1. \A p, q \in open : p = q
    BY <1>1 DEF RetentionInv, RevisionsOrdered
  <2>2. Cardinality(open) <= 1
    <3>1. CASE open = {}
      BY <3>1, FS_EmptySet
    <3>2. CASE open # {}
      <4>1. PICK q \in open : open = {q}
        BY <2>1, <3>2
      <4>2. Cardinality({q}) = 1
        BY FS_Singleton
      <4> HIDE DEF open
      <4> QED
        BY <4>1, <4>2
    <3> QED
      BY <3>1, <3>2
  <2>3. CASE dirty[s].state = "none"
    BY <1>1, <2>2, <2>3 DEF RetentionInv, RowShown
  <2>4. CASE dirty[s].state # "none"
    <3>1. PICK q \in open : /\ q.target = dirty[s].target
                            /\ q.status \in ShownStatus[dirty[s].state]
      BY <1>1, <2>4 DEF RetentionInv, RowShown
    <3>2. open = {q}
      BY <2>1, <3>1
    <3> QED
      BY <2>4, <3>1, <3>2
  <2> QED
    BY <2>3, <2>4
<1> QED
  BY <1>1, RetentionSafe, PTL

(* No prune takes the evidence of a recurrence job that has not run.       *)
THEOREM EvidenceAwaited == RetentionSpec => PendingEvidenceIsKept
<1>1. RetentionInv /\ [RetentionNext]_retentionVars => [EvidenceKept]_retentionVars
  BY RetentionStep
<1>2. RetentionSpec => [][EvidenceKept]_retentionVars
  BY <1>1, RetentionSafe, PTL DEF RetentionSpec
<1> QED
  BY <1>2 DEF PendingEvidenceIsKept, EvidenceKept

(* A cursor at a retained generation reads the same rows after any commit. *)
THEOREM SnapshotsStable == RetentionSpec => RetainedSnapshotsAreStable
<1> DEFINE Stable == \A g \in oldest'..gen : SnapshotKept(g)
<1>1. RetentionInv /\ [RetentionNext]_retentionVars => [Stable]_retentionVars
  BY RetentionStep
<1>2. RetentionSpec => [][Stable]_retentionVars
  BY <1>1, RetentionSafe, PTL DEF RetentionSpec
<1> QED
  BY <1>2 DEF RetainedSnapshotsAreStable, SnapshotKept
=============================================================================
