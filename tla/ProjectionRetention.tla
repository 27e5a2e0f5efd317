------------------------ MODULE ProjectionRetention ------------------------
(***************************************************************************)
(* SessionProjection with `belay prune`: Store.Prune runs in a process of  *)
(* its own, in one exclusive transaction, next to importers, reconcilers   *)
(* and the recurrence worker.                                              *)
(*                                                                         *)
(* Rows age with the generation that last wrote them, because updated_at   *)
(* and the generation grow together; cut is the generation current one     *)
(* hour ago.  Which unprotected payloads the policy selects (age, count or *)
(* bytes) depends on times and sizes the model does not have: any set may  *)
(* be selected.                                                            *)
(***************************************************************************)
EXTENDS SessionProjection

CONSTANTS MaxPrunes     \* bound: prunes that select or clean up something

(* A database holds finitely many sessions.                                *)
ASSUME RetentionAssumption == MaxPrunes \in Nat /\ IsFiniteSet(Sessions)

VARIABLES oldest,       \* issue_projection_metadata.oldest_retained_generation
          prunes        \* how much of MaxPrunes is used

retentionVars == <<vars, oldest, prunes>>

WrittenAt(row) == IF IsOpen(row) THEN row.from ELSE row.until

HasPendingJob(s, from) ==
    \E j \in jobs : j.session = s /\ j.from = from /\ j.state = "pending"

(* Mutant: a pending job pins nothing.                                     *)
MutPinned(o) == FALSE

(* The pinned column of readRetentionItems.                                *)
Pinned(o) ==
    /\ HasPendingJob(o.session, o.from)
    /\ \E q \in revs : q.session = o.session /\ q.from = o.from

(* Mutant: an event goes although an occurrence cites it.                  *)
MutSelectable(deadEvents, deadOccs, cut) ==
    \A o \in deadOccs : WrittenAt(o) <= cut /\ ~Pinned(o)

(* What evaluateRetention may select: no protected or pinned occurrence,   *)
(* no event that one of those cites, and every occurrence that cites a     *)
(* selected event.                                                         *)
Selectable(deadEvents, deadOccs, cut) ==
    /\ \A o \in deadOccs : WrittenAt(o) <= cut /\ ~Pinned(o)
    /\ \A o \in occs : o.cites \cap deadEvents # {} => o \in deadOccs

(* The generations markSessionDirtyTx hands out to a set of sessions, in   *)
(* the order the map iteration visits them.                                *)
Orders(S) ==
    {f \in [S -> 1..Cardinality(S)] : \A a, b \in S : f[a] = f[b] => a = b}

MarkedRevisions(S, order) ==
    LET closed == {IF q.session \in S /\ IsOpen(q)
                   THEN [q EXCEPT !.until = gen + order[q.session]] ELSE q : q \in revs}
    IN  closed \cup {NewRevision(s, "pending", dirty[s].target + 1, 0, gen + order[s]) : s \in S}

(* finalProjectionChange; the mutant forgets the occurrences.              *)
MutProjectionChanged(deadEvents, deadOccs, deadRevs) == deadEvents # {} \/ deadRevs # {}
ProjectionChanged(deadEvents, deadOccs, deadRevs) ==
    deadOccs # {} \/ deadRevs # {} \/ deadEvents # {}

(* The dirty row of a session after the prune; the mutant drops the row of *)
(* every affected session.                                                 *)
MutRowAfterPrune(s, affected, remaining) == IF s \in affected THEN NoRow ELSE dirty[s]
RowAfterPrune(s, affected, remaining) ==
    IF remaining = {} THEN NoRow
    ELSE IF s \in affected
    THEN [state |-> "pending", target |-> dirty[s].target + 1, backoff |-> FALSE]
    ELSE dirty[s]

(* Prune: mark the affected sessions, delete what was selected, then the   *)
(* scopes, complete jobs, revisions and dirty rows of sessions that have   *)
(* no event left, and advance the retained horizon.                        *)
PruneSelected(deadEvents, deadOccs, deadFindings, cut, order) ==
    LET affected == {s \in Sessions : events[s] \cap deadEvents # {}}
                       \cup {o.session : o \in deadOccs} \cup deadFindings
        left == [s \in Sessions |-> events[s] \ deadEvents]
        marked == MarkedRevisions(affected, order)
        aged == {q \in marked : left[q.session] = {} /\ WrittenAt(q) <= cut}
        deadJobs == {j \in jobs : /\ j.state = "complete"
                                  /\ \E q \in aged : q.session = j.session /\ q.from = j.from}
        deadRevs == {q \in aged : ~HasPendingJob(q.session, q.from)}
        projectionChanged == ProjectionChanged(deadEvents, deadOccs, deadRevs)
        relevant == projectionChanged \/ deadJobs # {} \/ deadFindings # {}
        marks == Cardinality(affected)
    IN  /\ events' = left
        /\ finds' = [s \in Sessions |-> IF s \in deadFindings THEN finds[s] + 1 ELSE finds[s]]
        /\ enrich' = [s \in Sessions |->
                        IF enrich[s] > 0 /\ left[s] # events[s] THEN enrich[s] + 1 ELSE enrich[s]]
        /\ scope' = [s \in Sessions |-> IF left[s] = {} THEN NoScope ELSE scope[s]]
        /\ dirty' = [s \in Sessions |-> RowAfterPrune(s, affected, left[s])]
        /\ revs' = marked \ deadRevs
        /\ occs' = occs \ deadOccs
        /\ jobs' = jobs \ deadJobs
        /\ gen' = gen + marks + (IF projectionChanged THEN 1 ELSE 0)
        /\ oldest' = IF projectionChanged THEN gen' ELSE oldest
        /\ expiry' = IF relevant THEN expiry + 1 ELSE expiry

Prune ==
    /\ prunes < MaxPrunes
    /\ prunes' = prunes + 1
    /\ \E deadEvents \in SUBSET UNION {events[s] : s \in Sessions},
          deadOccs \in SUBSET occs,
          deadFindings \in SUBSET {s \in Sessions : finds[s] > 0},
          cut \in 0..gen :
          /\ Selectable(deadEvents, deadOccs, cut)
          /\ \E order \in Orders({s \in Sessions : events[s] \cap deadEvents # {}}
                                   \cup {o.session : o \in deadOccs} \cup deadFindings) :
                PruneSelected(deadEvents, deadOccs, deadFindings, cut, order)
    /\ UNCHANGED <<lastEvent, unmarked, worker, todo, published, changes, faults>>

(* The recurrence worker finishes a job.                                   *)
FinishRecurrenceJob ==
    /\ \E j \in jobs :
          /\ j.state = "pending"
          /\ jobs' = (jobs \ {j}) \cup {[j EXCEPT !.state = "complete"]}
    /\ UNCHANGED <<inputVars, unmarked, dirty, gen, expiry, revs, occs, worker, todo,
                   published, changes, faults, oldest, prunes>>

RetentionInit == Init /\ oldest = 0 /\ prunes = 0

RetentionNext ==
    \/ Next /\ UNCHANGED <<oldest, prunes>>
    \/ Prune
    \/ FinishRecurrenceJob

RetentionSpec == RetentionInit /\ [][RetentionNext]_retentionVars

-----------------------------------------------------------------------------
(* Every event a retained occurrence cites is retained with it, closed     *)
(* occurrences included: a prune takes both or neither, and the delete     *)
(* never falls through to the ON DELETE CASCADE of the citations.          *)
CitationsResolve == \A o \in occs : o.cites \subseteq events[o.session]

(* Evidence of a completed analysis stays until its recurrence job has     *)
(* read it: while the job is pending, neither its revision nor the         *)
(* occurrences published with it go.                                       *)
PendingEvidenceIsKept ==
    [][\A j \in jobs : j.state = "pending" =>
          /\ \A o \in occs : o.session = j.session /\ o.from = j.from =>
                \E p \in occs' : p.session = j.session /\ p.from = j.from /\ p.cites = o.cites
          /\ \E q \in revs' : q.session = j.session /\ q.from = j.from]_retentionVars

(* A cursor at or after the retained horizon reads the same rows after any *)
(* commit: whatever a prune takes away, it moves the horizon beyond it.    *)
RetainedSnapshotsAreStable ==
    [][\A g \in oldest'..gen :
          /\ VisibleAt(revs, g)' = VisibleAt(revs, g)
          /\ VisibleAt(occs, g)' = VisibleAt(occs, g)]_retentionVars

(* A session that keeps an event keeps its dirty row, and the row and the  *)
(* one open revision agree: a prune between a claim and its publication    *)
(* may take the row, but never the work of a session it left events of.    *)
RetainedRevisionAgrees ==
    \A s \in Sessions :
        LET open == {q \in revs : q.session = s /\ IsOpen(q)} IN
        IF dirty[s].state = "none" THEN events[s] = {} /\ Cardinality(open) <= 1
        ELSE \E q \in open :
                /\ open = {q}
                /\ q.target = dirty[s].target
                /\ q.status \in ShownStatus[dirty[s].state]

=============================================================================
