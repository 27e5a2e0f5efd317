------------------------- MODULE SessionProjection -------------------------
(***************************************************************************)
(* The durable re-analysis protocol of the Local store.                    *)
(*                                                                         *)
(* Importers append canonical events, scopes, enrichments and findings to  *)
(* one SQLite database and mark the session dirty; reconcilers on several  *)
(* Store handles (and in several processes) claim dirty sessions, read the *)
(* inputs in separate statements, and publish the result in a transaction  *)
(* that compares the generation they claimed with the current one.         *)
(*                                                                         *)
(* Every Store transaction is one action: the DSN takes the database lock  *)
(* exclusively at BEGIN and each Store has one connection.  The reads of a *)
(* reconciler are not in a transaction and are one action each.            *)
(*                                                                         *)
(* Time is not a number here.  "retry_at is in the future" is the field    *)
(* backoff of a dirty row, and RetryDue is the clock passing it.           *)
(***************************************************************************)
EXTENDS Integers, FiniteSets

CONSTANTS
    Sessions,       \* session keys
    Reconcilers,    \* one per Store handle that runs analysis.Reconciler
    Processes,      \* operating-system processes that hold those handles
    ProcessOf,      \* the process of each reconciler
    Starters,       \* the reconcilers whose owner runs Startup (recovery loop)
    Importer,       \* the process that imports findings
    Scopes,         \* project scopes an importer may derive for a session
    FixesRecorded,  \* TRUE when fix_annotations is not empty
    StoreErrors,    \* TRUE when a publication may fail with a storage error
    MaxEvents,      \* bound: canonical events ever appended
    MaxChanges,     \* bound: enrichment changes and finding imports
    MaxFaults       \* bound: failed analyses, storage errors and crashes

NoId == "no id"
Qualities == {"resolved", "lexical", "unscoped", "conflict"}

(* The session_scopes row; quality "none" is an absent row.                *)
ScopeRow == [id: {NoId} \cup {x.id : x \in Scopes}, quality: Qualities \cup {"none"}]
NoScope == [id |-> NoId, quality |-> "none"]

ASSUME ConstantsAssumption ==
    /\ ProcessOf \in [Reconcilers -> Processes]
    /\ Starters \subseteq Reconcilers
    /\ Importer \in Processes
    /\ \A x \in Scopes : x \in [id: {x.id}, quality: {"resolved", "lexical", "unscoped"}]
    /\ \A x \in Scopes : x.id = NoId <=> x.quality = "unscoped"
    /\ FixesRecorded \in BOOLEAN
    /\ StoreErrors \in BOOLEAN
    /\ MaxEvents \in Nat
    /\ MaxChanges \in Nat
    /\ MaxFaults \in Nat

VARIABLES
    events,     \* canonical events of a session, named by their read order
    lastEvent,  \* event_read_order: the last sequence handed out
    scope,      \* session_scopes
    enrich,     \* version of the session's event_enrichments
    finds,      \* version of the session's findings
    unmarked,   \* findings committed, MarkSessionDirty not yet called
    dirty,      \* dirty_sessions
    gen,        \* issue_projection_metadata.current_generation
    expiry,     \* issue_projection_metadata.retention_generation
    revs,       \* session_analysis_revisions
    occs,       \* issue_occurrences with their citations
    jobs,       \* fix_recurrence_jobs
    worker,     \* what each reconciler holds in memory
    todo,       \* sessions a Startup has still to mark
    published,  \* history: the inputs of the last completed analysis
    changes,    \* how much of MaxChanges is used
    faults      \* how much of MaxFaults is used

inputVars == <<events, lastEvent, scope, enrich, finds>>
projectionVars == <<dirty, gen, revs, occs, jobs>>
vars == <<events, lastEvent, scope, enrich, finds, unmarked, dirty, gen, expiry,
          revs, occs, jobs, worker, todo, published, changes, faults>>

-----------------------------------------------------------------------------
(* The tables and their empty values.                                      *)

Open == 0                               \* visible_until_generation IS NULL
NoRow == [state |-> "none", target |-> 0, backoff |-> FALSE]
RowStates == {"none", "pending", "claimed", "failed", "current", "truncated"}
(* Mutant: a failed row is not claimed again.                              *)
MutClaimable == {"pending"}
Claimable == {"pending", "failed"}
Completed == {"current", "truncated"}

Inputs == [scope: ScopeRow, events: SUBSET (Nat \ {0}), through: Nat,
           enrich: Nat, finds: Nat]
NoInputs == [scope |-> NoScope, events |-> {}, through |-> 0,
             enrich |-> 0, finds |-> 0]

Revision == [session: Sessions, status: {"pending", "failed"} \cup Completed,
             target: Nat \ {0}, analyzed: Nat, from: Nat \ {0}, until: Nat]
Occurrence == [session: Sessions, cites: SUBSET (Nat \ {0}), from: Nat \ {0}, until: Nat]
Job == [session: Sessions, from: Nat \ {0}, state: {"pending", "complete"}]

(* The phases of a reconciler, in the order of reconcileSession: claimed,  *)
(* scope read, events read, enrichments read, findings read.  It is        *)
(* starting until Startup returns nil.                                     *)
Phases == {"down", "marking", "idle", "claimed", "scoped", "loaded", "enriched", "ready"}
Busy == {"claimed", "scoped", "loaded", "enriched", "ready"}
Worker == [phase: Phases, starting: BOOLEAN, session: Sessions, target: Nat, input: Inputs]

ASSUME SessionsAssumption == Sessions # {}
SomeSession == CHOOSE s \in Sessions : TRUE
Idle == [phase |-> "idle", starting |-> FALSE, session |-> SomeSession, target |-> 0,
         input |-> NoInputs]
Down == [Idle EXCEPT !.phase = "down"]
StartupDrain == [Idle EXCEPT !.starting = TRUE]
Marking == [StartupDrain EXCEPT !.phase = "marking"]

IsOpen(row) == row.until = Open

(* closeActiveAnalysisRevisionTx, and the UPDATE that closes occurrences.  *)
Close(rows, s, g) ==
    {IF q.session = s /\ IsOpen(q) THEN [q EXCEPT !.until = g] ELSE q : q \in rows}

(* activeAnalyzedGenerationTx: what the revision closed at g had analysed. *)
AnalyzedAt(rows, s, g) ==
    LET closed == {q \in rows : q.session = s /\ q.until = g} IN
    IF closed = {} THEN 0
    ELSE (CHOOSE q \in closed : \A p \in closed : p.from <= q.from).analyzed

NewRevision(s, status, target, analyzed, g) ==
    [session |-> s, status |-> status, target |-> target, analyzed |-> analyzed,
     from |-> g, until |-> Open]

(* Mutant: the last scope wins.                                            *)
MutMergeScope(old, new) == IF new.id = NoId THEN old ELSE new

(* mergeSessionScope.                                                      *)
MergeScope(old, new) ==
    CASE old.quality = "conflict" -> old
      [] old.quality # "conflict" /\ new.id = NoId -> old
      [] old.quality # "conflict" /\ new.id # NoId /\ old.id = NoId -> new
      [] old.quality # "conflict" /\ new.id # NoId /\ old.id \notin {NoId, new.id} ->
            [id |-> NoId, quality |-> "conflict"]
      [] old.quality # "conflict" /\ new.id # NoId /\ old.id = new.id ->
            IF old.quality = "lexical" /\ new.quality = "resolved" THEN new ELSE old

(* markSessionDirtyTx.  The analysed generation is read before the active  *)
(* revision is closed, in the order of the code.                           *)
MarkDirty(s) ==
    LET target == dirty[s].target + 1
        g == gen + 1
        analyzed == AnalyzedAt(revs, s, g)
    IN  /\ dirty' = [dirty EXCEPT ![s] =
                        [state |-> "pending", target |-> target, backoff |-> FALSE]]
        /\ gen' = g
        /\ revs' = Close(revs, s, g) \cup {NewRevision(s, "pending", target, analyzed, g)}
        /\ UNCHANGED <<occs, jobs, published>>

-----------------------------------------------------------------------------
Init ==
    /\ events = [s \in Sessions |-> {}]
    /\ lastEvent = 0
    /\ scope = [s \in Sessions |-> NoScope]
    /\ enrich = [s \in Sessions |-> 0]
    /\ finds = [s \in Sessions |-> 0]
    /\ unmarked = {}
    /\ dirty = [s \in Sessions |-> NoRow]
    /\ gen = 0
    /\ expiry = 0
    /\ revs = {}
    /\ occs = {}
    /\ jobs = {}
    /\ worker = [r \in Reconcilers |-> IF r \in Starters THEN Marking ELSE Idle]
    /\ todo = [r \in Reconcilers |-> {}]
    /\ published = [s \in Sessions |-> NoInputs]
    /\ changes = 0
    /\ faults = 0

(***************************************************************************)
(* Importer.                                                               *)
(***************************************************************************)

(* A new canonical event and its dirty mark commit together; a duplicate   *)
(* changes nothing.                                                        *)
AppendEvent(s) ==
    /\ lastEvent < MaxEvents
    /\ lastEvent' = lastEvent + 1
    /\ events' = [events EXCEPT ![s] = @ \cup {lastEvent'}]
    /\ MarkDirty(s)
    /\ UNCHANGED <<scope, enrich, finds, unmarked, expiry, worker, todo, changes, faults>>

(* A scope that changes expires monitoring snapshots and dirties the       *)
(* session in the same transaction.                                        *)
UpsertSessionScope(s, new) ==
    LET merged == IF scope[s] = NoScope THEN new ELSE MergeScope(scope[s], new) IN
    /\ events[s] # {}
    /\ merged # scope[s]
    /\ scope' = [scope EXCEPT ![s] = merged]
    /\ expiry' = expiry + 1
    /\ MarkDirty(s)
    /\ UNCHANGED <<events, lastEvent, enrich, finds, unmarked, worker, todo, changes, faults>>

(* An enrichment row inserted or completed by the merge.                   *)
UpsertEventEnrichment(s) ==
    /\ events[s] # {}
    /\ changes < MaxChanges
    /\ changes' = changes + 1
    /\ enrich' = [enrich EXCEPT ![s] = @ + 1]
    /\ MarkDirty(s)
    /\ UNCHANGED <<events, lastEvent, scope, finds, unmarked, expiry, worker, todo, faults>>

(* Mutant: the importer does not mark the session after the finding.       *)
MutRecordFinding(s) ==
    /\ events[s] # {}
    /\ changes < MaxChanges
    /\ changes' = changes + 1
    /\ finds' = [finds EXCEPT ![s] = @ + 1]
    /\ UNCHANGED <<events, lastEvent, scope, enrich, unmarked, expiry, projectionVars,
                   worker, todo, published, faults>>

(* RecordFindingResolved commits the finding only; the importer marks the  *)
(* session in a second transaction, for a replayed duplicate as well.      *)
RecordFinding(s) ==
    /\ events[s] # {}
    /\ s \notin unmarked
    /\ changes < MaxChanges
    /\ changes' = changes + 1
    /\ finds' \in {[finds EXCEPT ![s] = @ + 1]} \cup (IF finds[s] > 0 THEN {finds} ELSE {})
    /\ unmarked' = unmarked \cup {s}
    /\ UNCHANGED <<events, lastEvent, scope, enrich, expiry, projectionVars,
                   worker, todo, published, faults>>

MarkFinding(s) ==
    /\ s \in unmarked
    /\ unmarked' = unmarked \ {s}
    /\ MarkDirty(s)
    /\ UNCHANGED <<inputVars, expiry, worker, todo, changes, faults>>

(***************************************************************************)
(* Reconciler.                                                             *)
(***************************************************************************)

(* Mutant: Startup skips the sessions that are current.                    *)
MutStartupSkipsCurrent(r) ==
    /\ worker[r].phase = "marking"
    /\ todo[r] = {}
    /\ LET listed == {s \in Sessions : events[s] # {} /\ dirty[s].state \notin Completed} IN
       /\ todo' = [todo EXCEPT ![r] = listed]
       /\ worker' = [worker EXCEPT ![r] = IF listed = {} THEN StartupDrain ELSE Marking]
    /\ UNCHANGED <<inputVars, unmarked, expiry, projectionVars, published, changes, faults>>

(* markAllSessionsDirty: the sessions are read at one snapshot, then       *)
(* marked in a transaction each, and the drain follows.                    *)
StartupSnapshot(r) ==
    /\ worker[r].phase = "marking"
    /\ todo[r] = {}
    /\ LET listed == {s \in Sessions : events[s] # {}} IN
       /\ todo' = [todo EXCEPT ![r] = listed]
       /\ worker' = [worker EXCEPT ![r] = IF listed = {} THEN StartupDrain ELSE Marking]
    /\ UNCHANGED <<inputVars, unmarked, expiry, projectionVars, published, changes, faults>>

StartupMark(r, s) ==
    /\ worker[r].phase = "marking"
    /\ s \in todo[r]
    /\ todo' = [todo EXCEPT ![r] = @ \ {s}]
    /\ worker' = [worker EXCEPT ![r] = IF todo[r] = {s} THEN StartupDrain ELSE Marking]
    /\ MarkDirty(s)
    /\ UNCHANGED <<inputVars, unmarked, expiry, changes, faults>>

(* What is left of a reconciler that goes back to ClaimDirtySession.       *)
NextClaim(r) == IF worker[r].starting THEN StartupDrain ELSE Idle

Due(s) == dirty[s].state \in Claimable /\ ~dirty[s].backoff

(* The drain of a Startup finds no due row, and Startup returns.           *)
StartupEnds(r) ==
    /\ worker[r] = StartupDrain
    /\ \A s \in Sessions : ~Due(s)
    /\ worker' = [worker EXCEPT ![r] = Idle]
    /\ UNCHANGED <<inputVars, unmarked, expiry, projectionVars, todo, published,
                   changes, faults>>

(* ClaimDirtySession takes the due row with the oldest updated_at; any due *)
(* row may be it.                                                          *)
Claim(r, s) ==
    /\ worker[r].phase = "idle"
    /\ Due(s)
    /\ dirty' = [dirty EXCEPT ![s].state = "claimed"]
    /\ worker' = [worker EXCEPT ![r] = [@ EXCEPT !.phase = "claimed", !.session = s,
                                                !.target = dirty[s].target]]
    /\ UNCHANGED <<inputVars, unmarked, gen, expiry, revs, occs, jobs, todo, published,
                   changes, faults>>

(* One read of reconcileSession: from one phase to the next.               *)
Read(r, before, after, input) ==
    /\ worker[r].phase = before
    /\ worker' = [worker EXCEPT ![r].phase = after, ![r].input = input]
    /\ UNCHANGED <<inputVars, unmarked, expiry, projectionVars, todo, published,
                   changes, faults>>

ReadScope(r) ==
    Read(r, "claimed", "scoped",
         [worker[r].input EXCEPT !.scope = scope[worker[r].session]])

ReadEvents(r) ==
    Read(r, "scoped", "loaded",
         [worker[r].input EXCEPT !.events = events[worker[r].session], !.through = lastEvent])

ReadEnrichments(r) ==
    Read(r, "loaded", "enriched",
         [worker[r].input EXCEPT !.enrich = enrich[worker[r].session]])

ReadFindings(r) ==
    Read(r, "enriched", "ready",
         [worker[r].input EXCEPT !.finds = finds[worker[r].session]])

(* Mutant: only the existence of the row is compared.                      *)
MutFresh(r) == dirty[worker[r].session].state # "none"

(* The compare of replaceSessionProjection and PublishAnalysisFailure: the *)
(* row exists and still has the claimed target.  Its state is not looked   *)
(* at.                                                                     *)
Fresh(r) == dirty[worker[r].session].target = worker[r].target

(* Mutant: a publication that does not close the occurrences before it.    *)
(* Mutant: a publication that leaves the recurrence job to a later step.   *)
MutPublish(r, status, cites, closed, queued) ==
    LET s == worker[r].session
        target == worker[r].target
        g == gen + 1
        found == IF cites = {} THEN {}
                 ELSE {[session |-> s, cites |-> cites, from |-> g, until |-> Open]}
    IN  /\ worker[r].phase = "ready"
        /\ Fresh(r)
        /\ cites \subseteq events[s]
        /\ gen' = g
        /\ revs' = Close(revs, s, g) \cup {NewRevision(s, status, target, target, g)}
        /\ occs' = (IF closed THEN Close(occs, s, g) ELSE occs) \cup found
        /\ jobs' = IF queued
                   THEN jobs \cup {[session |-> s, from |-> g,
                                    state |-> IF FixesRecorded THEN "pending" ELSE "complete"]}
                   ELSE jobs
        /\ dirty' = [dirty EXCEPT ![s].state = status, ![s].backoff = FALSE]
        /\ published' = [published EXCEPT ![s] = worker[r].input]
        /\ worker' = [worker EXCEPT ![r] = NextClaim(r)]
        /\ UNCHANGED <<inputVars, unmarked, expiry, todo, changes, faults>>
MutPublishKeepsOccurrences(r, status, cites) == MutPublish(r, status, cites, FALSE, TRUE)
MutPublishWithoutJob(r, status, cites) == MutPublish(r, status, cites, TRUE, FALSE)

(* replaceSessionProjection.  cites is what the detectors found: nothing,  *)
(* or one occurrence citing events they were given.                        *)
Publish(r, status, cites) ==
    LET s == worker[r].session
        target == worker[r].target
        g == gen + 1
        found == IF cites = {} THEN {}
                 ELSE {[session |-> s, cites |-> cites, from |-> g, until |-> Open]}
    IN  /\ worker[r].phase = "ready"
        /\ Fresh(r)
        /\ cites \subseteq events[s]
        /\ gen' = g
        /\ revs' = Close(revs, s, g) \cup {NewRevision(s, status, target, target, g)}
        /\ occs' = Close(occs, s, g) \cup found
        /\ jobs' = jobs \cup {[session |-> s, from |-> g,
                               state |-> IF FixesRecorded THEN "pending" ELSE "complete"]}
        /\ dirty' = [dirty EXCEPT ![s].state = status, ![s].backoff = FALSE]
        /\ published' = [published EXCEPT ![s] = worker[r].input]
        /\ worker' = [worker EXCEPT ![r] = NextClaim(r)]
        /\ UNCHANGED <<inputVars, unmarked, expiry, todo, changes, faults>>

(* ErrStaleProjection: nothing is written and the drain goes on.           *)
Discard(r) ==
    /\ worker[r].phase = "ready"
    /\ ~Fresh(r)
    /\ worker' = [worker EXCEPT ![r] = NextClaim(r)]
    /\ UNCHANGED <<inputVars, unmarked, expiry, projectionVars, todo, published,
                   changes, faults>>

(* fail: a read, the catalog or the publication failed, and                *)
(* PublishAnalysisFailure records it, unless the claim is stale.           *)
Fail(r) ==
    LET s == worker[r].session
        target == worker[r].target
        g == gen + 1
        closed == Close(revs, s, g)
    IN  /\ worker[r].phase \in Busy
        /\ faults < MaxFaults
        /\ faults' = faults + 1
        /\ worker' = [worker EXCEPT ![r] = NextClaim(r)]
        /\ IF Fresh(r)
           THEN /\ gen' = g
                /\ revs' = closed \cup
                       {NewRevision(s, "failed", target, AnalyzedAt(closed, s, g), g)}
                /\ dirty' = [dirty EXCEPT ![s].state = "failed", ![s].backoff = TRUE]
           ELSE UNCHANGED <<gen, revs, dirty>>
        /\ UNCHANGED <<inputVars, unmarked, expiry, occs, jobs, todo, published, changes>>

(* A storage error that ends the drain: fail could not record the failure, *)
(* or the claim or a mark did not commit.  The dirty rows stay as they     *)
(* are; a Startup that returns an error is called again.                   *)
Abandon(r) ==
    /\ StoreErrors
    /\ worker[r].phase \in Busy \/ worker[r].starting
    /\ faults < MaxFaults
    /\ faults' = faults + 1
    /\ worker' = [worker EXCEPT ![r] = IF worker[r].starting THEN Marking ELSE Idle]
    /\ todo' = [todo EXCEPT ![r] = {}]
    /\ UNCHANGED <<inputVars, unmarked, expiry, projectionVars, published, changes>>

(* retry_at passes.                                                        *)
RetryDue(s) ==
    /\ dirty[s].backoff
    /\ dirty' = [dirty EXCEPT ![s].backoff = FALSE]
    /\ UNCHANGED <<inputVars, unmarked, gen, expiry, revs, occs, jobs, worker, todo,
                   published, changes, faults>>

(***************************************************************************)
(* A process dies with what its reconcilers and its importer held, and is  *)
(* started again.                                                          *)
(***************************************************************************)
Crash(p) ==
    /\ faults < MaxFaults
    /\ faults' = faults + 1
    /\ \E r \in Reconcilers : ProcessOf[r] = p /\ worker[r].phase # "down"
    /\ worker' = [r \in Reconcilers |-> IF ProcessOf[r] = p THEN Down ELSE worker[r]]
    /\ todo' = [r \in Reconcilers |-> IF ProcessOf[r] = p THEN {} ELSE todo[r]]
    /\ unmarked' = IF p = Importer THEN {} ELSE unmarked
    /\ UNCHANGED <<inputVars, expiry, projectionVars, published, changes>>

Restart(r) ==
    /\ worker[r].phase = "down"
    /\ worker' = [worker EXCEPT ![r] = IF r \in Starters THEN Marking ELSE Idle]
    /\ UNCHANGED <<inputVars, unmarked, expiry, projectionVars, todo, published,
                   changes, faults>>

-----------------------------------------------------------------------------
Import(s) ==
    \/ AppendEvent(s)
    \/ \E new \in Scopes : UpsertSessionScope(s, new)
    \/ UpsertEventEnrichment(s)
    \/ RecordFinding(s)
    \/ MarkFinding(s)

PublishAny(r) ==
    \E status \in Completed, cites \in SUBSET worker[r].input.events : Publish(r, status, cites)

Reconcile(r) ==
    \/ StartupSnapshot(r)
    \/ \E s \in Sessions : StartupMark(r, s)
    \/ StartupEnds(r)
    \/ \E s \in Sessions : Claim(r, s)
    \/ ReadScope(r)
    \/ ReadEvents(r)
    \/ ReadEnrichments(r)
    \/ ReadFindings(r)
    \/ PublishAny(r)
    \/ Discard(r)

Next ==
    \/ \E s \in Sessions : Import(s) \/ RetryDue(s)
    \/ \E r \in Reconcilers : Reconcile(r) \/ Fail(r) \/ Abandon(r) \/ Restart(r)
    \/ \E p \in Processes : Crash(p)

Spec == Init /\ [][Next]_vars

(* The poll and recovery loops call Drain every interval, so a reconciler  *)
(* that can step does; the oldest row is claimed first, so no due session  *)
(* is passed over for ever; a retry time comes; the importer, unless its   *)
(* process dies, makes the call that follows the one it returned from; and *)
(* the user starts Belay Local again after a crash.                        *)
Fairness ==
    /\ \A r \in Reconcilers : WF_vars(Reconcile(r)) /\ WF_vars(Restart(r))
    /\ \A s \in Sessions :
           /\ WF_vars(RetryDue(s))
           /\ WF_vars(MarkFinding(s))
           /\ SF_vars(\E r \in Reconcilers : Claim(r, s))

FairSpec == Spec /\ Fairness

-----------------------------------------------------------------------------
(* Every variable keeps the shape of its table or of its Go value.         *)
TypeOK ==
    /\ events \in [Sessions -> SUBSET (Nat \ {0})]
    /\ lastEvent \in Nat
    /\ scope \in [Sessions -> ScopeRow]
    /\ enrich \in [Sessions -> Nat]
    /\ finds \in [Sessions -> Nat]
    /\ unmarked \subseteq Sessions
    /\ dirty \in [Sessions -> [state: RowStates, target: Nat, backoff: BOOLEAN]]
    /\ gen \in Nat
    /\ expiry \in Nat
    /\ revs \subseteq Revision
    /\ occs \subseteq Occurrence
    /\ jobs \subseteq Job
    /\ worker \in [Reconcilers -> Worker]
    /\ todo \in [Reconcilers -> SUBSET Sessions]
    /\ published \in [Sessions -> Inputs]
    /\ changes \in Nat
    /\ faults \in Nat

(* A session whose dirty row says current was analysed with the scope, the *)
(* events and the enrichments it has now: whatever was committed between   *)
(* the separate reads of reconcileSession and its publication, the compare *)
(* of the claimed target rejected it.                                      *)
CurrentIsComplete ==
    \A s \in Sessions : dirty[s].state = "current" =>
        /\ published[s].scope = scope[s]
        /\ published[s].events = events[s]
        /\ published[s].enrich = enrich[s]

(* Publication compares the target only, not the state of the row.  No two *)
(* reconcilers hold a claim on one session that both would pass it.        *)
AtMostOneFreshClaim ==
    \A r1, r2 \in Reconcilers :
        /\ worker[r1].phase \in Busy /\ worker[r2].phase \in Busy
        /\ worker[r1].session = worker[r2].session
        /\ Fresh(r1) /\ Fresh(r2)
        => r1 = r2

(* A finding that a completed analysis did not see is one whose importer   *)
(* has still to mark the session, or died and has its recovery ahead of    *)
(* it: the gap between RecordFindingResolved and MarkSessionDirty.         *)
FindingsCovered ==
    \A s \in Sessions :
        dirty[s].state \in Completed /\ published[s].finds # finds[s] =>
            \/ s \in unmarked
            \/ \E r \in Starters :
                  /\ ProcessOf[r] = Importer
                  /\ \/ worker[r].phase = "down"
                     \/ worker[r].phase = "marking" /\ (todo[r] = {} \/ s \in todo[r])

(* The statuses of the open revision that readers are shown for a row in   *)
(* each state: failed, pending and truncated work is never shown current.  *)
ShownStatus == [pending |-> {"pending"}, claimed |-> {"pending", "failed"},
                failed |-> {"failed"}, current |-> {"current"}, truncated |-> {"truncated"}]

(* The rows a cursor taken at generation g reads.                          *)
VisibleAt(rows, g) ==
    {[session |-> q.session, from |-> q.from] :
        q \in {p \in rows : p.from <= g /\ (IsOpen(p) \/ p.until > g)}}

(* At every retained generation a session has at most one revision, and    *)
(* each occurrence then visible was published by the last completed one:   *)
(* an analysis that fails keeps the earlier evidence, one that completes   *)
(* replaces all of it.                                                     *)
OccurrencesFollowAnalysis ==
    \A g \in 1..gen :
        /\ \A q1, q2 \in VisibleAt(revs, g) : q1.session = q2.session => q1 = q2
        /\ \A o \in VisibleAt(occs, g) : \E q \in revs :
              /\ q.session = o.session /\ q.from = o.from /\ q.status \in Completed
              /\ \A p \in revs : p.session = o.session /\ p.status \in Completed /\ p.from <= g
                                 => p.from <= q.from

(* A recurrence job exists for each completed publication and for nothing  *)
(* else: a rejected or failed one leaves no job, a committed one never     *)
(* lacks it.                                                               *)
JobPerCompletedRevision ==
    {[session |-> j.session, from |-> j.from] : j \in jobs} =
    {[session |-> q.session, from |-> q.from] : q \in {p \in revs : p.status \in Completed}}

(* A project scope in conflict stays so, and an identified scope is given  *)
(* up only for a conflict: no order of imports moves a session to another  *)
(* project.                                                                *)
ScopeNeverReassigned ==
    [][\A s \in Sessions :
          /\ scope[s].quality = "conflict" => scope'[s] = scope[s]
          /\ scope[s].id # NoId =>
                scope'[s].id = scope[s].id \/ scope'[s].quality = "conflict"]_vars

(* Every dirty session ends with a completed analysis of its last inputs,  *)
(* through stale claims, failures with retry, and crashes that leave rows  *)
(* claimed.                                                                *)
Settled(s) == dirty[s].state \in Completed
DirtySettles == \A s \in Sessions : dirty[s].state # "none" ~> Settled(s)

(* A committed finding reaches an analysis even when the importer dies     *)
(* before it marks the session.                                            *)
FindingsAreAnalysed ==
    \A s \in Sessions : (published[s].finds < finds[s]) ~> (published[s].finds = finds[s])

(* What makes the safety properties inductive.  The revisions: closed at a *)
(* generation that was handed out, and at most one open for a session.     *)
RevisionsOrdered ==
    /\ \A q \in revs : q.until <= gen
    /\ \A p, q \in revs : p.session = q.session /\ IsOpen(p) /\ IsOpen(q) => p = q

(* A target is never ahead of its row, and a claim that may still be       *)
(* published has the row in state claimed: what keeps a second reconciler  *)
(* from claiming it, and what a mark, a failure and a publication end.     *)
ClaimsFollowRow ==
    /\ \A s \in Sessions : dirty[s].state # "none" => 1 <= dirty[s].target
    /\ \A r \in Reconcilers : worker[r].phase \in Busy =>
          /\ 1 <= worker[r].target /\ worker[r].target <= dirty[worker[r].session].target
          /\ Fresh(r) => dirty[worker[r].session].state = "claimed"

(* A claim that may still be published has read what is there now.         *)
FreshInputs ==
    \A r \in Reconcilers :
        LET s == worker[r].session IN
        worker[r].phase \in Busy /\ Fresh(r) =>
            /\ worker[r].phase # "claimed" => worker[r].input.scope = scope[s]
            /\ worker[r].phase \in {"loaded", "enriched", "ready"} =>
                  worker[r].input.events = events[s]
            /\ worker[r].phase \in {"enriched", "ready"} => worker[r].input.enrich = enrich[s]

(* The inductive invariant: no interleaving of imports, reads, marks,      *)
(* failures and crashes leaves a publishable claim with old inputs.        *)
ProjectionInv ==
    /\ TypeOK
    /\ RevisionsOrdered
    /\ ClaimsFollowRow
    /\ AtMostOneFreshClaim
    /\ FreshInputs
    /\ CurrentIsComplete

=============================================================================
