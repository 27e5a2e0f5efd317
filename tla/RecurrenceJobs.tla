--------------------------- MODULE RecurrenceJobs ---------------------------
(***************************************************************************)
(* The queue of recurrence jobs: a publication enqueues one job, and the   *)
(* recurrence workers of Belay Local and of every `belay mcp` process      *)
(* claim jobs under a lease, compare the job's analysis with the fixes in  *)
(* batches, and record observations.                                       *)
(*                                                                         *)
(* A row of fix_recurrence_jobs is an element of the sequence jobs; its    *)
(* index is the sequence column.  leased is "lease_expires_at is in the    *)
(* future" and backoff "retry_at is in the future": time is the steps that *)
(* clear them.  claim_token is a new random value for each value of        *)
(* claim_generation and goes with the state, so that comparing the         *)
(* generation and the state is comparing all three.                        *)
(***************************************************************************)
EXTENDS Integers, Sequences, FiniteSets

CONSTANTS Workers,      \* recurrence workers, each with its own Store handle
          Occurrences,  \* issue occurrences, the same in every revision
          BatchLimit,   \* annotations compared in one transaction (100)
          MaxFixes,     \* bound: fixes ever recorded
          MaxJobs,      \* bound: completed analyses ever published
          MaxFaults     \* bound: failed batches, slow workers and crashes

ASSUME JobsAssumption ==
    /\ BatchLimit \in Nat \ {0}
    /\ MaxFixes \in Nat /\ MaxJobs \in Nat /\ MaxFaults \in Nat

VARIABLES fixes,        \* fix_annotations, with the scope capture of its subject
          retracted,    \* fix_annotation_retractions
          jobs,         \* fix_recurrence_jobs
          journal,      \* fix_recurrence_job_events
          observed,     \* fix_recurrence_observations
          worker,       \* what each worker holds in memory
          faults        \* how much of MaxFaults is used

fixVars == <<fixes, retracted>>
jobVars == <<fixes, retracted, jobs, journal, observed, worker, faults>>

-----------------------------------------------------------------------------
JobStates == {"pending", "claimed", "failed", "complete"}
Row == [snapshot: Nat, matches: SUBSET ((Nat \ {0}) \X Occurrences), state: JobStates,
        after: Nat, generation: Nat, attempt: Nat, leased: BOOLEAN, backoff: BOOLEAN]
JobEvent == [job: Nat \ {0}, kind: {"queued", "failed", "complete"}, attempt: Nat]

(* A claim in memory; job 0 is no claim.                                   *)
NoClaim == [job |-> 0, generation |-> 0, attempt |-> 0]
Holder == [phase: {"idle", "holding", "down"},
           claim: [job: Nat, generation: Nat, attempt: Nat]]
Resting == [phase |-> "idle", claim |-> NoClaim]

Holds(w, j) == worker[w].phase = "holding" /\ worker[w].claim.job = j

(* The condition of every UPDATE a worker makes with its claim.            *)
MutCurrent(w) == jobs[worker[w].claim.job].state = "claimed"
Current(w) ==
    LET row == jobs[worker[w].claim.job] IN
    row.state = "claimed" /\ row.generation = worker[w].claim.generation

(* What ClaimRecurrenceJob may take; the mutant never takes a claimed row. *)
MutClaimable(row) == row.state \in {"pending", "failed"} /\ ~row.backoff
Claimable(row) ==
    \/ row.state \in {"pending", "failed"} /\ ~row.backoff
    \/ row.state = "claimed" /\ ~row.leased

JobsInit ==
    /\ fixes = <<>>
    /\ retracted = {}
    /\ jobs = <<>>
    /\ journal = {}
    /\ observed = {}
    /\ worker = [w \in Workers |-> Resting]
    /\ faults = 0

(***************************************************************************)
(* The user and the reconciler.                                            *)
(***************************************************************************)

(* The annotation and its monitoring subject; the subject has no scope     *)
(* when the anchor's session has none.                                     *)
RecordFixAnnotation ==
    /\ Len(fixes) < MaxFixes
    /\ \E captured \in BOOLEAN : fixes' = Append(fixes, captured)
    /\ UNCHANGED <<retracted, jobs, journal, observed, worker, faults>>

(* A fix is retracted at most once.                                        *)
RetractFixAnnotation ==
    /\ \E a \in 1..Len(fixes) : a \notin retracted /\ retracted' = retracted \cup {a}
    /\ UNCHANGED <<fixes, jobs, journal, observed, worker, faults>>

(* The job of a publication, in the transaction of the publication.        *)
(* matches is what its occurrences have in common with the fixes there     *)
(* are; without fixes the job is complete at once.                         *)
EnqueueRecurrenceJob ==
    LET j == Len(jobs) + 1
        snapshot == Len(fixes)
        state == IF snapshot = 0 THEN "complete" ELSE "pending"
    IN  /\ Len(jobs) < MaxJobs
        /\ \E matches \in SUBSET ((1..snapshot) \X Occurrences) :
              jobs' = Append(jobs, [snapshot |-> snapshot, matches |-> matches,
                                    state |-> state, after |-> 0, generation |-> 0,
                                    attempt |-> 0, leased |-> FALSE, backoff |-> FALSE])
        /\ journal' = journal \cup {[job |-> j, kind |-> "queued", attempt |-> 0]} \cup
              (IF snapshot = 0 THEN {[job |-> j, kind |-> "complete", attempt |-> 0]} ELSE {})
        /\ UNCHANGED <<fixVars, observed, worker, faults>>

(***************************************************************************)
(* The worker.                                                             *)
(***************************************************************************)

(* ClaimRecurrenceJob: the first row that may be taken gets the next       *)
(* generation and attempt and a lease.                                     *)
ClaimRecurrenceJob(w, j) ==
    LET row == jobs[j] IN
    /\ worker[w].phase = "idle"
    /\ Claimable(row)
    /\ \A i \in 1..j - 1 : ~Claimable(jobs[i])
    /\ jobs' = [jobs EXCEPT ![j] = [row EXCEPT !.state = "claimed",
                                               !.generation = row.generation + 1,
                                               !.attempt = row.attempt + 1,
                                               !.leased = TRUE]]
    /\ worker' = [worker EXCEPT ![w] =
          [phase |-> "holding", claim |-> [job |-> j, generation |-> row.generation + 1,
                                           attempt |-> row.attempt + 1]]]
    /\ UNCHANGED <<fixVars, journal, observed, faults>>

(* The annotations of a batch: the next BatchLimit after the position the  *)
(* row stores, up to its snapshot.                                         *)
Batch(row) == {a \in row.after + 1..row.snapshot : a <= row.after + BatchLimit}
(* The position after the batch.                                           *)
Position(row) == IF row.after + BatchLimit < row.snapshot THEN row.after + BatchLimit
                 ELSE IF row.after < row.snapshot THEN row.snapshot ELSE row.after

(* Mutant: the retractions are not looked at again.                        *)
MutRecurrences(row) == {m \in row.matches : m[1] \in Batch(row) /\ fixes[m[1]]}

(* What the batch observes: the matches of annotations that have a scope   *)
(* and are not retracted when it runs.                                     *)
Recurrences(row) ==
    {m \in row.matches : m[1] \in Batch(row) \ retracted /\ fixes[m[1]]}

(* ProcessRecurrenceBatch.  An observation that is already there is left   *)
(* as it is; the position and the observations commit together; the last   *)
(* batch ends the claim, an earlier one renews the lease.                  *)
ProcessRecurrenceBatch(w) ==
    LET claim == worker[w].claim
        row == jobs[claim.job]
        next == Position(row)
        completed == Cardinality(Batch(row)) < BatchLimit \/ next >= row.snapshot
    IN  /\ worker[w].phase = "holding"
        /\ Current(w)
        /\ observed' = observed \cup Recurrences(row)
        /\ jobs' = [jobs EXCEPT ![claim.job] =
              [row EXCEPT !.after = next,
                          !.state = IF completed THEN "complete" ELSE "claimed",
                          !.leased = ~completed]]
        /\ journal' = IF completed
                      THEN journal \cup {[job |-> claim.job, kind |-> "complete",
                                          attempt |-> row.attempt]}
                      ELSE journal
        /\ worker' = IF completed THEN [worker EXCEPT ![w] = Resting] ELSE worker
        /\ UNCHANGED <<fixVars, faults>>

(* ErrStaleRecurrenceJob: nothing is written, and the next job is claimed. *)
DropStaleClaim(w) ==
    /\ worker[w].phase = "holding"
    /\ ~Current(w)
    /\ worker' = [worker EXCEPT ![w] = Resting]
    /\ UNCHANGED <<fixVars, jobs, journal, observed, faults>>

(* The evaluation of a batch fails: FailRecurrenceJob records it with a    *)
(* retry time, unless the claim is stale.                                  *)
FailRecurrenceJob(w) ==
    LET claim == worker[w].claim IN
    /\ worker[w].phase = "holding"
    /\ faults < MaxFaults
    /\ faults' = faults + 1
    /\ worker' = [worker EXCEPT ![w] = Resting]
    /\ IF Current(w)
       THEN /\ jobs' = [jobs EXCEPT ![claim.job] =
                  [@ EXCEPT !.state = "failed", !.leased = FALSE, !.backoff = TRUE]]
            /\ journal' = journal \cup {[job |-> claim.job, kind |-> "failed",
                                         attempt |-> claim.attempt]}
       ELSE UNCHANGED <<jobs, journal>>
    /\ UNCHANGED <<fixVars, observed>>

(* The worker drops a claim and leaves the row claimed: FailRecurrenceJob  *)
(* met a storage error, the context was cancelled, or the batch could not  *)
(* read the row, which it reports as a stale claim.                        *)
AbandonClaim(w) ==
    /\ worker[w].phase = "holding"
    /\ faults < MaxFaults
    /\ faults' = faults + 1
    /\ worker' = [worker EXCEPT ![w] = Resting]
    /\ UNCHANGED <<fixVars, jobs, journal, observed>>

(* The process of a worker dies with its claim, and is started again.      *)
WorkerCrash(w) ==
    /\ worker[w].phase # "down"
    /\ faults < MaxFaults
    /\ faults' = faults + 1
    /\ worker' = [worker EXCEPT ![w] = [Resting EXCEPT !.phase = "down"]]
    /\ UNCHANGED <<fixVars, jobs, journal, observed>>

WorkerRestart(w) ==
    /\ worker[w].phase = "down"
    /\ worker' = [worker EXCEPT ![w] = Resting]
    /\ UNCHANGED <<fixVars, jobs, journal, observed, faults>>

(***************************************************************************)
(* The clock.                                                              *)
(***************************************************************************)

(* A lease runs out: of a claim nobody holds any more, or of one whose     *)
(* worker is suspended or waits for the database for thirty seconds.       *)
Expire(j) ==
    /\ jobs[j].state = "claimed"
    /\ jobs[j].leased
    /\ jobs' = [jobs EXCEPT ![j] = [@ EXCEPT !.leased = FALSE]]
    /\ UNCHANGED <<fixVars, journal, observed, worker>>

LeaseExpires(j) ==
    /\ \A w \in Workers : Holds(w, j) => ~Current(w)
    /\ Expire(j)
    /\ UNCHANGED faults

LeaseOutrun(j) ==
    /\ \E w \in Workers : Holds(w, j) /\ Current(w)
    /\ faults < MaxFaults
    /\ faults' = faults + 1
    /\ Expire(j)

RetryDue(j) ==
    /\ jobs[j].backoff
    /\ jobs' = [jobs EXCEPT ![j] = [@ EXCEPT !.backoff = FALSE]]
    /\ UNCHANGED <<fixVars, journal, observed, worker, faults>>

-----------------------------------------------------------------------------
Work(w) ==
    \/ \E j \in 1..Len(jobs) : ClaimRecurrenceJob(w, j)
    \/ ProcessRecurrenceBatch(w)
    \/ DropStaleClaim(w)
    \/ WorkerRestart(w)

Disturb(w) == FailRecurrenceJob(w) \/ AbandonClaim(w) \/ WorkerCrash(w)

Tick(j) == LeaseExpires(j) \/ RetryDue(j)

JobsNext ==
    \/ RecordFixAnnotation
    \/ RetractFixAnnotation
    \/ EnqueueRecurrenceJob
    \/ \E w \in Workers : Work(w) \/ Disturb(w)
    \/ \E j \in 1..Len(jobs) : Tick(j) \/ LeaseOutrun(j)

JobsSpec == JobsInit /\ [][JobsNext]_jobVars

(* runLocalRecovery calls Recover every two seconds for as long as the     *)
(* process lives, and the clock goes on.                                   *)
JobsFairness ==
    /\ \A w \in Workers : WF_jobVars(Work(w))
    /\ \A j \in 1..MaxJobs : WF_jobVars(j <= Len(jobs) /\ Tick(j))

FairJobsSpec == JobsSpec /\ JobsFairness

-----------------------------------------------------------------------------
(* The tables keep their shape, and positions stay within the snapshot.    *)
JobsTypeOK ==
    /\ fixes \in Seq(BOOLEAN)
    /\ retracted \subseteq 1..Len(fixes)
    /\ jobs \in Seq(Row)
    /\ \A j \in 1..Len(jobs) :
          /\ jobs[j].snapshot <= Len(fixes)
          /\ jobs[j].after <= jobs[j].snapshot
    /\ journal \subseteq JobEvent
    /\ observed \subseteq (Nat \ {0}) \X Occurrences
    /\ worker \in [Workers -> Holder]
    /\ \A w \in Workers : worker[w].phase = "holding" => worker[w].claim.job \in 1..Len(jobs)
    /\ faults \in Nat

(* Whatever leases run out while their workers go on, at most one worker   *)
(* holds a claim of a job that a batch or a failure could still commit.    *)
OneCurrentClaim ==
    \A w1, w2 \in Workers :
        /\ worker[w1].phase = "holding" /\ worker[w2].phase = "holding"
        /\ worker[w1].claim.job = worker[w2].claim.job
        /\ Current(w1) /\ Current(w2)
        => w1 = w2

(* No fix recorded before a publication escapes comparison with it: when a *)
(* job is complete, each of its matches is observed, or was taken back, or *)
(* has no scope to compare.                                                *)
NoRecurrenceLost ==
    \A j \in 1..Len(jobs) : jobs[j].state = "complete" =>
        \A m \in jobs[j].matches : m \in observed \/ m[1] \in retracted \/ ~fixes[m[1]]

(* Snapshot readers see the ledger of job events, not the operational row. *)
(* The two agree: an attempt ends once, the last attempt of a failed job   *)
(* is a recorded failure, and a job has a completion exactly when its row  *)
(* is complete.                                                            *)
EventsOf(j, kind) == {e \in journal : e.job = j /\ e.kind = kind}
LedgerAgrees ==
    \A j \in 1..Len(jobs) :
        LET row == jobs[j]
            ended == EventsOf(j, "failed") \cup EventsOf(j, "complete")
        IN  /\ Cardinality(EventsOf(j, "queued")) = 1
            /\ \A e1, e2 \in ended : e1.attempt = e2.attempt => e1 = e2
            /\ \A e \in ended : e.attempt <= row.attempt
            /\ row.state \in {"failed", "complete"} =>
                  \E e \in ended : e.kind = row.state /\ e.attempt = row.attempt
            /\ row.state # "complete" => EventsOf(j, "complete") = {}

(* Every published analysis is compared with its fixes in the end, through *)
(* failures, outrun leases and crashes.                                    *)
JobsComplete ==
    \A j \in 1..MaxJobs : (j <= Len(jobs)) ~> (j <= Len(jobs) /\ jobs[j].state = "complete")

(* The queue implements the promise: batches, leases, attempts and workers *)
(* are its own business.                                                   *)
Evaluations ==
    [j \in 1..Len(jobs) |->
        [snapshot |-> jobs[j].snapshot, matches |-> jobs[j].matches, through |-> jobs[j].after]]

Promise == INSTANCE RecurrenceEvaluation WITH evaluations <- Evaluations

EvaluatesOnce == Promise!EvaluationSpec

(* What keeps a stale worker out: a claim is never ahead of its row, and   *)
(* two workers never got the same generation of a job.                     *)
ClaimsNumbered ==
    /\ \A w \in Workers : worker[w].phase = "holding" =>
          worker[w].claim.generation <= jobs[worker[w].claim.job].generation
    /\ \A w1, w2 \in Workers :
          /\ worker[w1].phase = "holding" /\ worker[w2].phase = "holding"
          /\ worker[w1].claim.job = worker[w2].claim.job
          /\ worker[w1].claim.generation = worker[w2].claim.generation
          => w1 = w2

(* What was judged is settled: up to the position of each job every match  *)
(* is observed, retracted or without a scope; a complete job is at its     *)
(* end.                                                                    *)
JudgedSoFar ==
    \A j \in 1..Len(jobs) :
        /\ jobs[j].matches \subseteq (1..jobs[j].snapshot) \X Occurrences
        /\ jobs[j].state = "complete" => jobs[j].after = jobs[j].snapshot
        /\ \A m \in jobs[j].matches : m[1] <= jobs[j].after =>
              m \in observed \/ m[1] \in retracted \/ ~fixes[m[1]]

(* The inductive invariant.                                                *)
JobsInv == JobsTypeOK /\ ClaimsNumbered /\ JudgedSoFar
=============================================================================
