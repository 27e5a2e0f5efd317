# Belay Local: a TLA+ verification development

Belay Local imports the activity of coding agents into one encrypted SQLite
database, analyses every session again when its inputs change, keeps versioned
evidence of the issues it finds, watches whether fixed issues come back, learns
lessons ("experiences") from them and delivers the approved ones to agents in
Mission Packs. This directory holds TLA+ modules of that program, TLC
configurations that check them on small instances, and TLAPS proofs for all
instances.

| Section | |
|---|---|
| 1 | Inventory: the parts of the system, their state, how they interact |
| 2 | What is hard in it, and what makes it correct |
| 3 | The modules: what each models and how it maps to the code |
| 4 | The runs: what each checks, its bounds and why they are enough |
| 5 | Fairness, and why the code justifies it |
| 6 | The proofs |
| 7 | Where the code and its documents disagree |
| 8 | What is only model-checked, and what is not modelled |
| 9 | What could come next |

To check a run: `tlc -config <run>.cfg <module>` (section 4 names the module).
To check a proof: `tlapm <module>Proofs.tla`. `PROJECT.json` lists components,
runs, the source lines of each definition, hazards and theorems.

## 1. Inventory

Paths are relative to `src/`. "TX" means one SQLite transaction: the store
opens its database with an exclusive lock at BEGIN and one connection per
`Store` handle (`internal/storage/local/store.go`), so a transaction is atomic
towards every other handle and process. Everything outside a transaction
interleaves.

| Component | State | Operations | Talks to |
|---|---|---|---|
| Canonical event and finding store (`storage/local/store.go`) | `events`, `event_read_order`, `findings`, import runs, quarantine | append an event (TX, dedup, dirty mark), record a finding (TX, **no** dirty mark), begin and finish imports | importer, reconciler |
| Import pipeline (`pipeline/importer.go`, `analysis/enrichment.go`) | counters of one run | per record: scope, event, enrichment, finding, then mark, each a transaction of its own | store |
| Session analysis projection (`storage/local/projection.go`, `analysis/reconciler.go`) | `dirty_sessions`, `session_analysis_revisions`, `issue_occurrences`, one generation counter | mark dirty, claim, read inputs (four unlocked reads), publish (compare target), fail with back-off, Startup, Drain | importers, detectors, recurrence jobs, readers with cursors |
| Retention (`storage/local/retention.go`) | horizon of retained generations | `belay prune`: one TX that selects, marks and deletes across all of the above | everything that holds a claim, a cursor or a job |
| Recurrence worker (`storage/local/recurrence_jobs.go`, `recurrence_repository.go`, `analysis/recurrence_worker.go`) | `fix_recurrence_jobs` (lease, token, attempt, position), observations, catch-up readiness | claim, process a batch, fail, prepare / complete / fail catch-up; Startup, Drain, Recover | projection (jobs enqueued by a publication), fixes |
| Fix annotations (`storage/local/fix_repository.go`, `fix_token.go`) | annotations, retractions, epochs | record and retract a fix against a token minted from an issue read | issue readers, recurrence jobs |
| Issue and attention read side (`issue_repository.go`, `issue_summary_projection.go`, `attention_family_repository.go`, `issue_cursor.go`, `readmodel`) | summaries derived in the projection's transactions | paged reads at a generation, cursors | UI, MCP |
| Transcripts (`localapp/transcript.go`, `transcript_repository.go`, `acquisition/transcript`) | one cursor file per transcript, `transcript_sessions`, `transcript_turns`, coverage | discover groups, open, read a chunk, commit turns and coverage (TX), save cursors by rename; a tailer and a backfill | agents' files, evaluation, analyses |
| Transcript analyses (`localapp/trajectory_analysis.go`, `issue_analysis.go`, `trajectory_*repository.go`, `cost_issue_repository.go`) | trajectories and their derivation state, cost issues, one generation per project | derive a session (several TX), requeue the project, load a project by queries, replace its issues (TX, compare) | transcripts, read side |
| Live tailer and historical scan (`localapp/tailer.go`, `localapp/runtime.go`) | spool file, tail cursor file | read a batch, import it record by record, save the cursor by rename; historical discovery and scan | acquisition, importer |
| Intelligence lease (`localapp/intelligence_*.go`) | a lock file, the owner's worker loops | acquire, open a store, run the loops, drain, release; a readiness probe | every background analysis |
| Experience lifecycle (`experience`, `storage/local/experience_*.go`, `localapp/experience_*.go`) | candidates, proposals, approvals, review actions, the transition log and its column, generations | preview (mints a token), approve, defer, reject, activate, pause, supersede, expire, compile, roll back | UI, mission packs |
| Experience evaluation (`localapp/experience_evaluation.go`, `experience/evaluate`) | the stored evaluation of each application | query what changed, read evidence, derive, apply (TX) | transcripts, applications |
| Mission packs (`missionpack`, `storage/local/mission_pack_*.go`, `localapp/mission_pack*.go`) | previews, packs, receipts, progress, applications | preview, accept, reconcile receipts with sessions, materialise applications | generations, transcripts, MCP agents |
| Encrypted payload lifecycle (`lifecycle.go`, `crypto.go`, `keychain.go`, `keyfile.go`, `dpapi_*.go`) | key, store mode, cleanup flag | open, create or recover a key, turn a plaintext store into an encrypted one, wipe | every open |
| Schema migrations (`migrations/*.sql`, `*_migration.go`) | schema version | run in order at open, with back-fills | every open |
| MCP configuration (`localapp/mcp_config*.go`) | agents' registries, ownership manifest, lock | install and uninstall the Belay entry, inspect, restore | user's files, agents' CLIs |
| Update check (`updatecheck`) | one state file | check, opt out, remind later, dismiss | network |
| Telemetry (`telemetry`) | one state file | send or skip | network |
| Mutation requests (`storage/local/mutation.go`, `localaction`) | idempotency keys, guards on a connection | execute once, replay the stored result | UI, MCP |
| Semantic harness and analysis (`semantic_*.go`) | run records | run an agent's CLI with time and cost limits | analyses |
| Canonical model and detectors (`canonical`, `detection`, `pricing`, `userinsights`) | none | pure functions of a session's records | importer, reconciler, analyses |
| Acquisition (`acquisition/numbat`) | external agent histories | run the Numbat helper, parse | tailer |
| Presentation (`presentation/localhttp`, `localmcp`, web assets) | session token | read models and mutation endpoints on loopback | store |
| Commands (`cmd/belay`), evaluation (`cmd/belay-eval`, `evalrun`), scripts | processes and background loops | start the loops: import, poll, recover | all of the above |

How the parts meet at run time: `belay local` is one process with a server, a
recovery goroutine (`cmd/belay/local.go`, `runLocalRecovery`: Startup of the
reconciler and of the recurrence worker, then Recover every two seconds), a
live tailer with a reconciler and a `Store` handle of its own, and an
intelligence runtime. Any number of `belay mcp` processes run the same recovery
goroutine and the same runtime over the same file, but only the runtime that
holds the intelligence lease runs the loops for transcripts, trajectories,
issues, evaluations and Mission Packs. `belay import`, `belay prune` and
`belay mcp install` are processes that come and go. None of them talks to
another: the database and a few files in Belay's home are the only channel, and
every claim, lease, generation and token is a row or a file in it.

## 2. What is hard, and what makes it correct

The hazards are listed with their lines in `PROJECT.json`. They come from six
sources.

* **Reads outside a transaction.** An analysis reads scope, events, enrichments
  and findings in four statements and publishes later; the issue analysis loads
  a project query by query; a derivation reads a session after it claimed its
  fingerprint; opening a database counts payloads, reads metadata and looks for
  the key in separate steps. Correct means: what is published was computed from
  what is there now; a key is made only for a store with nothing sealed.
* **Claims without an owner.** A dirty row has no lease, a recurrence job has
  one that may run out under a live worker, the intelligence lease is taken for
  an instant by probes. Correct means: at most one holder can still commit, and
  no row is left behind for ever.
* **Two commits where one is meant.** A finding and its dirty mark; an import
  and its cursor file, for the spool and for transcripts; an application and the
  tick of its receipt; a lifecycle transition and its compilation; edges and the
  requeue that follows; an entry in a registry and the manifest. Correct means:
  whatever dies in between, something is left that makes a later step finish the
  work, and nothing claims to be finished before.
* **Tokens and previews that grow old.** A fix, an approval, a lifecycle action
  and a Mission Pack are all decided on what a client saw minutes earlier.
  Correct means: nothing takes effect against what the user did since.
* **Generations that readers keep.** A cursor carries a generation and pages
  with it over rows that later commits close or a prune deletes. Correct means:
  a cursor reads the same rows for ever, or is refused.
* **Work shared by processes that do not know of each other.** Catch-up is
  counted over the work of all, completed by anyone and failed by anyone; two
  importers of transcripts overwrite each other's cursors. Correct means: ready
  and complete are earned, and reached.

What makes each component correct, in one line:

| Component | Must hold | Stated as |
|---|---|---|
| Projection | a session shown as current was analysed with its present inputs; nothing dirty is forgotten; evidence follows the last completed analysis | `CurrentIsComplete`, `DirtySettles`, `OccurrencesFollowAnalysis`, `JobPerCompletedRevision` |
| Import | a committed finding reaches an analysis; the order of imports never moves a session to another project | `FindingsCovered`, `FindingsAreAnalysed`, `ScopeNeverReassigned` |
| Retention | no citation dangles; pending work keeps its evidence; retained cursors do not change | `CitationsResolve`, `PendingEvidenceIsKept`, `RetainedSnapshotsAreStable` |
| Recurrence jobs | every analysis is compared once with every fix recorded before it | `EvaluatesOnce`, `LedgerAgrees`, `JobsComplete` |
| Catch-up | ready is earned, and reached | `ReadyIsEarned`, `MonitoringBecomesReady` |
| Opening | one key, never replaced; open only when clean | `OneKey`, `NoReplacementKey`, `OpenIsClean` |
| Spool tailer | no line is passed over | `SpoolIsNotSkipped` |
| Transcripts | cursors never run ahead of the store; complete is earned; every turn arrives | `NothingSkipped`, `CompleteIsEarned`, `EveryTurnIsImported` |
| Transcript analyses | issues and derivations are of the turns there are | `IssuesAreOfTheGeneration`, `DerivationsAreWhole`, `AnalysisSettles` |
| Intelligence lease | workers run only under the lease | `WorkersHoldLease` |
| Evaluation | evaluations follow the session; only older updates are missed | `OnlyEarlierWritesAreMissed`, `EvaluationsCatchUp` |
| Experience lifecycle | the column is what the log says; an answer of the user beats an older token; only legal histories | `LifecycleProjected`, `ReviewBeatsApproval`, `LifecycleIsRespected` |
| Mission packs | packs cite what is in force; receipts are bound in their window and settled with all their applications | `GenerationFollowsLifecycle`, `DeliveredIsInForce`, `BoundWithinWindow`, `ApplicationsTrace`, `ReceiptsComplete` |
| MCP configuration | foreign entries are left alone; entries and manifest agree | `ForeignIsPreserved`, `OwnershipAgrees` |
| Update check | a choice outlives a check in flight | `ChoicesAreKept` |

## 3. The modules

| Module | Uses | What it is |
|---|---|---|
| `SessionProjection` | | importers, dirty queue, reconcilers, publication |
| `ProjectionRetention` | extends `SessionProjection` | the same with `belay prune` and the end of a recurrence job |
| `RecurrenceEvaluation` | | abstract: what monitoring promises |
| `RecurrenceJobs` | `INSTANCE RecurrenceEvaluation` | the leased job queue that keeps the promise |
| `RecurrenceCatchup` | | the recovery goroutine of each process and the readiness they share |
| `ExperienceStates` | | abstract: which lifecycle state may follow which |
| `ExperienceReview` | `INSTANCE ExperienceStates` | previews, tokens, approval, review and lifecycle actions |
| `ExperienceGenerations` | | the generations of a project: compile, activate, roll back |
| `MissionPacks` | extends `ExperienceGenerations` | lifecycle, compilation, packs, receipts, applications, the background pass |
| `IntelligenceLease` | | who runs the background workers |
| `ExperienceEvaluation` | extends `IntelligenceLease` | evaluation passes of the lease's owner against writers outside it |
| `TranscriptImport` | | the files of a session, their cursors, tailer and backfill |
| `TranscriptAnalysis` | | derivation of trajectories and the issue analysis of a project |
| `StoreOpening` | | concurrent opens: identity, key, upgrade, cleanup |
| `SpoolTail` | | the live tailer and its cursor file |
| `MCPConfig` | | install and uninstall with inspections, manifest and lock |
| `UpdateCheck` | | the check, its state file and the user's choices |
| `MCSessionProjection`, `MCProjectionRetention`, `MCExperienceReview`, `MCMissionPacks`, `MCTranscriptImport`, `MCTranscriptAnalysis` | the module of the name | values of its constants |
| `MCLocalState` | `StoreOpening`, `SpoolTail`, `MCPConfig`, `UpdateCheck` | the files of Belay's home: one behaviour is one of the four, which share no variable |
| `ProjectionProofs` | `SessionProjection`, `ProjectionRetention` | theorems |
| `RecurrenceProofs` | `RecurrenceJobs`, `RecurrenceCatchup` | theorems |
| `ExperienceReviewProofs`, `MissionPacksProofs`, `ExperienceEvaluationProofs`, `TranscriptImportProofs`, `TranscriptAnalysisProofs` | the module of the name | theorems |
| `LocalStateProofs` | the four modules of `MCLocalState` | theorems |

Common conventions. One action is one store transaction: the DSN asks for an
exclusive lock at BEGIN (`_txlock=exclusive`) and a `Store` has one connection,
so transactions of different handles do not overlap. A read that the code makes
outside a transaction is an action of its own. Where only "due or not" matters,
time is a Boolean of the row that a clock action clears; where lifetimes and
windows are compared it is a small counter. Every counter that could grow
without end has a bound in the guard of the action that advances it, and the
bound is a CONSTANT whose name starts with `Max`. Operators whose names start
with `Mut` are variants of a definition with a plausible mistake; no
specification uses them, they show that each property can fail.

### SessionProjection

| Variable | In the code |
|---|---|
| `events`, `lastEvent` | `events`, `event_read_order` |
| `scope`, `enrich`, `finds` | `session_scopes`; versions of a session's `event_enrichments` and `findings` |
| `unmarked` | the importer's stack between `RecordFindingResolved` and `MarkSessionDirty` |
| `dirty` | `dirty_sessions`: state, target generation, `retry_at` in the future |
| `gen`, `expiry` | `issue_projection_metadata`: current generation, retention generation |
| `revs`, `occs`, `jobs` | `session_analysis_revisions`, `issue_occurrences` with their citations, `fix_recurrence_jobs` |
| `worker`, `todo` | what each `analysis.Reconciler` holds in memory; what its Startup has still to mark |
| `published` | history: the inputs of the last completed analysis |

| Action | In the code |
|---|---|
| `AppendEvent` | `AppendEventResolved`, with the dirty mark in its transaction |
| `UpsertSessionScope`, `UpsertEventEnrichment` | the same names, merge and mark in one transaction |
| `RecordFinding`, `MarkFinding` | `RecordFindingResolved`, then `MarkSessionDirty` in a second transaction (`pipeline/importer.go`) |
| `StartupSnapshot`, `StartupMark`, `StartupEnds` | `Reconciler.Startup`: list, one mark per session, drain |
| `Claim` | `ClaimDirtySession` |
| `ReadScope`, `ReadEvents`, `ReadEnrichments`, `ReadFindings` | the four reads of `reconcileSession` |
| `Publish`, `Discard` | `ReplaceSessionProjection`, and its `ErrStaleProjection` |
| `Fail`, `Abandon` | `Reconciler.fail` with `PublishAnalysisFailure`; a storage error that ends the drain |
| `RetryDue`, `Crash`, `Restart` | the clock, and processes that die and are started again |

`MarkDirty` is `markSessionDirtyTx`: next target, next generation, close the
open revision, insert a pending one. It is part of every action that calls it.

Abstractions: the reads of events and findings, which page, are one read each,
because the page snapshot is fixed by the first page; a truncated analysis
reads everything too and differs in its status; any due row may be claimed
although the code takes the oldest, which only adds behaviours; what the
detectors find is any set of the events they were given; diagnostics, issue
summaries, attempt counts and retry delays are left out.

### ProjectionRetention

Adds `oldest` (the retained horizon) and two actions. `Prune` is `Store.Prune`
whole: select, mark the affected sessions, delete findings, occurrences and
events, then scopes, complete jobs, revisions and dirty rows of sessions with
no event left, then move the horizon. Ages, counts and byte limits decide what
is selected, and the module has no sizes, so any set that the code's protection
rules allow may be selected (`Selectable`); a row's age is the generation that
last wrote it. `FinishRecurrenceJob` stands for `RecurrenceJobs`.

### RecurrenceEvaluation and RecurrenceJobs

`RecurrenceEvaluation` is the promise: fixes are recorded and retracted,
analyses are published, and each analysis is judged against the fixes recorded
before it, in order and once (`Judge`). `RecurrenceJobs` is the code:

| Variable | In the code |
|---|---|
| `fixes`, `retracted` | `fix_annotations` with the scope capture of the monitoring subject, `fix_annotation_retractions` |
| `jobs` | `fix_recurrence_jobs`; the index is the sequence |
| `journal` | `fix_recurrence_job_events`, the ledger that snapshot readers use |
| `observed` | `fix_recurrence_observations` |
| `worker` | a claim in memory: job, generation, attempt |

| Action | In the code |
|---|---|
| `RecordFixAnnotation`, `RetractFixAnnotation` | `fix_repository.go` |
| `EnqueueRecurrenceJob` | `enqueueRecurrenceJobTx`, called by a publication |
| `ClaimRecurrenceJob`, `ProcessRecurrenceBatch`, `FailRecurrenceJob` | the same names in `recurrence_jobs.go` |
| `DropStaleClaim`, `AbandonClaim` | `ErrStaleRecurrenceJob`; a failure that could not be recorded |
| `LeaseExpires`, `LeaseOutrun`, `RetryDue` | the clock: of a dead owner, of a live one that is late, of a failed job |
| `WorkerCrash`, `WorkerRestart` | a process |

`claim_token` is a new random value for each `claim_generation` and is not a
variable of its own. `matches` is fixed when a job is enqueued: the occurrences
of a published revision do not change, and retention keeps them while the job
is pending (`PendingEvidenceIsKept` in `ProjectionRetention`).

### RecurrenceCatchup

The stages of `runLocalRecovery` in each process (`stage`), over a session's
analysis and a job abstracted to one row that is pending, claimed, failed or
done; `readiness` is `fix_monitoring_metadata.readiness`, `marked` the fact that
legacy sessions were marked, `capable` the sessions analysed since with their
capabilities recorded. The two transactions of `PrepareFixMonitoringCatchup`
are two actions, as are the read and the transaction of
`completeCatchupIfNeeded`. An analysis that completes is taken to be complete,
never truncated.

### StoreOpening

`OpenWithOptions` and `initializeEncryptedPayloads`, statement by statement,
for several processes: find or insert the store ID, count payloads, read the
metadata, load or create the key, check it, encrypt what is in plaintext, remove
the plaintext the upgrade leaves, clear the flag. `stage` is where a process is,
`view` what it read and still believes, `key` the data key it holds. On disk:
`identified`, `keyCheck`, `cleanup` (`local_store_metadata`), `plain` and
`sealed` (the encodings of payload rows), `remnants` (where obsolete plaintext
bytes still are: database pages, write-ahead log), and `keyFile`, `storedKey`.

The key store is the file provider; its creation is O_EXCL, two writes, sync
and close, so others can see it empty or torn. The macOS keychain creates in
one external command and has fewer behaviours. `withdrawn` records that a
creator whose sync failed removed a key file that somebody had already loaded:
the code does not protect that case, so `OneKey` and `NoReplacementKey` exempt
it and it is listed as a hazard. `LoseKey` happens only while nobody has the
database open. `DropLog` is refused while another process is connected, as
SQLite refuses to leave WAL mode.


### SpoolTail, MCPConfig, UpdateCheck and MCLocalState

The other files of Belay's home. Each module is complete on its own;
`MCLocalState` chooses in its initial state which of the four a behaviour is
about, because they share no variable and their product says nothing more.

`SpoolTail`: `Append` and `Replace` are the acquisition helper's, `ReadSpool`
(cursor, identity of the file, complete lines up to a limit), `ImportRecord`
(one transaction each) and `SaveTailCursor` (rename) are `tailer.go`,
`TailFails` is an error or a death anywhere.

`MCPConfig`: `Begin` and `Lock`, then for each target `StatusTarget`, `Recheck`
(the inspection again, right before a change), `Remove` and `Removed`, `Add` or
`Refused`, `Verify`, at the end `WriteManifest`; `InspectionFails`, `Die`, and
`Edit` by the user. `entry` is the registries, `manifest` the ownership
manifest. File registries (Cursor, Antigravity), Claude's CLI and Codex's CLI
differ in what an add does to an entry that is already there.

`UpdateCheck`: `AskServer` and `Answer` with the lock released between them;
`SetOptOut`, `Remind`, `Dismiss` by the user; `Publish` and `Tick` outside.

### ExperienceStates and ExperienceReview

`ExperienceStates` is the promise: the lifecycle of each experience is a path in
the transition table of `experience/lifecycle.go`. `ExperienceReview` is the
code:

| Variable | In the code |
|---|---|
| `approvalTokens`, `lifecycleTokens` | every token ever minted: its claims and the time of issue |
| `request` | what a client's request holds between the service (token decoded, time taken) and the transaction |
| `reviews`, `approval` | `experience_review_actions`, the approved version |
| `lifecycle`, `transitions` | the column of `experiences`, the log `experience_transitions` |

A preview mints a token; a request decodes a token and takes the time; a
transaction approves, records a review or applies a lifecycle action, or the
request is refused or dies. Tokens are strings in the hands of a client: any of
them may be presented by any client, late, twice or never. What a proposal says
and how a token is sealed is left out.

### ExperienceGenerations and MissionPacks

`ExperienceGenerations` has the three operations of the store that move the
active mark: `Compile`, `ActivateGeneration`, `Rollback`. `MissionPacks` uses
`Compile`, the only one the services call.

| Variable | In the code |
|---|---|
| `generations`, `lastActive` | `experience_generations`; history: which one was active before |
| `lifecycle`, `owed`, `lost` | the experiences' column; callers between the transition and the compilation; history: one died there |
| `previews`, `receipts`, `progress`, `applications` | the tables `mission_pack_previews`, `mission_pack_receipts`, `mission_pack_receipt_applications`, `experience_applications` |
| `turns` | the imported turns that make a session compatible with a receipt |
| `pass` | what the background pass holds between two transactions |

| Action | In the code |
|---|---|
| `ApplyLifecycle`, then `CompileOwed` or `CompileLost` | the lifecycle action's transaction, then the compilation its caller makes or dies before |
| `Generate`, `Accept` | selection and registration of a preview; acceptance with all checks against the generation and the lifecycle (`validateMissionPackReceiptReferencesTx`) |
| `StartPass`, `Probe`, `Resolve` | `mission_pack_receipts.go`: the oldest unresolved receipts; the query of compatible sessions; the transaction that binds, expires or marks ambiguous |
| `StartMaterialize`, `EnsureProgress`, `InsertApplication`, `LinkApplication`, `NextReceipt`, `EndPass` | `mission_pack_applications.go`, one transaction each |
| `Crash`, `TransactionFails` | the lease's owner dies; one transaction fails and the pass goes on with the next |

Packs are sets of references; scores, token budgets and wording are left out.
Expiry of an experience and of a preview, and the binding window, are compared
with the clock `now`.

### IntelligenceLease and ExperienceEvaluation

`IntelligenceLease` is `intelligence_lock_*.go` and `intelligence_runtime.go`: a
runtime is waiting, opening its store, working, draining its loops, or ended;
`DiesWithHolder` tells a lock of the operating system from one that outlives its
process. `Probe` is the readiness check that takes the same lock for an instant.

`ExperienceEvaluation` runs one loop of the owner. `StartPass` takes the clock
and queries at most `Batch` applications with evidence newer than their stored
evaluation; `ReadEvidence` reads one session; `ApplyEvaluation` stores the
result; `Cancel` ends the pass. `BeginWrite` and `CommitWrite` are an importer
that takes the time before its transaction, as `transcript_repository.go` does.
The clock is a counter of readings, times `Stride`, because an evaluation may be
stored one tick after the one before it without the clock having moved.

### TranscriptImport

Files grow (`BeginLine`, `EndLine`: a line may be torn), are replaced, and the
group goes inactive. An importer loads the cursors and opens every file
(`Open`), reads a chunk of each and commits turns and coverage in one
transaction (`CommitBatch`), or finalises a session without new lines
(`Finalize`), or only claims the cursors (`Claim`); then it writes the cursors
one by one (`SaveCursor`). `Abandon` is an error or a death anywhere. The tailer
and the backfill are two importers with chunks of their own and rules of their
own about what they open.

### TranscriptAnalysis

Importers add a batch to a session and raise the project's generation in the
same transaction. The deriving worker: `ListDirtySessions` (with fingerprints),
`ReadSession`, `InsertTrajectoryEdge` (one transaction each),
`MarkDerivationCurrent` (compares the fingerprint), `DerivationFails`,
`MarkAnalysisDirty` (requeue, only if it inserted). The analysing worker:
`ListDirty`, `LoadSession` query by query, `LoadEdges`, `ReplaceIssues`
(compares the generation) or `AnalysisIsStale`. Either crashes anywhere. What is
derived is abstracted to the version of the session that it was derived from.

## 4. The runs

Runs that pass explore their whole state space; no CONSTRAINT, VIEW or symmetry
is used. Deadlock is not checked in any: every counter is at its bound in the
end and the system may rest. That something still goes on where it must is what
the liveness properties say.

| Run (`.cfg`) | Module | States | Question |
|---|---|---|---|
| `ProjectionRaces` | `MCSessionProjection` | 0.49 M | Can anything between the reads of an analysis and its publication make a session current with old inputs? Is every dirty session and every committed finding analysed, through a fault at any step? |
| `ProjectionSessions` | `MCSessionProjection` | 0.25 M | Do sessions that share one generation keep evidence and jobs with their analyses, scopes with their projects? |
| `ProjectionRetention` | `MCProjectionRetention` | 0.27 M | Does any prune between any two steps of two sessions lose a citation, pending evidence or a retained cursor? |
| `RecurrenceJobs` | `RecurrenceJobs` | 0.26 M | Does the leased queue keep the promise of one evaluation per analysis and fix, and end? |
| `RecurrenceCatchup` | `RecurrenceCatchup` | 0.32 M | Is readiness earned and, with processes that are started again, reached? |
| `LocalState` | `MCLocalState` | 3.3 M | One key and nothing open before it is clean; no line of the spool passed over; entries and manifest in agreement; no choice undone? |
| `ExperienceReview` | `MCExperienceReview` | 3.1 M | Can old tokens and concurrent requests overrule a review, or make log and column differ? |
| `MissionPacks` | `MCMissionPacks` | 1.8 M | Is what is delivered in force, and is every receipt settled with all its applications, whatever the pass fails or dies after? |
| `ExperienceEvaluation` | `ExperienceEvaluation` | 75 k | Do workers run only under the lease, and do evaluations follow sessions that are written meanwhile? |
| `TranscriptImport` | `MCTranscriptImport` | 0.26 M | Do two importers that overwrite each other's cursors lose a turn, or call a session complete too early? |
| `TranscriptAnalysis` | `MCTranscriptAnalysis` | 0.29 M | Are issues and derivations of what is there, and do both settle? |
| `UnqueuedEvidence` | `MCTranscriptAnalysis` | | finding, section 7 |

### Properties and the bounds they need

**ProjectionRaces**: one session, two reconcilers in two processes that each
begin with Startup, one event, one enrichment or finding, one fault.
`CurrentIsComplete`: the mixed snapshot needs one reconciler, one import and the
four separate reads; the second reconciler and the fault give the row a second
claim. `FindingsCovered`: a finding unseen by a completed analysis is always
owed by an importer or by the recovery of a dead one. `DirtySettles`,
`FindingsAreAnalysed` under fairness (section 5). Storage errors are off here:
with them a row may stay claimed until the next start, which fairness does not
promise.

**ProjectionSessions**: two sessions, one reconciler, lexical and resolved
scopes of two projects, one event, one fault, storage errors on. Two sessions
are needed because they advance one generation; three scopes give the upgrade
from lexical to resolved and the conflict. `OccurrencesFollowAnalysis`: at every
generation a session has one revision and the evidence of its last completed
analysis, also after a failed one. `JobPerCompletedRevision`,
`ScopeNeverReassigned`.

**ProjectionRetention**: one prune of any allowed selection and any age cut, two
sessions, two events. A second prune repeats the first from a state that the
first one's choices already reach. `CitationsResolve`, `PendingEvidenceIsKept`,
`RetainedSnapshotsAreStable`, and `RetainedRevisionAgrees`.

**RecurrenceJobs**: two workers, three fixes with a batch of two (one full
batch, one short one, and a number of fixes that the limit divides are all
reached), one job, two faults. The order between jobs is only a guard of the
claim. `LedgerAgrees` (an attempt ends once, and the ledger that snapshot
readers use agrees with the row), `EvaluatesOnce` (refinement), `JobsComplete`.

**RecurrenceCatchup**: two processes, one legacy session, two faults of any
kind: failures at each stage, a late worker, an exit, an import.
`ReadyIsEarned`; `MonitoringBecomesReady`, which exempts a session left claimed
by nobody (nothing but a start frees it).

**LocalState**: three processes, two payloads, two faults for the store: two
processes make every race of reading and writing, the third can close and open
between the steps of the two; two payloads make a partial upgrade possible. Two
tailers, three lines read two at a time, a spool replaced once, one failure. Two
commands of different builds with one registry of each of the three kinds, one
edit, one refusal, one death or failure. Two checks, three releases.
`OneKey`, `NoReplacementKey`, `OpenIsClean`, `SpoolIsNotSkipped`,
`OwnershipAgrees`, `ForeignIsPreserved`, `ChoicesAreKept`.

**ExperienceReview**: one candidate with two proposals (an approval of one and a
review of the other), two clients, two tokens of each kind that live for one
tick of a clock that ticks twice, so that tokens are used fresh, old and again.
`LifecycleProjected`, `ReviewBeatsApproval`, `LifecycleIsRespected`
(refinement).

**MissionPacks**: two experiences, one of which expires, two sessions, a window
and a preview life of two ticks on a clock of three, four events (lifecycle
actions, packs, turns, faults), a batch limit of one so that one receipt can
starve another, two generations. Two sessions make a receipt ambiguous.
`GenerationFollowsLifecycle`, `DeliveredIsInForce`, `BoundWithinWindow`,
`ApplicationsTrace`, `ReceiptsComplete`.

**ExperienceEvaluation**: two processes and a prober with two faults; two
applications of which one can never be evaluated, so that it comes up in every pass, within a
batch of two; two writers, three updates, one of which changes no evaluation.
`WorkersHoldLease`, `OnlyEarlierWritesAreMissed`, `EvaluationsCatchUp`.
`OnlyEarlierWritesAreMissed` is the exact measure of what the query by time
misses: an update that began before the pass and committed after its query.
The liveness property exempts those updates until the next one arrives, and
holds while the due applications fit into a pass.

**TranscriptImport**: two files of one session, the tailer with chunks of one
line, the backfill with chunks of two, one fault (a failed import, a death or a
replaced file). `NothingSkipped`, `CompleteIsEarned`, `EveryTurnIsImported`.

**TranscriptAnalysis**: two sessions, three batches, an edge with the first
batch of each session and with the second of one, one fault. `IssuesAreOfTheGeneration`,
`DerivationsAreWhole`, `AnalysisSettles`.

## 5. Fairness

* `FairSpec` (projection). Weak fairness of `Reconcile` and `Restart` for each
  reconciler: the recovery and poll loops call Drain every two seconds, and a
  user starts Belay again after a crash. Weak fairness of `RetryDue`: time
  passes. Weak fairness of `MarkFinding`: the importer makes the next call
  unless its process dies. Strong fairness of a session's claim: the oldest due
  row is claimed first, so no due row is passed over for ever.
* `FairJobsSpec` (jobs). Weak fairness of `Work` for each worker: Recover is
  called every two seconds for as long as the process lives, and the process is
  started again. Weak fairness of the clock of each job.
* `RestartingSpec` (catch-up): a process that lives goes on, time passes
  (`LivingSpec`), and processes are started again.
* `MissionPacks`: weak fairness of the pass and of the clock. Whichever process
  holds the lease runs the pass every two seconds; if it dies another one, or
  the next start, takes over, which is why a crash only ends the pass.
* `ExperienceEvaluation`: weak fairness of a runtime's next step, of the passes,
  of loops that were told to stop (their contexts are cancelled), of a probe's
  release, and of a writer's commit (its transaction ends).
* `TranscriptImport`: an importer makes the next step of its import, and the
  loops that start one run for as long as Belay runs; an agent's session goes
  quiet in the end (`GoInactive`).
* `TranscriptAnalysis`: both workers make their next step; their loops poll.
* `StoreOpening` claims no liveness. Two openers can each keep the other's
  cleanup from finishing; the code returns a retryable error and says so
  (`docs/storage/local-storage-lifecycle.md:55`). `SpoolTail`, `MCPConfig`,
  `UpdateCheck` and `ExperienceReview` claim none either: their steps are the
  user's and the agents'.

Imports, faults, prunes and the user's actions are never fair.

## 6. The proofs

Every invariant and every action property that a passing run checks is proved;
what is left to TLC alone is liveness (section 8). All proofs hold for any
number of sessions, workers, processes, files, clients and so on, and for any
value of every bound, under the named assumptions about the constants, which TLC
evaluates in the runs: `ConstantsAssumption`, `SessionsAssumption`,
`RetentionAssumption` (of sessions there are finitely many: a prune advances the
generation once for each it affects), `JobsAssumption`, `CatchupAssumption`,
`OpeningAssumption`, `TailAssumption`, `ConfigAssumption`, `UpdateAssumption`, `ReviewAssumption`,
`GenerationAssumption`, `PackAssumption`, `LeaseAssumption`,
`EvaluationAssumption`, `ImportAssumption`, `AnalysisAssumption`.

**ProjectionProofs.** `ProjectionInv` is inductive (`ProjectionSafe`).
`CurrentIsComplete` alone is not: a publication makes a session current with
what the reconciler read, so the invariant has to say that a claim whose target
still is the row's has read what is there now (`FreshInputs`). That holds
because every change of an input advances the target in the same transaction, or
is left out of the property (findings). A claim could be fresh twice if its row
could be claimed again, so the row of a fresh claim is in state claimed and
targets never run ahead (`ClaimsFollowRow`), and with that `AtMostOneFreshClaim`
is preserved by `Claim`. `RevisionsOrdered` bounds closed generations, so that
closing at the next one closes nothing twice. From it follow `TypeCorrect`,
`CurrentComplete` and `OneFreshClaim`. `ScopeKept` is an action property that
needs types and the case analysis of the merge (`MergeKeepsScope`).

Findings (`FindingsOwed`). `FindingsCovered` is about the last analysis; what
makes it inductive is the same of every claim that may still be published
(`FindsAccounted`), and that whoever owes a mark either has it in hand or is a
reconciler that has it ahead: still down, or about to list the sessions with
events, or with this one in its list (`Ahead`). The theorem has a hypothesis,
`ImporterRecovers`: the process that imports also runs a recovery loop with a
Startup. `belay local` does. The `import` command (`cmd/belay/main.go:117`) has
none; what it leaves unmarked waits for the next start of Belay Local, and the
property does not hold of it. The run's constants satisfy the hypothesis.

History (`HistorySafe`). The revisions of a session do not overlap
(`RevisionsDisjoint`); an occurrence belongs to a completed revision and is
closed when the next completed one opens (`OccurrencesReplaced`), which is what
`OccurrencesFollowAnalysis` needs when an analysis fails and its revision shows
the evidence of an earlier one. `JobPerCompletedRevision` is inductive with
them.

Retention (`RetentionSafe`). `ProjectionInv` is not an invariant of
`RetentionSpec`: a prune deletes rows, the targets of those sessions start again
at one, and `ClaimsFollowRow` fails (section 7). `RetentionInv` does without it:
a claim's target is positive (`ClaimedTargets`), a row has a target exactly when
it exists, an open revision shows it (`RowShown`), and the revision of a pending
job is there (`PendingHasRevision`), because a prune spares the rows of pending
jobs. Hence `CitationsKept` and `RetainedShown`. `EvidenceAwaited` and
`SnapshotsStable` are action properties: the second follows from one lemma
about tables (`ReplacedRows`), since marks, failures, publications and prunes
open rows only at generations beyond every cursor and close rows only there,
and what a prune deletes no retained cursor could see.

**RecurrenceProofs.** `JobsInv` is inductive (`JobsSafe`): types with
positions within the snapshot; two workers never hold one generation of a job,
and no claim is ahead of its row (`ClaimsNumbered`); up to its position
everything a job matches is settled, and a complete job is at its end
(`JudgedSoFar`). The last needs `LastBatchIsLast`: a batch that is short or
reaches the snapshot ends exactly at the snapshot. From it follow
`JobsTypeCorrect`, `OneClaim`, `NoneLost`. `Implements` proves
`JobsSpec => EvaluatesOnce`: a batch is a `Judge` step up to its new position or
a stutter when it is empty, a publication is `PublishAnalysis`, and claims,
leases, failures and crashes are stutters.

The ledger (`LedgerSafe`, `LedgerTrue`). Each job was queued once, its last
attempt ended as its row says and all earlier ones failed (`LedgerOf`). A
failure takes its attempt from the claim in memory, a batch takes it from the
row; they write the same because a claim that can still commit is of the row's
last attempt (`ClaimsAttempted`).

Catch-up (`CatchupSafe`, `ReadinessEarned`). `CatchupInv` says what a process
may rely on at its stage: past the preparation every published revision has its
job (`JobsMade`), past the marking the legacy is marked (`StagesInv`), and from
then on a legacy session is outstanding or was analysed with its capabilities
recorded (`MarkedInv`). The proof needs no order between processes: jobs are
never deleted or undone, and an outstanding session leaves that state only by an
analysis.

**LocalStateProofs.** `OpeningInv` is inductive (`OpeningSafe`): types, the key
file and its one creator (`KeyFileInv`), what a process believes about keys
(`KeyInv`) and about plaintext (`CleanInv`). The heart of it is what a belief
read earlier is still worth: a process that saw no key check and nothing sealed
may create a key only by O_EXCL, and whoever sealed since then left the key in
the file, so the creation fails and the reload finds it. From it follow
`KeyIsOne`, `NoneReplaced`, `OpenedClean`, `CleanupOwed`, `NeverMixed`. The
spool: every line before the cursor is imported, and what a tailer has read and
passed is too (`CursorInv`, `TailInv`), for its own file identity only; hence
`SpoolIsRead`. The check: what it loaded before it asked is no newer than the
file (`ReleaseInv`); hence `ChoicesOutliveChecks`. The registries:
what the manifest and a command in memory hold are identities that a build
writes, never a foreign entry (`ConfigInv`, `HeldInv`), and a file registry is
changed only from such an identity or from absent; hence `ForeignSurvives`.
That the manifest and the entries agree (`OwnershipSafe`, `OwnershipKept`) is an
argument about the one command that has the lock (`LockInv`): its copy of the
manifest is the file's until it records something, and agrees with the entry of
every target but the one it is at (`AgreeInv`). At that one, each phase says how
far they may be apart (`TargetInv`): an update that removed its entry still
knows the identity to put back, and reaches the restoration only after one
refusal, so that with at most one the restoration succeeds. A command that may
not write the manifest has changed nothing. A death, an inspection that fails, an
edit by hand and a second refusal are outside the promise (`Calm`), as they are
in the property.

**ExperienceReviewProofs.** `ReviewInv` is inductive (`ReviewSafe`): what a
request in flight holds came from a token that was minted and a time that has
passed (`RequestsInv`); reviews and the approval carry times of the past
(`ReviewsInv`); the last transition of the log led to the column and all others
are earlier (`LogInv`). `LogInv` is stronger than `LifecycleProjected`, because
a transition is inserted with the time of its request, and only the check that
this time is not before the last transition's keeps the order of the log.
`LifecycleImplemented` is the refinement: every transaction is one step of
`ExperienceStates` or leaves the lifecycle alone.

**MissionPacksProofs.** Two invariants. `FollowInv`: the callers between their
two transactions are counted (`CountersInv`), the active generation is the
newest (`GenInv`), and cites what was in force at the last compilation, so that
with nobody left to compile it cites what is in force now. `TracedInv`: what the
pass holds in memory is still true of the tables (`PassInv`), because nothing
unbinds a receipt or takes an application back (`Grows`); from it follow
`ReceiptsAreBoundInWindow` and `ApplicationsAreTraced`. `PointersInv` is about
the three operations of `ExperienceGenerations` in any order, where the active
generation need not be the newest: it adds that numbers, which are finite, end
in a greatest one, so that a new number is new (`PointersAgree`,
`NumbersStandForRefs`).

**ExperienceEvaluationProofs.** `LeaseInv`: the holder is one process or prober,
and a runtime with loops is the holder (`WorkersAreOwned`). For
`MissedAreEarlier`, the times: every time in the store is a reading of the clock
(`TimesInv`); every reading became a version or is an open batch
(`CountInv`, which needs the cardinality of the open ones); one pass at most has
work in hand and is later than all before (`PassInv`); an evaluation's time
exceeds its pass's by at most the versions it has seen (`StoredAs`). As the
clock moves by more than that (`StrideGap`), an update that the query passes
over carries an earlier reading.

**TranscriptImportProofs.** `ImportInv`: a cursor, and every cursor and chunk an
importer has in hand, covers a prefix of the file whose lines are turns, if the
file is still the one it names. The parts take the files and the turns as
parameters, so that one lemma says that they stay true when files grow and turns
are added (`PassedStays`, `HandStays`), whoever does it. For
`CompletionIsEarned` that is not enough, because the file may be replaced while
the importer holds it open: `EarnedInv` says of the file as it was opened that
everything before the chunk is in the store, which stays true because turns are
never taken back, and that an unchanged file has nothing after it.

**TranscriptAnalysisProofs.** `AnalysisInv`: what the analysing worker loaded
under a generation that still is current is what is there (`Loaded`), and a
claim whose fingerprint still is the session's has seen and inserted its edges
(`Claimed`). From it follow `IssuesOfGeneration` and `WholeDerivations`.

Proofs are laid out one lemma per group of actions, one step per action and
under it one per conjunct that the action disturbs.

## 7. Where the code and its documents disagree

* **UnqueuedEvidence**, with a run. A derivation inserts its edges in
  transactions of their own and requeues the issue analysis at the end, only if
  it inserted one in this very run and was published
  (`localapp/trajectory_analysis.go:241`). When it finds its claim stale or dies
  in between, the derivation that repeats it finds all edges present, inserts
  none and requeues nothing: the issues computed before stay without those edges
  until something else raises the project's generation.
  `storage/local/cost_issue_repository.go:43-44` says that the requeue happens
  after such evidence changes.

Noticed while modelling, without a run:

* A second process that starts while the first one serves can fail its catch-up,
  which sets readiness to failed for both, and end. The first one only completes
  when readiness is `catching_up`, and nothing reads `retry_at`; monitoring stays
  unavailable for as long as it runs.
  `docs/design/p0-04-recurrence-monitoring.md:1491` promises a retry scheduler.
* A prune deletes the dirty row of a session without events, and with it the
  target. When the session is imported again it starts at target 1, and a
  reconciler that claimed target 1 before the prune publishes its old inputs as
  current. `docs/design/p0-01-issue-fingerprints-and-detectors.md:789` says a
  stale reconciler cannot overwrite a newer generation.
* When the failure of an analysis cannot be recorded, or a drain is cancelled
  there, the row stays claimed, and drains take pending and failed rows only;
  the next Startup frees it. The same document, line 696, says errors leave the
  session pending for retry.
* `markSessionDirtyTx` looks up the analysed generation before it closes the
  revision that has it, finds nothing, and every pending revision stores 0; a
  failure copies the 0. The document, line 623, describes the column as the
  successfully analysed generation.
* `p0-04-recurrence-monitoring.md:1485` says that cancellation releases claims;
  a cancelled recurrence claim stays leased until its lease expires
  (`AbandonClaim`).

## 8. What is only model-checked, and what is not modelled

Only model-checked: all liveness (`DirtySettles`, `FindingsAreAnalysed`,
`JobsComplete`, `MonitoringBecomesReady`, `ReceiptsComplete`,
`EvaluationsCatchUp`, `EveryTurnIsImported`, `AnalysisSettles`), because the
prover does not handle liveness under fairness or ENABLED. `FindingsCovered` is
proved for an importer that recovers (`ImporterRecovers`), as in its run. No
module that is proved about uses a recursive operator, and no result by induction over
data is claimed.

Proved, and not a property of a run: `AtMostOneFreshClaim`, `OneCurrentClaim`,
`NoRecurrenceLost`, `CleanupIsOwed`, `NoMixedEncodings`, `GenerationsInv`,
`GenerationsAreImmutable`, and the inductive invariants.

Left out of the modelled components: what detectors, classification,
derivations and evaluations compute, the text of anything, diagnostics, issue
summaries, attempt counts and back-off lengths, quarantine and import runs,
sizes and dates in the retention policy, transcripts and cost issues in a prune,
mutation guards during an open (legacy citations are taken to resolve), the
content and the size of packs, the eligibility, tokens and idempotent replays of
fixes.

Not modelled:

* Pure functions of one session's records: parsers, detectors, pricing,
  insights, the read models. They have no interleavings; a table of inputs tests
  them better than a model.
* Queries that change nothing: the issue and attention read side, recurrence
  queries. Their hazard, a cursor over rows that change, is
  `RetainedSnapshotsAreStable`.
* Presentation: handlers that validate a request and call the store.
* Platform key stores: one external command each. The file provider, which has
  the races, is in `StoreOpening`.
* Mutation guards: triggers that one connection switches on around one
  transaction, so that a write outside a guard fails. The modules take each
  guarded transaction as atomic.
* Schema migrations with their resumable back-fills: each runs once per store.
* Telemetry (one state file), the semantic harness (an external CLI with limits),
  the acquisition helper, evaluation programs and scripts, the installation of
  the skill file.

## 9. What could come next

1. Fix recording: action tokens minted from a read, idempotent replays, epochs;
   it composes with `RecurrenceJobs`.
2. The resumable phases of migration 11 under crashes.
3. The telemetry state file, which several commands write without a lock.
4. Transcripts and cost issues in a prune, composed with `TranscriptAnalysis`.
5. Pure algorithms against a reference: scope and enrichment merges (order does
   not matter), retry delay at its limits.
