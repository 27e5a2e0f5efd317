-------------------------- MODULE RecurrenceCatchup --------------------------
(***************************************************************************)
(* The catch-up that makes recurrence monitoring available after the       *)
(* database reaches version 11: analyses made before it get a job, their   *)
(* sessions are analysed again so that their capabilities are recorded,    *)
(* and when nothing is outstanding monitoring is "ready".  Belay Local and *)
(* every `belay mcp` process run the same recovery goroutine over the same *)
(* database.                                                               *)
(*                                                                         *)
(* SessionProjection has the detail of a session's analysis and            *)
(* RecurrenceJobs that of a job; here both are a row that is outstanding   *)
(* until it is done.  An analysis that completes is taken to be complete,  *)
(* never truncated.                                                        *)
(***************************************************************************)
EXTENDS Naturals, FiniteSets

CONSTANTS Processes,    \* Belay Local and the MCP servers
          Sessions,     \* sessions with events
          Legacy,       \* those analysed before version 11
          NoProcess,    \* nobody
          NoItem,       \* nothing claimed
          FixesRecorded, \* TRUE when fix_annotations is not empty
          MaxCatchupFaults  \* bound: failures, exits, late workers, new imports

ASSUME CatchupAssumption ==
    /\ Legacy \subseteq Sessions
    /\ NoProcess \notin Processes
    /\ FixesRecorded \in BOOLEAN
    /\ MaxCatchupFaults \in Nat

VARIABLES readiness,    \* fix_monitoring_metadata.readiness
          marked,       \* local_migration_progress of "catchup_dirty"
          revisions,    \* how often each session was analysed
          capable,      \* sessions whose capabilities an analysis recorded
          dirty,        \* dirty_sessions
          jobRows,      \* fix_recurrence_jobs, by session and revision
          stage,        \* where the recovery goroutine of each process is
          hold,         \* the session or the job it has claimed
          catchupFaults \* how much of MaxCatchupFaults is used

analysisVars == <<revisions, capable, dirty>>
catchupVars == <<readiness, marked, analysisVars, jobRows, stage, hold, catchupFaults>>

-----------------------------------------------------------------------------
Pending == [state |-> "pending", by |-> NoProcess]
Failed == [state |-> "failed", by |-> NoProcess]
Done == [state |-> "done", by |-> NoProcess]
(* A new job; it is complete at once when there are no fixes.              *)
NewJob == IF FixesRecorded THEN Pending ELSE Done
ClaimedBy(p) == [state |-> "claimed", by |-> p]

(* Where the drains of Reconciler.Startup, RecurrenceWorker.Startup and    *)
(* RecurrenceWorker.Recover go on when nothing is left to claim.           *)
AnalysisStages == {"bootDrain", "reanalyse", "recoverAnalyse"}
JobStages == {"evaluate", "recoverEvaluate"}
After == [bootDrain |-> "prepare", reanalyse |-> "evaluate", evaluate |-> "complete",
          recoverAnalyse |-> "recoverEvaluate", recoverEvaluate |-> "recoverCheck"]
StartupStages == {"prepare", "mark", "reanalyse", "evaluate", "complete"}
RecoverStages == {"serving", "recoverAnalyse", "recoverEvaluate", "recoverCheck",
                  "recoverComplete"}
Stages == {"down", "boot", "bootDrain"} \cup StartupStages \cup RecoverStages

Goto(p, s) == stage' = [stage EXCEPT ![p] = s]
Release(p) == hold' = [hold EXCEPT ![p] = NoItem]
Fault == catchupFaults < MaxCatchupFaults /\ catchupFaults' = catchupFaults + 1

(* Rows CompleteFixMonitoringCatchup counts; the mutant forgets a state.   *)
MutOutstanding(row) == row.state \in {"pending", "claimed"}
Outstanding(row) == row.state \in {"pending", "claimed", "failed"}

CatchupInit ==
    /\ readiness = "catching_up"
    /\ marked = FALSE
    /\ revisions = [s \in Sessions |-> IF s \in Legacy THEN 1 ELSE 0]
    /\ capable = {}
    /\ dirty \in [Sessions -> {Pending, Failed, Done}]
    /\ jobRows = [j \in {} |-> Done]
    /\ stage = [p \in Processes |-> "down"]
    /\ hold = [p \in Processes |-> NoItem]
    /\ catchupFaults = 0

(***************************************************************************)
(* The drains.                                                             *)
(***************************************************************************)

ClaimDirtySession(p, s) ==
    /\ stage[p] \in AnalysisStages
    /\ hold[p] = NoItem
    /\ dirty[s].state = "pending"
    /\ dirty' = [dirty EXCEPT ![s] = ClaimedBy(p)]
    /\ hold' = [hold EXCEPT ![p] = s]
    /\ UNCHANGED <<readiness, marked, revisions, capable, jobRows, stage, catchupFaults>>

(* The analysis a publication makes.                                       *)
NewAnalysis(s) == <<s, revisions[s] + 1>>

(* The publication records the capabilities and enqueues the job; a stale  *)
(* one writes nothing.                                                     *)
PublishAnalysis(p, s) ==
    /\ stage[p] \in AnalysisStages
    /\ hold[p] = s
    /\ Release(p)
    /\ IF dirty[s] = ClaimedBy(p)
       THEN /\ dirty' = [dirty EXCEPT ![s] = Done]
            /\ revisions' = [revisions EXCEPT ![s] = @ + 1]
            /\ capable' = capable \cup {s}
            /\ jobRows' = [j \in DOMAIN jobRows \cup {NewAnalysis(s)} |->
                           IF j \in DOMAIN jobRows THEN jobRows[j] ELSE NewJob]
       ELSE UNCHANGED <<analysisVars, jobRows>>
    /\ UNCHANGED <<readiness, marked, stage, catchupFaults>>

(* PublishAnalysisFailure: the session waits for its retry time.           *)
AnalysisFails(p, s) ==
    /\ stage[p] \in AnalysisStages
    /\ hold[p] = s
    /\ Fault
    /\ Release(p)
    /\ dirty' = IF dirty[s] = ClaimedBy(p) THEN [dirty EXCEPT ![s] = Failed] ELSE dirty
    /\ UNCHANGED <<readiness, marked, revisions, capable, jobRows, stage>>

ClaimCatchupJob(p, j) ==
    /\ stage[p] \in JobStages
    /\ hold[p] = NoItem
    /\ jobRows[j].state = "pending"
    /\ jobRows' = [jobRows EXCEPT ![j] = ClaimedBy(p)]
    /\ hold' = [hold EXCEPT ![p] = j]
    /\ UNCHANGED <<readiness, marked, analysisVars, stage, catchupFaults>>

FinishJob(p, j) ==
    /\ stage[p] \in JobStages
    /\ hold[p] = j
    /\ Release(p)
    /\ jobRows' = IF jobRows[j] = ClaimedBy(p) THEN [jobRows EXCEPT ![j] = Done] ELSE jobRows
    /\ UNCHANGED <<readiness, marked, analysisVars, stage, catchupFaults>>

FailJob(p, j) ==
    /\ stage[p] \in JobStages
    /\ hold[p] = j
    /\ Fault
    /\ Release(p)
    /\ jobRows' = IF jobRows[j] = ClaimedBy(p) THEN [jobRows EXCEPT ![j] = Failed] ELSE jobRows
    /\ UNCHANGED <<readiness, marked, analysisVars, stage>>

(* Nothing can be claimed: the drain returns.                              *)
DrainEnds(p) ==
    /\ hold[p] = NoItem
    /\ \/ stage[p] \in AnalysisStages /\ \A s \in Sessions : dirty[s].state # "pending"
       \/ stage[p] \in JobStages /\ \A j \in DOMAIN jobRows : jobRows[j].state # "pending"
    /\ Goto(p, After[stage[p]])
    /\ UNCHANGED <<readiness, marked, analysisVars, jobRows, hold, catchupFaults>>

(***************************************************************************)
(* runLocalRecovery.                                                       *)
(***************************************************************************)

Launch(p) ==
    /\ stage[p] = "down"
    /\ Goto(p, "boot")
    /\ UNCHANGED <<readiness, marked, analysisVars, jobRows, hold, catchupFaults>>

(* Reconciler.Startup marks every session; a claim somebody holds is stale *)
(* from then on.                                                           *)
MarkAllSessionsDirty(p) ==
    /\ stage[p] = "boot"
    /\ dirty' = [s \in Sessions |-> Pending]
    /\ Goto(p, "bootDrain")
    /\ UNCHANGED <<readiness, marked, revisions, capable, jobRows, hold, catchupFaults>>

(* PrepareFixMonitoringCatchup, its first transaction: every completed     *)
(* analysis that has no job gets one.                                      *)
PrepareFixMonitoringCatchup(p) ==
    LET analyses == UNION {{s} \X (1..revisions[s]) : s \in Sessions}
    IN  /\ stage[p] = "prepare"
        /\ readiness' = IF readiness = "ready" THEN "ready" ELSE "catching_up"
        /\ jobRows' = [j \in DOMAIN jobRows \cup analyses |->
                       IF j \in DOMAIN jobRows THEN jobRows[j] ELSE NewJob]
        /\ Goto(p, "mark")
        /\ UNCHANGED <<marked, analysisVars, hold, catchupFaults>>

(* Its second: once in the life of the database, the sessions that have    *)
(* occurrences are marked.                                                 *)
MarkLegacyBelaySessionsDirty(p) ==
    /\ stage[p] = "mark"
    /\ marked' = TRUE
    /\ dirty' = IF marked THEN dirty
                ELSE [s \in Sessions |-> IF revisions[s] > 0 THEN Pending ELSE dirty[s]]
    /\ Goto(p, "reanalyse")
    /\ UNCHANGED <<readiness, revisions, capable, jobRows, hold, catchupFaults>>

Settled == /\ \A s \in Sessions : ~Outstanding(dirty[s])
           /\ \A j \in DOMAIN jobRows : ~Outstanding(jobRows[j])

(* CompleteFixMonitoringCatchup at the end of Startup; with work left      *)
(* Startup returns ErrFixMonitoringCatchupPending and is called again.     *)
CompleteFixMonitoringCatchup(p) ==
    /\ stage[p] = "complete"
    /\ readiness' = IF Settled THEN "ready" ELSE readiness
    /\ Goto(p, IF Settled THEN "serving" ELSE "prepare")
    /\ UNCHANGED <<marked, analysisVars, jobRows, hold, catchupFaults>>

(* Recover, every two seconds.                                             *)
Recover(p) ==
    /\ stage[p] = "serving"
    /\ Goto(p, "recoverAnalyse")
    /\ UNCHANGED <<readiness, marked, analysisVars, jobRows, hold, catchupFaults>>

(* completeCatchupIfNeeded reads the readiness, then completes in a        *)
(* transaction of its own.                                                 *)
RecoverChecks(p) ==
    /\ stage[p] = "recoverCheck"
    /\ Goto(p, IF readiness = "catching_up" THEN "recoverComplete" ELSE "serving")
    /\ UNCHANGED <<readiness, marked, analysisVars, jobRows, hold, catchupFaults>>

RecoverCompletes(p) ==
    /\ stage[p] = "recoverComplete"
    /\ readiness' = IF Settled THEN "ready" ELSE readiness
    /\ Goto(p, "serving")
    /\ UNCHANGED <<marked, analysisVars, jobRows, hold, catchupFaults>>

(* Where a failed call of RecurrenceWorker.Startup leads: it is called     *)
(* again.  Mutant: the goroutine goes on to the periodic cycle.            *)
MutAfterFailure == "serving"
AfterFailure == "prepare"

(* A step of RecurrenceWorker.Startup fails.  recordCatchupFailure sets    *)
(* the readiness, whatever it was, unless it fails too.                    *)
CatchupFails(p) ==
    /\ stage[p] \in StartupStages
    /\ hold[p] = NoItem
    /\ Fault
    /\ readiness' \in {readiness, "failed"}
    /\ Goto(p, AfterFailure)
    /\ UNCHANGED <<marked, analysisVars, jobRows, hold>>

(* A step of Reconciler.Startup or of Recover fails; it is called again.   *)
RecoverFails(p) ==
    /\ stage[p] \in ({"boot", "bootDrain"} \cup RecoverStages)
    /\ hold[p] = NoItem
    /\ Fault
    /\ Goto(p, IF stage[p] \in RecoverStages THEN "serving" ELSE "boot")
    /\ UNCHANGED <<readiness, marked, analysisVars, jobRows, hold>>

(* The failure of a job cannot be recorded; its lease frees it.            *)
JobLost(p) ==
    /\ stage[p] \in JobStages
    /\ hold[p] # NoItem
    /\ Fault
    /\ Release(p)
    /\ readiness' \in {readiness} \cup (IF stage[p] = "evaluate" THEN {"failed"} ELSE {})
    /\ Goto(p, IF stage[p] = "evaluate" THEN AfterFailure ELSE "serving")
    /\ UNCHANGED <<marked, analysisVars, jobRows>>

(* The failure of an analysis cannot be recorded; nothing frees the row    *)
(* but the next Reconciler.Startup.                                        *)
SessionLost(p) ==
    /\ stage[p] \in AnalysisStages
    /\ hold[p] # NoItem
    /\ Fault
    /\ Release(p)
    /\ readiness' \in {readiness} \cup (IF stage[p] = "reanalyse" THEN {"failed"} ELSE {})
    /\ Goto(p, CASE stage[p] = "reanalyse" -> AfterFailure
                 [] stage[p] = "recoverAnalyse" -> "serving"
                 [] stage[p] = "bootDrain" -> "boot")
    /\ UNCHANGED <<marked, analysisVars, jobRows>>

(* A process ends: its user quits it, or it dies.                          *)
Exit(p) ==
    /\ stage[p] # "down"
    /\ Fault
    /\ Goto(p, "down")
    /\ Release(p)
    /\ UNCHANGED <<readiness, marked, analysisVars, jobRows>>

(***************************************************************************)
(* Importers and the clock.                                                *)
(***************************************************************************)
ImportMarks(s) ==
    /\ Fault
    /\ dirty' = [dirty EXCEPT ![s] = Pending]
    /\ UNCHANGED <<readiness, marked, revisions, capable, jobRows, stage, hold>>

AnalysisRetryDue(s) ==
    /\ dirty[s] = Failed
    /\ dirty' = [dirty EXCEPT ![s] = Pending]
    /\ UNCHANGED <<readiness, marked, revisions, capable, jobRows, stage, hold, catchupFaults>>

JobRetryDue(j) ==
    /\ jobRows[j] = Failed
    /\ jobRows' = [jobRows EXCEPT ![j] = Pending]
    /\ UNCHANGED <<readiness, marked, analysisVars, stage, hold, catchupFaults>>

(* The lease of a job runs out, of one nobody works on or of a late worker.*)
CatchupLeaseExpires(j) ==
    /\ jobRows[j].state = "claimed"
    /\ jobRows' = [jobRows EXCEPT ![j] = Pending]
    /\ IF \E p \in Processes : hold[p] = j /\ jobRows[j].by = p
       THEN Fault ELSE UNCHANGED catchupFaults
    /\ UNCHANGED <<readiness, marked, analysisVars, stage, hold>>

-----------------------------------------------------------------------------
Step(p) ==
    \/ \E s \in Sessions : ClaimDirtySession(p, s) \/ PublishAnalysis(p, s)
    \/ \E j \in DOMAIN jobRows : ClaimCatchupJob(p, j) \/ FinishJob(p, j)
    \/ DrainEnds(p)
    \/ MarkAllSessionsDirty(p)
    \/ PrepareFixMonitoringCatchup(p)
    \/ MarkLegacyBelaySessionsDirty(p)
    \/ CompleteFixMonitoringCatchup(p)
    \/ Recover(p)
    \/ RecoverChecks(p)
    \/ RecoverCompletes(p)

Failure(p) ==
    \/ \E s \in Sessions : AnalysisFails(p, s)
    \/ \E j \in DOMAIN jobRows : FailJob(p, j)
    \/ CatchupFails(p)
    \/ RecoverFails(p)
    \/ JobLost(p)
    \/ SessionLost(p)
    \/ Exit(p)

Clock == \/ \E s \in Sessions : AnalysisRetryDue(s)
         \/ \E j \in DOMAIN jobRows : JobRetryDue(j) \/ CatchupLeaseExpires(j)

CatchupNext ==
    \/ \E p \in Processes : Launch(p) \/ Step(p) \/ Failure(p)
    \/ \E s \in Sessions : ImportMarks(s)
    \/ Clock

CatchupSpec == CatchupInit /\ [][CatchupNext]_catchupVars

(* A process that lives goes on with its recovery, and time passes.        *)
LivingSpec == /\ CatchupSpec
              /\ \A p \in Processes : WF_catchupVars(Step(p))
              /\ WF_catchupVars(Clock)

(* Users start Belay again.                                                *)
RestartingSpec == LivingSpec /\ \A p \in Processes : WF_catchupVars(Launch(p))

-----------------------------------------------------------------------------
(* Monitoring is never shown as ready on partial legacy data: every        *)
(* session analysed before version 11 was analysed again with its          *)
(* capabilities, its old analysis was compared with the fixes, and every   *)
(* later one has its job.  No process can cut the catch-up of another      *)
(* short.                                                                  *)
ReadyIsEarned ==
    readiness = "ready" =>
        /\ Legacy \subseteq capable
        /\ \A s \in Sessions : \A n \in 1..revisions[s] : <<s, n>> \in DOMAIN jobRows
        /\ \A s \in Legacy : jobRows[<<s, 1>>] = Done

(* A session whose failure could not be recorded: claimed by nobody.       *)
Stranded == \E s \in Sessions :
    dirty[s].state = "claimed" /\ hold[dirty[s].by] # s

(* When Belay is started again after it ended, the catch-up succeeds in    *)
(* the end and monitoring stays available, through failures and crashes at *)
(* every stage, unless a session is stranded.                              *)
MonitoringBecomesReady == <>[](readiness = "ready" \/ Stranded)

=============================================================================
