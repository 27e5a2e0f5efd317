-------------------------- MODULE ExperienceEvaluation --------------------------
(***************************************************************************)
(* The evaluation of delivered experiences, one worker of the lease's      *)
(* owner, against the transcripts it reads while other processes write     *)
(* them.                                                                   *)
(*                                                                         *)
(* A pass takes the time once, queries the applications whose session was  *)
(* updated after their last evaluation, and for each reads the evidence,   *)
(* derives the states, and stores them in a transaction, with the pass's   *)
(* time as the time of the evaluation.  A writer of transcripts takes its  *)
(* time before its transaction begins, so an update may be committed long  *)
(* after the time it carries.                                              *)
(*                                                                         *)
(* Abstracted: what an evaluation derives is the version of the session it *)
(* read, of which some are not told apart (Immaterial); an application     *)
(* whose evidence never can be read is in Unevaluable.  The trajectories   *)
(* of the session, the other source of the query, change with the          *)
(* transcript here.  Time is a counter of writers' readings: writer k      *)
(* reads k * Stride, and a pass that starts between two of them reads the  *)
(* earlier one plus one, since only the order of the readings matters.     *)
(***************************************************************************)
EXTENDS IntelligenceLease, Sequences

CONSTANTS Applications,    \* delivered applications of one bound session
          Unevaluable,     \* those whose evidence cannot be read
          Immaterial,      \* versions that derive what the one before derives
          Scans,           \* transcript writers outside the workers
          MaxWrites,       \* bound on the batches of transcripts written
          Batch            \* the limit of one pass

ASSUME EvaluationAssumption == /\ Unevaluable \subseteq Applications
                               /\ {MaxWrites, Batch} \subseteq Nat
                               /\ Immaterial \subseteq 1..MaxWrites
                               /\ "transcripts" \in Workers

Stride == MaxWrites + 2

VARIABLES stamps,          \* how often a writer read the clock
          version,         \* the content of the session: batches committed
          updatedAt,       \* transcript_sessions.updated_at
          writing,         \* [Scans -> the time its open batch carries, or 0]
          evaluation,      \* [Applications -> the stored evaluation]
          seen,            \* history: [Applications -> version, begun of the pass]
          pass             \* [Processes -> the pass its worker is in]

evaluationVars == <<stamps, version, updatedAt, writing, evaluation, seen, pass>>
vars == <<leaseVars, evaluationVars>>

NoPass == [phase |-> "none"]

Init ==
    /\ LeaseInit
    /\ stamps = 1
    /\ version = 0
    /\ updatedAt = Stride
    /\ writing = [w \in Scans |-> 0]
    /\ evaluation = [a \in Applications |-> [at |-> 0, of |-> -1]]
    /\ seen = [a \in Applications |-> [version |-> -1, begun |-> 0]]
    /\ pass = [p \in Processes |-> NoPass]

(* What is derived of a version: that of the last material one.            *)
Derived(v) == CHOOSE m \in 0..v : /\ m \notin Immaterial
                                  /\ \A n \in (m + 1)..v : n \in Immaterial
-----------------------------------------------------------------------------
(* A scan of history in another process, without the lease.                *)
BeginWrite(w) ==
    /\ writing[w] = 0
    /\ stamps <= MaxWrites
    /\ stamps' = stamps + 1
    /\ writing' = [writing EXCEPT ![w] = (stamps + 1) * Stride]
    /\ UNCHANGED <<leaseVars, version, updatedAt, evaluation, seen, pass>>

CommitWrite(w) ==
    /\ writing[w] # 0
    /\ version' = version + 1
    /\ updatedAt' = writing[w]
    /\ writing' = [writing EXCEPT ![w] = 0]
    /\ UNCHANGED <<leaseVars, stamps, evaluation, seen, pass>>
-----------------------------------------------------------------------------
Needs(a) == evaluation[a].at = 0 \/ updatedAt > evaluation[a].at

(* The queue of a pass: oldest evaluation first, cut at the limit.         *)
Queues ==
    {q \in UNION {[1..n -> Applications] : n \in 0..Cardinality(Applications)} :
        LET Due == {a \in Applications : Needs(a)}
            Cited == {q[i] : i \in DOMAIN q}
        IN /\ Cited \subseteq Due
           /\ Cardinality(Cited) = Len(q)
           /\ Len(q) = IF Cardinality(Due) < Batch THEN Cardinality(Due) ELSE Batch
           /\ \A i \in DOMAIN q, a \in Due :
                  (\A j \in 1..i : q[j] # a) => evaluation[q[i]].at <= evaluation[a].at}

(* A pass that finds nothing due does nothing and is left out.             *)
StartPass(p) ==
    /\ role[p] = "working"
    /\ pass[p] = NoPass
    /\ \E q \in Queues \ {<<>>} :
           pass' = [pass EXCEPT ![p] = [phase |-> "read", queue |-> q,
                                        observed |-> stamps * Stride + 1]]
    /\ UNCHANGED <<leaseVars, stamps, version, updatedAt, writing, evaluation, seen>>

Rest(x) == IF Len(x.queue) = 1 THEN NoPass
           ELSE [phase |-> "read", queue |-> Tail(x.queue), observed |-> x.observed]

(* Mutant: evidence that cannot be read ends the pass.                     *)
MutReadEvidence(p) ==
    /\ pass[p].phase = "read"
    /\ pass' = [pass EXCEPT ![p] =
                   IF Head(@.queue) \in Unevaluable THEN NoPass
                   ELSE [phase |-> "apply", queue |-> @.queue,
                         observed |-> @.observed, read |-> version]]
    /\ UNCHANGED <<leaseVars, stamps, version, updatedAt, writing, evaluation, seen>>

(* Evidence that cannot be read defers the application, not the pass.      *)
ReadEvidence(p) ==
    /\ pass[p].phase = "read"
    /\ pass' = [pass EXCEPT ![p] =
                   IF Head(@.queue) \in Unevaluable THEN Rest(@)
                   ELSE [phase |-> "apply", queue |-> @.queue,
                         observed |-> @.observed, read |-> version]]
    /\ UNCHANGED <<leaseVars, stamps, version, updatedAt, writing, evaluation, seen>>

(* Mutant: the evaluation carries the time of its transaction.             *)
MutEvaluatedAt(x, previous) == stamps * Stride + 1
EvaluatedAt(x, previous) ==
    IF x.observed > previous.at THEN x.observed ELSE previous.at + 1

(* An evaluation of the same material is the one already stored.           *)
ApplyEvaluation(p) ==
    LET x == pass[p]
        a == Head(x.queue)
        previous == evaluation[a]
    IN /\ x.phase = "apply"
       /\ evaluation' = IF previous.at # 0 /\ previous.of = Derived(x.read)
                        THEN evaluation
                        ELSE [evaluation EXCEPT ![a] =
                                 [at |-> EvaluatedAt(x, previous),
                                  of |-> Derived(x.read)]]
       /\ seen' = [seen EXCEPT ![a] = [version |-> x.read, begun |-> x.observed]]
       /\ pass' = [pass EXCEPT ![p] = Rest(x)]
       /\ UNCHANGED <<leaseVars, stamps, version, updatedAt, writing>>

(* A cancelled context ends the pass between two applications.             *)
Cancel(p) ==
    /\ role[p] = "draining"
    /\ pass[p].phase = "read"
    /\ pass' = [pass EXCEPT ![p] = NoPass]
    /\ UNCHANGED <<leaseVars, stamps, version, updatedAt, writing, evaluation, seen>>

WorkerEnds(p, w) ==
    /\ LoopEnds(p, w)
    /\ w = "transcripts" => pass[p] = NoPass
    /\ UNCHANGED evaluationVars

ProcessCrash(p) ==
    /\ Crash(p)
    /\ pass' = [pass EXCEPT ![p] = NoPass]
    /\ UNCHANGED <<stamps, version, updatedAt, writing, evaluation, seen>>

LeaseStep ==
    /\ \/ \E p \in Processes : Step(p) \/ OpenFails(p) \/ Stop(p)
       \/ \E q \in Probers : Probe(q) \/ EndProbe(q)
    /\ UNCHANGED evaluationVars

PassStep(p) == StartPass(p) \/ ReadEvidence(p) \/ ApplyEvaluation(p) \/ Cancel(p)

Next ==
    \/ LeaseStep
    \/ \E p \in Processes : \/ PassStep(p) \/ ProcessCrash(p)
                            \/ \E w \in Workers : WorkerEnds(p, w)
    \/ \E w \in Scans : BeginWrite(w) \/ CommitWrite(w)

(* As the lease's, and: a ticker starts a pass every two seconds, a pass   *)
(* runs to its end, and a transaction that was begun is committed.         *)
Fairness ==
    /\ \A p \in Processes : /\ WF_vars(Step(p) /\ UNCHANGED evaluationVars)
                            /\ WF_vars(PassStep(p))
                            /\ \A w \in Workers : WF_vars(WorkerEnds(p, w))
    /\ \A q \in Probers : WF_vars(EndProbe(q) /\ UNCHANGED evaluationVars)
    /\ \A w \in Scans : WF_vars(CommitWrite(w))

Spec == Init /\ [][Next]_vars /\ Fairness
-----------------------------------------------------------------------------
(* The stored evaluation is of the session as it is.                       *)
Current(a) == evaluation[a].at # 0 /\ evaluation[a].of = Derived(version)

(* An update is passed over by the query only if its writer read the clock *)
(* before the pass that did not see it: the time an evaluation carries is  *)
(* the start of its pass, not its end, so that every update begun later    *)
(* brings the application back.                                            *)
OnlyEarlierWritesAreMissed ==
    \A a \in Applications :
        ~Current(a) /\ ~Needs(a) => updatedAt < seen[a].begun

(* When the writers are done, every application that can be evaluated has  *)
(* an evaluation of the session as it is, but for one whose update its     *)
(* writer began before the pass: crashes of owners, probes and             *)
(* applications that fail every time do not stand in the way while the     *)
(* due applications fit into a pass.                                       *)
EvaluationsCatchUp ==
    \A a \in Applications \ Unevaluable :
        <>[](Current(a) \/ (updatedAt < seen[a].begun /\ version > seen[a].version))
=============================================================================
