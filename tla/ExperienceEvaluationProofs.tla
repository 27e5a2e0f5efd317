----------------------- MODULE ExperienceEvaluationProofs -----------------------
(***************************************************************************)
(* Proofs about IntelligenceLease and ExperienceEvaluation, for every set  *)
(* of processes, probers, workers, scans and applications and every bound. *)
(***************************************************************************)
EXTENDS ExperienceEvaluation, FiniteSetTheorems, SequenceTheorems, TLAPS

(* The holder of the lease is one process or prober, and an owner's role   *)
(* says that it holds it; nothing else has loops that run.                 *)
LeaseInv ==
    /\ LeaseTypeOK
    /\ WorkersHoldLease
    /\ \A p \in Processes :
           /\ running[p] # {} => role[p] \in {"working", "draining"}
           /\ role[p] = "working" => running[p] = Workers

Begins(m) == m * Stride + 1

(* Every time in the store is the reading of a writer.                     *)
TimesInv ==
    /\ stamps \in Nat \ {0}
    /\ \E k \in 1..stamps : updatedAt = k * Stride
    /\ writing \in [Scans -> Nat]
    /\ \A w \in Scans : writing[w] # 0 => \E k \in 1..stamps : writing[w] = k * Stride

(* Every reading of a writer became a version or is an open batch.         *)
Open == {w \in Scans : writing[w] # 0}

CountInv ==
    /\ version \in Nat
    /\ IsFiniteSet(Open)
    /\ version + Cardinality(Open) + 1 = stamps
    /\ stamps <= MaxWrites + 1

PassType ==
    {NoPass}
        \cup [phase : {"read"}, queue : Seq(Applications) \ {<<>>}, observed : Nat]
        \cup [phase : {"apply"}, queue : Seq(Applications) \ {<<>>}, observed : Nat,
              read : Nat]

(* A pass runs in the process whose worker runs, and is later than what    *)
(* the passes before it stored.                                            *)
PassInv ==
    /\ pass \in [Processes -> PassType]
    /\ \A p \in Processes : pass[p] # NoPass =>
           /\ "transcripts" \in running[p]
           /\ \E m \in 1..stamps : pass[p].observed = Begins(m)
           /\ \A a \in Applications : seen[a].begun <= pass[p].observed
           /\ pass[p].phase = "apply" =>
                  /\ pass[p].read <= version
                  /\ \A a \in Applications : seen[a].version <= pass[p].read

(* A stored evaluation is of the version its pass read, and its time is    *)
(* short of the next reading of the clock: each of the evaluations that    *)
(* moved it by one was of a version of its own.                            *)
StoredAs(e, s) ==
    /\ e.of = Derived(s.version)
    /\ \E m \in 1..stamps : s.begun = Begins(m)
    /\ s.version \in 0..version
    /\ e.at <= s.begun + s.version

EvaluationInv ==
    /\ evaluation \in [Applications -> [at : Nat, of : {-1} \cup {Derived(v) : v \in Nat}]]
    /\ seen \in [Applications -> [version : {-1} \cup Nat, begun : Nat]]
    /\ \A a \in Applications :
           /\ evaluation[a].at = 0 => seen[a] = [version |-> -1, begun |-> 0]
           /\ evaluation[a].at # 0 => StoredAs(evaluation[a], seen[a])

PassesInv == TimesInv /\ CountInv /\ PassInv /\ EvaluationInv

EvaluationSafety == LeaseInv /\ PassesInv
-----------------------------------------------------------------------------
(* The lease's part of the initial state.                                  *)
LEMMA InitLease == LeaseInit => LeaseInv
BY LeaseAssumption DEF LeaseInit, LeaseInv, LeaseTypeOK, WorkersHoldLease

(* Taking the lease, opening the store and starting the loops.             *)
LEMMA StepKeepsLease ==
    ASSUME LeaseInv, NEW p \in Processes, Step(p)
    PROVE  LeaseInv'
<1> USE DEF LeaseInv, LeaseTypeOK, WorkersHoldLease
<1>1. CASE Acquire(p)
  BY <1>1 DEF Acquire
<1>2. CASE StartWorkers(p)
  BY <1>2 DEF StartWorkers
<1>3. CASE Release(p)
  BY <1>3 DEF Release, Drained
<1>4. CASE Start(p)
  BY <1>4 DEF Start
<1> QED
  BY <1>1, <1>2, <1>3, <1>4 DEF Step

(* A failed open, a stop, a crash and the end of a loop.                   *)
LEMMA FaultKeepsLease ==
    ASSUME LeaseInv, NEW p \in Processes,
           OpenFails(p) \/ Stop(p) \/ Crash(p) \/ \E w \in Workers : LoopEnds(p, w)
    PROVE  LeaseInv'
<1> USE LeaseAssumption DEF LeaseInv, LeaseTypeOK, WorkersHoldLease, Fault
<1>1. CASE OpenFails(p)
  BY <1>1 DEF OpenFails
<1>2. CASE Stop(p)
  BY <1>2 DEF Stop
<1>3. CASE Crash(p)
  <2>1. holder' \in {holder, {}} /\ (holder' # holder => holder = {p})
    BY <1>3 DEF Crash
  <2> QED
    BY <2>1, <1>3 DEF Crash
<1>4. ASSUME NEW w \in Workers, LoopEnds(p, w) PROVE LeaseInv'
  BY <1>4 DEF LoopEnds
<1> QED
  BY <1>1, <1>2, <1>3, <1>4

(* A readiness probe: no process is a prober.                              *)
LEMMA ProbeKeepsLease ==
    ASSUME LeaseInv, NEW q \in Probers, Probe(q) \/ EndProbe(q)
    PROVE  LeaseInv'
BY LeaseAssumption DEF LeaseInv, LeaseTypeOK, WorkersHoldLease, Probe, EndProbe, Fault

(* A step of the evaluation leaves the lease alone or is one of the above. *)
LEMMA NextKeepsLease == LeaseInv /\ [Next]_vars => LeaseInv'
<1> SUFFICES ASSUME LeaseInv, [Next]_vars PROVE LeaseInv'
  OBVIOUS
<1>1. CASE LeaseStep
  BY <1>1, StepKeepsLease, FaultKeepsLease, ProbeKeepsLease DEF LeaseStep
<1>2. ASSUME NEW p \in Processes, ProcessCrash(p) \/ \E w \in Workers : WorkerEnds(p, w)
      PROVE  LeaseInv'
  BY <1>2, FaultKeepsLease DEF ProcessCrash, WorkerEnds
<1>3. CASE UNCHANGED leaseVars
  BY <1>3 DEF leaseVars, LeaseInv, LeaseTypeOK, WorkersHoldLease
<1>4. ASSUME NEW p \in Processes, PassStep(p) PROVE UNCHANGED leaseVars
  BY <1>4 DEF PassStep, StartPass, ReadEvidence, ApplyEvaluation, Cancel
<1>5. ASSUME NEW w \in Scans, BeginWrite(w) \/ CommitWrite(w) PROVE UNCHANGED leaseVars
  BY <1>5 DEF BeginWrite, CommitWrite
<1> QED
  BY <1>1, <1>2, <1>3, <1>4, <1>5 DEF Next, vars
-----------------------------------------------------------------------------
(* The time between two readings of the clock is longer than all the       *)
(* evaluations that fit in it.                                             *)
LEMMA StrideGap ==
    /\ Stride \in Nat /\ Stride = MaxWrites + 2
    /\ \A k, m \in Nat : k * Stride < (m + 1) * Stride => k <= m
    /\ \A k, m \in Nat : k <= m => k * Stride <= m * Stride
    /\ \A m \in Nat : m * Stride \in Nat /\ (m + 1) * Stride = m * Stride + Stride
    /\ \A m \in Nat : Begins(m) \in Nat \ {0}
<1>1. Stride \in Nat /\ Stride = MaxWrites + 2
  BY EvaluationAssumption DEF Stride
<1>2. \A m \in Nat : m * Stride \in Nat /\ (m + 1) * Stride = m * Stride + Stride
  BY <1>1
<1>3. ASSUME NEW k \in Nat, NEW m \in Nat, k <= m PROVE k * Stride <= m * Stride
  BY <1>1, <1>3
<1>4. ASSUME NEW k \in Nat, NEW m \in Nat, k * Stride < (m + 1) * Stride PROVE k <= m
  <2>1. CASE m + 1 <= k
    <3>1. (m + 1) * Stride <= k * Stride
      BY <1>3, <2>1
    <3> QED
      BY <3>1, <1>4, <1>1, <1>2
  <2> QED
    BY <2>1
<1>5. \A m \in Nat : Begins(m) \in Nat \ {0}
  BY <1>2 DEF Begins
<1> QED
  BY <1>1, <1>2, <1>3, <1>4, <1>5

(* A home in which nothing was written or evaluated.                       *)
LEMMA InitPasses == Init => PassesInv
<1> SUFFICES ASSUME Init PROVE PassesInv
  OBVIOUS
<1> USE DEF Init
<1>1. TimesInv
  BY StrideGap DEF TimesInv
<1>2. CountInv
  <2>1. Open = {}
    BY DEF Open
  <2> QED
    BY <2>1, FS_EmptySet, EvaluationAssumption DEF CountInv
<1>3. PassInv
  BY DEF PassInv, PassType
<1>4. EvaluationInv
  BY DEF EvaluationInv
<1> QED
  BY <1>1, <1>2, <1>3, <1>4 DEF PassesInv

(* The clock is read for a batch: no pass has begun after it.              *)
LEMMA BeginWriteKeeps ==
    ASSUME PassesInv, NEW w \in Scans, BeginWrite(w)
    PROVE  PassesInv'
<1> USE DEF PassesInv, BeginWrite
<1>1. /\ stamps \in Nat \ {0}
      /\ stamps' = stamps + 1
      /\ stamps' * Stride \in Nat \ {0}
      /\ \A k \in 1..stamps : k \in 1..stamps'
  <2>1. stamps \in Nat \ {0}
    BY DEF TimesInv
  <2>2. /\ stamps' * Stride = stamps * Stride + Stride
        /\ stamps * Stride \in Nat
        /\ Stride \in Nat \ {0}
    BY <2>1, StrideGap, EvaluationAssumption
  <2>3. stamps' * Stride \in Nat \ {0}
    BY <2>2
  <2> QED
    BY <2>1, <2>3
<1>2. TimesInv'
  BY <1>1 DEF TimesInv
<1>3. CountInv'
  <2>1. Open' = Open \cup {w} /\ w \notin Open
    BY <1>1 DEF TimesInv, Open
  <2>2. IsFiniteSet(Open') /\ Cardinality(Open') = Cardinality(Open) + 1
    BY <2>1, FS_AddElement DEF CountInv
  <2>3. Cardinality(Open) \in Nat
    BY FS_CardinalityType DEF CountInv
  <2> QED
    BY <2>2, <2>3, <1>1, EvaluationAssumption DEF CountInv
<1>4. UNCHANGED <<version, evaluation, seen, pass, running>>
  BY DEF leaseVars
<1>5. PassInv'
  BY <1>1, <1>4 DEF PassInv, Begins, NoPass, PassType
<1>6. EvaluationInv'
  BY <1>1, <1>4 DEF EvaluationInv, StoredAs, Begins
<1> QED
  BY <1>2, <1>3, <1>5, <1>6

(* A batch becomes a version.                                              *)
LEMMA CommitWriteKeeps ==
    ASSUME PassesInv, NEW w \in Scans, CommitWrite(w)
    PROVE  PassesInv'
<1> USE DEF PassesInv, CommitWrite
<1>1. TimesInv'
  BY DEF TimesInv
<1>2. CountInv'
  <2>1. Open' = Open \ {w} /\ w \in Open
    BY DEF TimesInv, Open
  <2>2. IsFiniteSet(Open') /\ Cardinality(Open') = Cardinality(Open) - 1
    BY <2>1, FS_RemoveElement DEF CountInv
  <2>3. Cardinality(Open) \in Nat
    BY FS_CardinalityType DEF CountInv
  <2> QED
    BY <2>2, <2>3 DEF CountInv, TimesInv
<1>3. /\ version' = version + 1 /\ version \in Nat
      /\ UNCHANGED <<stamps, evaluation, seen, pass, running>>
  BY DEF CountInv, leaseVars
<1>4. PassInv'
  <2>1. ASSUME NEW p \in Processes, pass[p].phase = "apply"
        PROVE  pass[p].read \in Nat
    BY <2>1 DEF PassInv, PassType, NoPass
  <2> QED
    BY <1>3, <2>1 DEF PassInv
<1>5. EvaluationInv'
  BY <1>3 DEF EvaluationInv, StoredAs
<1> QED
  BY <1>1, <1>2, <1>4, <1>5
-----------------------------------------------------------------------------
(* One process at most is in a pass: its worker holds the lease.           *)
LEMMA OnePass ==
    ASSUME LeaseInv, PassInv, NEW p \in Processes, NEW q \in Processes,
           pass[p] # NoPass, pass[q] # NoPass
    PROVE  p = q
<1>1. holder = {p} /\ holder = {q}
  BY DEF LeaseInv, WorkersHoldLease, PassInv
<1> QED
  BY <1>1

(* What a pass is when it is not the last one.                             *)
LEMMA PassShape ==
    ASSUME PassInv, NEW p \in Processes, pass[p].phase \in {"read", "apply"}
    PROVE  /\ pass[p] # NoPass
           /\ pass[p].queue \in Seq(Applications) \ {<<>>}
           /\ Head(pass[p].queue) \in Applications
           /\ pass[p].observed \in Nat
           /\ pass[p].phase = "apply" => pass[p].read \in Nat
           /\ Rest(pass[p]) \in PassType
           /\ Rest(pass[p]) # NoPass => /\ Rest(pass[p]).phase = "read"
                                        /\ Rest(pass[p]).observed = pass[p].observed
<1>1. /\ pass[p] # NoPass
      /\ pass[p].queue \in Seq(Applications) \ {<<>>}
      /\ pass[p].observed \in Nat
      /\ pass[p].phase = "apply" => pass[p].read \in Nat
  <2>1. pass[p] \in PassType
    BY DEF PassInv
  <2> QED
    BY <2>1 DEF PassType, NoPass
<1>2. Head(pass[p].queue) \in Applications
  BY <1>1
<1>3. Len(pass[p].queue) # 1 => Tail(pass[p].queue) \in Seq(Applications) \ {<<>>}
  <2>1. /\ Tail(pass[p].queue) \in Seq(Applications)
        /\ Len(Tail(pass[p].queue)) = Len(pass[p].queue) - 1
        /\ Len(pass[p].queue) \in Nat \ {0}
    BY <1>1, HeadTailProperties, EmptySeq, LenProperties
  <2>2. Len(<<>>) = 0
    OBVIOUS
  <2> SUFFICES ASSUME Len(pass[p].queue) # 1, Tail(pass[p].queue) = <<>> PROVE FALSE
    BY <2>1
  <2>3. Len(pass[p].queue) - 1 = 0
    BY <2>1, <2>2
  <2> QED
    BY <2>1, <2>3
<1>4. CASE Len(pass[p].queue) = 1
  BY <1>4, <1>1, <1>2 DEF Rest, PassType
<1>5. CASE Len(pass[p].queue) # 1
  <2>1. Rest(pass[p]) = [phase |-> "read", queue |-> Tail(pass[p].queue),
                         observed |-> pass[p].observed]
    BY <1>5 DEF Rest
  <2> QED
    BY <2>1, <1>1, <1>2, <1>3, <1>5 DEF PassType
<1> QED
  BY <1>4, <1>5

(* A pass begins, in the worker of the lease's owner.                      *)
LEMMA StartPassKeeps ==
    ASSUME LeaseInv, PassesInv, NEW p \in Processes, StartPass(p)
    PROVE  PassesInv'
<1> USE DEF PassesInv
<1>1. UNCHANGED <<leaseVars, stamps, version, updatedAt, writing, evaluation, seen>>
  BY DEF StartPass
<1>2. TimesInv' /\ CountInv' /\ EvaluationInv'
  BY <1>1 DEF TimesInv, CountInv, Open, EvaluationInv, StoredAs
<1>3. PICK q \in Queues \ {<<>>} :
          pass' = [pass EXCEPT ![p] = [phase |-> "read", queue |-> q,
                                       observed |-> stamps * Stride + 1]]
  BY DEF StartPass
<1>4. q \in Seq(Applications) \ {<<>>}
  <2>1. PICK n \in 0..Cardinality(Applications) : q \in [1..n -> Applications]
    BY <1>3 DEF Queues
  <2> QED
    BY <2>1, <1>3
<1>5. stamps \in Nat \ {0} /\ Begins(stamps) \in Nat
  BY StrideGap DEF TimesInv
<1>6. pass' \in [Processes -> PassType]
  BY <1>3, <1>4, <1>5 DEF PassInv, PassType, Begins
<1>7. "transcripts" \in running[p]
  BY EvaluationAssumption DEF StartPass, LeaseInv
<1>8. ASSUME NEW a \in Applications PROVE seen[a].begun <= Begins(stamps)
  <2>1. CASE evaluation[a].at = 0
    BY <2>1, <1>5 DEF EvaluationInv
  <2>2. CASE evaluation[a].at # 0
    <3>1. PICK m \in 1..stamps : seen[a].begun = Begins(m)
      BY <2>2 DEF EvaluationInv, StoredAs
    <3>2. m \in Nat /\ m <= stamps
      BY <3>1, <1>5
    <3>3. m * Stride <= stamps * Stride /\ m * Stride \in Nat /\ stamps * Stride \in Nat
      BY <3>2, <1>5, StrideGap
    <3> QED
      BY <3>1, <3>3 DEF Begins
  <2> QED
    BY <2>1, <2>2
<1>9. ASSUME NEW q2 \in Processes, pass'[q2] # NoPass
      PROVE  /\ "transcripts" \in running[q2]
             /\ \E m \in 1..stamps : pass'[q2].observed = Begins(m)
             /\ \A a \in Applications : seen[a].begun <= pass'[q2].observed
             /\ pass'[q2].phase = "apply" =>
                    /\ pass'[q2].read <= version
                    /\ \A a \in Applications : seen[a].version <= pass'[q2].read
  <2>1. CASE q2 = p
    <3>1. pass'[p] = [phase |-> "read", queue |-> q, observed |-> Begins(stamps)]
      BY <1>3 DEF PassInv, Begins
    <3> QED
      BY <3>1, <2>1, <1>5, <1>7, <1>8
  <2>2. CASE q2 # p
    <3>1. pass'[q2] = pass[q2]
      BY <2>2, <1>3 DEF PassInv
    <3> QED
      BY <3>1, <1>9 DEF PassInv
  <2> QED
    BY <2>1, <2>2
<1>10. PassInv'
  BY <1>1, <1>6, <1>9 DEF PassInv, leaseVars, Begins, Stride
<1> QED
  BY <1>2, <1>10

(* The pass of a process becomes another one with its time.                *)
LEMMA PassMoves ==
    ASSUME PassInv, NEW p \in Processes, NEW x \in PassType,
           pass[p] # NoPass,
           UNCHANGED <<leaseVars, stamps, version, seen>>,
           pass' = [pass EXCEPT ![p] = x],
           x # NoPass => x.observed = pass[p].observed,
           x.phase = "apply" =>
               /\ x.read <= version
               /\ \A a \in Applications : seen[a].version <= x.read
    PROVE  PassInv'
<1>1. pass' \in [Processes -> PassType] /\ pass'[p] = x
  BY DEF PassInv
<1>2. ASSUME NEW q \in Processes, q # p PROVE pass'[q] = pass[q]
  BY <1>2 DEF PassInv
<1>3. UNCHANGED running
  BY DEF leaseVars
<1> QED
  BY <1>1, <1>2, <1>3 DEF PassInv, Begins, Stride

(* The evidence is read at the version of the moment.                      *)
LEMMA ReadEvidenceKeeps ==
    ASSUME PassesInv, NEW p \in Processes, ReadEvidence(p) \/ Cancel(p)
    PROVE  PassesInv'
<1> USE DEF PassesInv
<1> DEFINE x == [phase |-> "apply", queue |-> pass[p].queue,
                 observed |-> pass[p].observed, read |-> version]
<1>1. UNCHANGED <<leaseVars, stamps, version, updatedAt, writing, evaluation, seen>>
  BY DEF ReadEvidence, Cancel
<1>2. TimesInv' /\ CountInv' /\ EvaluationInv'
  BY <1>1 DEF TimesInv, CountInv, Open, EvaluationInv, StoredAs
<1>3. pass[p].phase = "read"
  BY DEF ReadEvidence, Cancel
<1>4. /\ pass[p] # NoPass
      /\ pass[p].queue \in Seq(Applications) \ {<<>>}
      /\ pass[p].observed \in Nat
      /\ Rest(pass[p]) \in PassType
      /\ Rest(pass[p]) # NoPass => /\ Rest(pass[p]).phase = "read"
                                   /\ Rest(pass[p]).observed = pass[p].observed
  BY <1>3, PassShape
<1>5. x \in PassType /\ x.observed = pass[p].observed /\ x.read = version
  BY <1>4 DEF PassType, CountInv
<1>6. ASSUME NEW a \in Applications PROVE seen[a].version <= version
  BY DEF EvaluationInv, StoredAs, CountInv
<1>7. version <= version
  BY DEF CountInv
<1>8. NoPass \in PassType /\ NoPass.phase # "apply"
  BY DEF PassType, NoPass
<1>9. Rest(pass[p]).phase # "apply"
  BY <1>4, <1>8
<1>10. pass' \in {[pass EXCEPT ![p] = y] : y \in {NoPass, Rest(pass[p]), x}}
  BY DEF ReadEvidence, Cancel
<1>11. PICK y \in {NoPass, Rest(pass[p]), x} : pass' = [pass EXCEPT ![p] = y]
  BY <1>10
<1>12. /\ y \in PassType
       /\ y # NoPass => y.observed = pass[p].observed
       /\ y.phase = "apply" => /\ y.read <= version
                               /\ \A a \in Applications : seen[a].version <= y.read
  BY <1>4, <1>5, <1>6, <1>7, <1>8, <1>9
<1> HIDE DEF x
<1>13. PassInv'
  BY <1>1, <1>4, <1>11, <1>12, PassMoves
<1> QED
  BY <1>2, <1>13

(* An evaluation is stored: one that moves the time of the one before by   *)
(* one read a later version, or it would have derived the same.            *)
LEMMA ApplyKeeps ==
    ASSUME LeaseInv, PassesInv, NEW p \in Processes, ApplyEvaluation(p)
    PROVE  PassesInv'
<1> USE DEF PassesInv
<1> DEFINE x == pass[p]
           a == Head(pass[p].queue)
           e == evaluation[a]
           s == [version |-> pass[p].read, begun |-> pass[p].observed]
<1>1. /\ x.phase = "apply"
      /\ pass' = [pass EXCEPT ![p] = Rest(x)]
      /\ seen' = [seen EXCEPT ![a] = s]
      /\ evaluation' = IF e.at # 0 /\ e.of = Derived(x.read) THEN evaluation
                       ELSE [evaluation EXCEPT ![a] = [at |-> EvaluatedAt(x, e),
                                                       of |-> Derived(x.read)]]
      /\ UNCHANGED <<leaseVars, stamps, version, updatedAt, writing>>
  BY DEF ApplyEvaluation
<1>2. TimesInv' /\ CountInv'
  BY <1>1 DEF TimesInv, CountInv, Open
<1>3. /\ x # NoPass /\ a \in Applications
      /\ x.observed \in Nat /\ x.read \in Nat
      /\ Rest(x) \in PassType
      /\ Rest(x) # NoPass => Rest(x).phase = "read" /\ Rest(x).observed = x.observed
  BY <1>1, PassShape
<1>4. /\ "transcripts" \in running[p]
      /\ \E m \in 1..stamps : x.observed = Begins(m)
      /\ \A b \in Applications : seen[b].begun <= x.observed
      /\ x.read <= version
      /\ \A b \in Applications : seen[b].version <= x.read
  BY <1>1, <1>3 DEF PassInv
<1>5. /\ \A b \in Applications : seen'[b] = IF b = a THEN s ELSE seen[b]
      /\ seen' \in [Applications -> [version : {-1} \cup Nat, begun : Nat]]
  BY <1>1, <1>3 DEF EvaluationInv
<1>6. PassInv'
  <2>1. pass' \in [Processes -> PassType] /\ pass'[p] = Rest(x)
    BY <1>1, <1>3 DEF PassInv
  <2>2. ASSUME NEW q \in Processes, q # p PROVE pass'[q] = NoPass
    BY <1>1, <1>3, <2>2, OnePass DEF PassInv
  <2>3. Rest(x) # NoPass =>
            /\ \E m \in 1..stamps : Rest(x).observed = Begins(m)
            /\ \A b \in Applications : seen'[b].begun <= Rest(x).observed
            /\ Rest(x).phase # "apply"
    <3>1. \A b \in Applications : seen'[b].begun <= x.observed
      BY <1>3, <1>4, <1>5
    <3> QED
      BY <3>1, <1>3, <1>4
  <2> QED
    BY <2>1, <2>2, <2>3, <1>1, <1>4 DEF PassInv, leaseVars, Begins, Stride
<1>7. ASSUME NEW b \in Applications, b # a
      PROVE  evaluation'[b] = evaluation[b] /\ seen'[b] = seen[b]
  BY <1>1, <1>5, <1>7 DEF EvaluationInv
<1>8. e.at \in Nat /\ x.observed \in Nat \ {0}
  <2>1. e.at \in Nat
    BY <1>3 DEF EvaluationInv
  <2>2. PICK m \in 1..stamps : x.observed = Begins(m)
    BY <1>4
  <2>3. m \in Nat
    BY <2>2 DEF TimesInv
  <2> QED
    BY <2>1, <2>2, <2>3, StrideGap
<1>9. /\ evaluation' \in [Applications -> [at : Nat, of : {-1} \cup {Derived(v) : v \in Nat}]]
      /\ evaluation'[a].at # 0
      /\ evaluation'[a].of = Derived(x.read)
      /\ evaluation'[a].at <= x.observed + x.read
  <2>1. CASE e.at # 0 /\ e.of = Derived(x.read)
    <3>1. StoredAs(e, seen[a])
      BY <2>1, <1>3 DEF EvaluationInv
    <3>2. e.at <= x.observed + x.read
      BY <3>1, <1>3, <1>4, <1>8 DEF StoredAs, EvaluationInv, CountInv
    <3> QED
      BY <3>2, <2>1, <1>1, <1>3 DEF EvaluationInv
  <2>2. CASE ~(e.at # 0 /\ e.of = Derived(x.read))
    <3>1. /\ EvaluatedAt(x, e) \in Nat \ {0}
          /\ EvaluatedAt(x, e) <= x.observed + x.read
      <4>1. CASE x.observed > e.at
        BY <4>1, <1>3, <1>8 DEF EvaluatedAt
      <4>2. CASE ~(x.observed > e.at)
        <5>1. e.at # 0 /\ e.of # Derived(x.read)
          BY <4>2, <2>2, <1>8
        <5>2. StoredAs(e, seen[a])
          BY <5>1, <1>3 DEF EvaluationInv
        <5>3. seen[a].version # x.read
          BY <5>1, <5>2 DEF StoredAs
        <5>4. /\ seen[a].version \in Nat /\ seen[a].begun \in Nat
              /\ seen[a].version < x.read
              /\ seen[a].begun <= x.observed
              /\ e.at <= seen[a].begun + seen[a].version
          <6>1. seen[a].begun \in Nat
            BY <1>3 DEF EvaluationInv
          <6>2. seen[a].version \in Nat /\ e.at <= seen[a].begun + seen[a].version
            BY <5>2 DEF StoredAs, CountInv
          <6>3. seen[a].begun <= x.observed /\ seen[a].version <= x.read
            BY <1>3, <1>4
          <6> QED
            BY <6>1, <6>2, <6>3, <5>3, <1>3
        <5> QED
          BY <5>4, <4>2, <1>3, <1>8 DEF EvaluatedAt
      <4> QED
        BY <4>1, <4>2
    <3>2. evaluation' = [evaluation EXCEPT ![a] = [at |-> EvaluatedAt(x, e),
                                                   of |-> Derived(x.read)]]
      BY <2>2, <1>1
    <3>3. evaluation'[a] = [at |-> EvaluatedAt(x, e), of |-> Derived(x.read)]
      BY <3>2, <1>3 DEF EvaluationInv
    <3> QED
      BY <3>1, <3>2, <3>3, <1>3 DEF EvaluationInv
  <2> QED
    BY <2>1, <2>2
<1>10. ASSUME NEW b \in Applications, b = a
       PROVE  StoredAs(evaluation[b], seen[b])'
  <2>1. seen'[b] = s /\ s.version = x.read /\ s.begun = x.observed
    BY <1>10, <1>3, <1>5
  <2>2. UNCHANGED <<stamps, version>>
    BY <1>1
  <2>3. /\ evaluation'[b].of = Derived(x.read)
        /\ evaluation'[b].at <= x.observed + x.read
    BY <1>9, <1>10
  <2>4. x.read \in 0..version
    BY <1>3, <1>4 DEF CountInv
  <2>5. \E m \in 1..stamps : x.observed = Begins(m)
    BY <1>4
  <2> HIDE DEF x, s, a
  <2> QED
    BY <2>1, <2>2, <2>3, <2>4, <2>5 DEF StoredAs, Derived, Begins, Stride
<1>11. EvaluationInv'
  <2>1. UNCHANGED <<stamps, version>>
    BY <1>1
  <2>2. ASSUME NEW b \in Applications
        PROVE  /\ evaluation'[b].at = 0 => seen'[b] = [version |-> -1, begun |-> 0]
               /\ evaluation'[b].at # 0 => StoredAs(evaluation[b], seen[b])'
    <3>1. CASE b = a
      BY <3>1, <1>9, <1>10
    <3>2. CASE b # a
      BY <3>2, <1>7, <2>1 DEF EvaluationInv, StoredAs, Derived, Begins, Stride
    <3> QED
      BY <3>1, <3>2
  <2> QED
    BY <2>2, <1>5, <1>9 DEF EvaluationInv, Derived
<1> QED
  BY <1>2, <1>6, <1>11
-----------------------------------------------------------------------------
(* What the lease does to passes: no loop that is in one ends, and those   *)
(* of a process that is starting start anew.                               *)
LEMMA LeaseKeepsPasses ==
    ASSUME LeaseInv, PassesInv,
           UNCHANGED <<stamps, version, updatedAt, writing, evaluation, seen>>,
           pass' \in [Processes -> PassType],
           \A p \in Processes : pass'[p] # NoPass =>
               pass'[p] = pass[p] /\ "transcripts" \in running'[p]
    PROVE  PassesInv'
<1> USE DEF PassesInv
<1>1. TimesInv' /\ CountInv' /\ EvaluationInv'
  BY DEF TimesInv, CountInv, Open, EvaluationInv, StoredAs
<1>2. PassInv'
  BY DEF PassInv, Begins, Stride
<1> QED
  BY <1>1, <1>2

(* The runtime's steps, the ends of the loops, crashes and probes.         *)
LEMMA LeaseStepKeepsPasses ==
    ASSUME LeaseInv, PassesInv,
           \/ LeaseStep
           \/ \E p \in Processes : ProcessCrash(p) \/ \E w \in Workers : WorkerEnds(p, w)
    PROVE  PassesInv'
<1>1. /\ pass \in [Processes -> PassType]
      /\ running \in [Processes -> SUBSET Workers]
      /\ \A p \in Processes : pass[p] # NoPass => "transcripts" \in running[p]
      /\ NoPass \in PassType
  BY DEF PassesInv, PassInv, PassType, LeaseInv, LeaseTypeOK
<1>2. CASE LeaseStep
  <2>1. UNCHANGED evaluationVars
    BY <1>2 DEF LeaseStep
  <2>2. ASSUME NEW p \in Processes, "transcripts" \in running[p]
        PROVE  "transcripts" \in running'[p]
    <3>1. ASSUME NEW q \in Processes, Step(q)
          PROVE  running' \in {running, [running EXCEPT ![q] = Workers]}
      BY <3>1 DEF Step, Acquire, StartWorkers, Release, Start
    <3>2. ASSUME NEW q \in Processes, OpenFails(q) \/ Stop(q) PROVE running' = running
      BY <3>2 DEF OpenFails, Stop
    <3>3. ASSUME NEW q \in Probers, Probe(q) \/ EndProbe(q) PROVE running' = running
      BY <3>3 DEF Probe, EndProbe
    <3> QED
      BY <3>1, <3>2, <3>3, <2>2, <1>1, <1>2 DEF LeaseStep
  <2> QED
    BY <2>1, <2>2, <1>1, LeaseKeepsPasses DEF evaluationVars
<1>3. ASSUME NEW p \in Processes, ProcessCrash(p) PROVE PassesInv'
  <2>1. /\ pass' = [pass EXCEPT ![p] = NoPass]
        /\ running' = [running EXCEPT ![p] = {}]
        /\ UNCHANGED <<stamps, version, updatedAt, writing, evaluation, seen>>
    BY <1>3 DEF ProcessCrash, Crash
  <2> QED
    BY <2>1, <1>1, LeaseKeepsPasses
<1>4. ASSUME NEW p \in Processes, NEW w \in Workers, WorkerEnds(p, w) PROVE PassesInv'
  <2>1. /\ UNCHANGED evaluationVars
        /\ running' = [running EXCEPT ![p] = @ \ {w}]
        /\ w = "transcripts" => pass[p] = NoPass
    BY <1>4 DEF WorkerEnds, LoopEnds
  <2> QED
    BY <2>1, <1>1, LeaseKeepsPasses DEF evaluationVars
<1> QED
  BY <1>2, <1>3, <1>4

(* Every step, of the lease and of the evaluation.                         *)
LEMMA NextKeepsEvaluation ==
    EvaluationSafety /\ [Next]_vars => EvaluationSafety'
<1> SUFFICES ASSUME EvaluationSafety, [Next]_vars PROVE EvaluationSafety'
  OBVIOUS
<1> USE DEF EvaluationSafety
<1>1. LeaseInv'
  BY NextKeepsLease
<1>2. ASSUME LeaseStep PROVE PassesInv'
  BY <1>2, LeaseStepKeepsPasses
<1>3. ASSUME NEW p \in Processes,
             PassStep(p) \/ ProcessCrash(p) \/ \E w \in Workers : WorkerEnds(p, w)
      PROVE  PassesInv'
  BY <1>3, StartPassKeeps, ReadEvidenceKeeps, ApplyKeeps, LeaseStepKeepsPasses
     DEF PassStep
<1>4. ASSUME NEW w \in Scans, BeginWrite(w) \/ CommitWrite(w) PROVE PassesInv'
  BY <1>4, BeginWriteKeeps, CommitWriteKeeps
<1>5. ASSUME UNCHANGED vars PROVE PassesInv'
  <2>1. UNCHANGED leaseVars /\ UNCHANGED evaluationVars
    BY <1>5 DEF vars
  <2> QED
    BY <2>1, LeaseKeepsPasses DEF PassesInv, PassInv, leaseVars, evaluationVars
<1>6. PassesInv'
  BY <1>2, <1>3, <1>4, <1>5 DEF Next
<1> QED
  BY <1>1, <1>6

(* The lease and the passes keep their invariants whatever processes take  *)
(* the lease, stop, fail, crash, probe or write transcripts.               *)
THEOREM EvaluationSafe == Spec => []EvaluationSafety
<1>1. Init => EvaluationSafety
  BY InitLease, InitPasses DEF Init, EvaluationSafety
<1> QED
  BY <1>1, NextKeepsEvaluation, PTL DEF Spec

(* Worker loops run in the process that holds the lease and in no other:   *)
(* the next owner's loops never meet those of the one before.              *)
THEOREM WorkersAreOwned == Spec => []WorkersHoldLease
<1>1. EvaluationSafety => WorkersHoldLease
  BY DEF EvaluationSafety, LeaseInv
<1> QED
  BY <1>1, EvaluationSafe, PTL

(* An update that the query of a pass does not see although the stored     *)
(* evaluation is not of it carries a time before the pass: the time of an  *)
(* evaluation does not reach the next reading of the clock.                *)
LEMMA MissedIsEarlier ==
    ASSUME PassesInv, NEW a \in Applications, ~Current(a), ~Needs(a)
    PROVE  updatedAt < seen[a].begun
<1> USE DEF PassesInv
<1>1. PICK k \in 1..stamps : updatedAt = k * Stride
  BY DEF TimesInv
<1>2. /\ k \in Nat /\ updatedAt \in Nat
      /\ evaluation[a].at \in Nat
      /\ evaluation[a].at # 0
      /\ updatedAt <= evaluation[a].at
  BY <1>1, StrideGap DEF Needs, EvaluationInv, TimesInv
<1>3. StoredAs(evaluation[a], seen[a])
  BY <1>2 DEF EvaluationInv
<1>4. PICK m \in 1..stamps : seen[a].begun = Begins(m)
  BY <1>3 DEF StoredAs
<1>5. m \in Nat /\ m * Stride \in Nat /\ (m + 1) * Stride = m * Stride + Stride
  <2>1. m \in Nat
    BY <1>4 DEF TimesInv
  <2> QED
    BY ONLY <2>1, StrideGap, Zenon
<1>6. seen[a].version \in Nat /\ seen[a].version <= MaxWrites
  <2>1. version <= MaxWrites /\ version \in Nat
    BY FS_CardinalityType, EvaluationAssumption DEF CountInv, TimesInv
  <2> QED
    BY <2>1, <1>3, EvaluationAssumption DEF StoredAs
<1>7. evaluation[a].at < (m + 1) * Stride
  <2>1. /\ evaluation[a].at <= seen[a].begun + seen[a].version
        /\ seen[a].begun = m * Stride + 1
    BY <1>3, <1>4 DEF StoredAs, Begins
  <2>2. Stride \in Nat /\ Stride = MaxWrites + 2 /\ MaxWrites \in Nat
    BY StrideGap, EvaluationAssumption
  <2> DEFINE ms == m * Stride
  <2>3. ms \in Nat /\ (m + 1) * Stride = ms + Stride /\ seen[a].begun = ms + 1
    BY <1>5, <2>1
  <2> HIDE DEF ms
  <2> QED
    BY <2>1, <2>2, <2>3, <1>2, <1>6
<1>8. k <= m
  <2>1. k * Stride < (m + 1) * Stride
    <3>1. (m + 1) * Stride \in Nat /\ updatedAt < (m + 1) * Stride
      <4>1. (m + 1) * Stride \in Nat
        BY <1>5, StrideGap
      <4> DEFINE ms == (m + 1) * Stride
      <4>2. ms \in Nat /\ evaluation[a].at < ms
        BY <4>1, <1>7
      <4> HIDE DEF ms
      <4>3. updatedAt < ms
        BY <4>2, <1>2
      <4> QED
        BY <4>1, <4>3 DEF ms
    <3> QED
      BY <3>1, <1>1
  <2> QED
    BY <2>1, <1>2, <1>5, StrideGap
<1>9. k * Stride <= m * Stride
  BY <1>8, <1>2, <1>5, StrideGap
<1> QED
  BY <1>1, <1>2, <1>4, <1>5, <1>9 DEF Begins

(* Whatever is written, and however often a pass is repeated within one    *)
(* reading of the clock, only an update older than the pass is missed.     *)
THEOREM MissedAreEarlier == Spec => []OnlyEarlierWritesAreMissed
<1>1. EvaluationSafety => OnlyEarlierWritesAreMissed
  BY MissedIsEarlier DEF EvaluationSafety, OnlyEarlierWritesAreMissed
<1> QED
  BY <1>1, EvaluationSafe, PTL
=============================================================================
