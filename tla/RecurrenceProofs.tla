--------------------------- MODULE RecurrenceProofs --------------------------
(***************************************************************************)
(* Proofs about RecurrenceJobs, for every set of workers and occurrences,  *)
(* every batch limit and every bound, and about RecurrenceCatchup, for     *)
(* every set of sessions and processes and every bound.                    *)
(***************************************************************************)
EXTENDS RecurrenceJobs, RecurrenceCatchup, FiniteSetTheorems, SequenceTheorems, TLAPS

-----------------------------------------------------------------------------
(* Batches.                                                                *)

(* A batch is the fixes between the old position and the new one, and the  *)
(* new one stays within the snapshot.                                      *)
LEMMA BatchReachesPosition ==
    ASSUME NEW row \in Row, row.after <= row.snapshot
    PROVE  /\ Position(row) \in row.after..row.snapshot
           /\ Batch(row) = row.after + 1..Position(row)
<1> USE JobsAssumption
<1>1. row.after \in Nat /\ row.snapshot \in Nat
  BY DEF Row
<1>2. Position(row) \in row.after..row.snapshot
  BY <1>1 DEF Position
<1>3. ASSUME NEW a
      PROVE  a \in Batch(row) <=> a \in row.after + 1..Position(row)
  <2>1. CASE row.after + BatchLimit < row.snapshot
    BY <1>1, <2>1 DEF Batch, Position
  <2>2. CASE row.after + BatchLimit >= row.snapshot
    BY <1>1, <2>2 DEF Batch, Position
  <2> QED
    BY <1>1, <2>1, <2>2
<1> QED
  BY <1>2, <1>3

(* The two ways ProcessRecurrenceBatch recognises the last batch both mean *)
(* that the position is the snapshot.                                      *)
LEMMA LastBatchIsLast ==
    ASSUME NEW row \in Row, row.after <= row.snapshot,
           Cardinality(Batch(row)) < BatchLimit \/ Position(row) >= row.snapshot
    PROVE  Position(row) = row.snapshot
<1> USE JobsAssumption
<1>1. row.after \in Nat /\ row.snapshot \in Nat
  BY DEF Row
<1>2. Position(row) \in row.after..row.snapshot /\ Batch(row) = row.after + 1..Position(row)
  BY BatchReachesPosition
<1>3. CASE Position(row) >= row.snapshot
  BY <1>1, <1>2, <1>3
<1>4. CASE Cardinality(Batch(row)) < BatchLimit
  <2> DEFINE first == row.after + 1
             last == Position(row)
  <2>1. first \in Int /\ last \in Int
    BY <1>1, <1>2
  <2>2. Cardinality(first..last) = IF first > last THEN 0 ELSE last - first + 1
    <3> HIDE DEF first, last
    <3> QED
      BY <2>1, FS_Interval
  <2>3. Cardinality(Batch(row)) = IF first > last THEN 0 ELSE last - first + 1
    BY <1>2, <2>2
  <2>4. ~(row.after + BatchLimit < row.snapshot)
    <3> SUFFICES ASSUME row.after + BatchLimit < row.snapshot
                 PROVE  FALSE
      OBVIOUS
    <3>1. Position(row) = row.after + BatchLimit
      BY DEF Position
    <3> QED
      BY <1>1, <1>4, <2>3, <3>1
  <2> QED
    BY <1>1, <2>4 DEF Position
<1> QED
  BY <1>3, <1>4

-----------------------------------------------------------------------------
(* Rows.                                                                   *)

(* The fields of a row.                                                    *)
LEMMA RowFields ==
    ASSUME NEW row \in Row
    PROVE  /\ row.snapshot \in Nat /\ row.after \in Nat
           /\ row.generation \in Nat /\ row.attempt \in Nat
           /\ row.matches \subseteq (Nat \ {0}) \X Occurrences
BY DEF Row

(* Writing one row of the table leaves the others and their number alone.  *)
LEMMA RowWritten ==
    ASSUME JobsTypeOK, NEW c \in 1..Len(jobs), NEW r \in Row
    PROVE  /\ [jobs EXCEPT ![c] = r] \in Seq(Row)
           /\ Len([jobs EXCEPT ![c] = r]) = Len(jobs)
           /\ \A j \in 1..Len(jobs) : [jobs EXCEPT ![c] = r][j] = IF j = c THEN r ELSE jobs[j]
<1>1. jobs \in Seq(Row)
  BY DEF JobsTypeOK
<1> QED
  BY <1>1, ExceptSeq

(* The job of a claim, and the fields of a claim and of its row.           *)
LEMMA ClaimedRow ==
    ASSUME JobsTypeOK, NEW w \in Workers, worker[w].phase = "holding"
    PROVE  /\ worker[w].claim.job \in 1..Len(jobs)
           /\ jobs[worker[w].claim.job] \in Row
           /\ jobs[worker[w].claim.job].after <= jobs[worker[w].claim.job].snapshot
           /\ worker[w].claim.generation \in Nat /\ worker[w].claim.attempt \in Nat
<1>1. jobs \in Seq(Row) /\ worker[w] \in Holder /\ worker[w].claim.job \in 1..Len(jobs)
  BY DEF JobsTypeOK
<1>2. jobs[worker[w].claim.job] \in Row
  BY <1>1, ElementOfSeq
<1> QED
  BY <1>1, <1>2 DEF JobsTypeOK, Holder

-----------------------------------------------------------------------------
(* What is kept.                                                           *)

(* A worker that does something with a claim is left with a claim of an    *)
(* existing job or with none.                                              *)
LEMMA WorkerWritten ==
    ASSUME JobsTypeOK, NEW w \in Workers, NEW h \in Holder,
           h.phase = "holding" => h.claim.job \in 1..Len(jobs'),
           Len(jobs') \in Nat, Len(jobs') >= Len(jobs),
           worker' = [worker EXCEPT ![w] = h]
    PROVE  /\ worker' \in [Workers -> Holder]
           /\ \A x \in Workers : worker'[x].phase = "holding" =>
                 worker'[x].claim.job \in 1..Len(jobs')
<1>1. jobs \in Seq(Row) /\ worker \in [Workers -> Holder]
  BY DEF JobsTypeOK
<1>2. Len(jobs) \in Nat
  BY <1>1, LenProperties
<1>3. \A x \in Workers : worker'[x] = IF x = w THEN h ELSE worker[x]
  BY <1>1
<1> QED
  BY <1>1, <1>2, <1>3 DEF JobsTypeOK

(* The values a worker is left with are its type.                          *)
LEMMA Holders ==
    /\ Resting \in Holder /\ Resting.phase = "idle"
    /\ [Resting EXCEPT !.phase = "down"] \in Holder
    /\ [Resting EXCEPT !.phase = "down"].phase = "down"
BY DEF Resting, Holder, NoClaim

(* Workers that keep their claim or lose it stay numbered.                 *)
LEMMA NumberedKept ==
    ASSUME JobsTypeOK, ClaimsNumbered,
           \A x \in Workers : worker'[x] = worker[x] \/ worker'[x].phase # "holding",
           \A j \in 1..Len(jobs) : jobs'[j].generation = jobs[j].generation
    PROVE  ClaimsNumbered'
<1>1. \A x \in Workers : worker[x].phase = "holding" => worker[x].claim.job \in 1..Len(jobs)
  BY DEF JobsTypeOK
<1> QED
  BY <1>1 DEF ClaimsNumbered

(* What was judged stays judged when nothing is taken back and no row      *)
(* moves its position or completes.                                        *)
LEMMA JudgedKept ==
    ASSUME JobsTypeOK, JudgedSoFar,
           Len(jobs') = Len(jobs),
           \A j \in 1..Len(jobs) :
              /\ jobs'[j].snapshot = jobs[j].snapshot /\ jobs'[j].matches = jobs[j].matches
              /\ jobs'[j].after = jobs[j].after
              /\ jobs'[j].state = "complete" => jobs[j].state = "complete",
           observed \subseteq observed', retracted \subseteq retracted',
           \A a \in 1..Len(fixes) : fixes'[a] = fixes[a]
    PROVE  JudgedSoFar'
<1> SUFFICES ASSUME NEW j \in 1..Len(jobs)
             PROVE  /\ jobs'[j].matches \subseteq (1..jobs'[j].snapshot) \X Occurrences
                    /\ jobs'[j].state = "complete" => jobs'[j].after = jobs'[j].snapshot
                    /\ \A m \in jobs'[j].matches : m[1] <= jobs'[j].after =>
                          m \in observed' \/ m[1] \in retracted' \/ ~fixes'[m[1]]
  BY DEF JudgedSoFar
<1>1. jobs[j] \in Row /\ jobs[j].snapshot <= Len(fixes) /\ Len(fixes) \in Nat
  BY ElementOfSeq, LenProperties DEF JobsTypeOK
<1>2. jobs[j].snapshot \in Nat
  BY <1>1, RowFields
<1>3. \A m \in jobs[j].matches : m[1] \in 1..Len(fixes)
  <2>1. jobs[j].matches \subseteq (1..jobs[j].snapshot) \X Occurrences
    BY DEF JudgedSoFar
  <2> QED
    BY <1>1, <1>2, <2>1
<1> QED
  BY <1>3 DEF JudgedSoFar

-----------------------------------------------------------------------------
(* The mapped state.                                                       *)

(* The mapped evaluations are a sequence with one element for each job.    *)
Mapped ==
    /\ Evaluations \in Seq(Promise!Evaluation)
    /\ Len(Evaluations) = Len(jobs)
    /\ \A j \in 1..Len(jobs) :
          Evaluations[j] = [snapshot |-> jobs[j].snapshot, matches |-> jobs[j].matches,
                            through |-> jobs[j].after]

(* They are when the tables have their shape.                              *)
LEMMA EvaluationsAre == JobsTypeOK => Mapped
<1> SUFFICES ASSUME JobsTypeOK PROVE Mapped
  OBVIOUS
<1>1. jobs \in Seq(Row) /\ Len(jobs) \in Nat
  BY LenProperties DEF JobsTypeOK
<1>2. \A j \in 1..Len(jobs) :
         [snapshot |-> jobs[j].snapshot, matches |-> jobs[j].matches, through |-> jobs[j].after]
            \in Promise!Evaluation
  <2> TAKE j \in 1..Len(jobs)
  <2>1. jobs[j] \in Row
    BY <1>1, ElementOfSeq
  <2> QED
    BY <2>1, RowFields DEF Promise!Evaluation
<1>3. Evaluations \in [1..Len(jobs) -> Promise!Evaluation]
  BY <1>2 DEF Evaluations
<1>4. Evaluations \in Seq(Promise!Evaluation)
  BY <1>1, <1>3, SeqDef
<1>5. DOMAIN Evaluations = 1..Len(jobs) /\ DOMAIN Evaluations = 1..Len(Evaluations)
  BY <1>3, <1>4, LenProperties
<1>6. Len(Evaluations) \in Nat
  BY <1>4, LenProperties
<1> QED
  BY <1>1, <1>4, <1>5, <1>6 DEF Evaluations, Mapped

(* Rows that keep snapshot, matches and position map to the same           *)
(* evaluations.                                                            *)
LEMMA EvaluationsKept ==
    ASSUME Len(jobs') = Len(jobs),
           \A j \in 1..Len(jobs) :
              /\ jobs'[j].snapshot = jobs[j].snapshot /\ jobs'[j].matches = jobs[j].matches
              /\ jobs'[j].after = jobs[j].after
    PROVE  Evaluations' = Evaluations
BY DEF Evaluations


-----------------------------------------------------------------------------
(* The steps.                                                              *)

(* ClaimRecurrenceJob preserves the invariant.                             *)
LEMMA ClaimStep ==
    ASSUME JobsInv, NEW w \in Workers, NEW j \in 1..Len(jobs), ClaimRecurrenceJob(w, j)
    PROVE  JobsInv' /\ UNCHANGED Promise!evaluationVars
<1> USE DEF JobsInv
<1> DEFINE row == jobs[j]
           r == [row EXCEPT !.state = "claimed", !.generation = row.generation + 1,
                            !.attempt = row.attempt + 1, !.leased = TRUE]
           h == [phase |-> "holding", claim |-> [job |-> j, generation |-> row.generation + 1,
                                                 attempt |-> row.attempt + 1]]
<1>1. jobs \in Seq(Row) /\ row \in Row /\ Len(jobs) \in Nat
  BY ElementOfSeq, LenProperties DEF JobsTypeOK
<1>2. /\ r \in Row
      /\ r.snapshot = row.snapshot /\ r.matches = row.matches /\ r.after = row.after
      /\ r.generation = row.generation + 1 /\ r.state = "claimed"
  <2> DEFINE g == row.generation + 1
             n == row.attempt + 1
  <2>1. g \in Nat /\ n \in Nat
    <3> HIDE DEF row
    <3> QED
      BY <1>1, RowFields
  <2>2. r = [row EXCEPT !.state = "claimed", !.generation = g, !.attempt = n, !.leased = TRUE]
    OBVIOUS
  <2> HIDE DEF row, g, n, r
  <2>3. /\ r \in Row
        /\ r.snapshot = row.snapshot /\ r.matches = row.matches /\ r.after = row.after
        /\ r.generation = g /\ r.state = "claimed"
    BY <1>1, <2>1, <2>2 DEF Row, JobStates
  <2> QED
    BY <2>3 DEF g
<1>3. jobs' = [jobs EXCEPT ![j] = r] /\ worker' = [worker EXCEPT ![w] = h]
  BY DEF ClaimRecurrenceJob
<1>4. /\ jobs' \in Seq(Row) /\ Len(jobs') = Len(jobs)
      /\ \A i \in 1..Len(jobs) : jobs'[i] = IF i = j THEN r ELSE jobs[i]
  <2> HIDE DEF r
  <2> QED
    BY <1>2, <1>3, RowWritten
<1>5. h \in Holder /\ h.claim.job = j
  <2> HIDE DEF row
  <2>1. row.generation + 1 \in Nat /\ row.attempt + 1 \in Nat /\ j \in Nat
    BY <1>1, RowFields
  <2> QED
    BY <2>1 DEF Holder
<1>6. /\ worker' \in [Workers -> Holder]
      /\ \A x \in Workers : worker'[x].phase = "holding" => worker'[x].claim.job \in 1..Len(jobs')
  <2> HIDE DEF h, row, r
  <2>1. h.claim.job \in 1..Len(jobs') /\ Len(jobs') \in Nat /\ Len(jobs') >= Len(jobs)
    BY <1>1, <1>4, <1>5
  <2>2. worker' = [worker EXCEPT ![w] = h]
    BY <1>3
  <2> QED
    BY <1>5, <2>1, <2>2, WorkerWritten
<1>7. UNCHANGED <<fixes, retracted, journal, observed, faults>>
  BY DEF ClaimRecurrenceJob, fixVars
<1>8. \A i \in 1..Len(jobs') : jobs'[i].snapshot <= Len(fixes') /\ jobs'[i].after <= jobs'[i].snapshot
  <2> HIDE DEF r
  <2> QED
    BY <1>2, <1>4, <1>7 DEF JobsTypeOK
<1>9. JobsTypeOK'
  BY <1>4, <1>6, <1>7, <1>8 DEF JobsTypeOK
<1>10. ClaimsNumbered'
  <2>1. h.phase = "holding" /\ h.claim.job = j /\ h.claim.generation = row.generation + 1
    OBVIOUS
  <2> HIDE DEF h, r, row
  <2>2. \A x \in Workers : worker'[x] = IF x = w THEN h ELSE worker[x]
    BY <1>3 DEF JobsTypeOK
  <2>3. \A x \in Workers : worker[x].phase = "holding" =>
           worker[x].claim.job \in 1..Len(jobs) /\ worker[x].claim.generation \in Nat
    BY ClaimedRow
  <2>4. row.generation \in Nat
    BY <1>1, RowFields
  <2>5. \A x \in Workers : worker[x].phase = "holding" /\ worker[x].claim.job = j =>
           worker[x].claim.generation <= row.generation
    BY DEF ClaimsNumbered, row
  <2>6. \A x \in Workers : worker'[x].phase = "holding" =>
           worker'[x].claim.generation <= jobs'[worker'[x].claim.job].generation
    <3> SUFFICES ASSUME NEW x \in Workers, worker'[x].phase = "holding"
                 PROVE  worker'[x].claim.generation <= jobs'[worker'[x].claim.job].generation
      OBVIOUS
    <3>1. CASE x = w
      <4>1. worker'[x].claim.generation = row.generation + 1
        BY <2>1, <2>2, <3>1
      <4>2. jobs'[worker'[x].claim.job] = r
        BY <1>4, <2>1, <2>2, <3>1
      <4> QED
        BY <1>2, <2>4, <4>1, <4>2
    <3>2. CASE x # w /\ worker[x].claim.job = j
      <4>1. worker'[x] = worker[x] /\ jobs'[worker'[x].claim.job] = r
        BY <1>4, <2>2, <3>2
      <4>2. worker[x].claim.generation \in Nat /\ worker[x].claim.generation <= row.generation
        BY <2>3, <2>5, <3>2, <4>1
      <4> QED
        BY <1>2, <2>4, <4>1, <4>2
    <3>3. CASE x # w /\ worker[x].claim.job # j
      BY <1>4, <2>2, <2>3, <3>3 DEF ClaimsNumbered
    <3> QED
      BY <3>1, <3>2, <3>3
  <2>7. ASSUME NEW x \in Workers, x # w, worker[x].phase = "holding",
               worker[x].claim.job = j
        PROVE  worker[x].claim.generation # row.generation + 1
    BY <2>3, <2>4, <2>5, <2>7
  <2>8. ASSUME NEW x \in Workers, NEW y \in Workers,
               worker'[x].phase = "holding", worker'[y].phase = "holding",
               worker'[x].claim.job = worker'[y].claim.job,
               worker'[x].claim.generation = worker'[y].claim.generation
        PROVE  x = y
    <3>1. CASE x = w
      BY <2>1, <2>2, <2>7, <2>8, <3>1
    <3>2. CASE y = w
      BY <2>1, <2>2, <2>7, <2>8, <3>2
    <3>3. CASE x # w /\ y # w
      BY <2>2, <2>8, <3>3 DEF ClaimsNumbered
    <3> QED
      BY <3>1, <3>2, <3>3
  <2> QED
    BY <2>6, <2>8 DEF ClaimsNumbered
<1>11. JudgedSoFar'
  <2> HIDE DEF h, r
  <2>1. \A i \in 1..Len(jobs) :
           /\ jobs'[i].snapshot = jobs[i].snapshot /\ jobs'[i].matches = jobs[i].matches
           /\ jobs'[i].after = jobs[i].after
           /\ jobs'[i].state = "complete" => jobs[i].state = "complete"
    BY <1>2, <1>4
  <2> QED
    BY <1>4, <1>7, <2>1, JudgedKept
<1>12. UNCHANGED Promise!evaluationVars
  <2> HIDE DEF h, r
  <2>1. Evaluations' = Evaluations
    BY <1>2, <1>4, EvaluationsKept
  <2> QED
    BY <1>7, <2>1 DEF Promise!evaluationVars
<1> QED
  BY <1>9, <1>10, <1>11, <1>12

(* ProcessRecurrenceBatch preserves the invariant: what is before the new  *)
(* position was judged before or is in this batch.                         *)
LEMMA BatchStep ==
    ASSUME JobsInv, NEW w \in Workers, ProcessRecurrenceBatch(w)
    PROVE  JobsInv' /\ [Promise!EvaluationNext]_Promise!evaluationVars
<1> USE DEF JobsInv
<1> DEFINE c == worker[w].claim.job
           row == jobs[c]
           completed == Cardinality(Batch(row)) < BatchLimit \/ Position(row) >= row.snapshot
           r == [row EXCEPT !.after = Position(row),
                            !.state = IF completed THEN "complete" ELSE "claimed",
                            !.leased = ~completed]
<1>1. c \in 1..Len(jobs) /\ row \in Row /\ row.after <= row.snapshot /\ jobs \in Seq(Row)
  BY ClaimedRow DEF JobsTypeOK, ProcessRecurrenceBatch
<1>2. Len(jobs) \in Nat
  BY <1>1, LenProperties
<1>3. Position(row) \in row.after..row.snapshot
  BY <1>1, BatchReachesPosition
<1>4. Position(row) \in Nat /\ row.snapshot \in Nat
  <2> HIDE DEF row
  <2> QED
    BY <1>1, <1>3, RowFields
<1>5. completed \in BOOLEAN
  OBVIOUS
<1>6. /\ r \in Row
      /\ r.snapshot = row.snapshot /\ r.matches = row.matches /\ r.after = Position(row)
      /\ r.generation = row.generation /\ (r.state = "complete" => completed)
  <2> DEFINE state == IF completed THEN "complete" ELSE "claimed"
             leased == ~completed
  <2>1. state \in JobStates /\ leased \in BOOLEAN
    <3>1. CASE completed
      BY <3>1 DEF JobStates
    <3>2. CASE ~completed
      BY <3>2 DEF JobStates
    <3> QED
      BY <3>1, <3>2
  <2>2. r = [row EXCEPT !.after = Position(row), !.state = state, !.leased = leased]
    OBVIOUS
  <2>3. state = "complete" => completed
    OBVIOUS
  <2>4. /\ r \in Row
        /\ r.snapshot = row.snapshot /\ r.matches = row.matches /\ r.after = Position(row)
        /\ r.generation = row.generation /\ r.state = state
    <3> HIDE DEF completed, row, state, leased, r
    <3> QED
      BY <1>1, <1>4, <2>1, <2>2 DEF Row
  <2> HIDE DEF completed, row, state, leased, r
  <2> QED
    BY <2>3, <2>4
<1>7. jobs' = [jobs EXCEPT ![c] = r]
  BY DEF ProcessRecurrenceBatch
<1>8. /\ jobs' \in Seq(Row) /\ Len(jobs') = Len(jobs)
      /\ \A i \in 1..Len(jobs) : jobs'[i] = IF i = c THEN r ELSE jobs[i]
  <2> HIDE DEF r, c
  <2> QED
    BY <1>1, <1>6, <1>7, RowWritten
<1>9. /\ worker' \in [Workers -> Holder]
      /\ \A x \in Workers : worker'[x].phase = "holding" => worker'[x].claim.job \in 1..Len(jobs')
  <2>1. CASE completed
    <3>1. worker' = [worker EXCEPT ![w] = Resting]
      BY <2>1 DEF ProcessRecurrenceBatch
    <3> HIDE DEF r, row, c, completed
    <3>2. Len(jobs') \in Nat /\ Len(jobs') >= Len(jobs)
      BY <1>2, <1>8
    <3>3. Resting \in Holder /\ Resting.phase # "holding"
      BY Holders
    <3> QED
      BY <3>1, <3>2, <3>3, WorkerWritten
  <2>2. CASE ~completed
    <3>1. worker' = worker
      BY <2>2 DEF ProcessRecurrenceBatch
    <3> QED
      BY <1>8, <3>1 DEF JobsTypeOK
  <2> QED
    BY <2>1, <2>2
<1>10. UNCHANGED <<fixes, retracted, faults>>
  BY DEF ProcessRecurrenceBatch, fixVars
<1>11. journal' \subseteq JobEvent
  <2>1. [job |-> c, kind |-> "complete", attempt |-> row.attempt] \in JobEvent
    <3> HIDE DEF c, row
    <3>1. row.attempt \in Nat /\ c \in Nat \ {0}
      BY <1>1, <1>2, RowFields
    <3> QED
      BY <3>1 DEF JobEvent
  <2>2. journal' \in {journal, journal \cup {[job |-> c, kind |-> "complete", attempt |-> row.attempt]}}
    BY DEF ProcessRecurrenceBatch
  <2> QED
    BY <2>1, <2>2 DEF JobsTypeOK
<1>12. observed' \subseteq (Nat \ {0}) \X Occurrences
  <2>1. Recurrences(row) \subseteq row.matches /\ observed' = observed \cup Recurrences(row)
    BY DEF Recurrences, ProcessRecurrenceBatch
  <2>2. row.matches \subseteq (Nat \ {0}) \X Occurrences
    BY <1>1 DEF Row
  <2> QED
    BY <2>1, <2>2 DEF JobsTypeOK
<1>13. \A i \in 1..Len(jobs') : jobs'[i].snapshot <= Len(fixes') /\ jobs'[i].after <= jobs'[i].snapshot
  <2> HIDE DEF r
  <2> QED
    BY <1>1, <1>3, <1>4, <1>6, <1>8, <1>10 DEF JobsTypeOK
<1>14. JobsTypeOK'
  BY <1>8, <1>9, <1>10, <1>11, <1>12, <1>13 DEF JobsTypeOK
<1>15. ClaimsNumbered'
  <2>1. \A i \in 1..Len(jobs) : jobs'[i].generation = jobs[i].generation
    <3> HIDE DEF r
    <3> QED
      BY <1>6, <1>8
  <2>2. \A x \in Workers : worker'[x] = worker[x] \/ worker'[x].phase # "holding"
    <3>1. worker' = worker \/ worker' = [worker EXCEPT ![w] = Resting]
      BY DEF ProcessRecurrenceBatch
    <3> QED
      BY <3>1, Holders DEF JobsTypeOK
  <2> QED
    BY <2>1, <2>2, NumberedKept
<1>16. JudgedSoFar'
  <2> SUFFICES ASSUME NEW i \in 1..Len(jobs)
               PROVE  /\ jobs'[i].matches \subseteq (1..jobs'[i].snapshot) \X Occurrences
                      /\ jobs'[i].state = "complete" => jobs'[i].after = jobs'[i].snapshot
                      /\ \A m \in jobs'[i].matches : m[1] <= jobs'[i].after =>
                            m \in observed' \/ m[1] \in retracted' \/ ~fixes'[m[1]]
    BY <1>8 DEF JudgedSoFar
  <2>1. observed' = observed \cup Recurrences(row)
    BY DEF ProcessRecurrenceBatch
  <2>2. CASE i # c
    BY <1>8, <1>10, <2>1, <2>2 DEF JudgedSoFar
  <2>3. CASE i = c
    <3>1. jobs'[i] = r
      BY <1>8, <2>3
    <3>2. row.matches \subseteq (1..row.snapshot) \X Occurrences
      BY <1>1 DEF JudgedSoFar
    <3>3. completed => Position(row) = row.snapshot
      BY <1>1, LastBatchIsLast
    <3>4. ASSUME NEW m \in row.matches, m[1] <= Position(row)
          PROVE  m \in observed' \/ m[1] \in retracted' \/ ~fixes'[m[1]]
      <4>1. m[1] \in 1..row.snapshot
        BY <3>2
      <4>2. CASE m[1] <= row.after
        <5>1. m \in observed \/ m[1] \in retracted \/ ~fixes[m[1]]
          BY <1>1, <4>2 DEF JudgedSoFar
        <5> QED
          BY <1>10, <2>1, <5>1
      <4>3. CASE m[1] > row.after
        <5>1. Batch(row) = row.after + 1..Position(row)
          BY <1>1, BatchReachesPosition
        <5>2. row.after \in Nat
          <6> HIDE DEF row
          <6> QED
            BY <1>1, RowFields
        <5>3. m[1] \in Batch(row)
          <6> HIDE DEF row
          <6> QED
            BY <1>4, <3>4, <4>1, <4>3, <5>1, <5>2
        <5>4. m[1] \in retracted \/ ~fixes[m[1]] \/ m \in Recurrences(row)
          <6> HIDE DEF row
          <6> QED
            BY <3>4, <5>3 DEF Recurrences
        <5> QED
          BY <1>10, <2>1, <5>4
      <4>4. m[1] \in Nat /\ row.after \in Nat
        <5> HIDE DEF row
        <5> QED
          BY <1>1, <1>4, <4>1, RowFields
      <4> QED
        BY <4>2, <4>3, <4>4
    <3> HIDE DEF r, row, completed, c
    <3> QED
      BY <1>6, <3>1, <3>2, <3>3, <3>4
  <2> QED
    BY <2>2, <2>3
<1>17. ASSUME Position(row) = row.after
       PROVE  UNCHANGED Promise!evaluationVars
  <2>1. Batch(row) = {}
    <3> HIDE DEF row
    <3> QED
      BY <1>1, <1>17, BatchReachesPosition, RowFields
  <2>2. observed' = observed
    BY <2>1 DEF Recurrences, ProcessRecurrenceBatch
  <2>3. Evaluations' = Evaluations
    <3> HIDE DEF r
    <3> QED
      BY <1>6, <1>8, <1>17, EvaluationsKept
  <2> QED
    BY <1>10, <2>2, <2>3 DEF Promise!evaluationVars
<1>18. ASSUME Position(row) # row.after
       PROVE  Promise!EvaluationNext
  <2> DEFINE n == Position(row)
             e == [Evaluations[c] EXCEPT !.through = n]
  <2>1. row.after \in Nat /\ n \in row.after + 1..row.snapshot /\ n \in 1..row.snapshot
    <3> HIDE DEF row
    <3> QED
      BY <1>1, <1>3, <1>4, <1>18, RowFields
  <2>2. Mapped /\ Mapped'
    BY <1>14, EvaluationsAre, PTL
  <2>3. Evaluations[c] = [snapshot |-> row.snapshot, matches |-> row.matches, through |-> row.after]
    BY <1>1, <2>2 DEF Mapped
  <2>4. e = [snapshot |-> row.snapshot, matches |-> row.matches, through |-> n]
    BY <2>3
  <2>5. e \in Promise!Evaluation
    <3> HIDE DEF row, e, n
    <3> QED
      BY <1>1, <1>4, <2>1, <2>4, RowFields DEF Promise!Evaluation
  <2>6. Evaluations' = [Evaluations EXCEPT ![c] = e]
    <3>1. /\ [Evaluations EXCEPT ![c] = e] \in Seq(Promise!Evaluation)
          /\ Len([Evaluations EXCEPT ![c] = e]) = Len(jobs)
          /\ \A j \in 1..Len(jobs) :
                [Evaluations EXCEPT ![c] = e][j] = IF j = c THEN e ELSE Evaluations[j]
      <4> HIDE DEF e, c
      <4> QED
        BY <1>1, <2>2, <2>5, ExceptSeq DEF Mapped
    <3>2. \A j \in 1..Len(jobs) :
             Evaluations'[j] = IF j = c THEN e ELSE Evaluations[j]
      <4> TAKE j \in 1..Len(jobs)
      <4>1. Evaluations'[j] = [snapshot |-> jobs'[j].snapshot, matches |-> jobs'[j].matches,
                               through |-> jobs'[j].after]
        BY <1>8, <2>2 DEF Mapped
      <4>2. CASE j = c
        <5> HIDE DEF r, e, c, row
        <5> QED
          BY <1>6, <1>8, <2>4, <4>1, <4>2
      <4>3. CASE j # c
        <5> HIDE DEF r, e, c, row
        <5> QED
          BY <1>8, <2>2, <4>1, <4>3 DEF Mapped
      <4> QED
        BY <4>2, <4>3
    <3>3. Len(jobs') = Len(jobs)
      BY <1>8
    <3> HIDE DEF e, c, row, r
    <3> QED
      BY <2>2, <3>1, <3>2, <3>3, SeqEqual DEF Mapped
  <2>7. observed' = observed \cup
           {m \in Evaluations[c].matches :
               m[1] \in (Evaluations[c].through + 1..n) \ retracted /\ fixes[m[1]]}
    <3>1. observed' = observed \cup Recurrences(row)
      BY DEF ProcessRecurrenceBatch
    <3>2. Batch(row) = row.after + 1..n
      BY <1>1, BatchReachesPosition
    <3> HIDE DEF row, n
    <3> QED
      BY <2>3, <3>1, <3>2 DEF Recurrences
  <2>8. c \in 1..Len(Evaluations)
    BY <1>1, <2>2 DEF Mapped
  <2>9. Promise!Judge(c, n)
    <3> HIDE DEF row, n, c
    <3> QED
      BY <1>10, <2>1, <2>3, <2>6, <2>7 DEF Promise!Judge, e
  <2>10. n \in 1..Evaluations[c].snapshot
    BY <2>1, <2>3
  <2> QED
    BY <2>8, <2>9, <2>10 DEF Promise!EvaluationNext
<1> QED
  BY <1>14, <1>15, <1>16, <1>17, <1>18

(* A step that writes at most the lease, the back-off and an incomplete    *)
(* state of one row, and takes claims away at most, preserves the          *)
(* invariant.                                                              *)
LEMMA RowStep ==
    ASSUME JobsInv, NEW c \in 1..Len(jobs), NEW r \in Row,
           jobs' = [jobs EXCEPT ![c] = r],
           r.snapshot = jobs[c].snapshot, r.matches = jobs[c].matches,
           r.after = jobs[c].after, r.generation = jobs[c].generation,
           r.state = "complete" => jobs[c].state = "complete",
           UNCHANGED <<fixes, retracted, observed>>,
           journal' \subseteq JobEvent, faults' \in Nat,
           worker' \in [Workers -> Holder],
           \A x \in Workers : worker'[x] = worker[x] \/ worker'[x].phase # "holding"
    PROVE  JobsInv' /\ UNCHANGED Promise!evaluationVars
<1> USE DEF JobsInv
<1>1. /\ jobs' \in Seq(Row) /\ Len(jobs') = Len(jobs)
      /\ \A i \in 1..Len(jobs) : jobs'[i] = IF i = c THEN r ELSE jobs[i]
  BY RowWritten
<1>2. \A i \in 1..Len(jobs) :
         /\ jobs'[i].snapshot = jobs[i].snapshot /\ jobs'[i].matches = jobs[i].matches
         /\ jobs'[i].after = jobs[i].after /\ jobs'[i].generation = jobs[i].generation
         /\ jobs'[i].state = "complete" => jobs[i].state = "complete"
  BY <1>1
<1>3. JobsTypeOK'
  BY <1>1, <1>2 DEF JobsTypeOK
<1>4. ClaimsNumbered'
  BY <1>2, NumberedKept
<1>5. JudgedSoFar'
  BY <1>1, <1>2, JudgedKept
<1>6. Evaluations' = Evaluations
  BY <1>1, <1>2, EvaluationsKept
<1> QED
  BY <1>3, <1>4, <1>5, <1>6 DEF Promise!evaluationVars

(* A step that only takes claims away preserves the invariant.             *)
LEMMA WorkerStep ==
    ASSUME JobsInv, UNCHANGED <<fixes, retracted, jobs, journal, observed>>,
           faults' \in Nat, worker' \in [Workers -> Holder],
           \A x \in Workers : worker'[x] = worker[x] \/ worker'[x].phase # "holding"
    PROVE  JobsInv' /\ UNCHANGED Promise!evaluationVars
<1> USE DEF JobsInv
<1>1. JobsTypeOK'
  BY DEF JobsTypeOK
<1>2. ClaimsNumbered'
  BY NumberedKept
<1>3. JudgedSoFar'
  BY JudgedKept
<1>4. Evaluations' = Evaluations
  BY EvaluationsKept
<1> QED
  BY <1>1, <1>2, <1>3, <1>4 DEF Promise!evaluationVars


(* What a worker that is left without a claim holds.                       *)
LEMMA ClaimDropped ==
    ASSUME JobsTypeOK, NEW w \in Workers, NEW h \in Holder, h.phase # "holding",
           worker' = [worker EXCEPT ![w] = h]
    PROVE  /\ worker' \in [Workers -> Holder]
           /\ \A x \in Workers : worker'[x] = worker[x] \/ worker'[x].phase # "holding"
BY DEF JobsTypeOK

(* DropStaleClaim, AbandonClaim, WorkerCrash and WorkerRestart preserve    *)
(* the invariant.                                                          *)
LEMMA LostClaimStep ==
    ASSUME JobsInv, NEW w \in Workers,
           DropStaleClaim(w) \/ AbandonClaim(w) \/ WorkerCrash(w) \/ WorkerRestart(w)
    PROVE  JobsInv' /\ UNCHANGED Promise!evaluationVars
<1>1. JobsTypeOK
  BY DEF JobsInv
<1>2. PICK h \in Holder : h.phase # "holding" /\ worker' = [worker EXCEPT ![w] = h]
  BY Holders DEF DropStaleClaim, AbandonClaim, WorkerCrash, WorkerRestart
<1>3. faults' \in Nat
  BY <1>1 DEF JobsTypeOK, DropStaleClaim, AbandonClaim, WorkerCrash, WorkerRestart
<1>4. UNCHANGED <<fixes, retracted, jobs, journal, observed>>
  BY DEF DropStaleClaim, AbandonClaim, WorkerCrash, WorkerRestart, fixVars
<1>5. /\ worker' \in [Workers -> Holder]
      /\ \A x \in Workers : worker'[x] = worker[x] \/ worker'[x].phase # "holding"
  BY <1>1, <1>2, ClaimDropped
<1> QED
  BY <1>3, <1>4, <1>5, WorkerStep

(* FailRecurrenceJob preserves the invariant.                              *)
LEMMA FailStep ==
    ASSUME JobsInv, NEW w \in Workers, FailRecurrenceJob(w)
    PROVE  JobsInv' /\ UNCHANGED Promise!evaluationVars
<1> DEFINE c == worker[w].claim.job
           row == jobs[c]
           r == [row EXCEPT !.state = "failed", !.leased = FALSE, !.backoff = TRUE]
           e == [job |-> c, kind |-> "failed", attempt |-> worker[w].claim.attempt]
<1>1. JobsTypeOK
  BY DEF JobsInv
<1>2. /\ c \in 1..Len(jobs) /\ row \in Row /\ Len(jobs) \in Nat
      /\ worker[w].claim.attempt \in Nat
  BY <1>1, ClaimedRow, LenProperties DEF FailRecurrenceJob, JobsTypeOK
<1>3. /\ worker' \in [Workers -> Holder]
      /\ \A x \in Workers : worker'[x] = worker[x] \/ worker'[x].phase # "holding"
  BY <1>1, Holders, ClaimDropped DEF FailRecurrenceJob
<1>4. UNCHANGED <<fixes, retracted, observed>> /\ faults' \in Nat
  BY <1>1 DEF FailRecurrenceJob, fixVars, JobsTypeOK
<1>5. CASE Current(w)
  <2>1. /\ r \in Row
        /\ r.snapshot = row.snapshot /\ r.matches = row.matches /\ r.after = row.after
        /\ r.generation = row.generation /\ r.state = "failed"
    <3> HIDE DEF row
    <3> QED
      BY <1>2 DEF Row, JobStates
  <2>2. jobs' = [jobs EXCEPT ![c] = r] /\ journal' = journal \cup {e}
    BY <1>5 DEF FailRecurrenceJob
  <2>3. e \in JobEvent
    <3> HIDE DEF c
    <3> QED
      BY <1>2 DEF JobEvent
  <2>4. journal' \subseteq JobEvent
    BY <1>1, <2>2, <2>3 DEF JobsTypeOK
  <2> HIDE DEF c, r, e
  <2> QED
    BY <1>2, <1>3, <1>4, <2>1, <2>2, <2>4, RowStep
<1>6. CASE ~Current(w)
  <2>1. UNCHANGED <<jobs, journal>>
    BY <1>6 DEF FailRecurrenceJob
  <2> QED
    BY <1>3, <1>4, <2>1, WorkerStep
<1> QED
  BY <1>5, <1>6

(* A lease or a back-off running out preserves the invariant.              *)
LEMMA ClockStep ==
    ASSUME JobsInv, NEW j \in 1..Len(jobs), LeaseExpires(j) \/ LeaseOutrun(j) \/ RetryDue(j)
    PROVE  JobsInv' /\ UNCHANGED Promise!evaluationVars
<1> DEFINE row == jobs[j]
<1>1. JobsTypeOK
  BY DEF JobsInv
<1>2. row \in Row
  BY <1>1, ElementOfSeq DEF JobsTypeOK
<1>3. PICK r : /\ r = [row EXCEPT !.leased = FALSE] \/ r = [row EXCEPT !.backoff = FALSE]
               /\ jobs' = [jobs EXCEPT ![j] = r]
  BY DEF LeaseExpires, LeaseOutrun, Expire, RetryDue
<1>4. /\ r \in Row
      /\ r.snapshot = row.snapshot /\ r.matches = row.matches /\ r.after = row.after
      /\ r.generation = row.generation /\ r.state = row.state
  <2> HIDE DEF row
  <2> QED
    BY <1>2, <1>3 DEF Row
<1>5. UNCHANGED <<fixes, retracted, observed, journal, worker>> /\ faults' \in Nat
  BY <1>1 DEF LeaseExpires, LeaseOutrun, Expire, RetryDue, fixVars, JobsTypeOK
<1>6. worker' \in [Workers -> Holder] /\ journal' \subseteq JobEvent
  BY <1>1, <1>5 DEF JobsTypeOK
<1> QED
  BY <1>3, <1>4, <1>5, <1>6, RowStep

(* EnqueueRecurrenceJob preserves the invariant: the new row has no        *)
(* position yet, and is complete only without fixes.                       *)
LEMMA EnqueueStep ==
    ASSUME JobsInv, EnqueueRecurrenceJob
    PROVE  JobsInv' /\ Promise!PublishAnalysis
<1> USE DEF JobsInv
<1> DEFINE n == Len(fixes)
           state == IF n = 0 THEN "complete" ELSE "pending"
<1>1. jobs \in Seq(Row) /\ Len(jobs) \in Nat /\ n \in Nat
  BY LenProperties DEF JobsTypeOK
<1>2. PICK matches \in SUBSET ((1..n) \X Occurrences) :
         jobs' = Append(jobs, [snapshot |-> n, matches |-> matches, state |-> state,
                               after |-> 0, generation |-> 0, attempt |-> 0,
                               leased |-> FALSE, backoff |-> FALSE])
  BY DEF EnqueueRecurrenceJob
<1> DEFINE r == [snapshot |-> n, matches |-> matches, state |-> state, after |-> 0,
                 generation |-> 0, attempt |-> 0, leased |-> FALSE, backoff |-> FALSE]
<1>3. state \in JobStates /\ (state = "complete" => n = 0)
  <2>1. CASE n = 0
    BY <2>1 DEF JobStates
  <2>2. CASE n # 0
    BY <2>2 DEF JobStates
  <2> QED
    BY <2>1, <2>2
<1>4. matches \subseteq (Nat \ {0}) \X Occurrences
  <2> HIDE DEF n
  <2>1. 1..n \subseteq Nat \ {0}
    BY <1>1
  <2> QED
    BY <1>2, <2>1
<1>5. /\ r \in Row /\ r.snapshot = n /\ r.matches = matches /\ r.after = 0 /\ r.state = state
  <2> HIDE DEF n, state
  <2> QED
    BY <1>1, <1>3, <1>4 DEF Row
<1>6. /\ jobs' \in Seq(Row) /\ Len(jobs') = Len(jobs) + 1
      /\ \A i \in 1..Len(jobs) : jobs'[i] = jobs[i]
      /\ jobs'[Len(jobs) + 1] = r
  <2>1. jobs' = Append(jobs, r)
    BY <1>2
  <2> HIDE DEF r
  <2> QED
    BY <1>1, <1>5, <2>1, AppendProperties
<1>7. UNCHANGED <<fixes, retracted, observed, worker, faults>>
  BY DEF EnqueueRecurrenceJob, fixVars
<1>8. \A i \in 1..Len(jobs') : i \in 1..Len(jobs) \/ i = Len(jobs) + 1
  BY <1>1, <1>6
<1>9. 1..Len(jobs) \subseteq 1..Len(jobs')
  BY <1>1, <1>6
<1>10. journal' \subseteq JobEvent
  <2>1. [job |-> Len(jobs) + 1, kind |-> "queued", attempt |-> 0] \in JobEvent
    BY <1>1 DEF JobEvent
  <2>2. [job |-> Len(jobs) + 1, kind |-> "complete", attempt |-> 0] \in JobEvent
    BY <1>1 DEF JobEvent
  <2>3. journal \subseteq JobEvent
    BY DEF JobsTypeOK
  <2>4. journal' \subseteq journal \cup
           {[job |-> Len(jobs) + 1, kind |-> "queued", attempt |-> 0],
            [job |-> Len(jobs) + 1, kind |-> "complete", attempt |-> 0]}
    BY DEF EnqueueRecurrenceJob
  <2> QED
    BY <2>1, <2>2, <2>3, <2>4
<1>11. \A i \in 1..Len(jobs') : jobs'[i].snapshot <= Len(fixes') /\ jobs'[i].after <= jobs'[i].snapshot
  <2> HIDE DEF r
  <2> QED
    BY <1>1, <1>5, <1>6, <1>7, <1>8 DEF JobsTypeOK
<1>12. JobsTypeOK'
  BY <1>6, <1>7, <1>9, <1>10, <1>11 DEF JobsTypeOK
<1>13. ClaimsNumbered'
  <2>1. \A x \in Workers : worker[x].phase = "holding" => worker[x].claim.job \in 1..Len(jobs)
    BY DEF JobsTypeOK
  <2> QED
    BY <1>6, <1>7, <2>1 DEF ClaimsNumbered
<1>14. JudgedSoFar'
  <2> SUFFICES ASSUME NEW i \in 1..Len(jobs')
               PROVE  /\ jobs'[i].matches \subseteq (1..jobs'[i].snapshot) \X Occurrences
                      /\ jobs'[i].state = "complete" => jobs'[i].after = jobs'[i].snapshot
                      /\ \A m \in jobs'[i].matches : m[1] <= jobs'[i].after =>
                            m \in observed' \/ m[1] \in retracted' \/ ~fixes'[m[1]]
    BY DEF JudgedSoFar
  <2>1. CASE i \in 1..Len(jobs)
    BY <1>6, <1>7, <2>1 DEF JudgedSoFar
  <2>2. CASE i = Len(jobs) + 1
    <3>1. \A m \in matches : m[1] \in 1..n
      BY <1>2
    <3>2. \A m \in matches : ~(m[1] <= 0)
      <4> HIDE DEF n
      <4> QED
        BY <1>1, <3>1
    <3> HIDE DEF r, state, n
    <3>3. matches \subseteq (1..n) \X Occurrences
      BY <1>2
    <3> QED
      BY <1>3, <1>5, <1>6, <2>2, <3>2, <3>3
  <2> QED
    BY <1>8, <2>1, <2>2
<1>15. Promise!PublishAnalysis
  <2> DEFINE e == [snapshot |-> n, matches |-> matches, through |-> 0]
  <2>1. e \in Promise!Evaluation
    <3> HIDE DEF n
    <3> QED
      BY <1>1, <1>4 DEF Promise!Evaluation
  <2>2. Mapped
    BY EvaluationsAre
  <2>3. Mapped'
    BY <1>12, EvaluationsAre, PTL
  <2>4. /\ Append(Evaluations, e) \in Seq(Promise!Evaluation)
        /\ Len(Append(Evaluations, e)) = Len(jobs) + 1
        /\ \A j \in 1..Len(jobs) : Append(Evaluations, e)[j] = Evaluations[j]
        /\ Append(Evaluations, e)[Len(jobs) + 1] = e
    <3> HIDE DEF e
    <3> QED
      BY <2>1, <2>2, AppendProperties DEF Mapped
  <2>5. \A j \in 1..Len(jobs') : Evaluations'[j] = Append(Evaluations, e)[j]
    <3> TAKE j \in 1..Len(jobs')
    <3>1. CASE j \in 1..Len(jobs)
      BY <1>6, <2>2, <2>3, <2>4, <3>1 DEF Mapped
    <3>2. CASE j = Len(jobs) + 1
      <4>1. jobs'[j] = r
        BY <1>6, <3>2
      <4> HIDE DEF r, n
      <4> QED
        BY <1>5, <2>3, <2>4, <3>2, <4>1 DEF Mapped
    <3> QED
      BY <1>8, <3>1, <3>2
  <2>6. Evaluations' = Append(Evaluations, e)
    <3> HIDE DEF e
    <3> QED
      BY <1>6, <2>3, <2>4, <2>5, SeqEqual DEF Mapped
  <2>7. Len(Evaluations) < MaxJobs
    BY <2>2 DEF EnqueueRecurrenceJob, Mapped
  <2> QED
    BY <1>2, <1>7, <2>6, <2>7 DEF Promise!PublishAnalysis
<1> QED
  BY <1>12, <1>13, <1>14, <1>15


(* RecordFixAnnotation preserves the invariant: snapshots are of earlier   *)
(* fixes, which keep their scope.                                          *)
LEMMA RecordStep ==
    ASSUME JobsInv, RecordFixAnnotation
    PROVE  JobsInv' /\ Promise!RecordFix
<1> USE DEF JobsInv
<1>1. jobs \in Seq(Row) /\ Len(fixes) \in Nat /\ fixes \in Seq(BOOLEAN)
  BY LenProperties DEF JobsTypeOK
<1>2. PICK captured \in BOOLEAN : fixes' = Append(fixes, captured)
  BY DEF RecordFixAnnotation
<1>3. /\ fixes' \in Seq(BOOLEAN) /\ Len(fixes') = Len(fixes) + 1
      /\ \A a \in 1..Len(fixes) : fixes'[a] = fixes[a]
  BY <1>1, <1>2, AppendProperties
<1>4. UNCHANGED <<retracted, jobs, journal, observed, worker, faults>>
  BY DEF RecordFixAnnotation
<1>5. 1..Len(fixes) \subseteq 1..Len(fixes')
  BY <1>1, <1>3
<1>6. \A j \in 1..Len(jobs) : jobs[j].snapshot <= Len(fixes')
  <2> TAKE j \in 1..Len(jobs)
  <2>1. jobs[j] \in Row /\ jobs[j].snapshot <= Len(fixes)
    BY <1>1, ElementOfSeq DEF JobsTypeOK
  <2>2. jobs[j].snapshot \in Nat
    BY <2>1, RowFields
  <2> QED
    BY <1>1, <1>3, <2>1, <2>2
<1>7. JobsTypeOK'
  BY <1>3, <1>4, <1>5, <1>6 DEF JobsTypeOK
<1>8. ClaimsNumbered'
  BY <1>4, NumberedKept
<1>9. JudgedSoFar'
  BY <1>3, <1>4, JudgedKept
<1>10. Promise!RecordFix
  <2>1. Evaluations' = Evaluations
    BY <1>4, EvaluationsKept
  <2> QED
    BY <1>4, <2>1 DEF Promise!RecordFix, RecordFixAnnotation
<1> QED
  BY <1>7, <1>8, <1>9, <1>10

(* RetractFixAnnotation preserves the invariant.                           *)
LEMMA RetractStep ==
    ASSUME JobsInv, RetractFixAnnotation
    PROVE  JobsInv' /\ Promise!RetractFix
<1> USE DEF JobsInv
<1>1. UNCHANGED <<fixes, jobs, journal, observed, worker, faults>>
  BY DEF RetractFixAnnotation
<1>2. retracted \subseteq retracted' /\ retracted' \subseteq 1..Len(fixes)
  BY DEF RetractFixAnnotation, JobsTypeOK
<1>3. JobsTypeOK'
  BY <1>1, <1>2 DEF JobsTypeOK
<1>4. ClaimsNumbered'
  BY <1>1, NumberedKept
<1>5. JudgedSoFar'
  BY <1>1, <1>2, JudgedKept
<1>6. Promise!RetractFix
  <2>1. Evaluations' = Evaluations
    BY <1>1, EvaluationsKept
  <2> QED
    BY <1>1, <2>1 DEF Promise!RetractFix, RetractFixAnnotation
<1> QED
  BY <1>3, <1>4, <1>5, <1>6

-----------------------------------------------------------------------------
(* The invariant.                                                          *)

(* The empty tables satisfy the invariant.                                 *)
LEMMA InitSafe == JobsInit => JobsInv
<1> SUFFICES ASSUME JobsInit PROVE JobsInv
  OBVIOUS
<1>1. /\ fixes = <<>> /\ retracted = {} /\ jobs = <<>> /\ journal = {} /\ observed = {}
      /\ worker = [w \in Workers |-> Resting] /\ faults = 0
  BY DEF JobsInit
<1>2. fixes \in Seq(BOOLEAN) /\ jobs \in Seq(Row) /\ Len(jobs) = 0
  BY <1>1, EmptySeq
<1>3. 1..Len(jobs) = {}
  BY <1>2
<1>4. /\ worker \in [Workers -> Holder]
      /\ \A w \in Workers : worker[w].phase # "holding"
  BY <1>1, Holders
<1> QED
  BY <1>1, <1>2, <1>3, <1>4 DEF JobsInv, JobsTypeOK, ClaimsNumbered, JudgedSoFar

(* Every step preserves the invariant and is a step of the promise or      *)
(* leaves it alone.                                                        *)
LEMMA StepSafe ==
    JobsInv /\ [JobsNext]_jobVars => JobsInv' /\ [Promise!EvaluationNext]_Promise!evaluationVars
<1> SUFFICES ASSUME JobsInv, [JobsNext]_jobVars
             PROVE  JobsInv' /\ [Promise!EvaluationNext]_Promise!evaluationVars
  OBVIOUS
<1>1. CASE RecordFixAnnotation
  BY <1>1, RecordStep DEF Promise!EvaluationNext
<1>2. CASE RetractFixAnnotation
  BY <1>2, RetractStep DEF Promise!EvaluationNext
<1>3. CASE EnqueueRecurrenceJob
  BY <1>3, EnqueueStep DEF Promise!EvaluationNext
<1>4. ASSUME NEW w \in Workers, Work(w)
      PROVE  JobsInv' /\ [Promise!EvaluationNext]_Promise!evaluationVars
  BY <1>4, ClaimStep, BatchStep, LostClaimStep DEF Work
<1>5. ASSUME NEW w \in Workers, Disturb(w)
      PROVE  JobsInv' /\ [Promise!EvaluationNext]_Promise!evaluationVars
  BY <1>5, FailStep, LostClaimStep DEF Disturb
<1>6. ASSUME NEW j \in 1..Len(jobs), Tick(j) \/ LeaseOutrun(j)
      PROVE  JobsInv' /\ [Promise!EvaluationNext]_Promise!evaluationVars
  BY <1>6, ClockStep DEF Tick
<1>7. CASE UNCHANGED jobVars
  <2>1. JobsInv'
    BY <1>7 DEF jobVars, JobsInv, JobsTypeOK, ClaimsNumbered, JudgedSoFar
  <2>2. UNCHANGED Promise!evaluationVars
    BY <1>7 DEF jobVars, Promise!evaluationVars, Evaluations
  <2> QED
    BY <2>1, <2>2
<1> QED
  BY <1>1, <1>2, <1>3, <1>4, <1>5, <1>6, <1>7 DEF JobsNext

(* The inductive invariant of the queue: shapes, numbered claims and       *)
(* judged positions, through every interleaving of workers, failures,      *)
(* crashes and leases running out.                                         *)
THEOREM JobsSafe == JobsSpec => []JobsInv
<1> QED
  BY InitSafe, StepSafe, PTL DEF JobsSpec

(* The tables of the queue keep their shape.                               *)
THEOREM JobsTypeCorrect == JobsSpec => []JobsTypeOK
<1>1. JobsInv => JobsTypeOK
  BY DEF JobsInv
<1> QED
  BY <1>1, JobsSafe, PTL

(* The claim of a job that ProcessRecurrenceBatch or FailRecurrenceJob     *)
(* would accept is held by one worker at most: two such claims have the    *)
(* row's generation both.                                                  *)
THEOREM OneClaim == JobsSpec => []OneCurrentClaim
<1>1. JobsInv => OneCurrentClaim
  BY DEF JobsInv, ClaimsNumbered, OneCurrentClaim, Current
<1> QED
  BY <1>1, JobsSafe, PTL

(* A complete job has judged every match of its analysis with the fixes it *)
(* was enqueued with.                                                      *)
THEOREM NoneLost == JobsSpec => []NoRecurrenceLost
<1>1. ASSUME JobsInv
      PROVE  NoRecurrenceLost
  <2> SUFFICES ASSUME NEW j \in 1..Len(jobs), jobs[j].state = "complete",
                      NEW m \in jobs[j].matches
               PROVE  m \in observed \/ m[1] \in retracted \/ ~fixes[m[1]]
    BY DEF NoRecurrenceLost
  <2>1. /\ jobs[j].matches \subseteq (1..jobs[j].snapshot) \X Occurrences
        /\ jobs[j].after = jobs[j].snapshot
    BY <1>1 DEF JobsInv, JudgedSoFar
  <2>2. m[1] \in 1..jobs[j].snapshot
    BY <2>1
  <2>3. jobs[j].snapshot \in Nat
    BY <1>1, ElementOfSeq, RowFields DEF JobsInv, JobsTypeOK
  <2>4. m[1] <= jobs[j].after
    BY <2>1, <2>2, <2>3
  <2> QED
    BY <1>1, <2>4 DEF JobsInv, JudgedSoFar
<1> QED
  BY <1>1, JobsSafe, PTL



(* The queue implements RecurrenceEvaluation: with every batch a job goes  *)
(* on from where any worker before left it, and each of its fixes is       *)
(* judged once.                                                            *)
THEOREM Implements == JobsSpec => EvaluatesOnce
<1>1. JobsInit => Promise!EvaluationInit
  <2> SUFFICES ASSUME JobsInit PROVE Promise!EvaluationInit
    OBVIOUS
  <2>1. fixes = <<>> /\ retracted = {} /\ jobs = <<>> /\ observed = {}
    BY DEF JobsInit
  <2>2. Mapped
    BY InitSafe, EvaluationsAre DEF JobsInv
  <2>3. Len(Evaluations) = 0
    BY <2>1, <2>2 DEF Mapped
  <2>4. Evaluations = <<>>
    BY <2>2, <2>3, EmptySeq DEF Mapped
  <2> QED
    BY <2>1, <2>4 DEF Promise!EvaluationInit
<1>2. JobsInv /\ [JobsNext]_jobVars => [Promise!EvaluationNext]_Promise!evaluationVars
  BY StepSafe
<1> QED
  BY <1>1, <1>2, JobsSafe, PTL DEF JobsSpec, EvaluatesOnce, Promise!EvaluationSpec

-----------------------------------------------------------------------------
(* The ledger of job events.                                               *)

(* The ledger of one job: it was queued once, its last attempt ended as    *)
(* its row says, and the attempts before it failed.                        *)
Queued(j) == [job |-> j, kind |-> "queued", attempt |-> 0]

LedgerOf(j) ==
    /\ EventsOf(j, "queued") = {Queued(j)}
    /\ \A e \in journal : e.job = j /\ e.kind # "queued" =>
          \/ e.attempt = jobs[j].attempt /\ e.kind = jobs[j].state
          \/ e.attempt < jobs[j].attempt /\ e.kind = "failed"
    /\ jobs[j].state \in {"failed", "complete"} =>
          [job |-> j, kind |-> jobs[j].state, attempt |-> jobs[j].attempt] \in journal

(* A claim that could still commit is of the row's last attempt, so that   *)
(* the failure, which takes its attempt from the claim, and the batch,     *)
(* which takes it from the row, write the same.                            *)
ClaimsAttempted ==
    \A w \in Workers : worker[w].phase = "holding" /\ Current(w) =>
        worker[w].claim.attempt = jobs[worker[w].claim.job].attempt

LedgerInv ==
    /\ \A e \in journal : e.job \in 1..Len(jobs)
    /\ \A j \in 1..Len(jobs) : LedgerOf(j)
    /\ ClaimsAttempted

(* Workers that keep their claim or lose it hold claims of the attempts of *)
(* rows that keep them.                                                    *)
LEMMA AttemptedKept ==
    ASSUME JobsTypeOK, ClaimsAttempted,
           \A x \in Workers : worker'[x] = worker[x] \/ worker'[x].phase # "holding",
           \A j \in 1..Len(jobs) :
              /\ jobs'[j].generation = jobs[j].generation /\ jobs'[j].attempt = jobs[j].attempt
              /\ jobs'[j].state = "claimed" => jobs[j].state = "claimed"
    PROVE  ClaimsAttempted'
<1>1. \A x \in Workers : worker[x].phase = "holding" => worker[x].claim.job \in 1..Len(jobs)
  BY DEF JobsTypeOK
<1> QED
  BY <1>1 DEF ClaimsAttempted, Current

(* A job whose attempt, state and events stay keeps its ledger.            *)
LEMMA LedgerKept ==
    ASSUME NEW j, LedgerOf(j),
           jobs'[j].attempt = jobs[j].attempt, jobs'[j].state = jobs[j].state,
           \A e : e.job = j => (e \in journal' <=> e \in journal)
    PROVE  LedgerOf(j)'
<1>1. EventsOf(j, "queued")' = EventsOf(j, "queued")
  BY DEF EventsOf
<1>2. [job |-> j, kind |-> jobs[j].state, attempt |-> jobs[j].attempt].job = j
  OBVIOUS
<1>3. jobs[j].state \in {"failed", "complete"} =>
         [job |-> j, kind |-> jobs[j].state, attempt |-> jobs[j].attempt] \in journal'
  BY <1>2 DEF LedgerOf
<1>4. \A e \in journal' : e.job = j /\ e.kind # "queued" =>
         \/ e.attempt = jobs'[j].attempt /\ e.kind = jobs'[j].state
         \/ e.attempt < jobs'[j].attempt /\ e.kind = "failed"
  BY DEF LedgerOf
<1> QED
  BY <1>1, <1>3, <1>4 DEF LedgerOf

(* The next attempt at a job that is not complete: the attempts before it  *)
(* failed.                                                                 *)
LEMMA AttemptBegins ==
    ASSUME NEW j, LedgerOf(j), journal \subseteq JobEvent, journal' = journal,
           jobs[j].attempt \in Nat, jobs[j].state \in JobStates \ {"complete"},
           jobs'[j].attempt = jobs[j].attempt + 1, jobs'[j].state = "claimed"
    PROVE  LedgerOf(j)'
<1>1. EventsOf(j, "queued")' = EventsOf(j, "queued")
  BY DEF EventsOf
<1>2. \A e \in journal : e.kind \in {"queued", "failed", "complete"} /\ e.attempt \in Nat
  BY DEF JobEvent
<1>3. \A e \in journal : e.job = j /\ e.kind # "queued" =>
         e.kind = "failed" /\ e.attempt <= jobs[j].attempt
  BY <1>2 DEF LedgerOf
<1>4. \A e \in journal' : e.job = j /\ e.kind # "queued" =>
         e.attempt < jobs'[j].attempt /\ e.kind = "failed"
  BY <1>2, <1>3
<1> QED
  BY <1>1, <1>4 DEF LedgerOf

(* A claimed job that fails or completes: its attempt had no event before. *)
LEMMA AttemptEnds ==
    ASSUME NEW j, LedgerOf(j), journal \subseteq JobEvent, jobs[j].state = "claimed",
           NEW kind \in {"failed", "complete"},
           jobs'[j].state = kind, jobs'[j].attempt = jobs[j].attempt,
           journal' = journal \cup {[job |-> j, kind |-> kind, attempt |-> jobs[j].attempt]}
    PROVE  LedgerOf(j)'
<1> DEFINE new == [job |-> j, kind |-> kind, attempt |-> jobs[j].attempt]
<1>1. new.job = j /\ new.kind = kind /\ new.attempt = jobs[j].attempt
  OBVIOUS
<1>2. new = [job |-> j, kind |-> jobs'[j].state, attempt |-> jobs'[j].attempt]
  OBVIOUS
<1>3. journal' = journal \cup {new}
  OBVIOUS
<1> HIDE DEF new
<1>4. EventsOf(j, "queued")' = EventsOf(j, "queued")
  BY <1>1, <1>3 DEF EventsOf
<1>5. \A e \in journal : e.kind \in {"queued", "failed", "complete"}
  BY DEF JobEvent
<1>6. \A e \in journal : e.job = j /\ e.kind # "queued" =>
         e.attempt < jobs[j].attempt /\ e.kind = "failed"
  BY <1>5 DEF LedgerOf
<1>7. \A e \in journal' : e.job = j /\ e.kind # "queued" =>
         \/ e.attempt = jobs'[j].attempt /\ e.kind = jobs'[j].state
         \/ e.attempt < jobs'[j].attempt /\ e.kind = "failed"
  BY <1>1, <1>3, <1>6
<1>8. [job |-> j, kind |-> jobs'[j].state, attempt |-> jobs'[j].attempt] \in journal'
  BY <1>2, <1>3
<1> QED
  BY <1>4, <1>7, <1>8 DEF LedgerOf

(* The ledgers of the jobs a step does not write stay, so that a step that *)
(* writes one row and at most events of its job has its own ledger to      *)
(* answer for.                                                             *)
LEMMA OneLedgerWritten ==
    ASSUME LedgerInv, NEW c \in 1..Len(jobs),
           Len(jobs') = Len(jobs), \A j \in 1..Len(jobs) : j # c => jobs'[j] = jobs[j],
           journal \subseteq journal', \A e \in journal' : e \in journal \/ e.job = c,
           LedgerOf(c)', ClaimsAttempted'
    PROVE  LedgerInv'
<1>1. \A j \in 1..Len(jobs) : j # c => LedgerOf(j)'
  <2> SUFFICES ASSUME NEW j \in 1..Len(jobs), j # c PROVE LedgerOf(j)'
    OBVIOUS
  <2>1. \A e : e.job = j => (e \in journal' <=> e \in journal)
    OBVIOUS
  <2> QED
    BY <2>1, LedgerKept DEF LedgerInv
<1>2. \A e \in journal' : e.job \in 1..Len(jobs')
  BY DEF LedgerInv
<1> QED
  BY <1>1, <1>2 DEF LedgerInv

-----------------------------------------------------------------------------
(* The steps and the ledger.                                               *)

(* ClaimRecurrenceJob begins the next attempt, and no other claim of the   *)
(* row's new generation is there.                                          *)
LEMMA ClaimLedger ==
    ASSUME JobsInv, LedgerInv, NEW w \in Workers, NEW j \in 1..Len(jobs),
           ClaimRecurrenceJob(w, j)
    PROVE  LedgerInv'
<1> DEFINE row == jobs[j]
           r == [row EXCEPT !.state = "claimed", !.generation = row.generation + 1,
                            !.attempt = row.attempt + 1, !.leased = TRUE]
           h == [phase |-> "holding", claim |-> [job |-> j, generation |-> row.generation + 1,
                                                 attempt |-> row.attempt + 1]]
<1>1. JobsTypeOK /\ ClaimsNumbered /\ jobs \in Seq(Row) /\ row \in Row
  BY ElementOfSeq DEF JobsInv, JobsTypeOK
<1>2. row.generation \in Nat /\ row.attempt \in Nat /\ row.state \in JobStates
  BY <1>1 DEF Row
<1>3. /\ r.state = "claimed" /\ r.generation = row.generation + 1
      /\ r.attempt = row.attempt + 1
  BY <1>1 DEF Row
<1>4. jobs' = [jobs EXCEPT ![j] = r] /\ worker' = [worker EXCEPT ![w] = h] /\ journal' = journal
  BY DEF ClaimRecurrenceJob
<1>5. Len(jobs') = Len(jobs) /\ jobs'[j] = r /\ \A i \in 1..Len(jobs) : i # j => jobs'[i] = jobs[i]
  <2> HIDE DEF r
  <2> QED
    BY <1>1, <1>4, ExceptSeq
<1>6. row.state # "complete"
  BY DEF ClaimRecurrenceJob, Claimable
<1>7. LedgerOf(j)'
  <2>1. LedgerOf(j) /\ journal \subseteq JobEvent
    BY <1>1 DEF LedgerInv, JobsTypeOK
  <2>2. jobs'[j].attempt = jobs[j].attempt + 1 /\ jobs'[j].state = "claimed"
    BY <1>3, <1>5
  <2> QED
    BY <1>2, <1>4, <1>6, <2>1, <2>2, AttemptBegins
<1>8. ClaimsAttempted'
  <2>1. /\ h.phase = "holding" /\ h.claim.job = j /\ h.claim.attempt = row.attempt + 1
    OBVIOUS
  <2> HIDE DEF h, r, row
  <2>2. \A x \in Workers : worker'[x] = IF x = w THEN h ELSE worker[x]
    BY <1>1, <1>4 DEF JobsTypeOK
  <2> SUFFICES ASSUME NEW x \in Workers, worker'[x].phase = "holding", Current(x)'
               PROVE  worker'[x].claim.attempt = jobs'[worker'[x].claim.job].attempt
    BY DEF ClaimsAttempted
  <2>3. CASE x = w
    BY <1>3, <1>5, <2>1, <2>2, <2>3
  <2>4. CASE x # w
    <3>1. worker'[x] = worker[x] /\ worker[x].phase = "holding"
      BY <2>2, <2>4
    <3>2. worker[x].claim.job \in 1..Len(jobs) /\ worker[x].claim.generation \in Nat
      BY <1>1, <3>1, ClaimedRow
    <3>3. worker[x].claim.job # j
      <4> SUFFICES ASSUME worker[x].claim.job = j PROVE FALSE
        OBVIOUS
      <4>1. worker[x].claim.generation <= row.generation
        BY <1>1, <3>1 DEF ClaimsNumbered, row
      <4>2. worker[x].claim.generation = row.generation + 1
        BY <1>3, <1>5, <3>1 DEF Current
      <4> QED
        BY <1>2, <3>2, <4>1, <4>2
    <3>4. jobs'[worker[x].claim.job] = jobs[worker[x].claim.job]
      BY <1>5, <3>2, <3>3
    <3> QED
      BY <3>1, <3>4 DEF LedgerInv, ClaimsAttempted, Current
  <2> QED
    BY <2>3, <2>4
<1>9. journal \subseteq journal' /\ \A e \in journal' : e \in journal \/ e.job = j
  BY <1>4
<1> QED
  BY <1>5, <1>7, <1>8, <1>9, OneLedgerWritten

(* A step that leaves state, attempt, generation and events alone and      *)
(* gives no claim keeps the ledgers.                                       *)
LEMMA QuietLedger ==
    ASSUME JobsTypeOK, LedgerInv, Len(jobs') = Len(jobs), journal' = journal,
           \A j \in 1..Len(jobs) :
              /\ jobs'[j].state = jobs[j].state /\ jobs'[j].attempt = jobs[j].attempt
              /\ jobs'[j].generation = jobs[j].generation,
           \A x \in Workers : worker'[x] = worker[x] \/ worker'[x].phase # "holding"
    PROVE  LedgerInv'
<1>1. ClaimsAttempted'
  BY AttemptedKept DEF LedgerInv
<1>2. \A j \in 1..Len(jobs) : LedgerOf(j)'
  BY LedgerKept DEF LedgerInv
<1>3. \A e \in journal' : e.job \in 1..Len(jobs')
  BY DEF LedgerInv
<1> QED
  BY <1>1, <1>2, <1>3 DEF LedgerInv

(* A worker with a current claim that ends the attempt keeps the ledgers.  *)
LEMMA EndLedger ==
    ASSUME JobsInv, LedgerInv, NEW w \in Workers, worker[w].phase = "holding", Current(w),
           NEW c, c = worker[w].claim.job, NEW kind \in {"failed", "complete"}, NEW r \in Row,
           r.state = kind, r.attempt = jobs[c].attempt, r.generation = jobs[c].generation,
           jobs' = [jobs EXCEPT ![c] = r],
           journal' = journal \cup {[job |-> c, kind |-> kind, attempt |-> jobs[c].attempt]},
           worker' = [worker EXCEPT ![w] = Resting]
    PROVE  LedgerInv'
<1>1. JobsTypeOK /\ c \in 1..Len(jobs)
  BY ClaimedRow DEF JobsInv
<1>2. Len(jobs') = Len(jobs) /\ jobs'[c] = r /\ \A i \in 1..Len(jobs) : i # c => jobs'[i] = jobs[i]
  BY <1>1, RowWritten
<1>3. LedgerOf(c)'
  <2>1. LedgerOf(c) /\ journal \subseteq JobEvent /\ jobs[c].state = "claimed"
    BY <1>1 DEF LedgerInv, JobsTypeOK, Current
  <2>2. jobs'[c].state = kind /\ jobs'[c].attempt = jobs[c].attempt
    BY <1>2
  <2> QED
    BY <2>1, <2>2, AttemptEnds
<1>4. ClaimsAttempted'
  <2>1. \A x \in Workers : worker'[x] = worker[x] \/ worker'[x].phase # "holding"
    BY <1>1, Holders, ClaimDropped
  <2>2. \A j \in 1..Len(jobs) :
           /\ jobs'[j].generation = jobs[j].generation /\ jobs'[j].attempt = jobs[j].attempt
           /\ jobs'[j].state = "claimed" => jobs[j].state = "claimed"
    BY <1>2
  <2> QED
    BY <1>1, <2>1, <2>2, AttemptedKept DEF LedgerInv
<1>5. journal \subseteq journal' /\ \A e \in journal' : e \in journal \/ e.job = c
  OBVIOUS
<1> QED
  BY <1>1, <1>2, <1>3, <1>4, <1>5, OneLedgerWritten

(* ProcessRecurrenceBatch: the last batch ends the attempt, the others     *)
(* leave it open.                                                          *)
LEMMA BatchLedger ==
    ASSUME JobsInv, LedgerInv, NEW w \in Workers, ProcessRecurrenceBatch(w)
    PROVE  LedgerInv'
<1> DEFINE c == worker[w].claim.job
           row == jobs[c]
           completed == Cardinality(Batch(row)) < BatchLimit \/ Position(row) >= row.snapshot
           r == [row EXCEPT !.after = Position(row),
                            !.state = IF completed THEN "complete" ELSE "claimed",
                            !.leased = ~completed]
<1>1. /\ JobsTypeOK /\ c \in 1..Len(jobs) /\ row \in Row /\ row.after <= row.snapshot
      /\ worker[w].phase = "holding" /\ Current(w) /\ row.state = "claimed"
  BY ClaimedRow DEF JobsInv, ProcessRecurrenceBatch, Current
<1>2. jobs' = [jobs EXCEPT ![c] = r]
  BY DEF ProcessRecurrenceBatch
<1>3. Position(row) \in Nat
  <2>1. Position(row) \in row.after..row.snapshot
    BY <1>1, BatchReachesPosition
  <2> HIDE DEF row
  <2> QED
    BY <1>1, <2>1, RowFields
<1>4. CASE completed
  <2>1. r = [row EXCEPT !.after = Position(row), !.state = "complete", !.leased = FALSE]
    BY <1>4
  <2>2. /\ worker' = [worker EXCEPT ![w] = Resting]
        /\ journal' = journal \cup {[job |-> c, kind |-> "complete", attempt |-> row.attempt]}
    BY <1>4 DEF ProcessRecurrenceBatch
  <2>3. /\ r \in Row /\ r.state = "complete" /\ r.attempt = row.attempt
        /\ r.generation = row.generation
    <3> HIDE DEF row, r, completed
    <3> QED
      BY <1>1, <1>3, <2>1 DEF Row, JobStates
  <2> HIDE DEF r, completed, c
  <2> QED
    BY <1>1, <1>2, <2>2, <2>3, EndLedger DEF c
<1>5. CASE ~completed
  <2>1. r = [row EXCEPT !.after = Position(row), !.state = "claimed", !.leased = TRUE]
    BY <1>5
  <2>2. worker' = worker /\ journal' = journal
    BY <1>5 DEF ProcessRecurrenceBatch
  <2>3. /\ r \in Row /\ r.state = "claimed" /\ r.attempt = row.attempt
        /\ r.generation = row.generation
    <3> HIDE DEF row, r, completed
    <3> QED
      BY <1>1, <1>3, <2>1 DEF Row, JobStates
  <2> HIDE DEF r, completed
  <2>4. /\ Len(jobs') = Len(jobs)
        /\ \A j \in 1..Len(jobs) : jobs'[j] = IF j = c THEN r ELSE jobs[j]
    BY <1>1, <1>2, <2>3, RowWritten
  <2>5. \A j \in 1..Len(jobs) :
           /\ jobs'[j].state = jobs[j].state /\ jobs'[j].attempt = jobs[j].attempt
           /\ jobs'[j].generation = jobs[j].generation
    BY <1>1, <2>3, <2>4
  <2> QED
    BY <1>1, <2>2, <2>4, <2>5, QuietLedger
<1> QED
  BY <1>4, <1>5

(* FailRecurrenceJob ends the attempt of its claim, which is the row's.    *)
LEMMA FailLedger ==
    ASSUME JobsInv, LedgerInv, NEW w \in Workers, FailRecurrenceJob(w)
    PROVE  LedgerInv'
<1> DEFINE c == worker[w].claim.job
           row == jobs[c]
           r == [row EXCEPT !.state = "failed", !.leased = FALSE, !.backoff = TRUE]
<1>1. /\ JobsTypeOK /\ c \in 1..Len(jobs) /\ row \in Row
      /\ worker[w].phase = "holding" /\ worker' = [worker EXCEPT ![w] = Resting]
  BY ClaimedRow DEF JobsInv, FailRecurrenceJob
<1>2. CASE Current(w)
  <2>1. worker[w].claim.attempt = row.attempt
    BY <1>1, <1>2 DEF LedgerInv, ClaimsAttempted
  <2>2. /\ jobs' = [jobs EXCEPT ![c] = r]
        /\ journal' = journal \cup {[job |-> c, kind |-> "failed", attempt |-> row.attempt]}
    BY <1>2, <2>1 DEF FailRecurrenceJob
  <2>3. /\ r \in Row /\ r.state = "failed" /\ r.attempt = row.attempt
        /\ r.generation = row.generation
    <3> HIDE DEF row
    <3> QED
      BY <1>1 DEF Row, JobStates
  <2> HIDE DEF r, c
  <2> QED
    BY <1>1, <1>2, <2>2, <2>3, EndLedger DEF c
<1>3. CASE ~Current(w)
  <2>1. UNCHANGED <<jobs, journal>>
    BY <1>3 DEF FailRecurrenceJob
  <2>2. \A x \in Workers : worker'[x] = worker[x] \/ worker'[x].phase # "holding"
    BY <1>1, Holders, ClaimDropped
  <2> QED
    BY <1>1, <2>1, <2>2, QuietLedger
<1> QED
  BY <1>2, <1>3

(* Lost claims and the clock end no attempt.                               *)
LEMMA LostClaimLedger ==
    ASSUME JobsInv, LedgerInv, NEW w \in Workers,
           DropStaleClaim(w) \/ AbandonClaim(w) \/ WorkerCrash(w) \/ WorkerRestart(w)
    PROVE  LedgerInv'
<1>1. JobsTypeOK
  BY DEF JobsInv
<1>2. PICK h \in Holder : h.phase # "holding" /\ worker' = [worker EXCEPT ![w] = h]
  BY Holders DEF DropStaleClaim, AbandonClaim, WorkerCrash, WorkerRestart
<1>3. UNCHANGED <<jobs, journal>>
  BY DEF DropStaleClaim, AbandonClaim, WorkerCrash, WorkerRestart
<1>4. \A x \in Workers : worker'[x] = worker[x] \/ worker'[x].phase # "holding"
  BY <1>1, <1>2, ClaimDropped
<1> QED
  BY <1>1, <1>3, <1>4, QuietLedger

LEMMA ClockLedger ==
    ASSUME JobsInv, LedgerInv, NEW j \in 1..Len(jobs),
           LeaseExpires(j) \/ LeaseOutrun(j) \/ RetryDue(j)
    PROVE  LedgerInv'
<1> DEFINE row == jobs[j]
<1>1. JobsTypeOK /\ row \in Row
  BY ElementOfSeq DEF JobsInv, JobsTypeOK
<1>2. PICK r : /\ r = [row EXCEPT !.leased = FALSE] \/ r = [row EXCEPT !.backoff = FALSE]
               /\ jobs' = [jobs EXCEPT ![j] = r]
  BY DEF LeaseExpires, LeaseOutrun, Expire, RetryDue
<1>3. /\ r \in Row /\ r.state = row.state /\ r.attempt = row.attempt
      /\ r.generation = row.generation
  <2> HIDE DEF row
  <2> QED
    BY <1>1, <1>2 DEF Row
<1>4. /\ Len(jobs') = Len(jobs)
      /\ \A i \in 1..Len(jobs) : jobs'[i] = IF i = j THEN r ELSE jobs[i]
  BY <1>1, <1>2, <1>3, RowWritten
<1>5. UNCHANGED <<journal, worker>>
  BY DEF LeaseExpires, LeaseOutrun, Expire, RetryDue
<1>6. \A i \in 1..Len(jobs) :
         /\ jobs'[i].state = jobs[i].state /\ jobs'[i].attempt = jobs[i].attempt
         /\ jobs'[i].generation = jobs[i].generation
  BY <1>3, <1>4
<1> QED
  BY <1>1, <1>4, <1>5, <1>6, QuietLedger

(* EnqueueRecurrenceJob opens a ledger: queued, and complete at once       *)
(* without fixes; no event names the job before.                           *)
LEMMA EnqueueLedger ==
    ASSUME JobsInv, LedgerInv, EnqueueRecurrenceJob
    PROVE  LedgerInv'
<1>0. PICK n : n = Len(jobs) + 1
  OBVIOUS
<1> DEFINE done == [job |-> n, kind |-> "complete", attempt |-> 0]
<1>1. JobsTypeOK /\ jobs \in Seq(Row) /\ Len(jobs) \in Nat /\ UNCHANGED worker
  BY LenProperties DEF JobsInv, JobsTypeOK, EnqueueRecurrenceJob
<1>2. PICK r : /\ jobs' = Append(jobs, r) /\ r.attempt = 0
               /\ r.state = IF Len(fixes) = 0 THEN "complete" ELSE "pending"
               /\ r \in Row
  <2>1. PICK matches \in SUBSET ((1..Len(fixes)) \X Occurrences) :
           jobs' = Append(jobs, [snapshot |-> Len(fixes), matches |-> matches,
                        state |-> IF Len(fixes) = 0 THEN "complete" ELSE "pending",
                        after |-> 0, generation |-> 0,
                        attempt |-> 0, leased |-> FALSE, backoff |-> FALSE])
    BY DEF EnqueueRecurrenceJob
  <2> DEFINE m == Len(fixes)
             state == IF m = 0 THEN "complete" ELSE "pending"
  <2>2. m \in Nat
    BY <1>1, LenProperties DEF JobsTypeOK
  <2>3. state \in JobStates
    <3>1. CASE m = 0
      BY <3>1 DEF JobStates
    <3>2. CASE m # 0
      BY <3>2 DEF JobStates
    <3> QED
      BY <3>1, <3>2
  <2>4. matches \subseteq (Nat \ {0}) \X Occurrences
    <3>1. matches \subseteq (1..m) \X Occurrences
      BY <2>1
    <3> HIDE DEF m
    <3>2. 1..m \subseteq Nat \ {0}
      BY <2>2
    <3> QED
      BY <3>1, <3>2
  <2> DEFINE r == [snapshot |-> m, matches |-> matches, state |-> state, after |-> 0,
                   generation |-> 0, attempt |-> 0, leased |-> FALSE, backoff |-> FALSE]
  <2>5. r \in Row /\ r.attempt = 0 /\ r.state = state
    <3> HIDE DEF m, state
    <3> QED
      BY <2>2, <2>3, <2>4 DEF Row
  <2>6. jobs' = Append(jobs, r)
    BY <2>1
  <2> HIDE DEF r
  <2> QED
    BY <2>5, <2>6
<1>3. /\ Len(jobs') = n /\ jobs'[n] = r /\ \A j \in 1..Len(jobs) : jobs'[j] = jobs[j]
  BY <1>0, <1>1, <1>2, AppendProperties
<1>4. journal' = journal \cup {Queued(n)} \cup (IF Len(fixes) = 0 THEN {done} ELSE {})
  BY <1>0 DEF EnqueueRecurrenceJob, Queued
<1>5. /\ Queued(n).job = n /\ Queued(n).kind = "queued"
      /\ done.job = n /\ done.kind = "complete" /\ done.attempt = 0
  BY DEF Queued
<1> HIDE DEF done
<1>6. \A e \in journal : e.job \in 1..Len(jobs) /\ e.job # n
  BY <1>0, <1>1 DEF LedgerInv
<1>7. 1..Len(jobs) \subseteq 1..Len(jobs') /\ n \in 1..Len(jobs')
      /\ \A j \in 1..Len(jobs') : j \in 1..Len(jobs) \/ j = n
  BY <1>0, <1>1, <1>3
<1>8. \A e \in journal' : e.job \in 1..Len(jobs')
  BY <1>4, <1>5, <1>6, <1>7
<1>9. \A j \in 1..Len(jobs) : LedgerOf(j)'
  <2> SUFFICES ASSUME NEW j \in 1..Len(jobs) PROVE LedgerOf(j)'
    OBVIOUS
  <2>1. j # n
    BY <1>0, <1>1
  <2>2. \A e : e.job = j => (e \in journal' <=> e \in journal)
    BY <1>4, <1>5, <2>1
  <2> QED
    BY <1>3, <2>2, LedgerKept DEF LedgerInv
<1>10. LedgerOf(n)'
  <2>1. \A e \in journal' : e.job = n => e = Queued(n) \/ (Len(fixes) = 0 /\ e = done)
    BY <1>4, <1>6
  <2>2. EventsOf(n, "queued")' = {Queued(n)}
    <3>1. Queued(n) \in journal'
      BY <1>4
    <3> QED
      BY <1>5, <2>1, <3>1 DEF EventsOf
  <2>3. \A e \in journal' : e.job = n /\ e.kind # "queued" =>
           e.attempt = jobs'[n].attempt /\ e.kind = jobs'[n].state
    BY <1>2, <1>3, <1>5, <2>1
  <2>4. jobs'[n].state \in {"failed", "complete"} =>
           [job |-> n, kind |-> jobs'[n].state, attempt |-> jobs'[n].attempt] \in journal'
    BY <1>2, <1>3, <1>4 DEF done
  <2> QED
    BY <2>2, <2>3, <2>4 DEF LedgerOf
<1>11. ClaimsAttempted'
  <2>1. \A x \in Workers : worker[x].phase = "holding" => worker[x].claim.job \in 1..Len(jobs)
    BY <1>1 DEF JobsTypeOK
  <2> QED
    BY <1>1, <1>3, <2>1 DEF LedgerInv, ClaimsAttempted, Current
<1> QED
  BY <1>3, <1>7, <1>8, <1>9, <1>10, <1>11 DEF LedgerInv

(* Every step keeps the ledgers.                                           *)
LEMMA StepLedger ==
    ASSUME JobsInv, LedgerInv, [JobsNext]_jobVars
    PROVE  LedgerInv'
<1>1. JobsTypeOK
  BY DEF JobsInv
<1>2. CASE UNCHANGED <<jobs, journal, worker>>
  BY <1>1, <1>2, QuietLedger
<1>3. CASE RecordFixAnnotation \/ RetractFixAnnotation \/ UNCHANGED jobVars
  BY <1>2, <1>3 DEF RecordFixAnnotation, RetractFixAnnotation, jobVars
<1>4. CASE EnqueueRecurrenceJob
  BY <1>4, EnqueueLedger
<1>5. ASSUME NEW w \in Workers, Work(w) \/ Disturb(w)
      PROVE  LedgerInv'
  BY <1>5, ClaimLedger, BatchLedger, FailLedger, LostClaimLedger DEF Work, Disturb
<1>6. ASSUME NEW j \in 1..Len(jobs), Tick(j) \/ LeaseOutrun(j)
      PROVE  LedgerInv'
  BY <1>6, ClockLedger DEF Tick
<1> QED
  BY <1>3, <1>4, <1>5, <1>6 DEF JobsNext

(* The inductive invariant of the ledger, beside that of the queue.        *)
THEOREM LedgerSafe == JobsSpec => []LedgerInv
<1>1. JobsInit => LedgerInv
  <2> SUFFICES ASSUME JobsInit PROVE LedgerInv
    OBVIOUS
  <2>1. jobs = <<>> /\ journal = {} /\ worker = [w \in Workers |-> Resting]
    BY DEF JobsInit
  <2>2. 1..Len(jobs) = {} /\ \A w \in Workers : worker[w].phase # "holding"
    BY <2>1, Holders
  <2> QED
    BY <2>1, <2>2 DEF LedgerInv, ClaimsAttempted
<1>2. JobsInv /\ LedgerInv /\ [JobsNext]_jobVars => LedgerInv'
  BY StepLedger
<1> QED
  BY <1>1, <1>2, JobsSafe, PTL DEF JobsSpec

(* A reader of the ledger is told what the rows say: each job was queued   *)
(* once, each attempt ended at most once, and a job has a completion       *)
(* exactly when its row is complete.                                       *)
THEOREM LedgerTrue == JobsSpec => []LedgerAgrees
<1>1. ASSUME JobsInv, LedgerInv
      PROVE  LedgerAgrees
  <2> SUFFICES ASSUME NEW j \in 1..Len(jobs)
               PROVE  LET ended == EventsOf(j, "failed") \cup EventsOf(j, "complete")
                      IN  /\ Cardinality(EventsOf(j, "queued")) = 1
                          /\ \A e1, e2 \in ended : e1.attempt = e2.attempt => e1 = e2
                          /\ \A e \in ended : e.attempt <= jobs[j].attempt
                          /\ jobs[j].state \in {"failed", "complete"} =>
                                \E e \in ended : e.kind = jobs[j].state /\ e.attempt = jobs[j].attempt
                          /\ jobs[j].state # "complete" => EventsOf(j, "complete") = {}
    BY DEF LedgerAgrees
  <2> DEFINE ended == EventsOf(j, "failed") \cup EventsOf(j, "complete")
  <2>1. LedgerOf(j) /\ journal \subseteq JobEvent /\ jobs[j].attempt \in Nat
    BY <1>1, ElementOfSeq, RowFields DEF LedgerInv, JobsInv, JobsTypeOK
  <2>2. Cardinality(EventsOf(j, "queued")) = 1
    BY <2>1, FS_Singleton DEF LedgerOf
  <2>3. \A e \in ended :
           /\ e \in JobEvent /\ e.job = j /\ e.attempt \in Nat
           /\ \/ e.attempt = jobs[j].attempt /\ e.kind = jobs[j].state
              \/ e.attempt < jobs[j].attempt /\ e.kind = "failed"
    BY <2>1 DEF LedgerOf, EventsOf, JobEvent
  <2>4. \A e1, e2 \in ended : e1.attempt = e2.attempt => e1 = e2
    <3> SUFFICES ASSUME NEW e1 \in ended, NEW e2 \in ended, e1.attempt = e2.attempt
                 PROVE  e1 = e2
      OBVIOUS
    <3>1. e1.kind = e2.kind /\ e1.job = e2.job /\ e1 \in JobEvent /\ e2 \in JobEvent
      <4> HIDE DEF ended
      <4> QED
        BY <2>1, <2>3
    <3> QED
      BY <3>1 DEF JobEvent
  <2>5. \A e \in ended : e.attempt <= jobs[j].attempt
    <3> HIDE DEF ended
    <3> QED
      BY <2>1, <2>3
  <2>6. jobs[j].state \in {"failed", "complete"} =>
           \E e \in ended : e.kind = jobs[j].state /\ e.attempt = jobs[j].attempt
    <3> SUFFICES ASSUME jobs[j].state \in {"failed", "complete"}
                 PROVE  \E e \in ended : e.kind = jobs[j].state /\ e.attempt = jobs[j].attempt
      OBVIOUS
    <3> DEFINE e == [job |-> j, kind |-> jobs[j].state, attempt |-> jobs[j].attempt]
    <3>1. e \in journal
      BY <2>1 DEF LedgerOf
    <3>2. e.job = j /\ e.kind = jobs[j].state /\ e.attempt = jobs[j].attempt
      OBVIOUS
    <3> HIDE DEF e
    <3>3. e \in ended
      BY <3>1, <3>2 DEF EventsOf
    <3> QED
      BY <3>2, <3>3
  <2>7. jobs[j].state # "complete" => EventsOf(j, "complete") = {}
    BY <2>3 DEF EventsOf
  <2> HIDE DEF ended
  <2> QED
    BY <2>2, <2>4, <2>5, <2>6, <2>7 DEF ended
<1> QED
  BY <1>1, JobsSafe, LedgerSafe, PTL

-----------------------------------------------------------------------------
(***************************************************************************)
(* The catch-up.                                                           *)
(***************************************************************************)

(* Rows are outstanding until they are done.                               *)
CatchupType ==
    /\ revisions \in [Sessions -> Nat]
    /\ \A s \in Legacy : revisions[s] > 0
    /\ DOMAIN dirty = Sessions
    /\ stage \in [Processes -> Stages]
    /\ \A j \in DOMAIN jobRows : Outstanding(jobRows[j]) \/ jobRows[j] = Done

JobsMade == \A s \in Sessions : \A n \in 1..revisions[s] : <<s, n>> \in DOMAIN jobRows

(* The goroutine of a process passes these only through its preparation,   *)
(* or that of a Startup before the failure it recovers from.               *)
PastMarking == {"reanalyse", "evaluate", "complete"} \cup RecoverStages
PastPreparing == {"mark"} \cup PastMarking

StagesInv ==
    \A p \in Processes : /\ stage[p] \in PastPreparing => JobsMade
                         /\ stage[p] \in PastMarking => marked

(* Once the sessions are marked, one of the legacy that was not analysed   *)
(* again is outstanding.                                                   *)
MarkedInv == marked => \A s \in Legacy : Outstanding(dirty[s]) \/ s \in capable

CatchupInv == CatchupType /\ StagesInv /\ MarkedInv /\ ReadyIsEarned
-----------------------------------------------------------------------------
(* Between two steps that write no session, no job is lost, none of them   *)
(* becomes undone, and capabilities stay.                                  *)
JobsStay ==
    /\ DOMAIN jobRows \subseteq DOMAIN jobRows'
    /\ \A j \in DOMAIN jobRows : jobRows[j] = Done => jobRows'[j] = Done
    /\ \A j \in DOMAIN jobRows' : Outstanding(jobRows'[j]) \/ jobRows'[j] = Done

SessionsStay ==
    /\ DOMAIN dirty' = Sessions
    /\ capable \subseteq capable'
    /\ \A s \in Sessions : Outstanding(dirty[s]) => Outstanding(dirty'[s]) \/ s \in capable'

(* What a step of the drains, an import or the clock has to respect.       *)
LEMMA WorkKeepsCatchup ==
    ASSUME CatchupInv, JobsStay, SessionsStay,
           UNCHANGED <<readiness, marked, revisions, stage>>
    PROVE  CatchupInv'
<1> USE DEF CatchupInv, JobsStay, SessionsStay
<1>1. CatchupType'
  BY DEF CatchupType
<1>2. JobsMade => JobsMade'
  BY DEF JobsMade
<1>3. StagesInv'
  BY <1>2 DEF StagesInv
<1>4. MarkedInv'
  BY CatchupAssumption DEF MarkedInv
<1>5. ReadyIsEarned'
  <2> SUFFICES ASSUME readiness = "ready" PROVE ReadyIsEarned'
    BY DEF ReadyIsEarned
  <2>1. /\ Legacy \subseteq capable
        /\ JobsMade
        /\ \A s \in Legacy : jobRows[<<s, 1>>] = Done
    BY DEF ReadyIsEarned, JobsMade
  <2>2. \A s \in Legacy : <<s, 1>> \in DOMAIN jobRows
    <3>1. \A s \in Legacy : s \in Sessions /\ 1 \in 1..revisions[s]
      BY CatchupAssumption DEF CatchupType
    <3> QED
      BY <2>1, <3>1 DEF JobsMade
  <2> QED
    BY <1>2, <2>1, <2>2 DEF ReadyIsEarned, JobsMade
<1> QED
  BY <1>1, <1>3, <1>4, <1>5

(* What a step of the goroutine alone has to respect.                      *)
LEMMA StageKeepsCatchup ==
    ASSUME CatchupInv, NEW p \in Processes, NEW t \in Stages,
           Goto(p, t), UNCHANGED <<marked, analysisVars, jobRows>>,
           t \in PastPreparing => stage[p] \in PastPreparing,
           t \in PastMarking => stage[p] \in PastMarking,
           readiness' # readiness => readiness' # "ready" \/ ReadyIsEarned'
    PROVE  CatchupInv'
<1> USE DEF CatchupInv
<1>1. CatchupType' /\ MarkedInv' /\ (JobsMade <=> JobsMade')
  BY DEF CatchupType, MarkedInv, JobsMade, Goto, analysisVars
<1>2. StagesInv'
  BY <1>1 DEF StagesInv, Goto, CatchupType
<1>3. ReadyIsEarned'
  BY DEF ReadyIsEarned, analysisVars
<1> QED
  BY <1>1, <1>2, <1>3

(* Readiness is taken only from a state that has earned it.                *)
LEMMA SettledIsEarned ==
    ASSUME CatchupInv, Settled, NEW p \in Processes, stage[p] \in PastMarking,
           UNCHANGED <<revisions, capable, jobRows>>
    PROVE  ReadyIsEarned'
<1> USE DEF CatchupInv
<1>1. marked /\ JobsMade
  BY DEF StagesInv, PastPreparing
<1>2. Legacy \subseteq capable
  BY <1>1, CatchupAssumption DEF MarkedInv, Settled
<1>3. \A s \in Legacy : <<s, 1>> \in DOMAIN jobRows
  BY <1>1, CatchupAssumption DEF JobsMade, CatchupType
<1>4. \A s \in Legacy : jobRows[<<s, 1>>] = Done
  BY <1>3 DEF Settled, CatchupType
<1> QED
  BY <1>1, <1>2, <1>4 DEF ReadyIsEarned, JobsMade

(* Claims, publications, comparisons and their failures.                   *)
LEMMA DrainKeepsCatchup ==
    ASSUME CatchupInv, NEW p \in Processes,
           \/ \E s \in Sessions : \/ ClaimDirtySession(p, s)
                                  \/ AnalysisFails(p, s)
           \/ \E j \in DOMAIN jobRows : \/ ClaimCatchupJob(p, j)
                                        \/ FinishJob(p, j)
                                        \/ FailJob(p, j)
    PROVE  CatchupInv'
<1> USE DEF CatchupInv, CatchupType, JobsStay, SessionsStay, Outstanding, ClaimedBy,
            Failed, Done, analysisVars
<1>1. ASSUME NEW s \in Sessions, ClaimDirtySession(p, s) PROVE CatchupInv'
  <2>1. JobsStay /\ SessionsStay
    BY <1>1 DEF ClaimDirtySession
  <2> QED
    BY <1>1, <2>1, WorkKeepsCatchup DEF ClaimDirtySession
<1>2. ASSUME NEW s \in Sessions, AnalysisFails(p, s) PROVE CatchupInv'
  <2>1. JobsStay /\ SessionsStay
    BY <1>2 DEF AnalysisFails
  <2> QED
    BY <1>2, <2>1, WorkKeepsCatchup DEF AnalysisFails
<1>3. ASSUME NEW j \in DOMAIN jobRows, ClaimCatchupJob(p, j) PROVE CatchupInv'
  <2>1. JobsStay /\ SessionsStay
    BY <1>3 DEF ClaimCatchupJob
  <2> QED
    BY <1>3, <2>1, WorkKeepsCatchup DEF ClaimCatchupJob
<1>4. ASSUME NEW j \in DOMAIN jobRows, FinishJob(p, j) PROVE CatchupInv'
  <2>1. JobsStay /\ SessionsStay
    BY <1>4 DEF FinishJob
  <2> QED
    BY <1>4, <2>1, WorkKeepsCatchup DEF FinishJob
<1>5. ASSUME NEW j \in DOMAIN jobRows, FailJob(p, j) PROVE CatchupInv'
  <2>1. JobsStay /\ SessionsStay
    BY <1>5 DEF FailJob
  <2> QED
    BY <1>5, <2>1, WorkKeepsCatchup DEF FailJob
<1> QED
  BY <1>1, <1>2, <1>3, <1>4, <1>5

(* A publication makes the job of its analysis in the same transaction.    *)
LEMMA PublishKeepsCatchup ==
    ASSUME CatchupInv, NEW p \in Processes, NEW s \in Sessions, PublishAnalysis(p, s)
    PROVE  CatchupInv'
<1> USE DEF CatchupInv, CatchupType, Outstanding, Done
<1>1. CASE dirty[s] # ClaimedBy(p)
  <2>1. JobsStay /\ SessionsStay
    BY <1>1 DEF PublishAnalysis, analysisVars, JobsStay, SessionsStay
  <2> QED
    BY <1>1, <2>1, WorkKeepsCatchup DEF PublishAnalysis, analysisVars
<1>2. CASE dirty[s] = ClaimedBy(p)
  <2>1. /\ dirty' = [dirty EXCEPT ![s] = Done]
        /\ revisions' = [revisions EXCEPT ![s] = @ + 1]
        /\ capable' = capable \cup {s}
        /\ DOMAIN jobRows' = DOMAIN jobRows \cup {<<s, revisions[s] + 1>>}
        /\ \A j \in DOMAIN jobRows : jobRows'[j] = jobRows[j]
        /\ \A j \in DOMAIN jobRows' \ DOMAIN jobRows : jobRows'[j] = NewJob
        /\ UNCHANGED <<readiness, marked, stage>>
    BY <1>2 DEF PublishAnalysis, NewAnalysis
  <2>2. NewJob = Done \/ Outstanding(NewJob)
    BY DEF NewJob, Pending
  <2>3. CatchupType'
    BY <2>1, <2>2
  <2>4. JobsMade => JobsMade'
    <3> SUFFICES ASSUME JobsMade, NEW r \in Sessions, NEW n \in 1..revisions'[r]
                 PROVE  <<r, n>> \in DOMAIN jobRows'
      BY DEF JobsMade
    <3>1. CASE n \in 1..revisions[r]
      BY <2>1, <3>1 DEF JobsMade
    <3>2. CASE n \notin 1..revisions[r]
      <4>1. r = s /\ n = revisions[s] + 1
        BY <2>1, <3>2
      <4> QED
        BY <2>1, <4>1
    <3> QED
      BY <3>1, <3>2
  <2>5. StagesInv'
    BY <2>1, <2>4 DEF StagesInv
  <2>6. MarkedInv'
    BY <2>1, CatchupAssumption DEF MarkedInv
  <2>7. ReadyIsEarned'
    <3>1. \A r \in Legacy : r \in Sessions /\ 1 \in 1..revisions[r]
      BY CatchupAssumption
    <3> QED
      BY <2>1, <2>4, <3>1 DEF ReadyIsEarned, JobsMade
  <2> QED
    BY <2>3, <2>5, <2>6, <2>7
<1> QED
  BY <1>1, <1>2

(* The two transactions of the preparation.                                *)
LEMMA PreparationKeepsCatchup ==
    ASSUME CatchupInv, NEW p \in Processes,
           PrepareFixMonitoringCatchup(p) \/ MarkLegacyBelaySessionsDirty(p)
    PROVE  CatchupInv'
<1> USE DEF CatchupInv, CatchupType, Outstanding, analysisVars
<1> USE DEF Stages, StartupStages, RecoverStages, PastPreparing, PastMarking
<1>1. CASE PrepareFixMonitoringCatchup(p)
  <2>1. /\ DOMAIN jobRows \subseteq DOMAIN jobRows'
        /\ \A j \in DOMAIN jobRows : jobRows'[j] = jobRows[j]
        /\ \A j \in DOMAIN jobRows' \ DOMAIN jobRows : jobRows'[j] = NewJob
        /\ \A s \in Sessions : \A n \in 1..revisions[s] : <<s, n>> \in DOMAIN jobRows'
        /\ stage' = [stage EXCEPT ![p] = "mark"]
        /\ UNCHANGED <<marked, revisions, capable, dirty>>
        /\ readiness' = "ready" => readiness = "ready"
    BY <1>1 DEF PrepareFixMonitoringCatchup, Goto
  <2>2. NewJob = Done \/ Outstanding(NewJob)
    BY DEF NewJob, Pending
  <2>3. CatchupType'
    BY <2>1, <2>2
  <2>4. JobsMade'
    BY <2>1 DEF JobsMade
  <2>5. StagesInv'
    BY <2>1, <2>4 DEF StagesInv
  <2>6. MarkedInv'
    BY <2>1 DEF MarkedInv
  <2>7. ReadyIsEarned'
    <3>1. \A r \in Legacy : r \in Sessions /\ 1 \in 1..revisions[r]
      BY CatchupAssumption
    <3> QED
      BY <2>1, <2>4, <3>1 DEF ReadyIsEarned, JobsMade
  <2> QED
    BY <2>3, <2>5, <2>6, <2>7
<1>2. CASE MarkLegacyBelaySessionsDirty(p)
  <2>1. /\ stage' = [stage EXCEPT ![p] = "reanalyse"] /\ stage[p] = "mark"
        /\ marked'
        /\ UNCHANGED <<readiness, revisions, capable, jobRows>>
    BY <1>2 DEF MarkLegacyBelaySessionsDirty, Goto
  <2>2. CatchupType'
    BY <1>2, <2>1 DEF MarkLegacyBelaySessionsDirty
  <2>3. JobsMade'
    BY <2>1 DEF JobsMade, StagesInv
  <2>4. StagesInv'
    BY <2>1, <2>3 DEF StagesInv
  <2>5. MarkedInv'
    BY <1>2, <2>1, CatchupAssumption DEF MarkLegacyBelaySessionsDirty, MarkedInv, Pending
  <2>6. ReadyIsEarned'
    BY <2>1 DEF ReadyIsEarned
  <2> QED
    BY <2>2, <2>4, <2>5, <2>6
<1> QED
  BY <1>1, <1>2

(* A restart of the analyses marks every session.                          *)
LEMMA BootKeepsCatchup ==
    ASSUME CatchupInv, NEW p \in Processes, MarkAllSessionsDirty(p)
    PROVE  CatchupInv'
<1> USE DEF CatchupInv, CatchupType, Outstanding, MarkAllSessionsDirty, Goto, Pending
<1> USE DEF Stages, StartupStages, RecoverStages, PastPreparing, PastMarking
<1>1. CatchupType'
  OBVIOUS
<1>2. StagesInv'
  BY DEF StagesInv, JobsMade
<1>3. MarkedInv'
  BY CatchupAssumption DEF MarkedInv
<1>4. ReadyIsEarned'
  BY DEF ReadyIsEarned
<1> QED
  BY <1>1, <1>2, <1>3, <1>4

(* The steps from stage to stage, and the two that make monitoring ready.  *)
LEMMA GoroutineKeepsCatchup ==
    ASSUME CatchupInv, NEW p \in Processes,
           \/ Launch(p) \/ DrainEnds(p) \/ CompleteFixMonitoringCatchup(p)
           \/ Recover(p) \/ RecoverChecks(p) \/ RecoverCompletes(p)
    PROVE  CatchupInv'
<1> USE DEF CatchupInv
<1> DEFINE GoesTo(t) == /\ t \in Stages
                        /\ Goto(p, t)
                        /\ UNCHANGED <<marked, analysisVars, jobRows>>
                        /\ t \in PastPreparing => stage[p] \in PastPreparing
                        /\ t \in PastMarking => stage[p] \in PastMarking
                        /\ readiness' # readiness => readiness' # "ready" \/ ReadyIsEarned'
<1>1. ASSUME NEW t, GoesTo(t) PROVE CatchupInv'
  BY <1>1, StageKeepsCatchup
<1> HIDE DEF CatchupInv
<1> USE DEF Stages, StartupStages, RecoverStages, PastPreparing, PastMarking
<1>2. CASE Launch(p)
  <2>1. GoesTo("boot")
    BY <1>2 DEF Launch
  <2> QED
    BY <1>1, <2>1
<1>3. CASE DrainEnds(p)
  <2>1. GoesTo(After[stage[p]])
    BY <1>3 DEF DrainEnds, After, AnalysisStages, JobStages
  <2> QED
    BY <1>1, <2>1
<1>4. CASE CompleteFixMonitoringCatchup(p)
  <2>1. CASE Settled
    <3>1. ReadyIsEarned'
      BY <1>4, <2>1, SettledIsEarned DEF CompleteFixMonitoringCatchup, analysisVars
    <3>2. GoesTo("serving")
      BY <1>4, <2>1, <3>1 DEF CompleteFixMonitoringCatchup
    <3> QED
      BY <1>1, <3>2
  <2>2. CASE ~Settled
    <3>1. GoesTo("prepare")
      BY <1>4, <2>2 DEF CompleteFixMonitoringCatchup
    <3> QED
      BY <1>1, <3>1
  <2> QED
    BY <2>1, <2>2
<1>5. CASE Recover(p)
  <2>1. GoesTo("recoverAnalyse")
    BY <1>5 DEF Recover
  <2> QED
    BY <1>1, <2>1
<1>6. CASE RecoverChecks(p)
  <2>1. GoesTo("recoverComplete") \/ GoesTo("serving")
    BY <1>6 DEF RecoverChecks
  <2> QED
    BY <1>1, <2>1
<1>7. CASE RecoverCompletes(p)
  <2>1. Settled => ReadyIsEarned'
    BY <1>7, SettledIsEarned DEF RecoverCompletes, analysisVars
  <2>2. GoesTo("serving")
    BY <1>7, <2>1 DEF RecoverCompletes
  <2> QED
    BY <1>1, <2>2
<1> QED
  BY <1>2, <1>3, <1>4, <1>5, <1>6, <1>7

(* Failures lead back to where the call is repeated, and an exit down.     *)
LEMMA FailureKeepsCatchup ==
    ASSUME CatchupInv, NEW p \in Processes,
           CatchupFails(p) \/ RecoverFails(p) \/ JobLost(p) \/ SessionLost(p) \/ Exit(p)
    PROVE  CatchupInv'
<1> DEFINE GoesTo(t) == /\ t \in Stages
                        /\ Goto(p, t)
                        /\ UNCHANGED <<marked, analysisVars, jobRows>>
                        /\ t \in PastPreparing => stage[p] \in PastPreparing
                        /\ t \in PastMarking => stage[p] \in PastMarking
                        /\ readiness' # readiness => readiness' # "ready"
<1>1. ASSUME NEW t, GoesTo(t) PROVE CatchupInv'
  BY <1>1, StageKeepsCatchup
<1> USE DEF Stages, StartupStages, RecoverStages, PastPreparing, PastMarking, AfterFailure
<1>2. CASE CatchupFails(p)
  <2>1. GoesTo("prepare")
    BY <1>2 DEF CatchupFails
  <2> QED
    BY <1>1, <2>1
<1>3. CASE RecoverFails(p)
  <2>1. GoesTo("serving") \/ GoesTo("boot")
    BY <1>3 DEF RecoverFails
  <2> QED
    BY <1>1, <2>1
<1>4. CASE JobLost(p)
  <2>1. GoesTo("prepare") \/ GoesTo("serving")
    BY <1>4 DEF JobLost, JobStages
  <2> QED
    BY <1>1, <2>1
<1>5. CASE SessionLost(p)
  <2>1. GoesTo("prepare") \/ GoesTo("serving") \/ GoesTo("boot")
    BY <1>5 DEF SessionLost, AnalysisStages
  <2> QED
    BY <1>1, <2>1
<1>6. CASE Exit(p)
  <2>1. GoesTo("down")
    BY <1>6 DEF Exit
  <2> QED
    BY <1>1, <2>1
<1> QED
  BY <1>2, <1>3, <1>4, <1>5, <1>6

(* Imports mark sessions, and time makes rows claimable again.             *)
LEMMA WorldKeepsCatchup ==
    ASSUME CatchupInv, Clock \/ \E s \in Sessions : ImportMarks(s)
    PROVE  CatchupInv'
<1> USE DEF CatchupInv, CatchupType, JobsStay, SessionsStay, Outstanding, Pending, Done,
            Failed, analysisVars
<1>1. ASSUME NEW s \in Sessions, ImportMarks(s) \/ AnalysisRetryDue(s) PROVE CatchupInv'
  <2>1. JobsStay /\ SessionsStay
    BY <1>1 DEF ImportMarks, AnalysisRetryDue
  <2> QED
    BY <1>1, <2>1, WorkKeepsCatchup DEF ImportMarks, AnalysisRetryDue
<1>2. ASSUME NEW j \in DOMAIN jobRows, JobRetryDue(j) \/ CatchupLeaseExpires(j)
      PROVE  CatchupInv'
  <2>1. JobsStay /\ SessionsStay
    BY <1>2 DEF JobRetryDue, CatchupLeaseExpires
  <2> QED
    BY <1>2, <2>1, WorkKeepsCatchup DEF JobRetryDue, CatchupLeaseExpires
<1> QED
  BY <1>1, <1>2 DEF Clock

(* The invariant of the catch-up holds of every number of processes,       *)
(* sessions and legacy analyses, whatever fails, ends or is imported.      *)
THEOREM CatchupSafe == CatchupSpec => []CatchupInv
<1>1. CatchupInit => CatchupInv
  BY CatchupAssumption DEF CatchupInit, CatchupInv, CatchupType, StagesInv, MarkedInv,
     ReadyIsEarned, Stages, StartupStages, RecoverStages, PastPreparing, PastMarking
<1>2. CatchupInv /\ [CatchupNext]_catchupVars => CatchupInv'
  <2> SUFFICES ASSUME CatchupInv, [CatchupNext]_catchupVars PROVE CatchupInv'
    OBVIOUS
  <2>1. CASE UNCHANGED catchupVars
    BY <2>1 DEF catchupVars, analysisVars, CatchupInv, CatchupType, StagesInv, MarkedInv,
       ReadyIsEarned, JobsMade
  <2>2. ASSUME NEW p \in Processes, Launch(p) \/ Step(p) \/ Failure(p) PROVE CatchupInv'
    BY <2>2, DrainKeepsCatchup, PublishKeepsCatchup, PreparationKeepsCatchup,
       BootKeepsCatchup, GoroutineKeepsCatchup, FailureKeepsCatchup DEF Step, Failure
  <2> QED
    BY <2>1, <2>2, WorldKeepsCatchup DEF CatchupNext
<1> QED
  BY <1>1, <1>2, PTL DEF CatchupSpec

(* Monitoring is never shown as ready before every analysis made before    *)
(* version 11 was compared with the fixes, every later one has its job and *)
(* every legacy session was analysed again, whichever process completes    *)
(* the catch-up.                                                           *)
THEOREM ReadinessEarned == CatchupSpec => []ReadyIsEarned
<1>1. CatchupInv => ReadyIsEarned
  BY DEF CatchupInv
<1> QED
  BY <1>1, CatchupSafe, PTL
=============================================================================
