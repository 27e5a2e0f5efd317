------------------------- MODULE MissionPacksProofs -------------------------
(***************************************************************************)
(* Proofs about MissionPacks, for every set of experiences and sessions,   *)
(* every expiry, lifetime, window and batch, and every bound.              *)
(***************************************************************************)
EXTENDS MissionPacks, FiniteSetTheorems, TLAPS

CountersInv ==
    /\ now \in Nat
    /\ owed \in Nat
    /\ DOMAIN lifecycle = Experiences
    /\ \A t \in turns : t.at \in Nat

(* Only compilations move the mark, so the active generation is the newest.*)
Newest(g) ==
    /\ g \in Numbers /\ g # None
    /\ \A h \in Numbers : /\ h \in Nat /\ h <= g
                          /\ DOMAIN generations[h] = {"refs", "active", "previous"}
                          /\ generations[h].active <=> h = g

GenInv == \E g \in Numbers : Newest(g)

FollowInv == CountersInv /\ GenInv /\ GenerationFollowsLifecycle
-----------------------------------------------------------------------------
(* What is active, what the next number is.                                *)
LEMMA NewestIsActive ==
    ASSUME NEW g \in Numbers, Newest(g)
    PROVE  ActiveNumber = g /\ NextNumber = g + 1 /\ g \in Nat
<1>1. Active = {g}
  BY DEF Active, Newest
<1>2. ActiveNumber = g
  BY <1>1 DEF ActiveNumber
<1>3. \A k \in Numbers : (\A h \in Numbers : h <= k) => k = g
  BY DEF Newest
<1>4. (CHOOSE k \in Numbers : \A h \in Numbers : h <= k) = g
  BY <1>3 DEF Newest
<1>5. NextNumber = 1 + g
  BY <1>4 DEF NextNumber
<1> QED
  BY <1>2, <1>5 DEF Newest

(* A compilation leaves the refs it was given active, as the newest.       *)
LEMMA CompileKeeps ==
    ASSUME GenInv, NEW refs, Compile(refs)
    PROVE  GenInv' /\ ActiveNumber' # None /\ (generations[ActiveNumber].refs)' = refs
<1>1. PICK g \in Numbers : Newest(g)
  BY DEF GenInv
<1>2. ActiveNumber = g /\ NextNumber = g + 1 /\ g \in Nat /\ g # None
  BY <1>1, NewestIsActive DEF Newest
<1>3. CASE generations[g].refs = refs
  <2>1. UNCHANGED generations
    BY <1>2, <1>3 DEF Compile, generationVars
  <2>2. GenInv' /\ ActiveNumber' = g
    BY <2>1, <1>2 DEF GenInv, Newest, Numbers, ActiveNumber, Active
  <2> QED
    BY <2>1, <2>2, <1>2, <1>3
<1>4. CASE generations[g].refs # refs
  <2> DEFINE n == g + 1
  <2>1. generations' = Activated(n, refs)
    BY <1>2, <1>4 DEF Compile, MakeActive
  <2>2. /\ DOMAIN generations' = Numbers \cup {n}
        /\ generations'[n] = [refs |-> refs, active |-> TRUE, previous |-> g]
        /\ \A h \in Numbers : h # n =>
              generations'[h] = IF h = g THEN [generations[h] EXCEPT !.active = FALSE]
                                ELSE generations[h]
    BY <2>1, <1>2 DEF Activated
  <2>3. n \in Nat /\ n # None /\ \A h \in Numbers : h \in Nat /\ h <= g /\ h # n /\ h <= n
    BY <1>1, <1>2 DEF Newest, None
  <2>4. ASSUME NEW h \in Numbers
        PROVE  /\ DOMAIN generations'[h] = {"refs", "active", "previous"}
               /\ ~generations'[h].active
    <3>1. CASE h = g
      BY <3>1, <2>2, <2>3, <1>1 DEF Newest
    <3>2. CASE h # g
      BY <3>2, <2>2, <2>3, <1>1 DEF Newest
    <3> QED
      BY <3>1, <3>2
  <2> HIDE DEF n
  <2>5. Numbers' = Numbers \cup {n}
    BY <2>2 DEF Numbers
  <2>6. \A h \in Numbers' : /\ h \in Nat /\ h <= n
                            /\ DOMAIN generations'[h] = {"refs", "active", "previous"}
                            /\ generations'[h].active <=> h = n
    BY <2>2, <2>3, <2>4, <2>5
  <2>7. GenInv'
    BY <2>3, <2>5, <2>6 DEF GenInv, Newest
  <2>8. Active' = {n}
    BY <2>5, <2>6 DEF Active
  <2>9. ActiveNumber' = n
    BY <2>8 DEF ActiveNumber
  <2> QED
    BY <2>2, <2>3, <2>7, <2>9
<1> QED
  BY <1>3, <1>4

(* Everything but a compilation leaves the generations alone.              *)
LEMMA OthersFollow ==
    ASSUME FollowInv, UNCHANGED <<generations, lifecycle>>,
           now' \in {now, now + 1}, owed' \in Nat,
           \A t \in turns' : t.at \in Nat,
           (owed' = 0 /\ ~lost') => (owed = 0 /\ ~lost), PackAssumption
    PROVE  FollowInv'
<1>1. CountersInv' /\ GenInv'
  BY DEF FollowInv, CountersInv, GenInv, Newest, Numbers
<1>2. ActiveNumber' = ActiveNumber
  BY DEF ActiveNumber, Active, Numbers
<1>3. now \in Nat /\ now' \in Nat /\ now' >= now
  BY DEF FollowInv, CountersInv
<1>4. ASSUME NEW e \in Experiences, ExpiresAt[e] > now'
      PROVE  ExpiresAt[e] > now
  <2>1. ExpiresAt[e] \in Nat
    BY DEF PackAssumption
  <2> QED
    BY <2>1, <1>3, <1>4
<1>5. GenerationFollowsLifecycle'
  BY <1>2, <1>4 DEF FollowInv, GenerationFollowsLifecycle
<1> QED
  BY <1>1, <1>5 DEF FollowInv

(* Every step keeps the first invariant.                                   *)
LEMMA NextFollows ==
    ASSUME PackAssumption, FollowInv, [Next]_vars
    PROVE  FollowInv'
<1> USE DEF FollowInv
<1>1. ASSUME NEW e \in Experiences, ApplyLifecycle(e)
      PROVE  FollowInv'
  <2>1. /\ UNCHANGED <<generations, now, turns>>
        /\ owed' = owed + 1
        /\ DOMAIN lifecycle' = Experiences
    BY <1>1 DEF ApplyLifecycle, generationVars, CountersInv
  <2>2. CountersInv' /\ owed' # 0
    BY <2>1 DEF CountersInv
  <2>3. GenInv'
    BY <2>1 DEF GenInv, Newest, Numbers
  <2> QED
    BY <2>2, <2>3 DEF GenerationFollowsLifecycle
<1>2. CASE CompileOwed
  <2>1. /\ Compile(Compilable) /\ UNCHANGED <<lifecycle, now, turns>>
        /\ owed > 0 /\ owed' = owed - 1
    BY <1>2 DEF CompileOwed
  <2>2. CountersInv'
    BY <2>1 DEF CountersInv
  <2>3. GenInv' /\ ActiveNumber' # None /\ generations'[ActiveNumber'].refs = Compilable
    BY <2>1, CompileKeeps
  <2>4. GenerationFollowsLifecycle'
    BY <2>1, <2>3 DEF GenerationFollowsLifecycle, Compilable
  <2> QED
    BY <2>2, <2>3, <2>4
<1>3. CASE CompileLost
  <2>1. owed' \in Nat /\ lost' = TRUE
    BY <1>3 DEF CompileLost, CountersInv
  <2> QED
    BY <1>3, <2>1, OthersFollow DEF CompileLost, generationVars, CountersInv
<1>4. CASE Tick
  BY <1>4, OthersFollow DEF Tick, userVars, generationVars, CountersInv
<1>5. ASSUME NEW s \in Sessions, NEW at \in 0..now, ImportTurn(s, at)
      PROVE  FollowInv'
  <2>1. \A t \in turns' : t.at \in Nat
    BY <1>5 DEF ImportTurn, CountersInv
  <2> QED
    BY <1>5, <2>1, OthersFollow DEF ImportTurn, userVars, generationVars, CountersInv
<1>6. CASE UNCHANGED <<userVars, now, turns>>
  BY <1>6, OthersFollow DEF userVars, generationVars, CountersInv
<1> QED
  BY <1>1, <1>2, <1>3, <1>4, <1>5, <1>6 DEF Next, vars, PassStep, Generate, Accept,
     StartPass, Resolve, StartMaterialize, NextReceipt, EndPass, Probe, EnsureProgress,
     LinkApplication, InsertApplication, Crash, TransactionFails

(* One compiled generation.                                                *)
LEMMA InitFollows == Init => FollowInv
<1> SUFFICES ASSUME Init PROVE FollowInv
  OBVIOUS
<1>1. CountersInv
  BY DEF Init, CountersInv
<1>2. Numbers = {1} /\ Newest(1)
  BY DEF Init, Numbers, Newest, None
<1>3. ActiveNumber = 1
  BY <1>2, NewestIsActive
<1>4. GenerationFollowsLifecycle
  BY <1>2, <1>3 DEF Init, GenerationFollowsLifecycle, None
<1> QED
  BY <1>1, <1>2, <1>4 DEF FollowInv, GenInv
-----------------------------------------------------------------------------
(* The newest generation is the active one, and follows the lifecycle.     *)
THEOREM FollowSafe == Spec => []FollowInv
<1>1. Init => FollowInv
  BY InitFollows
<1>2. FollowInv /\ [Next]_vars => FollowInv'
  BY NextFollows, PackAssumption
<1> QED
  BY <1>1, <1>2, PTL DEF Spec

(* Once every caller has compiled, the active generation cites what is in  *)
(* force and nothing else (CompileExperienceGeneration after               *)
(* ApplyExperienceLifecycle).                                              *)
THEOREM GenerationsFollow == Spec => []GenerationFollowsLifecycle
<1>1. FollowInv => GenerationFollowsLifecycle
  BY DEF FollowInv
<1> QED
  BY <1>1, FollowSafe, PTL

(* A pack is delivered only while all it cites is in force and of the      *)
(* newest generation (AcceptMissionPack).                                  *)
THEOREM DeliveriesAreInForce == Spec => DeliveredIsInForce
<1> DEFINE Good(p) == /\ \A e \in p.refs : lifecycle[e] = "active"
                      /\ \A g \in Numbers : g <= p.generation
                      /\ p.refs \subseteq generations[p.generation].refs
<1>1. ASSUME FollowInv, [Next]_vars
      PROVE  [\A p \in DOMAIN receipts' \ Receipts : Good(p)]_vars
  <2>1. ASSUME NEW q \in DOMAIN previews, Accept(q),
               NEW p \in DOMAIN receipts' \ Receipts
        PROVE  Good(p)
    <3>1. p = q /\ Deliverable(q)
      BY <2>1 DEF Accept
    <3>2. PICK g \in Numbers : Newest(g)
      BY <1>1 DEF FollowInv, GenInv
    <3>3. q.generation = g
      BY <3>1, <3>2, NewestIsActive DEF Deliverable
    <3> QED
      BY <3>1, <3>2, <3>3 DEF Deliverable, Newest
  <2>2. CASE DOMAIN receipts' = Receipts
    BY <2>2
  <2>3. UNCHANGED vars \/ DOMAIN receipts' = Receipts
            \/ \E q \in DOMAIN previews : Accept(q)
    BY <1>1 DEF Receipts, Next, PassStep, Tick, ApplyLifecycle, CompileOwed, CompileLost,
       Generate, ImportTurn, StartPass, Resolve, StartMaterialize, NextReceipt, EndPass,
       Probe, EnsureProgress, LinkApplication, InsertApplication, Crash,
       TransactionFails, deliveryVars
  <2> QED
    BY <2>1, <2>2, <2>3
<1> QED
  BY <1>1, FollowSafe, PTL DEF Spec, DeliveredIsInForce
-----------------------------------------------------------------------------
(* The receipts.  A receipt keeps its time and, once bound, everything.    *)
Bound(p) == p \in Receipts /\ receipts[p].state = "bound"

InWindow(p, s) == \E t \in turns : /\ t.session = s
                                   /\ t.at \in receipts[p].at .. (receipts[p].at + Window - 1)

RowsInv == \A p \in Receipts : /\ DOMAIN receipts[p] = {"at", "state", "session"}
                               /\ receipts[p].at \in Nat

(* What the background pass has in hand is still true of the tables.       *)
PassInv ==
    /\ pass.phase \in {"idle", "reconcile", "resolve", "materialize", "insert", "link"}
    /\ pass.phase \in {"reconcile", "resolve"} => pass.observed \in Nat
    /\ pass.phase = "reconcile" => DOMAIN pass = {"phase", "batch", "observed"}
    /\ pass.phase = "materialize" => DOMAIN pass = {"phase", "batch"}
    /\ pass.phase = "insert" => DOMAIN pass = {"phase", "batch", "receipt", "refs"}
    /\ pass.phase = "resolve" =>
           /\ pass.receipt \in Receipts
           /\ pass.observed < ExpiryOf(pass.receipt) =>
                 \A s \in pass.found : InWindow(pass.receipt, s)
    /\ pass.phase \in {"materialize", "insert", "link"} => \A p \in pass.batch : Bound(p)
    /\ pass.phase \in {"insert", "link"} =>
           /\ Bound(pass.receipt)
           /\ pass.receipt \in DOMAIN progress
           /\ pass.refs \subseteq pass.receipt.refs
    /\ pass.phase = "link" =>
           /\ pass.ref \in pass.refs
           /\ Application(pass.receipt, pass.ref) \in applications

TracedInv == RowsInv /\ PassInv /\ BoundWithinWindow /\ ApplicationsTrace

(* What no step takes back.                                                *)
Grows ==
    /\ \A p \in Receipts : /\ p \in Receipts'
                           /\ receipts'[p].at = receipts[p].at
                           /\ receipts[p].state = "bound" => receipts'[p] = receipts[p]
    /\ turns \subseteq turns'
    /\ applications \subseteq applications'
    /\ DOMAIN progress \subseteq DOMAIN progress'
-----------------------------------------------------------------------------
(* The numbers stay numbers.                                               *)
LEMMA CountersKept ==
    ASSUME CountersInv, [Next]_vars
    PROVE  CountersInv'
<1>1. ASSUME NEW s \in Sessions, NEW at \in 0..now, ImportTurn(s, at)
      PROVE  CountersInv'
  BY <1>1 DEF ImportTurn, userVars, CountersInv
<1>2. CASE UNCHANGED turns /\ now' \in {now, now + 1} /\ DOMAIN lifecycle' = Experiences
           /\ owed' \in Nat
  BY <1>2 DEF CountersInv
<1>3. CASE Tick \/ CompileOwed \/ CompileLost \/ \E e \in Experiences : ApplyLifecycle(e)
  BY <1>2, <1>3 DEF Tick, CompileOwed, CompileLost, ApplyLifecycle, userVars, CountersInv
<1>4. CASE UNCHANGED <<userVars, now, turns>>
  BY <1>4 DEF userVars, CountersInv
<1> QED
  BY <1>1, <1>3, <1>4 DEF Next, vars, PassStep, Generate, Accept,
     StartPass, Resolve, StartMaterialize, NextReceipt, EndPass, Probe, EnsureProgress,
     LinkApplication, InsertApplication, Crash, TransactionFails

(* A pass in hand, and the tables it relies on, survive what others do.    *)
LEMMA PassStays ==
    ASSUME PassInv, Grows, UNCHANGED pass
    PROVE  PassInv'
<1>1. \A p : Bound(p) => Bound(p)'
  BY DEF Grows, Bound, Receipts
<1>2. ASSUME NEW p \in Receipts, NEW s, InWindow(p, s)
      PROVE  InWindow(p, s)'
  BY <1>2 DEF Grows, InWindow
<1>3. ASSUME NEW p \in Receipts
      PROVE  ExpiryOf(p)' = ExpiryOf(p)
  BY DEF Grows, ExpiryOf
<1>4. ASSUME NEW p, NEW e, Bound(p)
      PROVE  Application(p, e)' = Application(p, e)
  BY <1>4 DEF Grows, Application, Bound
<1>5. pass.phase = "resolve" =>
         /\ pass.receipt \in Receipts'
         /\ pass.observed < ExpiryOf(pass.receipt)' =>
               \A s \in pass.found : InWindow(pass.receipt, s)'
  BY <1>2, <1>3 DEF PassInv, Grows
<1>6. pass.phase \in {"materialize", "insert", "link"} => \A p \in pass.batch : Bound(p)'
  BY <1>1 DEF PassInv
<1>7. pass.phase \in {"insert", "link"} =>
         /\ Bound(pass.receipt)'
         /\ pass.receipt \in DOMAIN progress'
  BY <1>1 DEF PassInv, Grows
<1>8. pass.phase = "link" => Application(pass.receipt, pass.ref)' \in applications'
  BY <1>4 DEF PassInv, Grows
<1> QED
  BY <1>5, <1>6, <1>7, <1>8 DEF PassInv

(* Receipts that are bound keep what makes them so.                        *)
LEMMA WindowsStay ==
    ASSUME BoundWithinWindow, Grows,
           \A p \in Receipts' : receipts'[p].state = "bound" => Bound(p)
    PROVE  BoundWithinWindow'
<1>1. ASSUME NEW p \in Receipts', receipts'[p].state = "bound"
      PROVE  /\ p \in Receipts /\ receipts[p].state = "bound"
             /\ receipts'[p] = receipts[p]
  BY <1>1 DEF Grows, Bound
<1> QED
  BY <1>1 DEF BoundWithinWindow, Grows

(* Applications and progress that are not written stay traceable.          *)
LEMMA TraceStays ==
    ASSUME ApplicationsTrace, Grows, UNCHANGED <<progress, applications>>
    PROVE  ApplicationsTrace'
<1>1. ASSUME NEW p \in Receipts, receipts[p].state = "bound"
      PROVE  /\ p \in Receipts' /\ receipts'[p] = receipts[p]
             /\ \A e : Application(p, e)' = Application(p, e)
  BY <1>1 DEF Grows, Application
<1> QED
  BY <1>1 DEF ApplicationsTrace
(* Steps of users and agents that touch neither deliveries nor the pass.   *)
LEMMA QuietKeeps ==
    ASSUME TracedInv, UNCHANGED <<receipts, progress, applications, pass>>,
           turns \subseteq turns'
    PROVE  TracedInv'
<1>1. Grows
  BY DEF Grows, Receipts
<1>2. PassInv' /\ ApplicationsTrace'
  BY <1>1, PassStays, TraceStays DEF TracedInv
<1>3. BoundWithinWindow'
  BY <1>1, WindowsStay DEF TracedInv, Bound, Receipts
<1>4. RowsInv'
  BY DEF TracedInv, RowsInv, Receipts
<1> QED
  BY <1>2, <1>3, <1>4 DEF TracedInv

(* An acceptance adds a pending receipt.                                   *)
LEMMA AcceptKeeps ==
    ASSUME CountersInv, TracedInv, NEW q, Accept(q)
    PROVE  TracedInv'
<1> DEFINE new == [at |-> now, state |-> "pending", session |-> {}]
<1>1. /\ q \notin Receipts
      /\ receipts' = [p \in Receipts \cup {q} |-> IF p = q THEN new ELSE receipts[p]]
      /\ UNCHANGED <<progress, applications, turns, pass>>
  BY DEF Accept
<1>2. /\ Receipts' = Receipts \cup {q}
      /\ receipts'[q] = new
      /\ \A p \in Receipts : receipts'[p] = receipts[p]
  BY <1>1 DEF Receipts
<1>3. /\ DOMAIN new = {"at", "state", "session"}
      /\ new.at \in Nat /\ new.state # "bound"
  BY DEF CountersInv
<1> HIDE DEF new
<1>4. Grows
  BY <1>1, <1>2 DEF Grows
<1>5. RowsInv'
  BY <1>2, <1>3 DEF TracedInv, RowsInv
<1>6. \A p \in Receipts' : receipts'[p].state = "bound" => Bound(p)
  BY <1>2, <1>3 DEF Bound
<1> QED
  BY <1>1, <1>4, <1>5, <1>6, PassStays, WindowsStay, TraceStays DEF TracedInv

(* Steps of the pass that write nothing.                                   *)
LEMMA HandKeeps ==
    ASSUME PackAssumption, CountersInv, TracedInv,
           UNCHANGED <<receipts, progress, applications, turns>>,
           \/ StartPass \/ StartMaterialize \/ NextReceipt \/ EndPass
           \/ Crash \/ TransactionFails
           \/ \E p \in Receipts : Probe(p)
    PROVE  TracedInv'
<1> USE DEF TracedInv
<1>1. RowsInv' /\ BoundWithinWindow' /\ ApplicationsTrace'
  BY DEF RowsInv, BoundWithinWindow, ApplicationsTrace, Application, Receipts
<1>2. /\ Receipts' = Receipts
      /\ \A p : Bound(p)' <=> Bound(p)
  BY DEF Receipts, Bound
<1>3. CASE pass' = Idle
  BY <1>1, <1>3 DEF PassInv, Idle
<1>4. CASE StartPass
  BY <1>1, <1>4 DEF StartPass, PassInv, CountersInv
<1>5. CASE StartMaterialize
  <2>1. PICK batch \in Oldest({p \in Receipts : NeedsApplications(p)}, BatchLimit) :
           pass' = [phase |-> "materialize", batch |-> batch]
    BY <1>5 DEF StartMaterialize
  <2>2. \A p \in batch : Bound(p)
    BY DEF Oldest, NeedsApplications, Bound
  <2>3. PassInv'
    BY <1>2, <2>1, <2>2 DEF PassInv
  <2> QED
    BY <1>1, <2>3
<1>6. CASE NextReceipt
  <2>1. PassInv'
    BY <1>2, <1>6 DEF NextReceipt, PassInv
  <2> QED
    BY <1>1, <2>1
<1>7. ASSUME NEW p \in Receipts, Probe(p)
      PROVE  TracedInv'
  <2>1. /\ pass'.phase = "resolve" /\ pass'.receipt = p /\ pass'.observed = pass.observed
        /\ pass'.found = IF pass.observed < ExpiryOf(p) THEN Compatible(p) ELSE {}
    BY <1>7 DEF Probe
  <2>2. ASSUME NEW s \in Compatible(p)
        PROVE  InWindow(p, s)
    <3>1. PICK t \in turns : t.session = s /\ t.at >= receipts[p].at /\ t.at < ExpiryOf(p)
      BY DEF Compatible
    <3>2. receipts[p].at \in Nat /\ t.at \in Nat /\ Window \in Nat
      BY <1>7 DEF RowsInv, PackAssumption, CountersInv
    <3> QED
      BY <3>1, <3>2 DEF InWindow, ExpiryOf
  <2>3. \A s : InWindow(p, s) <=> \E t \in turns' :
             /\ t.session = s
             /\ t.at \in receipts'[p].at .. (receipts'[p].at + Window - 1)
    BY DEF InWindow
  <2>4. pass.observed \in Nat
    BY <1>7 DEF Probe, PassInv
  <2>5. PassInv'
    BY <2>1, <2>2, <2>3, <2>4, <1>2 DEF PassInv, InWindow, ExpiryOf
  <2> QED
    BY <1>1, <2>5
<1>8. CASE TransactionFails
  <2>1. CASE pass.phase = "reconcile" /\ \E p \in pass.batch : pass' = [pass EXCEPT !.batch = @ \ {p}]
    BY <2>1, <1>1 DEF PassInv
  <2>2. CASE pass.phase = "materialize" /\ \E p \in pass.batch : pass' = [pass EXCEPT !.batch = @ \ {p}]
    BY <2>2, <1>1, <1>2 DEF PassInv
  <2>3. CASE pass.phase = "resolve"
    BY <2>3, <1>1, <1>8 DEF TransactionFails, PassInv
  <2>4. CASE pass.phase = "insert"
    <3>1. PICK e \in pass.refs : pass' = [pass EXCEPT !.refs = @ \ {e}]
      BY <1>8, <2>4 DEF TransactionFails
    <3> QED
      BY <3>1, <2>4, <1>1, <1>2 DEF PassInv
  <2>5. CASE pass.phase = "link"
    <3>1. pass' = [phase |-> "insert", batch |-> pass.batch,
                   receipt |-> pass.receipt, refs |-> pass.refs \ {pass.ref}]
      BY <1>8, <2>5 DEF TransactionFails
    <3> QED
      BY <3>1, <2>5, <1>1, <1>2 DEF PassInv
  <2> QED
    BY <1>8, <2>1, <2>2, <2>3, <2>4, <2>5 DEF TransactionFails
<1> QED
  BY <1>3, <1>4, <1>5, <1>6, <1>7, <1>8 DEF EndPass, Crash
(* A receipt is settled by what was found before its transaction.          *)
LEMMA ResolveKeeps ==
    ASSUME PackAssumption, CountersInv, TracedInv, Resolve
    PROVE  TracedInv'
<1> USE DEF TracedInv
<1> DEFINE new == IF receipts[pass.receipt].state = "pending"
                  THEN Settled(pass.receipt) ELSE receipts[pass.receipt]
<1>1. /\ pass.phase = "resolve"
      /\ receipts' = [receipts EXCEPT ![pass.receipt] = new]
      /\ pass' = [phase |-> "reconcile", batch |-> pass.batch \ {pass.receipt},
                  observed |-> pass.observed]
      /\ UNCHANGED <<progress, applications, turns>>
  BY DEF Resolve
<1>2. PICK p \in Receipts : p = pass.receipt
  BY <1>1 DEF PassInv
<1>3. /\ Receipts' = Receipts
      /\ receipts'[p] = new
      /\ \A q \in Receipts \ {p} : receipts'[q] = receipts[q]
  BY <1>1, <1>2 DEF Receipts
<1>4. /\ DOMAIN receipts[p] = {"at", "state", "session"}
      /\ receipts[p].at \in Nat /\ Window \in Nat /\ ExpiryOf(p) \in Nat
      /\ pass.observed \in Nat
  BY <1>1 DEF RowsInv, PackAssumption, ExpiryOf, PassInv
<1>5. /\ DOMAIN new = {"at", "state", "session"} /\ new.at = receipts[p].at
      /\ receipts[p].state = "bound" => new = receipts[p]
      /\ new.state = "bound" /\ receipts[p].state # "bound" =>
             /\ pass.observed < ExpiryOf(p)
             /\ Cardinality(pass.found) = 1
             /\ new.session = pass.found
  <2>1. CASE receipts[p].state # "pending"
    BY <2>1, <1>2, <1>4
  <2>2. CASE receipts[p].state = "pending"
    <3>1. new = Settled(p)
      BY <2>2, <1>2
    <3>2. CASE pass.observed >= ExpiryOf(p)
      <4>1. Settled(p) = [receipts[p] EXCEPT !.state = "expired"]
        BY <3>2, <1>4 DEF Settled
      <4> QED
        BY <3>1, <4>1, <2>2, <1>4
    <3>3. CASE pass.observed < ExpiryOf(p) /\ Cardinality(pass.found) = 0
      <4>1. Settled(p) = receipts[p]
        BY <3>3, <1>4 DEF Settled
      <4> QED
        BY <3>1, <4>1, <2>2, <1>4
    <3>4. CASE pass.observed < ExpiryOf(p) /\ Cardinality(pass.found) = 1
      <4>1. Settled(p) = [receipts[p] EXCEPT !.state = "bound", !.session = pass.found]
        BY <3>4, <1>4 DEF Settled
      <4> QED
        BY <3>1, <3>4, <4>1, <2>2, <1>4
    <3>5. CASE pass.observed < ExpiryOf(p) /\ Cardinality(pass.found) \notin {0, 1}
      <4>1. Settled(p) = [receipts[p] EXCEPT !.state = "ambiguous"]
        BY <3>5, <1>4 DEF Settled
      <4> QED
        BY <3>1, <4>1, <2>2, <1>4
    <3> QED
      BY <3>2, <3>3, <3>4, <3>5, <1>4
  <2> QED
    BY <2>1, <2>2
<1> HIDE DEF new
<1>6. Grows
  BY <1>1, <1>3, <1>5 DEF Grows
<1>7. RowsInv' /\ PassInv'
  BY <1>1, <1>3, <1>4, <1>5 DEF RowsInv, PassInv
<1>8. BoundWithinWindow'
  <2>1. ASSUME NEW q \in Receipts, receipts'[q].state = "bound", q # p
        PROVE  receipts'[q] = receipts[q]
    BY <2>1, <1>3
  <2>2. ASSUME new.state = "bound", receipts[p].state # "bound"
        PROVE  /\ Cardinality(new.session) = 1
               /\ \E t \in turns : /\ t.session \in new.session
                                   /\ t.at \in new.at .. (new.at + Window - 1)
    <3>1. pass.found # {}
      BY <2>2, <1>5, FS_EmptySet
    <3>2. PICK s \in pass.found : InWindow(p, s)
      BY <3>1, <2>2, <1>1, <1>2, <1>5 DEF PassInv
    <3> QED
      BY <3>2, <2>2, <1>5 DEF InWindow
  <2> QED
    BY <2>1, <2>2, <1>1, <1>3, <1>5 DEF BoundWithinWindow
<1> QED
  BY <1>1, <1>6, <1>7, <1>8, TraceStays

(* The transactions of a bound receipt: its progress, and per ref the      *)
(* application and then the link to it.                                    *)
LEMMA MaterializeKeeps ==
    ASSUME TracedInv,
           \/ LinkApplication
           \/ \E e \in Experiences : InsertApplication(e)
           \/ \E p \in Receipts : EnsureProgress(p)
    PROVE  TracedInv'
<1> USE DEF TracedInv
<1>1. UNCHANGED <<receipts, turns>>
  BY DEF LinkApplication, InsertApplication, EnsureProgress
<1>2. /\ Receipts' = Receipts
      /\ \A p : Bound(p)' <=> Bound(p)
      /\ \A p, e : Application(p, e)' = Application(p, e)
  BY <1>1 DEF Receipts, Bound, Application
<1>3. RowsInv' /\ BoundWithinWindow'
  BY <1>1, <1>2 DEF RowsInv, BoundWithinWindow
<1>4. ASSUME NEW p \in Receipts, EnsureProgress(p)
      PROVE  TracedInv'
  <2>1. /\ pass.phase = "materialize" /\ p \in pass.batch
        /\ progress' = [q \in DOMAIN progress \cup {p} |->
                           IF q \in DOMAIN progress THEN progress[q] ELSE {}]
        /\ pass' = [phase |-> "insert", batch |-> pass.batch \ {p}, receipt |-> p,
                    refs |-> p.refs]
        /\ UNCHANGED applications
    BY <1>4 DEF EnsureProgress
  <2>2. Bound(p)
    BY <2>1 DEF PassInv
  <2>3. /\ DOMAIN progress' = DOMAIN progress \cup {p}
        /\ \A q \in DOMAIN progress : progress'[q] = progress[q]
        /\ p \notin DOMAIN progress => progress'[p] = {}
    BY <2>1
  <2>4. PassInv'
    BY <2>1, <2>2, <2>3, <1>2 DEF PassInv
  <2>5. ApplicationsTrace'
    BY <2>1, <2>2, <2>3, <1>1, <1>2 DEF ApplicationsTrace, Bound
  <2> QED
    BY <2>4, <2>5, <1>3
<1>5. ASSUME NEW e \in Experiences, InsertApplication(e)
      PROVE  TracedInv'
  <2>1. /\ pass.phase = "insert" /\ e \in pass.refs
        /\ applications' = applications \cup {Application(pass.receipt, e)}
        /\ pass' = [phase |-> "link", batch |-> pass.batch, receipt |-> pass.receipt,
                    refs |-> pass.refs, ref |-> e]
        /\ UNCHANGED progress
    BY <1>5 DEF InsertApplication
  <2>2. /\ Bound(pass.receipt) /\ pass.receipt \in DOMAIN progress
        /\ pass.refs \subseteq pass.receipt.refs
        /\ \A p \in pass.batch : Bound(p)
    BY <2>1 DEF PassInv
  <2>3. PassInv'
    <3>1. Application(pass.receipt, pass.ref)' = Application(pass.receipt, e)
      BY <2>1, <1>1 DEF Application
    <3>2. Bound(pass.receipt)' /\ (\A p \in pass.batch : Bound(p))'
      BY <2>1, <2>2, <1>1 DEF Bound, Receipts
    <3> QED
      BY <2>1, <2>2, <3>1, <3>2 DEF PassInv
  <2>4. ApplicationsTrace'
    <3>1. ASSUME NEW a \in applications', a \notin applications
          PROVE  \E p \in Receipts : /\ receipts[p].state = "bound"
                                     /\ a.experience \in p.refs
                                     /\ a.session = receipts[p].session
                                     /\ a.deliveredAt = receipts[p].at
      <4>1. a = Application(pass.receipt, e)
        BY <3>1, <2>1
      <4> QED
        BY <4>1, <2>1, <2>2 DEF Application, Bound
    <3> QED
      BY <3>1, <2>1, <1>1, <1>2 DEF ApplicationsTrace
  <2> QED
    BY <2>3, <2>4, <1>3
<1>6. CASE LinkApplication
  <2>1. /\ pass.phase = "link"
        /\ progress' = [progress EXCEPT ![pass.receipt] = @ \cup {pass.ref}]
        /\ pass' = [phase |-> "insert", batch |-> pass.batch, receipt |-> pass.receipt,
                    refs |-> pass.refs \ {pass.ref}]
        /\ UNCHANGED applications
    BY <1>6 DEF LinkApplication
  <2>2. /\ Bound(pass.receipt) /\ pass.receipt \in DOMAIN progress
        /\ pass.refs \subseteq pass.receipt.refs /\ pass.ref \in pass.refs
        /\ Application(pass.receipt, pass.ref) \in applications
        /\ \A p \in pass.batch : Bound(p)
    BY <2>1 DEF PassInv
  <2>3. /\ DOMAIN progress' = DOMAIN progress
        /\ progress'[pass.receipt] = progress[pass.receipt] \cup {pass.ref}
        /\ \A q \in DOMAIN progress \ {pass.receipt} : progress'[q] = progress[q]
    BY <2>1, <2>2
  <2>4. PassInv'
    <3>1. Bound(pass.receipt)' /\ (\A p \in pass.batch : Bound(p))'
      BY <2>1, <2>2, <1>1 DEF Bound, Receipts
    <3> QED
      BY <2>1, <2>2, <2>3, <3>1 DEF PassInv
  <2>5. ASSUME NEW q \in DOMAIN progress
        PROVE  /\ progress'[q] \subseteq q.refs
               /\ \A e \in progress'[q] : Application(q, e) \in applications
    <3>1. CASE q = pass.receipt
      BY <3>1, <2>2, <2>3 DEF ApplicationsTrace
    <3>2. CASE q # pass.receipt
      BY <3>2, <2>3 DEF ApplicationsTrace
    <3> QED
      BY <3>1, <3>2
  <2>6. ApplicationsTrace'
    BY <2>1, <2>3, <2>5, <1>1, <1>2 DEF ApplicationsTrace
  <2> QED
    BY <2>4, <2>6, <1>3
<1> QED
  BY <1>4, <1>5, <1>6

(* Every step keeps the second invariant.                                  *)
LEMMA NextTraced ==
    ASSUME PackAssumption, CountersInv, TracedInv, [Next]_vars
    PROVE  TracedInv'
<1>1. CASE /\ UNCHANGED <<receipts, progress, applications, pass>>
           /\ turns \subseteq turns'
  BY <1>1, QuietKeeps
<1>2. ASSUME NEW q, Accept(q)
      PROVE  TracedInv'
  BY <1>2, AcceptKeeps
<1>3. CASE /\ UNCHANGED <<receipts, progress, applications, turns>>
           /\ \/ StartPass \/ StartMaterialize \/ NextReceipt \/ EndPass
              \/ Crash \/ TransactionFails
              \/ \E p \in Receipts : Probe(p)
  BY <1>3, HandKeeps
<1>4. CASE Tick \/ CompileOwed \/ CompileLost \/ (\E e \in Experiences : ApplyLifecycle(e))
           \/ (\E refs \in SUBSET Experiences : Generate(refs))
           \/ \E s \in Sessions, at \in 0..now : ImportTurn(s, at)
  BY <1>1, <1>4 DEF Tick, CompileOwed, CompileLost, ApplyLifecycle, Generate, ImportTurn,
     userVars, deliveryVars
<1>5. CASE StartPass \/ StartMaterialize \/ NextReceipt \/ EndPass
           \/ Crash \/ TransactionFails
           \/ \E p \in Receipts : Probe(p)
  <2>1. UNCHANGED <<receipts, progress, applications, turns>>
    BY <1>5 DEF StartPass, StartMaterialize, NextReceipt, EndPass, Crash,
       TransactionFails, Probe, deliveryVars
  <2> QED
    BY <1>3, <1>5, <2>1
<1>6. CASE UNCHANGED vars
  BY <1>1, <1>6 DEF vars, deliveryVars
<1> QED
  BY <1>2, <1>4, <1>5, <1>6, ResolveKeeps, MaterializeKeeps DEF Next, PassStep

(* Nothing delivered yet.                                                  *)
LEMMA InitTraced == Init => CountersInv /\ TracedInv
BY DEF Init, CountersInv, TracedInv, RowsInv, PassInv, Idle, BoundWithinWindow,
   ApplicationsTrace, Receipts
-----------------------------------------------------------------------------
(* What the pass has in hand and what it wrote agree in every state,       *)
(* wherever it died before.                                                *)
THEOREM DeliverySafe == Spec => [](CountersInv /\ TracedInv)
<1>1. Init => CountersInv /\ TracedInv
  BY InitTraced
<1>2. (CountersInv /\ TracedInv) /\ [Next]_vars => (CountersInv /\ TracedInv)'
  BY CountersKept, NextTraced, PackAssumption
<1> QED
  BY <1>1, <1>2, PTL DEF Spec

(* A receipt is bound to one session, active in the receipt's window, even *)
(* if what was found is older than the transaction that binds it           *)
(* (ResolveMissionPackReceipt).                                            *)
THEOREM ReceiptsAreBoundInWindow == Spec => []BoundWithinWindow
<1>1. CountersInv /\ TracedInv => BoundWithinWindow
  BY DEF TracedInv
<1> QED
  BY <1>1, DeliverySafe, PTL

(* Every application has its delivery and every linked delivery its        *)
(* application (materializeMissionPackReceipt).                            *)
THEOREM ApplicationsAreTraced == Spec => []ApplicationsTrace
<1>1. CountersInv /\ TracedInv => ApplicationsTrace
  BY DEF TracedInv
<1> QED
  BY <1>1, DeliverySafe, PTL
-----------------------------------------------------------------------------
(* The generations by themselves, under every order of the store's three   *)
(* operations: numbers end somewhere, so that the next one is new.         *)
NumbersEnd == Numbers # {} => \E m \in Numbers : \A h \in Numbers : h <= m

PointersInv == GenerationsInv /\ NumbersEnd

(* A generation becomes the active one.                                    *)
LEMMA MakeActiveKeeps ==
    ASSUME PointersInv, NEW g \in GenerationNumbers, NEW refs \in SUBSET Experiences,
           g # ActiveNumber, MakeActive(g, refs)
    PROVE  PointersInv'
<1> DEFINE n == ActiveNumber
<1>1. /\ generations \in [Numbers -> Generation] /\ Numbers \subseteq GenerationNumbers
      /\ \A h, k \in Active : h = k
      /\ Active \subseteq Numbers
  BY DEF PointersInv, GenerationsInv, GenerationsTypeOK, Active
<1>2. /\ n \in Numbers \cup {None}
      /\ \A h \in Active : h = n
      /\ n = None => Active = {}
  BY <1>1 DEF ActiveNumber, Active, None, GenerationNumbers
<1>3. /\ DOMAIN generations' = Numbers \cup {g}
      /\ generations'[g] = [refs |-> refs, active |-> TRUE, previous |-> n]
      /\ \A h \in Numbers \ {g} :
            generations'[h] = IF h = n THEN [generations[h] EXCEPT !.active = FALSE]
                              ELSE generations[h]
      /\ generations' = [h \in Numbers \cup {g} |-> generations'[h]]
      /\ lastActive' = n
  BY DEF MakeActive, Activated
<1>4. ASSUME NEW h \in Numbers \ {g}
      PROVE  generations'[h] \in Generation /\ ~generations'[h].active
  <2>1. generations[h] \in Generation
    BY <1>1
  <2>2. CASE h = n
    BY <2>1, <2>2, <1>3 DEF Generation
  <2>3. CASE h # n
    <3>1. generations'[h] = generations[h] /\ h \notin Active
      BY <2>3, <1>2, <1>3
    <3> QED
      BY <3>1, <2>1 DEF Active
  <2> QED
    BY <2>2, <2>3
<1>5. generations'[g] \in Generation
  BY <1>1, <1>2, <1>3 DEF Generation
<1>6. Active' = {g} /\ Numbers' = Numbers \cup {g}
  BY <1>3, <1>4 DEF Active, Numbers
<1>7. GenerationsTypeOK'
  <2>1. generations' \in [Numbers' -> Generation]
    BY <1>3, <1>4, <1>5, <1>6
  <2> QED
    BY <2>1, <1>1, <1>2, <1>3, <1>6 DEF GenerationsTypeOK, GenerationNumbers, Generation, None
<1>8. GenerationsInv'
  BY <1>3, <1>6, <1>7 DEF GenerationsInv
<1>9. NumbersEnd'
  <2>1. Numbers' \subseteq Int
    BY <1>1, <1>6, GenerationAssumption DEF GenerationNumbers
  <2>2. CASE Numbers = {}
    BY <2>1, <2>2, <1>6 DEF NumbersEnd
  <2>3. CASE Numbers # {}
    <3>1. PICK m \in Numbers : \A h \in Numbers : h <= m
      BY <2>3 DEF PointersInv, NumbersEnd
    <3>2. CASE g <= m
      BY <3>1, <3>2, <2>1, <1>6 DEF NumbersEnd
    <3>3. CASE m <= g
      BY <3>1, <3>3, <2>1, <1>6 DEF NumbersEnd
    <3> QED
      BY <3>2, <3>3, <2>1, <1>6
  <2> QED
    BY <2>2, <2>3
<1> QED
  BY <1>8, <1>9 DEF PointersInv

(* The number after the last one is no generation's.                       *)
LEMMA NextIsNew ==
    ASSUME PointersInv
    PROVE  NextNumber \notin Numbers /\ NextNumber # None
<1> USE DEF PointersInv, GenerationsInv, GenerationsTypeOK
<1>1. CASE Numbers = {}
  BY <1>1 DEF NextNumber, None
<1>2. CASE Numbers # {}
  <2>1. PICK m \in Numbers : \A h \in Numbers : h <= m
    BY <1>2 DEF PointersInv, NumbersEnd
  <2> DEFINE top == CHOOSE k \in Numbers : \A h \in Numbers : h <= k
  <2>2. top \in Numbers /\ \A h \in Numbers : h <= top
    BY <2>1
  <2>3. NextNumber = 1 + top
    BY <1>2 DEF NextNumber
  <2> HIDE DEF top
  <2>4. top \in Nat \ {0}
    BY <2>2, GenerationAssumption DEF GenerationNumbers
  <2> QED
    BY <2>2, <2>3, <2>4 DEF None
<1> QED
  BY <1>1, <1>2

(* Compile takes a number of its own; a rollback, the one before.          *)
LEMMA PointersStep == PointersInv /\ [GenerationsNext]_generationVars => PointersInv'
<1> SUFFICES ASSUME PointersInv, [GenerationsNext]_generationVars PROVE PointersInv'
  OBVIOUS
<1>1. UNCHANGED generationVars => PointersInv'
  BY DEF generationVars, PointersInv, GenerationsInv, GenerationsTypeOK, NumbersEnd,
     Numbers, Active
<1>2. /\ Numbers \subseteq GenerationNumbers /\ Active \subseteq Numbers
      /\ generations \in [Numbers -> Generation]
      /\ ActiveNumber \in Numbers \cup {None}
      /\ ActiveNumber # None => ActiveNumber \in Active
  BY DEF PointersInv, GenerationsInv, GenerationsTypeOK, Active, ActiveNumber
<1>3. ASSUME NEW refs \in SUBSET Experiences, Compile(refs) PROVE PointersInv'
  <2>1. NextNumber \notin Numbers /\ NextNumber # None
    BY NextIsNew
  <2>2. NextNumber # ActiveNumber
    BY <2>1, <1>2
  <2> QED
    BY <2>2, <1>1, <1>3, MakeActiveKeeps DEF Compile
<1>4. ASSUME NEW refs \in SUBSET Experiences, NEW g \in GenerationNumbers,
             ActivateGeneration(g, refs)
      PROVE  PointersInv'
  BY <1>4, MakeActiveKeeps DEF ActivateGeneration
<1>5. ASSUME Rollback PROVE PointersInv'
  <2> DEFINE target == generations[ActiveNumber].previous
  <2>1. /\ ActiveNumber \in Active /\ target \in Numbers
        /\ MakeActive(target, generations[target].refs)
    BY <1>5, <1>2 DEF Rollback
  <2>2. target # ActiveNumber
    BY <2>1 DEF PointersInv, GenerationsInv
  <2>3. target \in GenerationNumbers /\ generations[target].refs \in SUBSET Experiences
    BY <2>1, <1>2 DEF Generation
  <2> HIDE DEF target
  <2> QED
    BY <2>1, <2>2, <2>3, MakeActiveKeeps
<1> QED
  BY <1>1, <1>3, <1>4, <1>5 DEF GenerationsNext

(* One generation at most is active and it names the one active before it, *)
(* whichever of compile, activate and roll back moved the mark             *)
(* (experience_state_repository.go).                                       *)
THEOREM PointersAgree == GenerationsSpec => []GenerationsInv
<1>1. GenerationsInit => PointersInv
  BY DEF GenerationsInit, PointersInv, GenerationsInv, GenerationsTypeOK, NumbersEnd,
     Numbers, Active
<1>2. PointersInv => GenerationsInv
  BY DEF PointersInv
<1> QED
  BY <1>1, <1>2, PointersStep, PTL DEF GenerationsSpec

(* What a receipt cites by its number stays what it was.                   *)
THEOREM NumbersStandForRefs == GenerationsSpec => GenerationsAreImmutable
<1> DEFINE Same == \A g \in Numbers : /\ g \in DOMAIN generations'
                                      /\ generations'[g].refs = generations[g].refs
<1>1. ASSUME NEW g, NEW refs, MakeActive(g, refs), g \in Numbers => generations[g].refs = refs,
             generations \in [Numbers -> Generation]
      PROVE  Same
  BY <1>1 DEF MakeActive, Activated, Generation
<1>2. ASSUME PointersInv, [GenerationsNext]_generationVars PROVE [Same]_generationVars
  <2>1. generations \in [Numbers -> Generation]
    BY <1>2 DEF PointersInv, GenerationsInv, GenerationsTypeOK
  <2>2. ASSUME NEW refs \in SUBSET Experiences, Compile(refs)
        PROVE  [Same]_generationVars
    <3>1. UNCHANGED generationVars \/ MakeActive(NextNumber, refs)
      BY <2>2 DEF Compile
    <3>2. ASSUME MakeActive(NextNumber, refs) PROVE Same
      <4>1. NextNumber \notin Numbers
        BY <1>2, NextIsNew
      <4> QED
        BY <4>1, <3>2, <2>1, <1>1
    <3> QED
      BY <3>1, <3>2
  <2> QED
    BY <2>1, <2>2, <1>1, <1>2 DEF GenerationsNext, ActivateGeneration, Rollback
<1>3. GenerationsInit => PointersInv
  BY DEF GenerationsInit, PointersInv, GenerationsInv, GenerationsTypeOK, NumbersEnd,
     Numbers, Active
<1> QED
  BY <1>2, <1>3, PointersStep, PTL DEF GenerationsSpec, GenerationsAreImmutable
=============================================================================
