----------------------------- MODULE MissionPacks -----------------------------
(***************************************************************************)
(* What is delivered to an agent and what is remembered of it: lifecycle   *)
(* actions and the compilation that should follow each, previews of        *)
(* Mission Packs, their acceptance, and the background pass that binds an  *)
(* accepted pack to the session it reached and records one application per *)
(* delivered experience.                                                   *)
(*                                                                         *)
(* Three kinds of process share the store.  Users act on experiences: the  *)
(* transition commits, then a second transaction compiles, and either may  *)
(* be cut off from the other.  Agents ask for packs and accept them.  One  *)
(* process, the holder of the intelligence lease, runs the pass over       *)
(* receipts; it may die between any two of its transactions.               *)
(*                                                                         *)
(* Abstracted: one project and one harness; the task hint and the          *)
(* transcript generation in a pack's identity (two packs are the same when *)
(* they cite the same refs of the same generation); the score and the      *)
(* token budget of the selection (any non-empty choice of the eligible     *)
(* refs); the reads of a selection and the registration of its preview,    *)
(* which are one step, as are the clock reading and the transaction of an  *)
(* acceptance: what changes in between is found again by the acceptance.   *)
(***************************************************************************)
EXTENDS ExperienceGenerations

CONSTANTS Sessions,        \* transcript sessions of the project and harness
          ExpiresAt,       \* [Experiences -> Nat]: the guidance's own expiry
          PreviewLife,     \* missionPackPreviewLifetime
          Window,          \* missionPackReceiptBindingWindow
          MaxTime,         \* bound on the clock
          MaxEvents,       \* bound on lifecycle actions, packs, turns and faults
          BatchLimit       \* receipts read in one pass

ASSUME PackAssumption ==
    /\ ExpiresAt \in [Experiences -> Nat]
    /\ {PreviewLife, Window, MaxTime, MaxEvents, BatchLimit} \subseteq Nat

VARIABLES now,             \* the wall clock
          lifecycle,       \* [Experiences -> "approved", "active", "withdrawn"]
          owed,            \* callers that changed a lifecycle and will compile
          lost,            \* history: a caller died before its compilation
          events,          \* lifecycle actions, packs, turns and faults so far
          previews,        \* mission_pack_previews, by pack
          receipts,        \* mission_pack_receipts, by pack
          turns,           \* transcript turns imported: [session, at]
          progress,        \* mission_pack_receipt_applications, by pack
          applications,    \* experience_applications, by identity
          pass             \* what the background pass has in hand

userVars == <<generationVars, lifecycle, owed, lost>>
deliveryVars == <<receipts, progress, applications>>
vars == <<userVars, previews, deliveryVars, now, turns, pass, events>>

Idle == [phase |-> "idle"]
Receipts == DOMAIN receipts
Event == events < MaxEvents /\ events' = events + 1

Pending == {p \in Receipts : receipts[p].state = "pending"}
ExpiryOf(p) == receipts[p].at + Window
-----------------------------------------------------------------------------
(* Lifecycle actions and compilation.                                      *)
(* Pausing, superseding and expiring are one withdrawal here: no action    *)
(* the program offers takes an experience back into force.                 *)
ApplyLifecycle(e) ==
    /\ Event
    /\ lifecycle[e] \in {"approved", "active"}
    /\ lifecycle' = [lifecycle EXCEPT ![e] =
                        IF @ = "approved" THEN "active" ELSE "withdrawn"]
    /\ owed' = owed + 1
    /\ UNCHANGED <<generationVars, lost, previews, deliveryVars, now, turns,
                   pass>>

(* Mutant: what was ever activated is compiled.                            *)
MutCompilable == {e \in Experiences : lifecycle[e] # "approved" /\ ExpiresAt[e] > now}

Compilable == {e \in Experiences : lifecycle[e] = "active" /\ ExpiresAt[e] > now}

CompileOwed ==
    /\ owed > 0
    /\ Compile(Compilable)
    /\ owed' = owed - 1
    /\ lost' = FALSE
    /\ UNCHANGED <<lifecycle, previews, deliveryVars, now, turns, pass,
                   events>>

(* The caller died, or its compilation failed: a partial delivery.         *)
CompileLost ==
    /\ owed > 0
    /\ owed' = owed - 1
    /\ lost' = TRUE
    /\ UNCHANGED <<generationVars, lifecycle, previews, deliveryVars,
                   now, turns, pass, events>>
-----------------------------------------------------------------------------
(* Packs: selected from the active generation, registered, accepted.       *)
Eligible == {e \in generations[ActiveNumber].refs :
                 lifecycle[e] = "active" /\ ExpiresAt[e] > now}

(* A pack registered again keeps the newer time of the two.                *)
Generate(refs) ==
    /\ Event
    /\ ActiveNumber # None
    /\ refs \subseteq Eligible
    /\ refs # {}
    /\ LET p == [generation |-> ActiveNumber, refs |-> refs]
       IN previews' = [q \in DOMAIN previews \cup {p} |->
                          IF q = p THEN now ELSE previews[q]]
    /\ UNCHANGED <<userVars, deliveryVars, now, turns, pass>>

(* Mutant: the lifecycle of the refs is not read again.                    *)
MutDeliverable(p) ==
    /\ p.generation = ActiveNumber
    /\ p.refs \subseteq generations[p.generation].refs

(* What the accepting transaction checks again of the pack it finds.       *)
Deliverable(p) ==
    /\ p.generation = ActiveNumber
    /\ \A e \in p.refs : /\ lifecycle[e] = "active"
                         /\ e \in generations[p.generation].refs

(* An accepted pack already has its receipt, whatever became of it.  The   *)
(* last guard bounds the model: every window ends within the clock.        *)
Accept(p) ==
    /\ p \notin Receipts
    /\ now < previews[p] + PreviewLife
    /\ Deliverable(p)
    /\ now + Window <= MaxTime
    /\ receipts' = [q \in Receipts \cup {p} |->
                       IF q = p THEN [at |-> now, state |-> "pending", session |-> {}]
                       ELSE receipts[q]]
    /\ UNCHANGED <<userVars, previews, progress, applications, now, turns, pass,
                   events>>

(* Turns are imported when the importer gets to them.                      *)
ImportTurn(s, at) ==
    /\ at <= now
    /\ [session |-> s, at |-> at] \notin turns
    /\ Event
    /\ turns' = turns \cup {[session |-> s, at |-> at]}
    /\ UNCHANGED <<userVars, previews, deliveryVars, now, pass>>

Tick ==
    /\ now < MaxTime
    /\ now' = now + 1
    /\ UNCHANGED <<userVars, previews, deliveryVars, turns, pass, events>>
-----------------------------------------------------------------------------
(* The background pass: reconcile, then materialize.                       *)
Oldest(S, n) ==
    {B \in SUBSET S : /\ Cardinality(B) = IF Cardinality(S) < n THEN Cardinality(S) ELSE n
                      /\ \A b \in B, r \in S \ B : receipts[b].at <= receipts[r].at}

(* Mutant: the binding window has no end.                                  *)
MutCompatible(p) ==
    {s \in Sessions : \E t \in turns : t.session = s /\ t.at >= receipts[p].at}

Compatible(p) ==
    {s \in Sessions : \E t \in turns : /\ t.session = s
                                       /\ t.at >= receipts[p].at
                                       /\ t.at < ExpiryOf(p)}

Linked(p) == IF p \in DOMAIN progress THEN progress[p] ELSE {}

(* Mutant: a receipt whose progress was ever written is not taken up again.*)
MutNeedsApplications(p) == receipts[p].state = "bound" /\ p \notin DOMAIN progress
NeedsApplications(p) == receipts[p].state = "bound" /\ Linked(p) # p.refs

(* A pass that would find nothing to do changes nothing: not a step.       *)
StartPass ==
    /\ pass = Idle
    /\ \E p \in Receipts : receipts[p].state = "pending" \/ NeedsApplications(p)
    /\ \E batch \in Oldest(Pending, BatchLimit) :
          pass' = [phase |-> "reconcile", batch |-> batch, observed |-> now]
    /\ UNCHANGED <<userVars, previews, deliveryVars, now, turns, events>>

Probe(p) ==
    /\ pass.phase = "reconcile"
    /\ p \in pass.batch
    /\ pass' = [phase |-> "resolve", batch |-> pass.batch, observed |-> pass.observed,
                receipt |-> p,
                found |-> IF pass.observed < ExpiryOf(p) THEN Compatible(p) ELSE {}]
    /\ UNCHANGED <<userVars, previews, deliveryVars, now, turns, events>>

Settled(p) ==
    CASE pass.observed >= ExpiryOf(p)  -> [receipts[p] EXCEPT !.state = "expired"]
      [] pass.observed < ExpiryOf(p) /\ Cardinality(pass.found) = 0 -> receipts[p]
      [] pass.observed < ExpiryOf(p) /\ Cardinality(pass.found) = 1 ->
             [receipts[p] EXCEPT !.state = "bound", !.session = pass.found]
      [] OTHER -> [receipts[p] EXCEPT !.state = "ambiguous"]

Resolve ==
    /\ pass.phase = "resolve"
    /\ LET p == pass.receipt
       IN /\ receipts' = [receipts EXCEPT ![p] =
                             IF receipts[p].state = "pending" THEN Settled(p) ELSE @]
          /\ pass' = [phase |-> "reconcile", batch |-> pass.batch \ {p},
                      observed |-> pass.observed]
    /\ UNCHANGED <<userVars, previews, progress, applications, now, turns, events>>

StartMaterialize ==
    /\ pass.phase = "reconcile"
    /\ pass.batch = {}
    /\ \E batch \in Oldest({p \in Receipts : NeedsApplications(p)}, BatchLimit) :
          pass' = [phase |-> "materialize", batch |-> batch]
    /\ UNCHANGED <<userVars, previews, deliveryVars, now, turns, events>>

(* Mutant: the progress is written with every ref as linked.               *)
MutEnsureProgress(p) ==
    /\ pass.phase = "materialize"
    /\ p \in pass.batch
    /\ progress' = [q \in DOMAIN progress \cup {p} |->
                       IF q \in DOMAIN progress THEN progress[q] ELSE p.refs]
    /\ pass' = [phase |-> "insert", batch |-> pass.batch \ {p}, receipt |-> p,
                refs |-> p.refs]
    /\ UNCHANGED <<userVars, previews, receipts, applications, now, turns, events>>

EnsureProgress(p) ==
    /\ pass.phase = "materialize"
    /\ p \in pass.batch
    /\ progress' = [q \in DOMAIN progress \cup {p} |->
                       IF q \in DOMAIN progress THEN progress[q] ELSE {}]
    /\ pass' = [phase |-> "insert", batch |-> pass.batch \ {p}, receipt |-> p,
                refs |-> p.refs]
    /\ UNCHANGED <<userVars, previews, receipts, applications, now, turns, events>>

Application(p, e) == [experience |-> e, session |-> receipts[p].session,
                      deliveredAt |-> receipts[p].at]

InsertApplication(e) ==
    /\ pass.phase = "insert"
    /\ e \in pass.refs
    /\ applications' = applications \cup {Application(pass.receipt, e)}
    /\ pass' = [phase |-> "link", batch |-> pass.batch, receipt |-> pass.receipt,
                refs |-> pass.refs, ref |-> e]
    /\ UNCHANGED <<userVars, previews, receipts, progress, now, turns, events>>

LinkApplication ==
    /\ pass.phase = "link"
    /\ progress' = [progress EXCEPT ![pass.receipt] = @ \cup {pass.ref}]
    /\ pass' = [phase |-> "insert", batch |-> pass.batch, receipt |-> pass.receipt,
                refs |-> pass.refs \ {pass.ref}]
    /\ UNCHANGED <<userVars, previews, receipts, applications, now, turns, events>>

NextReceipt ==
    /\ pass.phase = "insert"
    /\ pass.refs = {}
    /\ pass' = [phase |-> "materialize", batch |-> pass.batch]
    /\ UNCHANGED <<userVars, previews, deliveryVars, now, turns, events>>

EndPass ==
    /\ pass.phase = "materialize"
    /\ pass.batch = {}
    /\ pass' = Idle
    /\ UNCHANGED <<userVars, previews, deliveryVars, now, turns, events>>

(* The process dies between two transactions, or a transaction fails and   *)
(* the pass goes on without the receipt, or the reference, it was about.   *)
Crash ==
    /\ pass # Idle
    /\ Event
    /\ pass' = Idle
    /\ UNCHANGED <<userVars, previews, deliveryVars, now, turns>>

TransactionFails ==
    /\ Event
    /\ \/ /\ pass.phase \in {"reconcile", "materialize"}
          /\ \E p \in pass.batch : pass' = [pass EXCEPT !.batch = @ \ {p}]
       \/ /\ pass.phase = "resolve"
          /\ pass' = [phase |-> "reconcile", batch |-> pass.batch \ {pass.receipt},
                      observed |-> pass.observed]
       \/ /\ pass.phase = "insert"
          /\ \E e \in pass.refs : pass' = [pass EXCEPT !.refs = @ \ {e}]
       \/ /\ pass.phase = "link"
          /\ pass' = [phase |-> "insert", batch |-> pass.batch,
                      receipt |-> pass.receipt, refs |-> pass.refs \ {pass.ref}]
    /\ UNCHANGED <<userVars, previews, deliveryVars, now, turns>>
-----------------------------------------------------------------------------
(* A project whose activated lessons are compiled, a state the actions     *)
(* reach from an empty one.                                                *)
Init ==
    /\ lifecycle \in [Experiences -> {"approved", "active"}]
    /\ generations = [g \in {1} |->
           [refs |-> {e \in Experiences : lifecycle[e] = "active"},
            active |-> TRUE, previous |-> None]]
    /\ lastActive = None
    /\ now = 0
    /\ owed = 0 /\ lost = FALSE
    /\ previews = [p \in {} |-> 0]
    /\ receipts = [p \in {} |-> {}] /\ progress = [p \in {} |-> {}]
    /\ applications = {} /\ turns = {} /\ pass = Idle /\ events = 0

PassStep ==
    \/ StartPass \/ Resolve \/ StartMaterialize \/ NextReceipt \/ EndPass
    \/ \E p \in Receipts : Probe(p) \/ EnsureProgress(p)
    \/ LinkApplication \/ \E e \in Experiences : InsertApplication(e)

Next ==
    \/ Tick
    \/ \E e \in Experiences : ApplyLifecycle(e)
    \/ CompileOwed \/ CompileLost
    \/ \E refs \in SUBSET Experiences : Generate(refs)
    \/ \E p \in DOMAIN previews : Accept(p)
    \/ \E s \in Sessions, at \in 0..now : ImportTurn(s, at)
    \/ PassStep
    \/ Crash \/ TransactionFails

(* The pass runs every two seconds for as long as some process holds the   *)
(* lease, and time passes.                                                 *)
Spec == Init /\ [][Next]_vars /\ WF_vars(PassStep) /\ WF_vars(Tick)
-----------------------------------------------------------------------------
(* Once every caller has compiled, and none died before it did, the active *)
(* generation cites the experiences in force: all of them, and no other.   *)
GenerationFollowsLifecycle ==
    (owed = 0 /\ ~lost) =>
        LET cited == IF ActiveNumber = None THEN {} ELSE generations[ActiveNumber].refs
        IN \A e \in Experiences :
               /\ (lifecycle[e] = "active" /\ ExpiresAt[e] > now) => e \in cited
               /\ e \in cited => lifecycle[e] = "active"

(* Nothing is delivered that the user has taken out of force, or that a    *)
(* newer generation replaced, however old the preview: a transition that   *)
(* is committed counts before its compilation, and a compilation before    *)
(* the next selection (validateMissionPackReceiptReferencesTx).            *)
DeliveredIsInForce ==
    [][\A p \in DOMAIN receipts' \ Receipts :
          /\ \A e \in p.refs : lifecycle[e] = "active"
          /\ \A g \in Numbers : g <= p.generation
          /\ p.refs \subseteq generations[p.generation].refs]_vars

(* A bound receipt names one session, which was active in the window the   *)
(* receipt allows.                                                         *)
BoundWithinWindow ==
    \A p \in Receipts : receipts[p].state = "bound" =>
        /\ Cardinality(receipts[p].session) = 1
        /\ \E t \in turns : /\ t.session \in receipts[p].session
                            /\ t.at \in receipts[p].at .. (receipts[p].at + Window - 1)

(* An application is never recorded without a delivery, and a delivery is  *)
(* never ticked off without its application, wherever the process died     *)
(* between the two transactions that write them.                           *)
ApplicationsTrace ==
    /\ \A a \in applications : \E p \in Receipts :
          /\ receipts[p].state = "bound"
          /\ a.experience \in p.refs
          /\ a.session = receipts[p].session
          /\ a.deliveredAt = receipts[p].at
    /\ \A p \in DOMAIN progress : /\ p \in Receipts
                                   /\ receipts[p].state = "bound"
                                   /\ progress[p] \subseteq p.refs
                                   /\ \A e \in progress[p] :
                                         Application(p, e) \in applications

(* Once agents stop accepting packs, every accepted one is settled and     *)
(* every bound one has all its applications recorded, although a pass      *)
(* reads a bounded batch and may be cut short anywhere.                    *)
Complete(p) ==
    /\ receipts[p].state # "pending"
    /\ receipts[p].state = "bound" => Linked(p) = p.refs

ReceiptsComplete == <>[](\A p \in Receipts : Complete(p))
=============================================================================
