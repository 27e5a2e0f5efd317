--------------------------- MODULE IntelligenceLease ---------------------------
(***************************************************************************)
(* Which process of a Belay home runs the background workers.  Every       *)
(* command that serves Local runs a runtime that tries to take a file      *)
(* lease, waits and tries again; the one that takes it opens a store of    *)
(* its own, runs the worker loops until it is stopped, waits for each loop *)
(* to return, and gives the lease back.  A readiness probe takes the lease *)
(* for an instant too, and a runtime that tries meanwhile is refused.      *)
(*                                                                         *)
(* Abstracted: the path of the lease and its preparation, and the reports  *)
(* of failures; the retry interval is the step a waiting runtime takes     *)
(* later.                                                                  *)
(***************************************************************************)
EXTENDS Integers, FiniteSets

CONSTANTS Processes,       \* processes that run an intelligence runtime
          Probers,         \* commands that inspect the readiness
          Workers,         \* the loops of one owner
          DiesWithHolder,  \* flock (TRUE), or a directory (FALSE)
          MaxFaults        \* bound on stops, crashes, failures and probes

ASSUME LeaseAssumption == /\ DiesWithHolder \in BOOLEAN
                          /\ MaxFaults \in Nat
                          /\ Processes \cap Probers = {}

VARIABLES holder,          \* who holds the lease: {} or one process or prober
          role,            \* [Processes -> what its runtime is doing]
          running,         \* [Processes -> the worker loops that run]
          faults           \* stops, crashes, failures and probes so far

leaseVars == <<holder, role, running, faults>>

LeaseInit ==
    /\ holder = {}
    /\ role = [p \in Processes |-> "waiting"]
    /\ running = [p \in Processes |-> {}]
    /\ faults = 0

Fault == faults < MaxFaults /\ faults' = faults + 1
-----------------------------------------------------------------------------
(* A runtime that is refused waits and tries again, so a refusal is no     *)
(* step.                                                                   *)
Acquire(p) ==
    /\ role[p] = "waiting"
    /\ holder = {}
    /\ holder' = {p}
    /\ role' = [role EXCEPT ![p] = "opening"]
    /\ UNCHANGED <<running, faults>>

StartWorkers(p) ==
    /\ role[p] = "opening"
    /\ role' = [role EXCEPT ![p] = "working"]
    /\ running' = [running EXCEPT ![p] = Workers]
    /\ UNCHANGED <<holder, faults>>

(* The owner's store cannot be opened: the lease goes back and the runtime *)
(* tries again.                                                            *)
OpenFails(p) ==
    /\ role[p] = "opening"
    /\ Fault
    /\ role' = [role EXCEPT ![p] = "waiting"]
    /\ holder' = {}
    /\ UNCHANGED running

(* The command ends: a waiting runtime returns, an owner has its loops end.*)
Stop(p) ==
    /\ role[p] \in {"waiting", "working"}
    /\ Fault
    /\ role' = [role EXCEPT ![p] = IF @ = "waiting" THEN "ended" ELSE "draining"]
    /\ UNCHANGED <<holder, running>>

LoopEnds(p, w) ==
    /\ role[p] = "draining"
    /\ w \in running[p]
    /\ running' = [running EXCEPT ![p] = @ \ {w}]
    /\ UNCHANGED <<holder, role, faults>>

(* Mutant: the lease goes back before the loops have returned.             *)
MutDrained(p) == TRUE
Drained(p) == running[p] = {}

Release(p) ==
    /\ role[p] = "draining"
    /\ Drained(p)
    /\ role' = [role EXCEPT ![p] = "ended"]
    /\ holder' = {}
    /\ UNCHANGED <<running, faults>>

Crash(p) ==
    /\ role[p] # "ended"
    /\ Fault
    /\ role' = [role EXCEPT ![p] = "ended"]
    /\ running' = [running EXCEPT ![p] = {}]
    /\ holder' = IF DiesWithHolder THEN holder \ {p} ELSE holder

(* The command is run again.                                               *)
Start(p) ==
    /\ role[p] = "ended"
    /\ role' = [role EXCEPT ![p] = "waiting"]
    /\ UNCHANGED <<holder, running, faults>>

(* A probe that finds the lease taken reports it and does nothing.         *)
Probe(q) ==
    /\ holder = {}
    /\ Fault
    /\ holder' = {q}
    /\ UNCHANGED <<role, running>>

EndProbe(q) ==
    /\ holder = {q}
    /\ holder' = {}
    /\ UNCHANGED <<role, running, faults>>

Step(p) == Acquire(p) \/ StartWorkers(p) \/ Release(p) \/ Start(p)

LeaseNext ==
    \/ \E p \in Processes : \/ Step(p) \/ OpenFails(p) \/ Stop(p) \/ Crash(p)
                            \/ \E w \in Workers : LoopEnds(p, w)
    \/ \E q \in Probers : Probe(q) \/ EndProbe(q)

(* A runtime retries for as long as it runs, a loop returns when its       *)
(* context is cancelled, and a probe is two system calls.                  *)
LeaseFairness ==
    /\ \A p \in Processes : /\ WF_leaseVars(Step(p))
                            /\ \A w \in Workers : WF_leaseVars(LoopEnds(p, w))
    /\ \A q \in Probers : WF_leaseVars(EndProbe(q))

LeaseSpec == LeaseInit /\ [][LeaseNext]_leaseVars /\ LeaseFairness
-----------------------------------------------------------------------------
LeaseTypeOK ==
    /\ holder \in {{}} \cup {{p} : p \in Processes \cup Probers}
    /\ role \in [Processes ->
                    {"waiting", "opening", "working", "draining", "ended"}]
    /\ running \in [Processes -> SUBSET Workers]
    /\ faults \in 0..MaxFaults

(* A worker loop runs only in the process that holds the lease: a stopped  *)
(* owner gives the lease back after its last loop has returned, so the     *)
(* next owner's loops never meet those of the one before.                  *)
WorkersHoldLease ==
    \A p \in Processes :
        /\ running[p] # {} => holder = {p}
        /\ role[p] \in {"opening", "working", "draining"} => holder = {p}
=============================================================================
