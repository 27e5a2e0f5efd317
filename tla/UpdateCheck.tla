---------------------------- MODULE UpdateCheck ----------------------------
(***************************************************************************)
(* The update check of a running Belay Local, and the choices of its user: *)
(* opting out, being reminded later, dismissing a release.  All of them    *)
(* load one state file, change it and save it under a mutex; a check lets  *)
(* go of the mutex while it asks the release server.  Time counts in       *)
(* CheckInterval (18 hours), releases are numbered in their order, and the *)
(* release number is its ETag.                                             *)
(***************************************************************************)
EXTENDS Naturals

CONSTANTS
    Checks,     \* checks that may be asked for at once
    Current,    \* the release that runs
    MaxRelease, MaxClock  \* bounds

ASSUME UpdateAssumption == {Current, MaxRelease, MaxClock} \subseteq Nat

VARIABLES
    saved,      \* the state file
    released,   \* the newest release at the server
    clock,
    check       \* whether each check waits for its answer, and what it loaded

updateVars == <<saved, released, clock, check>>

Never == 0
NoCheck == [asking |-> FALSE, loaded |-> [optedOut |-> FALSE, latest |-> 0, dismissed |-> 0,
                                          remindAfter |-> Never, checkedAt |-> Never],
            at |-> Never]

UpdateInit ==
    /\ saved = NoCheck.loaded
    /\ released = Current
    /\ clock = 1
    /\ check = [k \in Checks |-> NoCheck]

Publish == released < MaxRelease /\ released' = released + 1 /\ UNCHANGED <<saved, clock, check>>
Tick == clock < MaxClock /\ clock' = clock + 1 /\ UNCHANGED <<saved, released, check>>

(* Check up to the request: one check at a time asks (checkMu), unless the *)
(* user opted out or, without force, the last check is younger than the    *)
(* interval.                                                               *)
AskServer(k, force) ==
    /\ \A j \in Checks : ~check[j].asking
    /\ ~saved.optedOut
    /\ force \/ saved.checkedAt = Never \/ clock >= saved.checkedAt + 1
    /\ check' = [check EXCEPT ![k] = [asking |-> TRUE, loaded |-> saved, at |-> clock]]
    /\ UNCHANGED <<saved, released, clock>>

(* Mutant: the state from before the request is saved.                     *)
MutAnswer(k) ==
    /\ check[k].asking
    /\ \E latest \in {check[k].loaded.latest, released} :
          saved' = [check[k].loaded EXCEPT !.checkedAt = check[k].at, !.latest = latest]
    /\ check' = [check EXCEPT ![k] = NoCheck]
    /\ UNCHANGED <<released, clock>>

(* Check after the request: the state is loaded again; an error and an     *)
(* unchanged ETag leave the release, an answer replaces it.                *)
Answer(k) ==
    /\ check[k].asking
    /\ \E latest \in {saved.latest, released} :
          saved' = [saved EXCEPT !.checkedAt = check[k].at, !.latest = latest]
    /\ check' = [check EXCEPT ![k] = NoCheck]
    /\ UNCHANGED <<released, clock>>

SetOptOut(out) ==
    /\ saved' = [saved EXCEPT !.optedOut = out]
    /\ UNCHANGED <<released, clock, check>>

(* Remind and Dismiss take the release the user was shown.                 *)
Remind(shown) ==
    /\ shown = saved.latest
    /\ saved' = [saved EXCEPT !.remindAfter = clock + 1]
    /\ UNCHANGED <<released, clock, check>>

Dismiss(shown) ==
    /\ shown = saved.latest
    /\ saved' = [saved EXCEPT !.dismissed = shown, !.remindAfter = Never]
    /\ UNCHANGED <<released, clock, check>>

(* statusLocked.                                                           *)
UpdateAvailable ==
    /\ ~saved.optedOut
    /\ saved.latest > Current
    /\ saved.dismissed # saved.latest
    /\ saved.remindAfter = Never \/ clock >= saved.remindAfter

Choose ==
    \/ \E out \in BOOLEAN : SetOptOut(out)
    \/ \E shown \in 1..MaxRelease : Remind(shown) \/ Dismiss(shown)

UpdateNext ==
    \/ Publish \/ Tick \/ Choose
    \/ \E k \in Checks : (\E force \in BOOLEAN : AskServer(k, force)) \/ Answer(k)

UpdateSpec == UpdateInit /\ [][UpdateNext]_updateVars

-----------------------------------------------------------------------------
(* Once the user opted out, dismissed a release or asked to be reminded    *)
(* later, the release that was shown is not offered again before a choice, *)
(* the time asked for, or another release: no check that was waiting for   *)
(* its answer meanwhile brings it back.                                    *)
ChoicesAreKept ==
    [][~UpdateAvailable /\ UpdateAvailable' =>
          \/ saved'.optedOut # saved.optedOut /\ check' = check
          \/ saved'.latest > saved.latest
          \/ clock' > clock]_updateVars
=============================================================================
