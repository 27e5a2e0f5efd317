------------------------ MODULE ExperienceGenerations ------------------------
(***************************************************************************)
(* The generations of one project: numbered, immutable sets of experience  *)
(* versions, of which one at most is active and is what Mission Packs are  *)
(* selected from.                                                          *)
(*                                                                         *)
(* Compile is the one operation the services call.  Activating a given     *)
(* generation and rolling back are the rest of the store's interface, kept *)
(* so that the pointers are proved right under every order of the three.   *)
(* Each is one transaction; the compiled hash of a generation is a         *)
(* function of its refs, so comparing refs stands for comparing both.      *)
(***************************************************************************)
EXTENDS Integers, FiniteSets

CONSTANTS Experiences,     \* the experience versions of the project
          MaxGeneration    \* bound on generation numbers

ASSUME GenerationAssumption == MaxGeneration \in Nat

VARIABLES generations,     \* number -> [refs, active, previous]
          lastActive       \* history: what was active before the active one

generationVars == <<generations, lastActive>>

None == 0                  \* no generation: numbers start at 1
GenerationNumbers == 1..MaxGeneration

Generation == [refs : SUBSET Experiences, active : BOOLEAN,
               previous : GenerationNumbers \cup {None}]

Numbers == DOMAIN generations
Active == {g \in Numbers : generations[g].active}
ActiveNumber == IF Active = {} THEN None ELSE CHOOSE g \in Active : TRUE
NextNumber == IF Numbers = {} THEN 1
              ELSE 1 + (CHOOSE g \in Numbers : \A h \in Numbers : h <= g)
-----------------------------------------------------------------------------
(* Writing generation g as the active one: the current one is marked       *)
(* inactive, and g remembers it as the one to roll back to.                *)
Activated(g, refs) ==
    [h \in Numbers \cup {g} |->
        IF h = g THEN [refs |-> refs, active |-> TRUE, previous |-> ActiveNumber]
        ELSE IF h = ActiveNumber THEN [generations[h] EXCEPT !.active = FALSE]
        ELSE generations[h]]

MakeActive(g, refs) ==
    /\ generations' = Activated(g, refs)
    /\ lastActive' = ActiveNumber

Compile(refs) ==
    IF ActiveNumber # None /\ generations[ActiveNumber].refs = refs
    THEN UNCHANGED generationVars               \* replayed
    ELSE /\ NextNumber \in GenerationNumbers
         /\ MakeActive(NextNumber, refs)

ActivateGeneration(g, refs) ==
    /\ g # ActiveNumber
    /\ g \in Numbers => generations[g].refs = refs
    /\ MakeActive(g, refs)

Rollback ==
    /\ ActiveNumber # None
    /\ LET target == generations[ActiveNumber].previous
       IN /\ target \in Numbers
          /\ MakeActive(target, generations[target].refs)
-----------------------------------------------------------------------------
GenerationsInit == /\ generations = [g \in {} |-> {}]
                   /\ lastActive = None

GenerationsNext ==
    \/ \E refs \in SUBSET Experiences :
          \/ Compile(refs)
          \/ \E g \in GenerationNumbers : ActivateGeneration(g, refs)
    \/ Rollback

GenerationsSpec == GenerationsInit /\ [][GenerationsNext]_generationVars
-----------------------------------------------------------------------------
GenerationsTypeOK ==
    /\ Numbers \subseteq GenerationNumbers
    /\ generations \in [Numbers -> Generation]
    /\ lastActive \in Numbers \cup {None}

(* The active mark is never on two generations, and the one that carries   *)
(* it names the generation that was active before it, whichever of the     *)
(* three operations moved the mark: a rollback goes back exactly one step. *)
GenerationsInv ==
    /\ GenerationsTypeOK
    /\ \A g, h \in Active : g = h
    /\ Numbers # {} => Active # {}
    /\ \A g \in Active : generations[g].previous = lastActive
    /\ lastActive \notin Active

(* A receipt cites a generation by its number: what a number stands for    *)
(* never changes, nor does a generation disappear.                         *)
GenerationsAreImmutable ==
    [][\A g \in Numbers : /\ g \in DOMAIN generations'
                          /\ generations'[g].refs = generations[g].refs]_generationVars
=============================================================================
