---------------------------- MODULE TranscriptImport ----------------------------
(***************************************************************************)
(* The import of one group of agent transcripts (a session's file and its  *)
(* subagents'): files that an agent appends to, one cursor file per        *)
(* transcript, and the turns in the store.                                 *)
(*                                                                         *)
(* An importer opens the group, reads a chunk of every changed file, adds  *)
(* its turns and the coverage of the session in one transaction, and then  *)
(* writes the cursors, one file after the other.  The tailer (the lease's  *)
(* owner, or an explicit scan) serves groups that are active or its own;   *)
(* the backfill serves inactive groups the tailer does not own.  Neither   *)
(* excludes the other: each works from the cursors it loaded.              *)
(*                                                                         *)
(* Abstracted: a file is the sequence of its lines, a line is one turn     *)
(* (TRUE) or cannot be parsed (FALSE), and a chunk is a number of lines;   *)
(* the parser's own state and its pending usage records; the session's     *)
(* identity and its project; files that cannot be opened.  A file is       *)
(* replaced by a new one, never rewritten in place.                        *)
(***************************************************************************)
EXTENDS Integers, Sequences, FiniteSets

CONSTANTS Sources,         \* the transcript files of the group
          Importers,
          OwnerOf,         \* [Importers -> "tail", "backfill"]
          Chunk,           \* ["tail", "backfill" -> lines of one chunk]
          MaxLines,        \* [Sources -> bound on the lines written]
          MaxFaults        \* bound on failed imports and replaced files

ASSUME ImportAssumption ==
    /\ OwnerOf \in [Importers -> {"tail", "backfill"}]
    /\ Chunk \in [{"tail", "backfill"} -> Nat \ {0}]
    /\ MaxLines \in [Sources -> Nat]
    /\ MaxFaults \in Nat

VARIABLES files,           \* [Sources -> [id, lines, torn]]
          active,          \* the group changed within transcriptActiveWindow
          cursors,         \* [Sources -> the cursor file]
          turns,           \* transcript_turns: <<source, file id, line>>
          coverage,        \* transcript_sessions.coverage
          importing,       \* [Importers -> what it has in hand]
          faults

fileVars == <<files, active>>
storeVars == <<turns, coverage>>
vars == <<fileVars, storeVars, cursors, importing, faults>>

NoCursor == [exists |-> FALSE, offset |-> 0, id |-> 0, had |-> FALSE,
             owner |-> "tail", final |-> FALSE]
NoImport == [phase |-> "none"]

Init ==
    /\ files = [f \in Sources |-> [id |-> 1, lines |-> <<>>, torn |-> FALSE]]
    /\ active = TRUE
    /\ cursors = [f \in Sources |-> NoCursor]
    /\ turns = {}
    /\ coverage = "none"
    /\ importing = [i \in Importers |-> NoImport]
    /\ faults = 0

Size(f) == Len(files[f].lines) + (IF files[f].torn THEN 1 ELSE 0)
-----------------------------------------------------------------------------
(* The agent.  A line becomes visible before its newline does.             *)
BeginLine(f) ==
    /\ ~files[f].torn
    /\ Size(f) < MaxLines[f]
    /\ files' = [files EXCEPT ![f].torn = TRUE]
    /\ active' = TRUE
    /\ UNCHANGED <<storeVars, cursors, importing, faults>>

EndLine(f, parses) ==
    /\ files[f].torn
    /\ files' = [files EXCEPT ![f].torn = FALSE,
                              ![f].lines = Append(@, parses)]
    /\ active' = TRUE
    /\ UNCHANGED <<storeVars, cursors, importing, faults>>

Replace(f) ==
    /\ faults < MaxFaults
    /\ faults' = faults + 1
    /\ files' = [files EXCEPT ![f] = [id |-> @.id + 1, lines |-> <<TRUE, TRUE>>,
                                      torn |-> FALSE]]
    /\ active' = TRUE
    /\ UNCHANGED <<storeVars, cursors, importing>>

GoInactive ==
    /\ active
    /\ active' = FALSE
    /\ UNCHANGED <<files, storeVars, cursors, importing, faults>>
-----------------------------------------------------------------------------
(* Which importer a group belongs to, from its cursors and sizes alone.    *)
CaughtUp(f) == cursors[f].exists /\ cursors[f].offset >= Size(f)

TailOwned == \E f \in Sources : /\ cursors[f].exists
                                /\ cursors[f].owner = "tail"
                                /\ ~(CaughtUp(f) /\ cursors[f].final)

Complete == ~TailOwned /\ \A f \in Sources : CaughtUp(f) /\ cursors[f].final

(* Mutant: the tailer leaves its inactive groups.                          *)
MutDue(i) == IF OwnerOf[i] = "tail" THEN active ELSE ~active /\ ~TailOwned /\ ~Complete
Due(i) == IF OwnerOf[i] = "tail" THEN active \/ TailOwned
          ELSE ~active /\ ~TailOwned /\ ~Complete

(* Mutant: a replaced file is told by its size alone.                      *)
MutItem(f, owner) ==
    LET c == cursors[f]
        reset == c.exists /\ c.offset > Size(f)
        start == IF reset THEN 0 ELSE c.offset
        target == start + Chunk[owner]
    IN [cursor |-> c, file |-> files[f], size |-> Size(f), start |-> start,
        readEnd |-> IF target >= Size(f) THEN Size(f) ELSE target,
        changed |-> reset \/ start # Size(f)]

(* One file as an importer opens it: where its chunk begins and ends.      *)
Item(f, owner) ==
    LET c == cursors[f]
        reset == c.exists /\ (c.offset > Size(f) \/ c.id # files[f].id)
        start == IF reset THEN 0 ELSE c.offset
        target == start + Chunk[owner]
    IN [cursor |-> c, file |-> files[f], size |-> Size(f), start |-> start,
        readEnd |-> IF target >= Size(f) THEN Size(f) ELSE target,
        changed |-> reset \/ start # Size(f)]

Open(i) ==
    /\ importing[i] = NoImport
    /\ Due(i)
    /\ importing' = [importing EXCEPT ![i] =
                        [phase |-> "opened", inactive |-> ~active,
                         items |-> [f \in Sources |-> Item(f, OwnerOf[i])]]]
    /\ UNCHANGED <<fileVars, storeVars, cursors, faults>>

Parsed(x) == IF x.changed
             THEN {n \in (x.start + 1)..x.readEnd : n <= Len(x.file.lines)} ELSE {}
Issues(x) == {n \in Parsed(x) : ~x.file.lines[n]}
(* Mutant: the cursor goes to the end of the file it was opened with.      *)
MutEndOffset(x) == IF ~x.changed THEN x.cursor.offset ELSE x.size
EndOffset(x) == IF ~x.changed THEN x.cursor.offset
                ELSE IF x.readEnd > Len(x.file.lines) THEN Len(x.file.lines)
                ELSE x.readEnd
ReadToEnd(x) == EndOffset(x) = x.size

Changed(items) == {f \in Sources : items[f].changed}
GroupCaughtUp(items) == \A f \in Sources : ReadToEnd(items[f])

Coverage(items, inactive) ==
    IF \E f \in Changed(items) : Issues(items[f]) # {} \/ ~ReadToEnd(items[f])
    THEN "partial"
    ELSE IF inactive /\ GroupCaughtUp(items) THEN "complete" ELSE "live"

(* The cursor an import leaves for a changed file.                         *)
Advanced(x, owner, final) ==
    [exists |-> TRUE, offset |-> EndOffset(x), id |-> x.file.id,
     had |-> x.cursor.had \/ Issues(x) # {}, owner |-> owner, final |-> final]

Saving(cs) == [phase |-> "saving", cursors |-> cs]

(* The turns are committed; their cursors are still to be written.         *)
CommitBatch(i) ==
    LET items == importing[i].items
        inactive == importing[i].inactive
    IN /\ importing[i].phase = "opened"
       /\ Changed(items) # {}
       /\ turns' = turns \cup
              UNION {{<<f, items[f].file.id, n>> :
                          n \in Parsed(items[f]) \ Issues(items[f])} : f \in Sources}
       /\ coverage' = Coverage(items, inactive)
       /\ importing' = [importing EXCEPT ![i] = Saving(
              [f \in Changed(items) |->
                  Advanced(items[f], OwnerOf[i],
                           inactive /\ GroupCaughtUp(items))])]
       /\ UNCHANGED <<fileVars, cursors, faults>>

(* Nothing changed: an inactive group is finalized, an active one claimed. *)
Finalizable(items, inactive) ==
    /\ inactive
    /\ GroupCaughtUp(items)
    /\ \E f \in Sources : ~items[f].cursor.final

Finalize(i) ==
    LET items == importing[i].items
    IN /\ importing[i].phase = "opened"
       /\ Changed(items) = {}
       /\ Finalizable(items, importing[i].inactive)
       /\ coverage' = IF \E f \in Sources : items[f].cursor.had
                      THEN "partial" ELSE "complete"
       /\ importing' = [importing EXCEPT ![i] = Saving(
              [f \in Sources |-> [items[f].cursor EXCEPT !.exists = TRUE,
                                     !.owner = OwnerOf[i], !.final = TRUE]])]
       /\ UNCHANGED <<fileVars, turns, cursors, faults>>

Claim(i) ==
    LET items == importing[i].items
    IN /\ importing[i].phase = "opened"
       /\ Changed(items) = {}
       /\ ~Finalizable(items, importing[i].inactive)
       /\ importing' = [importing EXCEPT ![i] =
              IF OwnerOf[i] = "tail"
              THEN Saving([f \in Sources |-> [items[f].cursor EXCEPT
                                  !.exists = TRUE, !.owner = "tail"]])
              ELSE NoImport]
       /\ UNCHANGED <<fileVars, storeVars, cursors, faults>>

(* Each cursor is written beside its file and renamed over it.             *)
SaveCursor(i, f) ==
    /\ importing[i].phase = "saving"
    /\ f \in DOMAIN importing[i].cursors
    /\ cursors' = [cursors EXCEPT ![f] = importing[i].cursors[f]]
    /\ LET rest == DOMAIN importing[i].cursors \ {f}
       IN importing' = [importing EXCEPT ![i] =
              IF rest = {} THEN NoImport
              ELSE Saving([g \in rest |-> @.cursors[g]])]
    /\ UNCHANGED <<fileVars, storeVars, faults>>

(* An error or a crash ends the import where it stands.                    *)
Abandon(i) ==
    /\ importing[i] # NoImport
    /\ faults < MaxFaults
    /\ faults' = faults + 1
    /\ importing' = [importing EXCEPT ![i] = NoImport]
    /\ UNCHANGED <<fileVars, storeVars, cursors>>

ImportStep(i) ==
    \/ Open(i) \/ CommitBatch(i) \/ Finalize(i) \/ Claim(i)
    \/ \E f \in Sources : SaveCursor(i, f)

Next ==
    \/ \E f \in Sources : \/ BeginLine(f) \/ Replace(f)
                          \/ \E parses \in BOOLEAN : EndLine(f, parses)
    \/ GoInactive
    \/ \E i \in Importers : ImportStep(i) \/ Abandon(i)

(* The tailer polls; a scan of history runs with every launch; a group     *)
(* nobody writes to becomes inactive.                                      *)
Fairness == WF_vars(GoInactive) /\ \A i \in Importers : WF_vars(ImportStep(i))

Spec == Init /\ [][Next]_vars /\ Fairness
-----------------------------------------------------------------------------
TurnsOf(f, n) == {<<f, files[f].id, k>> : k \in {j \in 1..n : files[f].lines[j]}}

(* A cursor never runs ahead of the store: whatever two importers, a crash *)
(* between the transaction and the rename, or a replaced file do, the      *)
(* lines a cursor passes over are turns of the store.                      *)
NothingSkipped ==
    \A f \in Sources :
        cursors[f].exists /\ cursors[f].id = files[f].id =>
            /\ cursors[f].offset <= Len(files[f].lines)
            /\ TurnsOf(f, cursors[f].offset) \subseteq turns

(* A session is called complete only with every turn of the files as the   *)
(* importer found them in the store, also those of earlier chunks.         *)
CompleteIsEarned ==
    [][\A i \in Importers :
           importing[i].phase = "opened" /\ importing'[i].phase = "saving"
           /\ coverage' = "complete" =>
               \A f \in Sources :
                   LET x == importing[i].items[f]
                   IN {<<f, x.file.id, n>> : n \in {k \in 1..Len(x.file.lines) :
                                                       x.file.lines[k]}}
                          \subseteq turns']_vars

(* A file that shrank while nobody imported, and went inactive so, passes  *)
(* for complete: the plan compares sizes, not identities.                  *)
PassedOver(f) == cursors[f].id # files[f].id /\ CaughtUp(f) /\ cursors[f].final

(* When the agent is done, every turn of every file reaches the store,     *)
(* through torn lines, chunks, crashes, and importers that overwrite each  *)
(* other's cursors.                                                        *)
EveryTurnIsImported ==
    <>[](\A f \in Sources :
             TurnsOf(f, Len(files[f].lines)) \subseteq turns \/ PassedOver(f))
=============================================================================
