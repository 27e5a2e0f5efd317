----------------------------- MODULE SpoolTail -----------------------------
(***************************************************************************)
(* The live tailer: it reads the spool that Numbat appends to from a       *)
(* cursor kept in a file, imports the complete lines and then replaces the *)
(* cursor.  Two programs may tail the same spool, the spool may be         *)
(* replaced, and a tailer may fail or die between any two records and      *)
(* before the cursor is there.                                             *)
(*                                                                         *)
(* A file stands for device, inode and hash of the first bytes: a spool    *)
(* that is truncated and grows again is another file.  It is not truncated *)
(* between the read of a batch and the hash taken after its import.  Lines *)
(* stay within the size bound; a record imported again is a duplicate of   *)
(* the same event.                                                         *)
(***************************************************************************)
EXTENDS Naturals

CONSTANTS
    Tailers,   \* programs that tail the spool
    MaxTail,   \* maxTailBatch, in lines
    MaxLines, MaxFiles, MaxTailFaults  \* bounds: lines, files, failures and deaths

ASSUME TailAssumption == {MaxTail, MaxLines, MaxFiles, MaxTailFaults} \subseteq Nat

VARIABLES
    spool,       \* the file, its complete lines, and whether a part of one follows
    tailCursor,  \* <agent>.cursor.json
    imported,    \* records committed to the store
    tail,        \* what each tailer is at
    tailFaults

tailVars == <<spool, tailCursor, imported, tail, tailFaults>>

Resting == [pc |-> "resting", file |-> 0, next |-> 0, end |-> 0, whole |-> 0]

TailInit ==
    /\ spool = [file |-> 1, lines |-> 0, partial |-> FALSE]
    /\ tailCursor = [file |-> 0, offset |-> 0]
    /\ imported = {}
    /\ tail = [t \in Tailers |-> Resting]
    /\ tailFaults = 0

(* Numbat appends a line, in two writes.                                   *)
Append ==
    /\ spool' = IF spool.partial THEN [spool EXCEPT !.partial = FALSE, !.lines = @ + 1]
                ELSE [spool EXCEPT !.partial = TRUE]
    /\ spool.lines < MaxLines
    /\ UNCHANGED <<tailCursor, imported, tail, tailFaults>>

Replace ==
    /\ spool.file < MaxFiles
    /\ spool' = [file |-> spool.file + 1, lines |-> 0, partial |-> FALSE]
    /\ UNCHANGED <<tailCursor, imported, tail, tailFaults>>

(* Where a read starts: at the cursor, unless the file is another one or   *)
(* ends before it.                                                         *)
Start == IF tailCursor.file = spool.file /\ tailCursor.offset <= spool.lines
         THEN tailCursor.offset ELSE 0

(* Mutant: the batch ends with the file, within a line.                    *)
MutEnd(start) ==
    LET size == spool.lines + (IF spool.partial THEN 1 ELSE 0) IN
    IF start + MaxTail < size THEN start + MaxTail ELSE size

(* The last line end within the bound.                                     *)
End(start) == IF start + MaxTail < spool.lines THEN start + MaxTail ELSE spool.lines

(* Open the spool, load the cursor and read a batch.                       *)
ReadSpool(t) ==
    /\ tail[t].pc = "resting"
    /\ End(Start) > Start
    /\ tail' = [tail EXCEPT ![t] = [pc |-> "importing", file |-> spool.file,
                                    next |-> Start + 1, end |-> End(Start),
                                    whole |-> spool.lines]]
    /\ UNCHANGED <<spool, tailCursor, imported, tailFaults>>

(* Each record of the batch commits in a transaction of its own; what was  *)
(* a part of a line when it was read is quarantined.                       *)
ImportRecord(t) ==
    /\ tail[t].pc = "importing"
    /\ tail[t].next <= tail[t].end
    /\ imported' = IF tail[t].next <= tail[t].whole
                   THEN imported \cup {<<tail[t].file, tail[t].next>>} ELSE imported
    /\ tail' = [tail EXCEPT ![t].next = @ + 1]
    /\ UNCHANGED <<spool, tailCursor, tailFaults>>

(* saveTailCursor; the analyses that follow are SessionProjection's.       *)
SaveTailCursor(t) ==
    /\ tail[t].pc = "importing"
    /\ tail[t].next > tail[t].end
    /\ tailCursor' = [file |-> tail[t].file, offset |-> tail[t].end]
    /\ tail' = [tail EXCEPT ![t] = Resting]
    /\ UNCHANGED <<spool, imported, tailFaults>>

(* An import or a write of the cursor that fails; the process dies.        *)
TailFails(t) ==
    /\ tailFaults < MaxTailFaults
    /\ tailFaults' = tailFaults + 1
    /\ tail[t].pc = "importing"
    /\ tail' = [tail EXCEPT ![t] = Resting]
    /\ UNCHANGED <<spool, tailCursor, imported>>

TailNext ==
    \/ Append \/ Replace
    \/ \E t \in Tailers :
          ReadSpool(t) \/ ImportRecord(t) \/ SaveTailCursor(t) \/ TailFails(t)

TailSpec == TailInit /\ [][TailNext]_tailVars

-----------------------------------------------------------------------------
(* Every line before the cursor was imported: no crash, failed import,     *)
(* replaced file or second tailer makes the next read pass over a line.    *)
SpoolIsNotSkipped ==
    \A k \in 1..Start : <<spool.file, k>> \in imported
=============================================================================
