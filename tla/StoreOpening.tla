---------------------------- MODULE StoreOpening ----------------------------
(***************************************************************************)
(* Opening the local database: the store's identity, the data key kept in  *)
(* a file beside it, the key check, the upgrade of a store written before  *)
(* payloads were encrypted, and the removal of what the upgrade leaves in  *)
(* the file.  Several processes (belay local, belay mcp, belay prune, ...) *)
(* may open the same database at once; between the statements of one open  *)
(* the others run, and any of them may die.                                *)
(*                                                                         *)
(* The key store is the file provider (FileKeyProvider), whose creation is *)
(* not atomic; the macOS keychain creates in one external command.  A torn *)
(* file stands for everything Load refuses: empty, without the whole       *)
(* magic, or with part of the blob.  A payload is any row of the eleven    *)
(* encrypted tables; legacy citations resolve.                             *)
(***************************************************************************)
EXTENDS Integers, FiniteSets

CONSTANTS
    Processes,  \* programs that open the database, one Store each at a time
    Payloads,   \* rows with a payload column
    MaxFaults   \* bound on crashes, failed key writes and lost keys

ASSUME OpeningAssumption == MaxFaults \in Nat

VARIABLES
    identified,  \* local_store_metadata has its row, with a store ID
    keyFile,     \* <store ID>.key: "absent", "torn" or "whole"
    storedKey,   \* the key in the file when it is whole
    keysMade,    \* keys generated so far
    keyCheck,    \* key that sealed key_check, NoKey before there is one
    cleanup,     \* plaintext_cleanup_required
    plain,       \* payloads in a row with encoding plaintext.v0
    sealed,      \* key each payload is encrypted under, NoKey when it is not
    remnants,    \* where obsolete plaintext bytes still are
    stage,       \* where each process is in OpenWithOptions
    view,        \* what it read from the metadata, and its plaintext batch
    key,         \* the data key it holds
    withdrawn,   \* a creator removed a key that was already in use
    faults

stored == <<identified, keyCheck, cleanup, plain, sealed, remnants>>
keyStore == <<keyFile, storedKey, keysMade, withdrawn>>
memory == <<stage, view, key>>
openVars == <<stored, keyStore, memory, faults>>

NoKey == 0
Places == {"pages", "log"}
Stages == {"closed", "connected", "naming", "counting", "metadata", "loading",
           "creating", "writing", "syncing", "reloading", "reading",
           "backfill", "install", "compacting", "journal", "clearing", "open"}
View == [plain : BOOLEAN, sealed : BOOLEAN, check : Nat, cleanup : BOOLEAN,
         batch : SUBSET Payloads]
Blank == [plain |-> FALSE, sealed |-> FALSE, check |-> NoKey,
          cleanup |-> FALSE, batch |-> {}]

Connected(p) == stage[p] # "closed"
Alone(p) == \A q \in Processes \ {p} : ~Connected(q)
AnythingSealed == \E r \in Payloads : sealed[r] # NoKey

\* A new database, or one of a version that stored payloads in plaintext.
Init ==
    /\ identified = FALSE
    /\ keyFile = "absent"
    /\ storedKey = NoKey
    /\ keysMade = 0
    /\ keyCheck = NoKey
    /\ cleanup = FALSE
    /\ plain \in SUBSET Payloads
    /\ sealed = [r \in Payloads |-> NoKey]
    /\ remnants = IF plain = {} THEN {} ELSE Places
    /\ stage = [p \in Processes |-> "closed"]
    /\ view = [p \in Processes |-> Blank]
    /\ key = [p \in Processes |-> NoKey]
    /\ withdrawn = FALSE
    /\ faults = 0

Goto(p, s) == stage' = [stage EXCEPT ![p] = s]

\* An open that returns an error, and Close: the handle and the key go.
Leave(p) ==
    /\ Goto(p, "closed")
    /\ view' = [view EXCEPT ![p] = Blank]
    /\ key' = [key EXCEPT ![p] = NoKey]

Keep(p) == UNCHANGED <<view, key>>

Connect(p) ==
    /\ stage[p] = "closed"
    /\ Goto(p, "connected") /\ Keep(p)
    /\ UNCHANGED <<stored, keyStore, faults>>

\* ensureStoreID: the SELECT, and the INSERT of another statement, which the
\* primary key refuses when another process was first.
FindStoreID(p) ==
    /\ stage[p] = "connected"
    /\ Goto(p, IF identified THEN "counting" ELSE "naming") /\ Keep(p)
    /\ UNCHANGED <<stored, keyStore, faults>>

InsertStoreID(p) ==
    /\ stage[p] = "naming"
    /\ \/ ~identified /\ Goto(p, "counting") /\ Keep(p)
       \/ identified /\ Leave(p)
    /\ identified' = TRUE
    /\ UNCHANGED <<keyCheck, cleanup, plain, sealed, remnants, keyStore,
                   faults>>

CountPayloads(p) ==
    /\ stage[p] = "counting"
    /\ view' = [view EXCEPT ![p].plain = plain # {},
                            ![p].sealed = AnythingSealed]
    /\ Goto(p, "metadata") /\ UNCHANGED key
    /\ UNCHANGED <<stored, keyStore, faults>>

ReadMetadata(p) ==
    /\ stage[p] = "metadata"
    /\ view' = [view EXCEPT ![p].check = keyCheck, ![p].cleanup = cleanup]
    /\ Goto(p, "loading") /\ UNCHANGED key
    /\ UNCHANGED <<stored, keyStore, faults>>

\* Mutant: an interrupted cleanup is not retried.
MutFinish(mustClean) == "open"

\* What follows once the payloads of the store are sealed.
Finish(mustClean) == IF mustClean THEN "compacting" ELSE "open"

\* The key is compared with the key check read before it, then the open
\* upgrades, installs a first key check, cleans up or is done.
Unlocks(v, k) == IF v.check = NoKey THEN ~v.sealed ELSE v.check = k

Unlock(p, k) ==
    LET v == view[p] IN
    /\ k # NoKey
    /\ \/ /\ Unlocks(v, k)
          /\ key' = [key EXCEPT ![p] = k]
          /\ Goto(p, IF v.plain THEN "reading"
                     ELSE IF v.check = NoKey THEN "install"
                     ELSE Finish(v.cleanup))
          /\ UNCHANGED view
       \/ ~Unlocks(v, k) /\ Leave(p)

\* Mutant: a missing key is created again when there is only a key check.
MutMayCreate(v) == ~v.sealed

MayCreate(v) == ~v.sealed /\ v.check = NoKey

\* keyProvider.Load: a key, ErrKeyNotFound, or a file it does not understand.
\* Without a key, one is created only for a store that showed nothing sealed.
LoadKey(p) ==
    /\ stage[p] = "loading"
    /\ \/ keyFile = "whole" /\ Unlock(p, storedKey)
       \/ keyFile = "torn" /\ Leave(p)
       \/ /\ keyFile = "absent"
          /\ ~MayCreate(view[p])
          /\ Leave(p)
       \/ /\ keyFile = "absent"
          /\ MayCreate(view[p])
          /\ Goto(p, "creating") /\ Keep(p)
    /\ UNCHANGED <<stored, keyStore, faults>>

\* Mutant: an existing key file is truncated.
MutCreateKeyFile(p) ==
    /\ stage[p] = "creating"
    /\ keyFile' = "torn"
    /\ Goto(p, "writing") /\ Keep(p)
    /\ UNCHANGED <<stored, storedKey, keysMade, withdrawn, faults>>

\* keyProvider.Create: O_CREATE|O_EXCL, two writes, sync and close.
CreateKeyFile(p) ==
    /\ stage[p] = "creating"
    /\ \/ /\ keyFile = "absent"
          /\ keyFile' = "torn"
          /\ Goto(p, "writing")
       \/ /\ keyFile # "absent"
          /\ Goto(p, "reloading")
          /\ UNCHANGED keyFile
    /\ Keep(p)
    /\ UNCHANGED <<stored, storedKey, keysMade, withdrawn, faults>>

WriteKey(p) ==
    /\ stage[p] = "writing"
    /\ keyFile' = "whole"
    /\ keysMade' = keysMade + 1
    /\ storedKey' = keysMade + 1
    /\ Goto(p, "syncing") /\ Keep(p)
    /\ UNCHANGED <<stored, withdrawn, faults>>

SyncKey(p) ==
    /\ stage[p] = "syncing"
    /\ Unlock(p, storedKey)
    /\ UNCHANGED <<stored, keyStore, faults>>

\* ErrKeyAlreadyExists: one more Load, whose ErrKeyNotFound is final.
ReloadKey(p) ==
    /\ stage[p] = "reloading"
    /\ \/ keyFile = "whole" /\ Unlock(p, storedKey)
       \/ keyFile # "whole" /\ Leave(p)
    /\ UNCHANGED <<stored, keyStore, faults>>

\* A write, sync or close of the new file fails: its deferred cleanup removes
\* the file, and with it a key that another process may have loaded.
CreateFails(p) ==
    /\ stage[p] \in {"writing", "syncing"}
    /\ faults < MaxFaults
    /\ faults' = faults + 1
    /\ withdrawn' = (\/ withdrawn
                     \/ stage[p] = "syncing" /\ keyCheck # NoKey
                     \/ \E q \in Processes \ {p} : key[q] # NoKey)
    /\ keyFile' = "absent"
    /\ storedKey' = NoKey
    /\ Leave(p)
    /\ UNCHANGED <<stored, keysMade>>

\* UPDATE ... AND encoding = plaintext.v0 must find every row of the batch.
StillPlain(batch) == batch \subseteq plain

\* backfillPlaintextPayloads: the payloads are read before the transaction
\* that replaces them.
ReadPlaintext(p) ==
    /\ stage[p] = "reading"
    /\ view' = [view EXCEPT ![p].batch = plain]
    /\ Goto(p, "backfill") /\ UNCHANGED key
    /\ UNCHANGED <<stored, keyStore, faults>>

\* Every row must still be plaintext, or the transaction rolls back.
Backfill(p) ==
    LET batch == view[p].batch IN
    /\ stage[p] = "backfill"
    /\ \/ /\ StillPlain(batch)
          /\ plain' = plain \ batch
          /\ sealed' = [r \in Payloads |-> IF r \in batch THEN key[p]
                                           ELSE sealed[r]]
          /\ keyCheck' = key[p]
          /\ cleanup' = TRUE
          /\ Goto(p, "compacting") /\ Keep(p)
       \/ /\ ~StillPlain(batch)
          /\ Leave(p)
          /\ UNCHANGED <<plain, sealed, keyCheck, cleanup>>
    /\ UNCHANGED <<identified, remnants, keyStore, faults>>

InstallKeyCheck(p) ==
    /\ stage[p] = "install"
    /\ keyCheck' = key[p]
    /\ Goto(p, Finish(view[p].cleanup)) /\ Keep(p)
    /\ UNCHANGED <<identified, cleanup, plain, sealed, remnants, keyStore,
                   faults>>

\* removePlaintextArtifacts: checkpoint, VACUUM and checkpoint again, which a
\* reader in another process may keep from finishing; then the change to a
\* rollback journal, which SQLite refuses while anyone else is connected;
\* then the flag.
Compact(p) ==
    /\ stage[p] = "compacting"
    /\ \/ /\ remnants' = remnants \ {"pages"}
          /\ Goto(p, "journal") /\ Keep(p)
       \/ /\ ~Alone(p)
          /\ Leave(p)
          /\ UNCHANGED remnants
    /\ UNCHANGED <<identified, keyCheck, cleanup, plain, sealed, keyStore,
                   faults>>

DropLog(p) ==
    /\ stage[p] = "journal"
    /\ \/ /\ Alone(p)
          /\ remnants' = remnants \ {"log"}
          /\ Goto(p, "clearing") /\ Keep(p)
       \/ /\ ~Alone(p)
          /\ Leave(p)
          /\ UNCHANGED remnants
    /\ UNCHANGED <<identified, keyCheck, cleanup, plain, sealed, keyStore,
                   faults>>

ClearFlag(p) ==
    /\ stage[p] = "clearing"
    /\ cleanup' = FALSE
    /\ Goto(p, "open") /\ Keep(p)
    /\ UNCHANGED <<identified, keyCheck, plain, sealed, remnants, keyStore,
                   faults>>

\* Any write of the open store: the payload is sealed before SQLite sees it.
Store(p) ==
    /\ stage[p] = "open"
    /\ \E r \in Payloads \ plain :
        /\ sealed[r] = NoKey
        /\ sealed' = [sealed EXCEPT ![r] = key[p]]
    /\ UNCHANGED <<identified, keyCheck, cleanup, plain, remnants, keyStore,
                   memory, faults>>

Close(p) ==
    /\ stage[p] = "open"
    /\ Leave(p)
    /\ UNCHANGED <<stored, keyStore, faults>>

\* The process dies, or a statement of its open fails, anywhere.  A key file
\* it was writing stays as it is.
Crash(p) ==
    /\ Connected(p)
    /\ faults < MaxFaults
    /\ faults' = faults + 1
    /\ Leave(p)
    /\ UNCHANGED <<stored, keyStore>>

\* The key file goes while the program does not run: another account, a
\* restored backup, a deleted profile.
LoseKey ==
    /\ \A p \in Processes : ~Connected(p)
    /\ keyFile # "absent"
    /\ faults < MaxFaults
    /\ faults' = faults + 1
    /\ keyFile' = "absent"
    /\ storedKey' = NoKey
    /\ UNCHANGED <<stored, keysMade, withdrawn, memory>>

OpenStep(p) ==
    \/ Connect(p) \/ FindStoreID(p) \/ InsertStoreID(p)
    \/ CountPayloads(p) \/ ReadMetadata(p)
    \/ LoadKey(p) \/ CreateKeyFile(p) \/ WriteKey(p) \/ SyncKey(p)
    \/ ReloadKey(p) \/ CreateFails(p)
    \/ ReadPlaintext(p) \/ Backfill(p) \/ InstallKeyCheck(p)
    \/ Compact(p) \/ DropLog(p) \/ ClearFlag(p)
    \/ Store(p) \/ Close(p) \/ Crash(p)

Next == (\E p \in Processes : OpenStep(p)) \/ LoseKey

OpeningSpec == Init /\ [][Next]_openVars

-----------------------------------------------------------------------------
\* The shape of the database, the key store and the memory of the processes.
OpeningTypeOK ==
    /\ identified \in BOOLEAN
    /\ keyFile \in {"absent", "torn", "whole"}
    /\ storedKey \in Nat
    /\ keysMade \in Nat
    /\ keyCheck \in Nat
    /\ cleanup \in BOOLEAN
    /\ plain \subseteq Payloads
    /\ sealed \in [Payloads -> Nat]
    /\ remnants \subseteq Places
    /\ stage \in [Processes -> Stages]
    /\ view \in [Processes -> View]
    /\ key \in [Processes -> Nat]
    /\ withdrawn \in BOOLEAN
    /\ faults \in 0..MaxFaults

\* One key seals a store: every encrypted payload and the key check are under
\* the same key, and while the key file is there it holds that key, whatever
\* the order in which processes looked, created, loaded and installed.  Only
\* a creation that fails after another process loaded the new key is exempt.
OneKey ==
    withdrawn \/
    /\ \A r \in Payloads : sealed[r] \in {NoKey, keyCheck}
    /\ keyCheck # NoKey => keyFile # "torn"
    /\ keyCheck # NoKey /\ keyFile = "whole" => keyCheck = storedKey

\* A key is created for a store with nothing sealed only: a database whose
\* key is missing stays closed and gets no replacement key
\* (docs/storage/local-storage-lifecycle.md:20).
NoReplacementKey ==
    [][keysMade' # keysMade => keyCheck = NoKey \/ withdrawn]_openVars

\* Open succeeds only after cleanup is complete: a handle is open only over a
\* store without plaintext rows and without plaintext left in pages or log,
\* whoever upgraded it and however often that was interrupted
\* (docs/storage/local-storage-lifecycle.md:58).
OpenIsClean ==
    \A p \in Processes : stage[p] = "open" => plain = {} /\ remnants = {}

\* The flag is not lost: as long as an upgraded store has plaintext left, the
\* flag that makes the next open retry the cleanup is set.
CleanupIsOwed == plain = {} /\ remnants # {} => cleanup

\* The upgrade is one transaction: no crash and no second process leaves some
\* payloads in plaintext next to encrypted ones, or next to a key check.
NoMixedEncodings == plain # {} => ~AnythingSealed /\ keyCheck = NoKey

-----------------------------------------------------------------------------
\* The stages after the count of the payloads, those after the read of the
\* metadata, those that hold the key, and those after the key check is there.
Counted == Stages \ {"closed", "connected", "naming", "counting"}
Informed == Counted \ {"metadata"}
Holding == {"reading", "backfill", "install", "compacting", "journal",
            "clearing", "open"}
Sealing == {"compacting", "journal", "clearing", "open"}
Creating == {"writing", "syncing"}

\* The key file and the one process that may be writing it.
KeyFileInv ==
    /\ keyFile = "whole" <=> storedKey # NoKey
    /\ \A p \in Processes :
        /\ stage[p] = "writing" => keyFile = "torn"
        /\ stage[p] = "syncing" => keyFile = "whole"
        /\ key[p] # NoKey <=> stage[p] \in Holding
    /\ \A p, q \in Processes :
        stage[p] \in Creating /\ stage[q] \in Creating => p = q

\* What a process read of the key check is still so, or it saw nothing sealed
\* and whoever sealed since then left the key where it will look.
KeyInv ==
    withdrawn \/
    /\ OneKey
    /\ \A p \in Processes :
        /\ key[p] # NoKey => key[p] = storedKey
        /\ stage[p] \in Counted /\ view[p].sealed => keyCheck # NoKey
        /\ stage[p] \in Informed /\ view[p].check # NoKey =>
              view[p].check = keyCheck
        /\ stage[p] \in Informed /\ MayCreate(view[p]) /\ keyCheck # NoKey =>
              keyFile = "whole"
        /\ stage[p] \in Creating \cup {"creating", "reloading", "install"} =>
              view[p].check = NoKey
        /\ stage[p] \in Creating \cup {"creating", "reloading"} =>
              ~view[p].sealed
        /\ stage[p] \in Sealing => keyCheck # NoKey

\* Plaintext rows and remnants only go; a process that saw none is right, and
\* one past the upgrade has left none.
CleanInv ==
    /\ CleanupIsOwed
    /\ OpenIsClean
    /\ NoMixedEncodings
    /\ \A p \in Processes :
        /\ stage[p] \in Counted /\ ~view[p].plain => plain = {}
        /\ stage[p] \in Informed /\ ~view[p].plain /\ ~view[p].cleanup =>
              remnants = {}
        /\ stage[p] = "install" => ~view[p].plain
        /\ stage[p] = "backfill" => plain \subseteq view[p].batch
        /\ stage[p] \in Sealing => plain = {}
        /\ stage[p] = "journal" => "pages" \notin remnants
        /\ stage[p] = "clearing" => remnants = {}

\* The inductive invariant of opening: types, key file, keys, cleanup.
OpeningInv == OpeningTypeOK /\ KeyFileInv /\ KeyInv /\ CleanInv
=============================================================================
