-------------------------- MODULE LocalStateProofs --------------------------
(***************************************************************************)
(* Proofs about the files of Belay's home, one part after the other: the   *)
(* opening of the store, the tailing of the spool, the update check and    *)
(* the MCP registries; for every set of processes, payloads, tailers,      *)
(* checks, commands, targets and builds, and every bound.                  *)
(***************************************************************************)
EXTENDS StoreOpening, SpoolTail, MCPConfig, UpdateCheck, TLAPS

-----------------------------------------------------------------------------
(* Moving on and leaving keep the types of what a process has in memory.   *)
LEMMA MemoryKept ==
    ASSUME OpeningTypeOK, NEW p \in Processes
    PROVE  /\ \A s \in Stages : Goto(p, s) => stage' \in [Processes -> Stages]
           /\ Leave(p) => /\ stage' \in [Processes -> Stages]
                          /\ view' \in [Processes -> View]
                          /\ key' \in [Processes -> Nat]
           /\ Keep(p) => view' \in [Processes -> View] /\ key' \in [Processes -> Nat]
           /\ \A k \in Nat : Unlock(p, k) =>
                     /\ stage' \in [Processes -> Stages]
                     /\ view' \in [Processes -> View]
                     /\ key' \in [Processes -> Nat]
<1>1. \A s \in Stages : Goto(p, s) => stage' \in [Processes -> Stages]
  BY DEF OpeningTypeOK, Goto
<1>2. Blank \in View /\ NoKey \in Nat /\ "closed" \in Stages
  BY DEF Blank, View, NoKey, Stages
<1>3. Leave(p) => /\ stage' \in [Processes -> Stages]
                  /\ view' \in [Processes -> View]
                  /\ key' \in [Processes -> Nat]
  BY <1>2 DEF OpeningTypeOK, Leave, Goto
<1>4. Keep(p) => view' \in [Processes -> View] /\ key' \in [Processes -> Nat]
  BY DEF OpeningTypeOK, Keep
<1>5. ASSUME NEW k \in Nat, Unlock(p, k)
      PROVE  /\ stage' \in [Processes -> Stages]
             /\ view' \in [Processes -> View]
             /\ key' \in [Processes -> Nat]
  <2>1. CASE Leave(p)
    BY <1>3, <2>1
  <2>2. CASE /\ key' = [key EXCEPT ![p] = k]
             /\ UNCHANGED view
             /\ \E s \in Stages : Goto(p, s)
    BY <1>1, <2>2 DEF OpeningTypeOK
  <2> QED
    BY <1>5, <2>1, <2>2 DEF Unlock, Finish, Stages
<1> QED
  BY <1>1, <1>3, <1>4, <1>5

(* A step keeps the types.                                                 *)
LEMMA TypeStep ==
    ASSUME OpeningTypeOK, [Next]_openVars
    PROVE  OpeningTypeOK'
<1> USE OpeningAssumption DEF openVars, stored, keyStore, memory, NoKey,
       OpeningTypeOK, View, Stages, Blank, Places
<1>1. ASSUME NEW p \in Processes, Connect(p)
      PROVE  OpeningTypeOK'
  BY <1>1 DEF Connect, Goto, Keep
<1>2. ASSUME NEW p \in Processes, FindStoreID(p)
      PROVE  OpeningTypeOK'
  BY <1>2 DEF FindStoreID, Goto, Keep
<1>3. ASSUME NEW p \in Processes, InsertStoreID(p)
      PROVE  OpeningTypeOK'
  <2>1. /\ stage' \in [Processes -> Stages]
        /\ view' \in [Processes -> View]
        /\ key' \in [Processes -> Nat]
    BY <1>3, MemoryKept DEF InsertStoreID, OpeningTypeOK, Stages
  <2> QED
    BY <1>3, <2>1 DEF InsertStoreID, OpeningTypeOK
<1>4. ASSUME NEW p \in Processes, CountPayloads(p)
      PROVE  OpeningTypeOK'
  <2>1. [view[p] EXCEPT !.plain = (plain # {}), !.sealed = AnythingSealed] \in View
    <3>1. AnythingSealed \in BOOLEAN /\ (plain # {}) \in BOOLEAN
      BY DEF AnythingSealed
    <3>2. view[p] \in View
      BY DEF OpeningTypeOK
    <3> HIDE DEF AnythingSealed
    <3> QED
      BY <3>1, <3>2, Zenon DEF View
  <2> QED
    BY <1>4, <2>1, MemoryKept DEF CountPayloads, OpeningTypeOK, Stages
<1>5. ASSUME NEW p \in Processes, ReadMetadata(p)
      PROVE  OpeningTypeOK'
  BY <1>5, ZenonT(60) DEF ReadMetadata, Goto
<1>6. ASSUME NEW p \in Processes, LoadKey(p)
      PROVE  OpeningTypeOK'
  <2>1. /\ stage' \in [Processes -> Stages]
        /\ view' \in [Processes -> View]
        /\ key' \in [Processes -> Nat]
    BY <1>6, MemoryKept DEF LoadKey, OpeningTypeOK, Stages
  <2> QED
    BY <1>6, <2>1 DEF LoadKey, OpeningTypeOK
<1>7. ASSUME NEW p \in Processes, CreateKeyFile(p)
      PROVE  OpeningTypeOK'
  BY <1>7 DEF CreateKeyFile, Goto, Keep
<1>8. ASSUME NEW p \in Processes, WriteKey(p)
      PROVE  OpeningTypeOK'
  BY <1>8 DEF WriteKey, Goto, Keep
<1>9. ASSUME NEW p \in Processes, SyncKey(p)
      PROVE  OpeningTypeOK'
  <2>1. /\ stage' \in [Processes -> Stages]
        /\ view' \in [Processes -> View]
        /\ key' \in [Processes -> Nat]
    BY <1>9, MemoryKept DEF SyncKey, OpeningTypeOK, Stages
  <2> QED
    BY <1>9, <2>1 DEF SyncKey, OpeningTypeOK
<1>10. ASSUME NEW p \in Processes, ReloadKey(p)
      PROVE  OpeningTypeOK'
  <2>1. /\ stage' \in [Processes -> Stages]
        /\ view' \in [Processes -> View]
        /\ key' \in [Processes -> Nat]
    BY <1>10, MemoryKept DEF ReloadKey, OpeningTypeOK, Stages
  <2> QED
    BY <1>10, <2>1 DEF ReloadKey, OpeningTypeOK
<1>11. ASSUME NEW p \in Processes, CreateFails(p)
      PROVE  OpeningTypeOK'
  BY <1>11 DEF CreateFails, Goto, Leave
<1>12. ASSUME NEW p \in Processes, ReadPlaintext(p)
      PROVE  OpeningTypeOK'
  BY <1>12 DEF ReadPlaintext, Goto
<1>13. ASSUME NEW p \in Processes, Backfill(p)
      PROVE  OpeningTypeOK'
  <2>1. /\ stage' \in [Processes -> Stages]
        /\ view' \in [Processes -> View]
        /\ key' \in [Processes -> Nat]
    BY <1>13, MemoryKept DEF Backfill, OpeningTypeOK, Stages
  <2>2. /\ sealed' \in [Payloads -> Nat]
        /\ keyCheck' \in Nat
        /\ plain' \subseteq Payloads
        /\ cleanup' \in BOOLEAN
    <3>1. key[p] \in Nat /\ sealed \in [Payloads -> Nat] /\ keyCheck \in Nat
      BY DEF OpeningTypeOK
    <3>2. CASE sealed' = [r \in Payloads |-> IF r \in view[p].batch THEN key[p] ELSE sealed[r]]
               /\ keyCheck' = key[p] /\ plain' = plain \ view[p].batch /\ cleanup' = TRUE
      BY <3>1, <3>2 DEF OpeningTypeOK
    <3>3. CASE UNCHANGED <<plain, sealed, keyCheck, cleanup>>
      BY <3>1, <3>3 DEF OpeningTypeOK
    <3> QED
      BY <1>13, <3>2, <3>3 DEF Backfill
  <2> QED
    BY <1>13, <2>1, <2>2 DEF Backfill, OpeningTypeOK
<1>14. ASSUME NEW p \in Processes, InstallKeyCheck(p)
      PROVE  OpeningTypeOK'
  BY <1>14 DEF InstallKeyCheck, Goto, Keep, Finish
<1>15. ASSUME NEW p \in Processes, Compact(p)
      PROVE  OpeningTypeOK'
  <2>1. /\ stage' \in [Processes -> Stages]
        /\ view' \in [Processes -> View]
        /\ key' \in [Processes -> Nat]
    BY <1>15, MemoryKept DEF Compact, OpeningTypeOK, Stages
  <2> QED
    BY <1>15, <2>1 DEF Compact, OpeningTypeOK
<1>16. ASSUME NEW p \in Processes, DropLog(p)
      PROVE  OpeningTypeOK'
  <2>1. /\ stage' \in [Processes -> Stages]
        /\ view' \in [Processes -> View]
        /\ key' \in [Processes -> Nat]
    BY <1>16, MemoryKept DEF DropLog, OpeningTypeOK, Stages
  <2> QED
    BY <1>16, <2>1 DEF DropLog, OpeningTypeOK
<1>17. ASSUME NEW p \in Processes, ClearFlag(p)
      PROVE  OpeningTypeOK'
  BY <1>17 DEF ClearFlag, Goto, Keep
<1>18. ASSUME NEW p \in Processes, Store(p)
      PROVE  OpeningTypeOK'
  BY <1>18 DEF Store
<1>19. ASSUME NEW p \in Processes, Close(p)
      PROVE  OpeningTypeOK'
  BY <1>19 DEF Close, Goto, Leave
<1>20. ASSUME NEW p \in Processes, Crash(p)
      PROVE  OpeningTypeOK'
  BY <1>20 DEF Crash, Goto, Leave
<1>21. CASE LoseKey
  BY <1>21 DEF LoseKey
<1>22. CASE UNCHANGED openVars
  BY <1>22
<1> QED
  BY <1>1, <1>2, <1>3, <1>4, <1>5, <1>6, <1>7, <1>8, <1>9, <1>10, <1>11, <1>12, <1>13, <1>14, <1>15, <1>16, <1>17, <1>18, <1>19, <1>20, <1>21, <1>22 DEF Next, OpenStep

(* The file has one creator at a time, who knows what is in it.            *)
LEMMA KeyFileStep ==
    ASSUME OpeningTypeOK, KeyFileInv, [Next]_openVars
    PROVE  KeyFileInv'
<1> USE OpeningAssumption DEF openVars, stored, keyStore, memory, NoKey,
       OpeningTypeOK, KeyFileInv, Holding, Creating, Stages, Connected
<1>1. ASSUME NEW p \in Processes, Connect(p)
      PROVE  KeyFileInv'
  BY <1>1 DEF Connect, Goto, Keep
<1>2. ASSUME NEW p \in Processes, FindStoreID(p)
      PROVE  KeyFileInv'
  BY <1>2 DEF FindStoreID, Goto, Keep
<1>3. ASSUME NEW p \in Processes, InsertStoreID(p)
      PROVE  KeyFileInv'
  BY <1>3 DEF InsertStoreID, Goto, Keep, Leave
<1>4. ASSUME NEW p \in Processes, CountPayloads(p)
      PROVE  KeyFileInv'
  BY <1>4 DEF CountPayloads, Goto
<1>5. ASSUME NEW p \in Processes, ReadMetadata(p)
      PROVE  KeyFileInv'
  BY <1>5 DEF ReadMetadata, Goto
<1>6. ASSUME NEW p \in Processes, LoadKey(p)
      PROVE  KeyFileInv'
  BY <1>6 DEF LoadKey, Goto, Keep, Leave, Unlock, Finish
<1>7. ASSUME NEW p \in Processes, CreateKeyFile(p)
      PROVE  KeyFileInv'
  BY <1>7 DEF CreateKeyFile, Goto, Keep
<1>8. ASSUME NEW p \in Processes, WriteKey(p)
      PROVE  KeyFileInv'
  BY <1>8 DEF WriteKey, Goto, Keep
<1>9. ASSUME NEW p \in Processes, SyncKey(p)
      PROVE  KeyFileInv'
  BY <1>9 DEF SyncKey, Goto, Unlock, Leave, Finish
<1>10. ASSUME NEW p \in Processes, ReloadKey(p)
      PROVE  KeyFileInv'
  BY <1>10 DEF ReloadKey, Goto, Unlock, Leave, Finish
<1>11. ASSUME NEW p \in Processes, CreateFails(p)
      PROVE  KeyFileInv'
  BY <1>11 DEF CreateFails, Goto, Leave
<1>12. ASSUME NEW p \in Processes, ReadPlaintext(p)
      PROVE  KeyFileInv'
  BY <1>12 DEF ReadPlaintext, Goto
<1>13. ASSUME NEW p \in Processes, Backfill(p)
      PROVE  KeyFileInv'
  BY <1>13 DEF Backfill, Goto, Keep, Leave
<1>14. ASSUME NEW p \in Processes, InstallKeyCheck(p)
      PROVE  KeyFileInv'
  BY <1>14 DEF InstallKeyCheck, Goto, Keep, Finish
<1>15. ASSUME NEW p \in Processes, Compact(p)
      PROVE  KeyFileInv'
  BY <1>15 DEF Compact, Goto, Keep, Leave
<1>16. ASSUME NEW p \in Processes, DropLog(p)
      PROVE  KeyFileInv'
  BY <1>16 DEF DropLog, Goto, Keep, Leave
<1>17. ASSUME NEW p \in Processes, ClearFlag(p)
      PROVE  KeyFileInv'
  BY <1>17 DEF ClearFlag, Goto, Keep
<1>18. ASSUME NEW p \in Processes, Store(p)
      PROVE  KeyFileInv'
  BY <1>18 DEF Store
<1>19. ASSUME NEW p \in Processes, Close(p)
      PROVE  KeyFileInv'
  BY <1>19 DEF Close, Goto, Leave
<1>20. ASSUME NEW p \in Processes, Crash(p)
      PROVE  KeyFileInv'
  BY <1>20 DEF Crash, Goto, Leave
<1>21. CASE LoseKey
  BY <1>21 DEF LoseKey
<1>22. CASE UNCHANGED openVars
  BY <1>22
<1> QED
  BY <1>1, <1>2, <1>3, <1>4, <1>5, <1>6, <1>7, <1>8, <1>9, <1>10, <1>11, <1>12, <1>13, <1>14, <1>15, <1>16, <1>17, <1>18, <1>19, <1>20, <1>21, <1>22 DEF Next, OpenStep

(* Whoever seals, seals with the key in the file.                          *)
LEMMA KeyStep ==
    ASSUME OpeningTypeOK, KeyFileInv, KeyInv, [Next]_openVars
    PROVE  KeyInv'
<1> USE OpeningAssumption DEF openVars, stored, keyStore, memory, NoKey,
       OpeningTypeOK, KeyFileInv, KeyInv, OneKey, Holding, Creating,
       Sealing, Counted, Informed, Stages, MayCreate, Unlocks, View, Blank,
       AnythingSealed, StillPlain, Connected, Connected
<1>1. ASSUME NEW p \in Processes, Connect(p)
      PROVE  KeyInv'
  BY <1>1 DEF Connect, Goto, Keep
<1>2. ASSUME NEW p \in Processes, FindStoreID(p)
      PROVE  KeyInv'
  BY <1>2 DEF FindStoreID, Goto, Keep
<1>3. ASSUME NEW p \in Processes, InsertStoreID(p)
      PROVE  KeyInv'
  BY <1>3 DEF InsertStoreID, Goto, Keep, Leave
<1>4. ASSUME NEW p \in Processes, CountPayloads(p)
      PROVE  KeyInv'
  BY <1>4 DEF CountPayloads, Goto
<1>5. ASSUME NEW p \in Processes, ReadMetadata(p)
      PROVE  KeyInv'
  BY <1>5 DEF ReadMetadata, Goto
<1>6. ASSUME NEW p \in Processes, LoadKey(p)
      PROVE  KeyInv'
  BY <1>6 DEF LoadKey, Goto, Keep, Leave, Unlock, Finish
<1>7. ASSUME NEW p \in Processes, CreateKeyFile(p)
      PROVE  KeyInv'
  BY <1>7 DEF CreateKeyFile, Goto, Keep
<1>8. ASSUME NEW p \in Processes, WriteKey(p)
      PROVE  KeyInv'
  BY <1>8 DEF WriteKey, Goto, Keep
<1>9. ASSUME NEW p \in Processes, SyncKey(p)
      PROVE  KeyInv'
  BY <1>9 DEF SyncKey, Goto, Unlock, Leave, Finish
<1>10. ASSUME NEW p \in Processes, ReloadKey(p)
      PROVE  KeyInv'
  BY <1>10 DEF ReloadKey, Goto, Unlock, Leave, Finish
<1>11. ASSUME NEW p \in Processes, CreateFails(p)
      PROVE  KeyInv'
  BY <1>11 DEF CreateFails, Goto, Leave
<1>12. ASSUME NEW p \in Processes, ReadPlaintext(p)
      PROVE  KeyInv'
  BY <1>12 DEF ReadPlaintext, Goto
<1>13. ASSUME NEW p \in Processes, Backfill(p)
      PROVE  KeyInv'
  BY <1>13 DEF Backfill, Goto, Keep, Leave
<1>14. ASSUME NEW p \in Processes, InstallKeyCheck(p)
      PROVE  KeyInv'
  BY <1>14 DEF InstallKeyCheck, Goto, Keep, Finish
<1>15. ASSUME NEW p \in Processes, Compact(p)
      PROVE  KeyInv'
  BY <1>15 DEF Compact, Goto, Keep, Leave
<1>16. ASSUME NEW p \in Processes, DropLog(p)
      PROVE  KeyInv'
  BY <1>16 DEF DropLog, Goto, Keep, Leave
<1>17. ASSUME NEW p \in Processes, ClearFlag(p)
      PROVE  KeyInv'
  BY <1>17 DEF ClearFlag, Goto, Keep
<1>18. ASSUME NEW p \in Processes, Store(p)
      PROVE  KeyInv'
  BY <1>18 DEF Store
<1>19. ASSUME NEW p \in Processes, Close(p)
      PROVE  KeyInv'
  BY <1>19 DEF Close, Goto, Leave
<1>20. ASSUME NEW p \in Processes, Crash(p)
      PROVE  KeyInv'
  BY <1>20 DEF Crash, Goto, Leave
<1>21. CASE LoseKey
  BY <1>21 DEF LoseKey
<1>22. CASE UNCHANGED openVars
  BY <1>22
<1> QED
  BY <1>1, <1>2, <1>3, <1>4, <1>5, <1>6, <1>7, <1>8, <1>9, <1>10, <1>11, <1>12, <1>13, <1>14, <1>15, <1>16, <1>17, <1>18, <1>19, <1>20, <1>21, <1>22 DEF Next, OpenStep

(* What is upgraded is cleaned before anyone is let in.                    *)
LEMMA CleanStep ==
    ASSUME OpeningTypeOK, KeyFileInv, CleanInv, [Next]_openVars
    PROVE  CleanInv'
<1> USE OpeningAssumption DEF openVars, stored, keyStore, memory, NoKey,
       OpeningTypeOK, KeyFileInv, CleanInv, CleanupIsOwed, OpenIsClean,
       NoMixedEncodings, Holding, Sealing, Counted, Informed, Stages, View,
       Blank, AnythingSealed, StillPlain, Places, Connected
<1>1. ASSUME NEW p \in Processes, Connect(p)
      PROVE  CleanInv'
  BY <1>1 DEF Connect, Goto, Keep
<1>2. ASSUME NEW p \in Processes, FindStoreID(p)
      PROVE  CleanInv'
  BY <1>2 DEF FindStoreID, Goto, Keep
<1>3. ASSUME NEW p \in Processes, InsertStoreID(p)
      PROVE  CleanInv'
  BY <1>3 DEF InsertStoreID, Goto, Keep, Leave
<1>4. ASSUME NEW p \in Processes, CountPayloads(p)
      PROVE  CleanInv'
  <2>1. view[p] \in View /\ p \in DOMAIN view
    BY DEF OpeningTypeOK
  <2>2. view'[p].plain = (plain # {}) /\ \A q \in Processes \ {p} : view'[q] = view[q]
    BY <1>4, <2>1, Zenon DEF CountPayloads, OpeningTypeOK, View
  <2>3. ~view'[p].plain => plain = {}
    BY <2>2
  <2>4. /\ stage' = [stage EXCEPT ![p] = "metadata"]
        /\ stage[p] = "counting"
        /\ UNCHANGED stored
        /\ \A q \in Processes \ {p} : view'[q] = view[q]
    BY <1>4, <2>2 DEF CountPayloads, Goto
  <2> QED
    BY <2>3, <2>4
<1>5. ASSUME NEW p \in Processes, ReadMetadata(p)
      PROVE  CleanInv'
  BY <1>5 DEF ReadMetadata, Goto
<1>6. ASSUME NEW p \in Processes, LoadKey(p)
      PROVE  CleanInv'
  BY <1>6 DEF LoadKey, Goto, Keep, Leave, Unlock, Finish
<1>7. ASSUME NEW p \in Processes, CreateKeyFile(p)
      PROVE  CleanInv'
  BY <1>7 DEF CreateKeyFile, Goto, Keep
<1>8. ASSUME NEW p \in Processes, WriteKey(p)
      PROVE  CleanInv'
  BY <1>8 DEF WriteKey, Goto, Keep
<1>9. ASSUME NEW p \in Processes, SyncKey(p)
      PROVE  CleanInv'
  BY <1>9 DEF SyncKey, Goto, Unlock, Leave, Finish
<1>10. ASSUME NEW p \in Processes, ReloadKey(p)
      PROVE  CleanInv'
  BY <1>10 DEF ReloadKey, Goto, Unlock, Leave, Finish
<1>11. ASSUME NEW p \in Processes, CreateFails(p)
      PROVE  CleanInv'
  BY <1>11 DEF CreateFails, Goto, Leave
<1>12. ASSUME NEW p \in Processes, ReadPlaintext(p)
      PROVE  CleanInv'
  BY <1>12 DEF ReadPlaintext, Goto
<1>13. ASSUME NEW p \in Processes, Backfill(p)
      PROVE  CleanInv'
  BY <1>13, SMTT(30) DEF Backfill, Goto, Keep, Leave
<1>14. ASSUME NEW p \in Processes, InstallKeyCheck(p)
      PROVE  CleanInv'
  BY <1>14 DEF InstallKeyCheck, Goto, Keep, Finish
<1>15. ASSUME NEW p \in Processes, Compact(p)
      PROVE  CleanInv'
  <2> HIDE DEF OpeningTypeOK, KeyFileInv, CleanInv, View, Blank, Places
  <2>1. remnants' \subseteq remnants /\ ("pages" \notin remnants' \/ Leave(p))
    BY <1>15 DEF Compact
  <2>2. remnants = {} => remnants' = {}
    BY <2>1
  <2>3. "pages" \notin remnants => "pages" \notin remnants'
    BY <2>1
  <2>4. (Goto(p, "journal") /\ Keep(p)) \/ Leave(p)
    BY <1>15 DEF Compact
  <2>5. /\ stage[p] = "compacting"
        /\ UNCHANGED <<identified, keyCheck, cleanup, plain, sealed>>
    BY <1>15 DEF Compact
  <2> QED
    BY <2>1, <2>2, <2>3, <2>4, <2>5 DEF Goto, Keep, Leave, CleanInv,
       CleanupIsOwed, OpenIsClean, NoMixedEncodings, Sealing, Counted,
       Informed, Stages, AnythingSealed, OpeningTypeOK
<1>16. ASSUME NEW p \in Processes, DropLog(p)
      PROVE  CleanInv'
  <2> HIDE DEF OpeningTypeOK, KeyFileInv, CleanInv, View, Blank, Places
  <2>1. /\ stage[p] = "journal" /\ "pages" \notin remnants
        /\ remnants \subseteq {"pages", "log"}
        /\ UNCHANGED <<identified, keyCheck, cleanup, plain, sealed>>
    BY <1>16 DEF DropLog, CleanInv, OpeningTypeOK, Places
  <2>2. \/ remnants' = {} /\ Goto(p, "clearing") /\ Keep(p)
        \/ remnants' = remnants /\ Leave(p)
    BY <1>16, <2>1 DEF DropLog
  <2>3. CASE remnants' = {} /\ Goto(p, "clearing") /\ Keep(p)
    BY <2>1, <2>3 DEF Goto, Keep, CleanInv, CleanupIsOwed, OpenIsClean,
       NoMixedEncodings, Sealing, Counted, Informed, AnythingSealed,
       OpeningTypeOK
  <2>4. CASE remnants' = remnants /\ Leave(p)
    BY <2>1, <2>4 DEF Goto, Leave, CleanInv, CleanupIsOwed, OpenIsClean,
       NoMixedEncodings, Sealing, Counted, Informed, AnythingSealed,
       OpeningTypeOK
  <2> QED
    BY <2>2, <2>3, <2>4
<1>17. ASSUME NEW p \in Processes, ClearFlag(p)
      PROVE  CleanInv'
  BY <1>17 DEF ClearFlag, Goto, Keep
<1>18. ASSUME NEW p \in Processes, Store(p)
      PROVE  CleanInv'
  BY <1>18 DEF Store
<1>19. ASSUME NEW p \in Processes, Close(p)
      PROVE  CleanInv'
  BY <1>19 DEF Close, Goto, Leave
<1>20. ASSUME NEW p \in Processes, Crash(p)
      PROVE  CleanInv'
  BY <1>20 DEF Crash, Goto, Leave
<1>21. CASE LoseKey
  BY <1>21 DEF LoseKey
<1>22. CASE UNCHANGED openVars
  BY <1>22
<1> QED
  BY <1>1, <1>2, <1>3, <1>4, <1>5, <1>6, <1>7, <1>8, <1>9, <1>10, <1>11, <1>12, <1>13, <1>14, <1>15, <1>16, <1>17, <1>18, <1>19, <1>20, <1>21, <1>22 DEF Next, OpenStep

-----------------------------------------------------------------------------
(* Theorems.                                                               *)

(* The invariant of opening holds of a new store and of a plaintext one,   *)
(* and every step of every process keeps it.                               *)
THEOREM OpeningSafe == OpeningSpec => []OpeningInv
<1>1. Init => OpeningInv
  <2> SUFFICES ASSUME Init
               PROVE  OpeningInv
    OBVIOUS
  <2>1. OpeningTypeOK
    <3>1. Blank \in View /\ "closed" \in Stages /\ NoKey \in Nat
      BY DEF Blank, View, Stages, NoKey
    <3>2. remnants \subseteq Places
      BY DEF Init, Places
    <3>3. /\ sealed \in [Payloads -> Nat]
          /\ stage \in [Processes -> Stages]
          /\ view \in [Processes -> View]
          /\ key \in [Processes -> Nat]
      BY <3>1 DEF Init
    <3>4. /\ storedKey \in Nat /\ keysMade \in Nat /\ keyCheck \in Nat
          /\ faults \in 0..MaxFaults
      BY <3>1, OpeningAssumption DEF Init
    <3>5. /\ identified \in BOOLEAN /\ cleanup \in BOOLEAN /\ withdrawn \in BOOLEAN
          /\ keyFile \in {"absent", "torn", "whole"}
          /\ plain \subseteq Payloads
      BY DEF Init
    <3> QED
      BY <3>2, <3>3, <3>4, <3>5 DEF OpeningTypeOK
  <2>2. KeyFileInv
    BY DEF Init, KeyFileInv, NoKey, Creating, Holding
  <2>3. KeyInv
    BY DEF Init, KeyInv, OneKey, NoKey, Counted, Informed, Creating, Sealing
  <2>4. CleanInv
    BY DEF Init, CleanInv, CleanupIsOwed, OpenIsClean, NoMixedEncodings,
       AnythingSealed, NoKey, Counted, Informed, Sealing
  <2> QED
    BY <2>1, <2>2, <2>3, <2>4 DEF OpeningInv
<1>2. OpeningInv /\ [Next]_openVars => OpeningInv'
  BY TypeStep, KeyFileStep, KeyStep, CleanStep DEF OpeningInv
<1> QED
  BY <1>1, <1>2, PTL DEF OpeningSpec

(* One key seals a store, and the key file holds it.                       *)
THEOREM KeyIsOne == OpeningSpec => []OneKey
<1>1. OpeningInv => OneKey
  BY DEF OpeningInv, KeyInv, OneKey
<1> QED
  BY <1>1, OpeningSafe, PTL

(* Whoever gets a store open gets one without plaintext in rows, pages or  *)
(* log.                                                                    *)
THEOREM OpenedClean == OpeningSpec => []OpenIsClean
<1>1. OpeningInv => OpenIsClean
  BY DEF OpeningInv, CleanInv
<1> QED
  BY <1>1, OpeningSafe, PTL

(* Plaintext left behind by an upgrade is always owed a cleanup.           *)
THEOREM CleanupOwed == OpeningSpec => []CleanupIsOwed
<1>1. OpeningInv => CleanupIsOwed
  BY DEF OpeningInv, CleanInv
<1> QED
  BY <1>1, OpeningSafe, PTL

(* No store has encrypted payloads next to plaintext ones.                 *)
THEOREM NeverMixed == OpeningSpec => []NoMixedEncodings
<1>1. OpeningInv => NoMixedEncodings
  BY DEF OpeningInv, CleanInv
<1> QED
  BY <1>1, OpeningSafe, PTL

(* A store whose key is missing gets no replacement key: a key is made     *)
(* only while no key check exists.                                         *)
THEOREM NoneReplaced == OpeningSpec => NoReplacementKey
<1>1. OpeningInv /\ [Next]_openVars =>
        [keysMade' # keysMade => keyCheck = NoKey \/ withdrawn]_openVars
  <2> SUFFICES ASSUME OpeningInv, [Next]_openVars, keysMade' # keysMade
               PROVE  keyCheck = NoKey \/ withdrawn
    OBVIOUS
  <2>1. PICK p \in Processes : WriteKey(p)
    BY DEF Next, OpenStep, Connect, FindStoreID, InsertStoreID, CountPayloads,
       ReadMetadata, LoadKey, CreateKeyFile, SyncKey, ReloadKey, CreateFails,
       ReadPlaintext, Backfill, InstallKeyCheck, Compact, DropLog, ClearFlag,
       Store, Close, Crash, LoseKey, keyStore, openVars
  <2>2. keyFile = "torn"
    BY <2>1 DEF WriteKey, OpeningInv, KeyFileInv
  <2> QED
    BY <2>2 DEF OpeningInv, KeyInv, OneKey
<1> QED
  BY <1>1, OpeningSafe, PTL DEF OpeningSpec, NoReplacementKey
-----------------------------------------------------------------------------
(* The spool.  Every line before a cursor, of the file the cursor is of,   *)
(* is in the store, and so is every line a tailer has gone past.           *)
CursorInv ==
    /\ tailCursor.file \in Nat /\ tailCursor.offset \in Nat
    /\ \A k \in 1..tailCursor.offset : <<tailCursor.file, k>> \in imported

TailerInv(t) ==
    tail[t].pc = "importing" =>
        /\ DOMAIN tail[t] = {"pc", "file", "next", "end", "whole"}
        /\ {tail[t].file, tail[t].next, tail[t].end, tail[t].whole} \subseteq Nat
        /\ tail[t].end <= tail[t].whole
        /\ \A k \in 1..tail[t].end : k < tail[t].next => <<tail[t].file, k>> \in imported

TailInv ==
    /\ DOMAIN spool = {"file", "lines", "partial"}
    /\ spool.file \in Nat /\ spool.lines \in Nat
    /\ CursorInv
    /\ DOMAIN tail = Tailers
    /\ \A t \in Tailers : TailerInv(t)

(* A read starts where nothing before is missing.                          *)
LEMMA StartIsImported ==
    ASSUME TailInv
    PROVE  Start \in Nat /\ SpoolIsNotSkipped
BY DEF TailInv, CursorInv, Start, SpoolIsNotSkipped

(* A step of the agent or of a tailer keeps the invariant.                 *)
LEMMA TailStep ==
    ASSUME TailAssumption, TailInv, [TailNext]_tailVars
    PROVE  TailInv'
<1> USE DEF TailInv
<1>1. CASE Append \/ Replace
  <2>1. UNCHANGED <<tailCursor, imported, tail>>
    BY <1>1 DEF Append, Replace
  <2>2. /\ DOMAIN spool' = {"file", "lines", "partial"}
        /\ spool'.file \in Nat /\ spool'.lines \in Nat
    <3>1. CASE Replace
      BY <3>1 DEF Replace
    <3>2. CASE Append /\ spool.partial
      BY <3>2 DEF Append
    <3>3. CASE Append /\ ~spool.partial
      BY <3>3 DEF Append
    <3> QED
      BY <1>1, <3>1, <3>2, <3>3
  <2> QED
    BY <2>1, <2>2 DEF CursorInv, TailerInv
<1>2. ASSUME NEW t \in Tailers, ReadSpool(t)
      PROVE  TailInv'
  <2> DEFINE new == [pc |-> "importing", file |-> spool.file, next |-> Start + 1,
                     end |-> End(Start), whole |-> spool.lines]
  <2>1. /\ tail' = [tail EXCEPT ![t] = new]
        /\ UNCHANGED <<spool, tailCursor, imported>>
    BY <1>2 DEF ReadSpool
  <2>2. /\ DOMAIN tail' = Tailers /\ tail'[t] = new
        /\ \A u \in Tailers \ {t} : tail'[u] = tail[u]
    BY <2>1
  <2>3. Start \in Nat /\ SpoolIsNotSkipped
    BY StartIsImported
  <2>4. End(Start) \in Nat /\ End(Start) <= spool.lines
    BY <2>3, TailAssumption DEF End
  <2>5. \A k \in 1..End(Start) : k < Start + 1 => <<spool.file, k>> \in imported
    BY <2>3, <2>4 DEF SpoolIsNotSkipped
  <2>6. TailerInv(t)'
    BY <2>1, <2>2, <2>3, <2>4, <2>5 DEF TailerInv
  <2>7. \A u \in Tailers \ {t} : TailerInv(u)'
    BY <2>1, <2>2 DEF TailerInv
  <2> QED
    BY <2>1, <2>2, <2>6, <2>7 DEF CursorInv
<1>3. ASSUME NEW t \in Tailers, ImportRecord(t)
      PROVE  TailInv'
  <2>1. /\ tail[t].pc = "importing" /\ tail[t].next <= tail[t].end
        /\ tail' = [tail EXCEPT ![t].next = @ + 1]
        /\ UNCHANGED <<spool, tailCursor>>
    BY <1>3 DEF ImportRecord
  <2>2. /\ DOMAIN tail[t] = {"pc", "file", "next", "end", "whole"}
        /\ {tail[t].file, tail[t].next, tail[t].end, tail[t].whole} \subseteq Nat
        /\ tail[t].end <= tail[t].whole
        /\ \A k \in 1..tail[t].end : k < tail[t].next => <<tail[t].file, k>> \in imported
    BY <2>1 DEF TailerInv
  <2>3. imported' = imported \cup {<<tail[t].file, tail[t].next>>}
    BY <1>3, <2>1, <2>2 DEF ImportRecord
  <2>4. /\ DOMAIN tail' = Tailers
        /\ tail'[t] = [tail[t] EXCEPT !.next = tail[t].next + 1]
        /\ \A u \in Tailers \ {t} : tail'[u] = tail[u]
    BY <2>1
  <2>5. /\ DOMAIN tail'[t] = {"pc", "file", "next", "end", "whole"}
        /\ tail'[t].file = tail[t].file /\ tail'[t].next = tail[t].next + 1
        /\ tail'[t].end = tail[t].end /\ tail'[t].whole = tail[t].whole
    BY <2>2, <2>4
  <2>6. TailerInv(t)'
    BY <2>2, <2>3, <2>5 DEF TailerInv
  <2>7. \A u \in Tailers \ {t} : TailerInv(u)'
    BY <2>3, <2>4 DEF TailerInv
  <2>8. CursorInv'
    BY <2>1, <2>3 DEF CursorInv
  <2> QED
    BY <2>1, <2>4, <2>6, <2>7, <2>8
<1>4. ASSUME NEW t \in Tailers, SaveTailCursor(t) \/ TailFails(t)
      PROVE  TailInv'
  <2>1. /\ tail[t].pc = "importing"
        /\ tail' = [tail EXCEPT ![t] = Resting]
        /\ UNCHANGED <<spool, imported>>
    BY <1>4 DEF SaveTailCursor, TailFails
  <2>2. \A u \in Tailers : TailerInv(u)'
    BY <2>1 DEF TailerInv, Resting
  <2>3. CursorInv'
    <3>1. CASE UNCHANGED tailCursor
      BY <3>1, <2>1 DEF CursorInv
    <3>2. CASE SaveTailCursor(t)
      <4>1. /\ tail[t].next > tail[t].end
            /\ tailCursor' = [file |-> tail[t].file, offset |-> tail[t].end]
        BY <3>2 DEF SaveTailCursor
      <4> QED
        BY <4>1, <2>1 DEF CursorInv, TailerInv
    <3> QED
      BY <1>4, <3>1, <3>2 DEF TailFails
  <2> QED
    BY <2>1, <2>2, <2>3
<1>5. CASE UNCHANGED tailVars
  BY <1>5 DEF tailVars, CursorInv, TailerInv
<1> QED
  BY <1>1, <1>2, <1>3, <1>4, <1>5 DEF TailNext

(* No line is passed over, whatever the order of two tailers, a death      *)
(* before the cursor is renamed and a spool that is replaced               *)
(* (readSpoolBatch, saveTailCursor).                                       *)
THEOREM SpoolIsRead == TailSpec => []SpoolIsNotSkipped
<1>1. TailInit => TailInv
  BY DEF TailInit, TailInv, CursorInv, TailerInv, Resting
<1>2. TailInv /\ [TailNext]_tailVars => TailInv'
  BY TailStep, TailAssumption
<1>3. TailInv => SpoolIsNotSkipped
  BY StartIsImported
<1> QED
  BY <1>1, <1>2, <1>3, PTL DEF TailSpec
-----------------------------------------------------------------------------
(* The update check: the release in the file was at the server.            *)
ReleaseInv ==
    /\ DOMAIN saved = {"optedOut", "latest", "dismissed", "remindAfter", "checkedAt"}
    /\ saved.latest \in Nat /\ released \in Nat /\ clock \in Nat
    /\ saved.latest <= released

(* A step of the server, the clock, a check or the user keeps it.          *)
LEMMA ReleaseStep ==
    ASSUME ReleaseInv, [UpdateNext]_updateVars
    PROVE  ReleaseInv'
<1> USE DEF ReleaseInv
<1>1. CASE Publish \/ Tick \/ UNCHANGED updateVars
  BY <1>1 DEF Publish, Tick, updateVars
<1>2. CASE Choose
  BY <1>2 DEF Choose, SetOptOut, Remind, Dismiss
<1>3. ASSUME NEW k \in Checks, Answer(k)
      PROVE  ReleaseInv'
  BY <1>3 DEF Answer
<1>4. ASSUME NEW k \in Checks, NEW force \in BOOLEAN, AskServer(k, force)
      PROVE  ReleaseInv'
  BY <1>4 DEF AskServer
<1> QED
  BY <1>1, <1>2, <1>3, <1>4 DEF UpdateNext

(* A choice made while a check waits for its answer outlives the answer    *)
(* (Check loads the state again before it saves).                          *)
THEOREM ChoicesOutliveChecks == UpdateSpec => ChoicesAreKept
<1> DEFINE Kept == ~UpdateAvailable /\ UpdateAvailable' =>
                      \/ saved'.optedOut # saved.optedOut /\ check' = check
                      \/ saved'.latest > saved.latest
                      \/ clock' > clock
<1>1. UpdateInit => ReleaseInv
  BY UpdateAssumption DEF UpdateInit, ReleaseInv, NoCheck
<1>2. ASSUME ReleaseInv, [UpdateNext]_updateVars
      PROVE  [Kept]_updateVars
  <2> USE <1>2 DEF ReleaseInv
  <2>1. CASE UNCHANGED <<saved, clock>>
    BY <2>1 DEF UpdateAvailable
  <2>2. CASE Tick
    BY <2>2 DEF Tick
  <2>3. ASSUME NEW out \in BOOLEAN, SetOptOut(out)
        PROVE  Kept
    <3>1. /\ saved'.latest = saved.latest /\ saved'.dismissed = saved.dismissed
          /\ saved'.remindAfter = saved.remindAfter /\ clock' = clock /\ check' = check
      BY <2>3 DEF SetOptOut
    <3> QED
      BY <3>1 DEF UpdateAvailable
  <2>4. ASSUME NEW shown, Remind(shown)
        PROVE  Kept
    <3>1. saved'.remindAfter = clock + 1 /\ clock' = clock
      BY <2>4 DEF Remind
    <3>2. ~UpdateAvailable'
      BY <3>1 DEF UpdateAvailable, Never
    <3> QED
      BY <3>2
  <2>5. ASSUME NEW shown, Dismiss(shown)
        PROVE  Kept
    <3>1. saved'.latest = saved.latest /\ saved'.dismissed = saved.latest
      BY <2>5 DEF Dismiss
    <3> QED
      BY <3>1 DEF UpdateAvailable
  <2>6. ASSUME NEW k \in Checks, Answer(k)
        PROVE  Kept
    <3>1. /\ saved'.optedOut = saved.optedOut /\ saved'.dismissed = saved.dismissed
          /\ saved'.remindAfter = saved.remindAfter /\ clock' = clock
          /\ saved'.latest \in {saved.latest, released}
      BY <2>6 DEF Answer
    <3>2. CASE saved'.latest = saved.latest
      BY <3>1, <3>2 DEF UpdateAvailable
    <3>3. CASE saved'.latest # saved.latest
      BY <3>1, <3>3
    <3> QED
      BY <3>2, <3>3
  <2> QED
    BY <2>1, <2>2, <2>3, <2>4, <2>5, <2>6
       DEF UpdateNext, updateVars, Publish, Choose, AskServer
<1>3. ReleaseInv /\ [UpdateNext]_updateVars => ReleaseInv'
  BY ReleaseStep
<1> QED
  BY <1>1, <1>2, <1>3, PTL DEF UpdateSpec, ChoicesAreKept
-----------------------------------------------------------------------------
(* The MCP registries: whatever a command has read as Belay's own is the   *)
(* identity of a build.                                                    *)
Identities == Builds \cup {None}

Manifest == [state : {"missing", "invalid", "valid"}, owned : [Targets -> Identities]]

HeldInv(c) ==
    /\ DOMAIN command[c] = {"pc", "action", "id", "allow", "manifest", "changed",
                            "todo", "at"}
    /\ command[c].id \in Identities
    /\ command[c].manifest \in Manifest

ConfigInv ==
    /\ edits \in Nat
    /\ DOMAIN entry = Targets
    /\ manifest \in Manifest
    /\ DOMAIN command = Commands
    /\ \A c \in Commands : HeldInv(c)

(* No entry is recorded that a build would not write.                      *)
LEMMA RecordedIsOurs ==
    ASSUME ConfigAssumption, NEW m \in Manifest, NEW t \in Targets
    PROVE  Recorded(m, t) \in Identities /\ Foreign \notin Identities
BY DEF ConfigAssumption, Recorded, Manifest, Identities, Foreign, None

(* One command moves; what it holds stays of builds.                       *)
LEMMA CommandMoves ==
    ASSUME ConfigInv, NEW c \in Commands,
           DOMAIN command' = Commands,
           \A d \in Commands \ {c} : command'[d] = command[d],
           DOMAIN command'[c] = DOMAIN command[c],
           command'[c].id \in Identities, command'[c].manifest \in Manifest,
           edits' = edits, DOMAIN entry' = Targets, manifest' \in Manifest
    PROVE  ConfigInv'
<1>1. HeldInv(c)'
  BY DEF ConfigInv, HeldInv
<1>2. \A d \in Commands \ {c} : HeldInv(d)'
  BY DEF ConfigInv, HeldInv
<1> QED
  BY <1>1, <1>2 DEF ConfigInv

(* Moving on, and recording an identity in memory.                         *)
LEMMA MemoryMoves ==
    ASSUME ConfigInv, NEW c \in Commands, edits' = edits, DOMAIN entry' = Targets,
           UNCHANGED manifest,
           \/ \E pc : MoveTo(c, pc)
           \/ \E id \in Identities : Record(c, id)
    PROVE  ConfigInv'
<1>1. HeldInv(c) /\ DOMAIN command = Commands /\ manifest \in Manifest
  BY DEF ConfigInv
<1>2. ASSUME NEW pc, MoveTo(c, pc)
      PROVE  ConfigInv'
  <2>1. /\ DOMAIN command' = Commands
        /\ \A d \in Commands \ {c} : command'[d] = command[d]
        /\ command'[c] = [command[c] EXCEPT !.pc = pc]
    BY <1>1, <1>2 DEF MoveTo
  <2>2. /\ DOMAIN command'[c] = DOMAIN command[c]
        /\ command'[c].id = command[c].id /\ command'[c].manifest = command[c].manifest
    BY <2>1, <1>1 DEF HeldInv
  <2> QED
    BY <2>1, <2>2, <1>1, CommandMoves DEF HeldInv
<1>3. ASSUME NEW id \in Identities, Record(c, id)
      PROVE  ConfigInv'
  <2> DEFINE held == command[c].manifest
             new == [held EXCEPT !.owned = [held.owned EXCEPT ![command[c].at] = id]]
  <2>1. /\ DOMAIN command' = Commands
        /\ \A d \in Commands \ {c} : command'[d] = command[d]
        /\ command'[c] = [command[c] EXCEPT !.pc = "targets", !.changed = TRUE,
                                            !.manifest.owned[command[c].at] = id]
    BY <1>1, <1>3 DEF Record
  <2>2. /\ DOMAIN command'[c] = DOMAIN command[c]
        /\ command'[c].id = command[c].id /\ command'[c].manifest = new
    BY <2>1, <1>1 DEF HeldInv
  <2>3. held \in Manifest
    BY <1>1 DEF HeldInv
  <2>4. [held.owned EXCEPT ![command[c].at] = id] \in [Targets -> Identities]
    BY <2>3 DEF Manifest
  <2>5. new \in Manifest
    BY <2>3, <2>4 DEF Manifest
  <2> HIDE DEF new
  <2> QED
    BY <2>1, <2>2, <2>5, <1>1, CommandMoves DEF HeldInv
<1> QED
  BY <1>2, <1>3

(* A command that is done, or dead, holds nothing.                         *)
LEMMA CommandEnds ==
    ASSUME ConfigInv, NEW c \in Commands, command' = [command EXCEPT ![c] = NoCommand],
           edits' = edits, DOMAIN entry' = Targets, manifest' \in Manifest
    PROVE  ConfigInv'
<1>1. Unowned \in Manifest
  BY DEF Unowned, Manifest, Identities
<1>2. /\ DOMAIN NoCommand = {"pc", "action", "id", "allow", "manifest", "changed",
                             "todo", "at"}
      /\ NoCommand.id \in Identities /\ NoCommand.manifest \in Manifest
  BY <1>1 DEF NoCommand, Identities
<1>3. /\ DOMAIN command' = Commands /\ command'[c] = NoCommand
      /\ \A d \in Commands \ {c} : command'[d] = command[d]
      /\ DOMAIN command[c] = DOMAIN NoCommand
  BY <1>2 DEF ConfigInv, HeldInv
<1> HIDE DEF NoCommand
<1> QED
  BY <1>2, <1>3, CommandMoves

(* Every step of a command or of the user keeps the invariant.             *)
LEMMA ConfigStep ==
    ASSUME ConfigAssumption, ConfigInv, [MCPNext]_mcpVars
    PROVE  ConfigInv'
<1>1. ASSUME NEW t \in Targets, Edit(t)
      PROVE  ConfigInv'
  <2>1. UNCHANGED <<manifest, command>> /\ edits' = edits + 1 /\ DOMAIN entry' = Targets
    BY <1>1 DEF Edit, ConfigInv
  <2> QED
    BY <2>1 DEF ConfigInv, HeldInv
<1>2. CASE UNCHANGED mcpVars
  BY <1>2 DEF mcpVars, ConfigInv, HeldInv
<1>3. ASSUME NEW c \in Commands,
             \/ Begin(c) \/ Lock(c) \/ LockTimeout(c)
             \/ \E t \in Targets : StatusTarget(c, t)
             \/ Recheck(c) \/ Remove(c) \/ Removed(c) \/ Add(c) \/ Refused(c) \/ Verify(c)
             \/ InspectionFails(c) \/ WriteManifest(c) \/ Die(c)
      PROVE  ConfigInv'
  <2>1. edits' = edits
    BY <1>3 DEF Begin, Lock, LockTimeout, StatusTarget, Recheck, Remove, Removed, Add,
       Refused, Verify, InspectionFails, WriteManifest, Die
  <2>2. /\ HeldInv(c) /\ DOMAIN command = Commands /\ DOMAIN entry = Targets
        /\ manifest \in Manifest
    BY DEF ConfigInv
  <2>3. CASE Begin(c)
    <3>1. PICK action \in {"install", "uninstall"}, id \in Builds, allow \in BOOLEAN :
              command' = [command EXCEPT ![c] =
                  [NoCommand EXCEPT !.pc = "waiting", !.action = action, !.id = id,
                                    !.allow = allow, !.manifest = manifest]]
      BY <2>3 DEF Begin
    <3>2. /\ DOMAIN command' = Commands
          /\ \A d \in Commands \ {c} : command'[d] = command[d]
          /\ command'[c] = [NoCommand EXCEPT !.pc = "waiting", !.action = action, !.id = id,
                                             !.allow = allow, !.manifest = manifest]
      BY <3>1, <2>2
    <3>3. /\ DOMAIN command'[c] = DOMAIN command[c]
          /\ command'[c].id = id /\ command'[c].manifest = manifest
      BY <3>2, <2>2 DEF NoCommand, HeldInv
    <3> QED
      BY <3>2, <3>3, <2>1, <2>2, <2>3, CommandMoves DEF Begin, Identities
  <2>4. CASE Lock(c) \/ \E t \in Targets : StatusTarget(c, t)
    <3>1. /\ DOMAIN command' = Commands
          /\ \A d \in Commands \ {c} : command'[d] = command[d]
          /\ UNCHANGED <<entry, manifest>>
      BY <2>2, <2>4 DEF Lock, StatusTarget
    <3>2. /\ DOMAIN command'[c] = DOMAIN command[c]
          /\ command'[c].id = command[c].id
          /\ command'[c].manifest \in {command[c].manifest, manifest}
      <4>1. CASE Lock(c)
        <5>1. command'[c] = [command[c] EXCEPT !.pc = "targets", !.todo = Targets,
                                               !.manifest = manifest]
          BY <2>2, <4>1 DEF Lock
        <5> QED
          BY <5>1, <2>2 DEF HeldInv
      <4>2. ASSUME NEW t \in Targets, StatusTarget(c, t)
            PROVE  /\ DOMAIN command'[c] = DOMAIN command[c]
                   /\ command'[c].id = command[c].id
                   /\ command'[c].manifest = command[c].manifest
        <5>1. PICK pc, todo : command'[c] = [command[c] EXCEPT !.pc = pc, !.at = t,
                                                               !.todo = todo]
          BY <2>2, <4>2 DEF StatusTarget
        <5> QED
          BY <5>1, <2>2 DEF HeldInv
      <4> QED
        BY <2>4, <4>1, <4>2
    <3> QED
      BY <3>1, <3>2, <2>1, <2>2, CommandMoves DEF HeldInv
  <2>5. CASE LockTimeout(c) \/ Die(c)
    BY <2>1, <2>2, <2>5, CommandEnds DEF LockTimeout, Die
  <2>6. CASE WriteManifest(c)
    <3>1. manifest' \in {manifest, [command[c].manifest EXCEPT !.state = "valid"]}
      BY <2>6 DEF WriteManifest
    <3>2. manifest' \in Manifest
      BY <3>1, <2>2 DEF HeldInv, Manifest
    <3> QED
      BY <3>2, <2>1, <2>2, <2>6, CommandEnds DEF WriteManifest
  <2>7. CASE Recheck(c) \/ Remove(c) \/ Add(c) \/ Refused(c) \/ InspectionFails(c)
    <3>1. DOMAIN entry' = Targets /\ UNCHANGED manifest
      BY <2>2, <2>7 DEF Recheck, Remove, Add, Refused, InspectionFails
    <3>2. \E pc : MoveTo(c, pc)
      BY <2>7 DEF Recheck, Remove, Add, Refused, InspectionFails, NextTarget
    <3> QED
      BY <3>1, <3>2, <2>1, MemoryMoves
  <2>8. CASE Removed(c) \/ Verify(c)
    <3>1. DOMAIN entry' = Targets /\ UNCHANGED manifest
      BY <2>2, <2>8 DEF Removed, Verify
    <3>2. (\E pc : MoveTo(c, pc)) \/ Record(c, None) \/ Record(c, command[c].id)
      BY <2>8 DEF Removed, Verify, NextTarget
    <3>3. None \in Identities /\ command[c].id \in Identities
      BY <2>2 DEF HeldInv, Identities
    <3> QED
      BY <3>1, <3>2, <3>3, <2>1, MemoryMoves
  <2> QED
    BY <1>3, <2>3, <2>4, <2>5, <2>6, <2>7, <2>8
<1> QED
  BY <1>1, <1>2, <1>3 DEF MCPNext

(* In a registry that Belay writes itself, no command of any build ever    *)
(* writes over an entry that is not Belay's: it verifies the entry with    *)
(* the identity it holds when it writes, and an identity it holds is a     *)
(* build's (mcp_config_file.go:168-170, 213-216).                          *)
THEOREM ForeignSurvives == MCPSpec => ForeignIsPreserved
<1> DEFINE Kept == edits' = edits =>
                       \A t \in FileTargets : entry[t] = Foreign => entry'[t] = Foreign
<1>1. MCPInit => ConfigInv
  <2> SUFFICES ASSUME MCPInit PROVE ConfigInv
    OBVIOUS
  <2>1. Unowned \in Manifest
    BY DEF Unowned, Manifest, Identities
  <2>2. manifest \in Manifest
    BY <2>1 DEF MCPInit, Manifest
  <2>3. /\ DOMAIN NoCommand = {"pc", "action", "id", "allow", "manifest", "changed",
                               "todo", "at"}
        /\ NoCommand.id \in Identities /\ NoCommand.manifest \in Manifest
    BY <2>1 DEF NoCommand, Identities
  <2> HIDE DEF NoCommand
  <2> QED
    BY <2>2, <2>3 DEF MCPInit, ConfigInv, HeldInv
<1>2. ASSUME ConfigInv, [MCPNext]_mcpVars
      PROVE  [Kept]_mcpVars
  <2>1. ASSUME NEW t \in Targets, Edit(t)
        PROVE  edits' # edits
    BY <1>2, <2>1 DEF Edit, ConfigInv
  <2>2. ASSUME NEW c \in Commands, Remove(c), NEW t \in FileTargets, entry[t] = Foreign
        PROVE  entry'[t] = Foreign
    <3>1. t \in Targets /\ DOMAIN entry = Targets
      BY <1>2 DEF Targets, ConfigInv
    <3>2. CASE command[c].at = t
      <4>1. entry[t] \in {None, Recorded(command[c].manifest, t)} \cup {command[c].id}
        BY <2>2, <3>2 DEF Remove, Removable
      <4>2. command[c].id \in Identities /\ command[c].manifest \in Manifest
        BY <1>2 DEF ConfigInv, HeldInv
      <4> QED
        BY <4>1, <4>2, <2>2, <3>1, ConfigAssumption, RecordedIsOurs DEF Identities
    <3>3. CASE command[c].at # t
      BY <3>1, <3>3, <2>2 DEF Remove
    <3> QED
      BY <3>2, <3>3
  <2>3. ASSUME NEW c \in Commands, Add(c), NEW t \in FileTargets, entry[t] = Foreign
        PROVE  entry'[t] = Foreign
    <3>1. t \in Targets /\ DOMAIN entry = Targets
      BY <1>2 DEF Targets, ConfigInv
    <3>2. CASE command[c].at = t
      <4>1. entry[t] \in {None, Added(c)}
        BY <2>3, <3>2, ConfigAssumption DEF Add, ConfigAssumption
      <4>2. command[c].id \in Identities /\ command[c].manifest \in Manifest
        BY <1>2 DEF ConfigInv, HeldInv
      <4>3. Added(c) \in Identities
        BY <4>2, <3>1, <3>2, ConfigAssumption, RecordedIsOurs DEF Added
      <4> QED
        BY <4>1, <4>3, <2>3, <3>1, <4>2, ConfigAssumption, RecordedIsOurs DEF Identities
    <3>3. CASE command[c].at # t
      BY <3>1, <3>3, <2>3 DEF Add
    <3> QED
      BY <3>2, <3>3
  <2>4. CASE UNCHANGED entry
    BY <2>4
  <2> QED
    BY <1>2, <2>1, <2>2, <2>3, <2>4 DEF MCPNext, mcpVars, Begin, Lock, LockTimeout,
       StatusTarget, Recheck, Removed, Refused, Verify, InspectionFails, WriteManifest, Die
<1>3. ConfigInv /\ [MCPNext]_mcpVars => ConfigInv'
  BY ConfigStep, ConfigAssumption
<1> QED
  BY <1>1, <1>2, <1>3, PTL DEF MCPSpec, ForeignIsPreserved

-----------------------------------------------------------------------------
(* The ownership manifest and the entries.                                 *)

(* Where a command is once it has inspected a target, and where only an    *)
(* install comes.                                                          *)
Installing == {"add", "added", "replace", "replaced", "restore"}
AtTarget == {"recheck", "remove", "removed"} \cup Installing

(* A command that runs does so for a build; one that waits changed nothing.*)
CommandInv(c) ==
    /\ command[c].pc # "idle" =>
          command[c].id \in Builds /\ command[c].action \in {"install", "uninstall"}
    /\ command[c].pc = "waiting" => ~command[c].changed

(* What the command with the lock holds started as what the file says: it  *)
(* is the file until the command records something, and of targets not yet *)
(* done it is what the file says.                                          *)
WorkInv(c) ==
    LET held == command[c].manifest
        t == command[c].at
    IN  /\ command[c].pc \in {"targets"} \cup AtTarget
        /\ held.state = manifest.state
        /\ ~command[c].changed => held = manifest
        /\ command[c].todo \subseteq Targets
        /\ \A x \in command[c].todo : held.owned[x] = Recorded(held, x)
        /\ command[c].pc \in AtTarget =>
              t \in Targets /\ t \notin command[c].todo /\ held.owned[t] = Recorded(held, t)
        /\ command[c].pc \in Installing => command[c].action = "install"

LockInv ==
    /\ refusals \in Nat
    /\ mishaps \in Nat
    /\ manifest.state # "valid" => \A t \in Targets : manifest.owned[t] = None
    /\ \A c, d \in Commands : Locked(c) /\ Locked(d) => c = d
    /\ \A c \in Commands : CommandInv(c)
    /\ \A c \in Commands : Locked(c) => WorkInv(c)

(* The cases in which the manifest is promised to be right.                *)
Calm == mishaps = 0 /\ edits = 0 /\ refusals <= 1 /\ manifest.state # "invalid"

(* An entry is recorded when it is a build's, and only then.               *)
Agree(m, t) == entry[t] \in Builds \/ m.owned[t] # None => entry[t] = m.owned[t]

(* The target a command is at, from phase to phase: an update that lost    *)
(* its entry still knows the one to put back, and was refused once.        *)
TargetInv(c) ==
    LET prior == command[c].manifest.owned[command[c].at]
        now == entry[command[c].at]
    IN  /\ command[c].pc \in {"recheck", "remove"} => prior \in Builds /\ now = prior
        /\ command[c].pc = "removed" => prior \in Builds /\ now \in {None, prior}
        /\ command[c].pc = "replace" => prior \in Builds /\ now = None
        /\ command[c].pc = "replaced" =>
              prior \in Builds /\ (now = command[c].id \/ (now = None /\ refusals = 1))
        /\ command[c].pc = "restore" => prior \in Builds /\ now = None /\ refusals = 1
        /\ command[c].pc = "add" => prior = None /\ now = None
        /\ command[c].pc = "added" => prior = None /\ now \in {None, command[c].id}

AgreeInv(c) ==
    /\ command[c].changed => command[c].action = "install" \/ command[c].manifest.state = "valid"
    /\ \A t \in Targets : command[c].pc = "targets" \/ t # command[c].at =>
          Agree(command[c].manifest, t)
    /\ TargetInv(c)

OwnedInv ==
    Calm => /\ (\A c \in Commands : ~Locked(c)) => \A t \in Targets : Agree(manifest, t)
            /\ \A c \in Commands : Locked(c) => AgreeInv(c)

(* What MoveTo and recordManifestIdentity leave of a command.              *)
LEMMA MovedFields ==
    ASSUME ConfigInv, NEW c \in Commands, NEW pc, MoveTo(c, pc)
    PROVE  /\ command'[c].pc = pc
           /\ command'[c].id = command[c].id /\ command'[c].action = command[c].action
           /\ command'[c].manifest = command[c].manifest
           /\ command'[c].changed = command[c].changed
           /\ command'[c].todo = command[c].todo /\ command'[c].at = command[c].at
           /\ \A d \in Commands \ {c} : command'[d] = command[d]
<1>1. HeldInv(c) /\ DOMAIN command = Commands
  BY DEF ConfigInv
<1>2. command'[c] = [command[c] EXCEPT !.pc = pc]
  BY <1>1 DEF MoveTo
<1> QED
  BY <1>1, <1>2 DEF MoveTo, HeldInv

LEMMA RecordedFields ==
    ASSUME ConfigInv, NEW c \in Commands, NEW id \in Identities, Record(c, id),
           command[c].at \in Targets
    PROVE  /\ command'[c].pc = "targets" /\ command'[c].changed
           /\ command'[c].id = command[c].id /\ command'[c].action = command[c].action
           /\ command'[c].manifest.state = command[c].manifest.state
           /\ command'[c].manifest.owned[command[c].at] = id
           /\ \A t \in Targets \ {command[c].at} :
                 command'[c].manifest.owned[t] = command[c].manifest.owned[t]
           /\ command'[c].todo = command[c].todo
           /\ \A d \in Commands \ {c} : command'[d] = command[d]
<1> DEFINE held == command[c].manifest
           new == [held EXCEPT !.owned = [held.owned EXCEPT ![command[c].at] = id]]
<1>1. HeldInv(c) /\ DOMAIN command = Commands /\ held \in Manifest
  BY DEF ConfigInv, HeldInv
<1>2. command'[c] = [command[c] EXCEPT !.pc = "targets", !.changed = TRUE,
                                       !.manifest.owned[command[c].at] = id]
  BY <1>1 DEF Record
<1>3. /\ command'[c].pc = "targets" /\ command'[c].changed
      /\ command'[c].id = command[c].id /\ command'[c].action = command[c].action
      /\ command'[c].todo = command[c].todo
      /\ command'[c].manifest = new
  BY <1>1, <1>2 DEF HeldInv
<1>4. new.state = held.state /\ new.owned = [held.owned EXCEPT ![command[c].at] = id]
  BY <1>1 DEF Manifest
<1>5. /\ new.owned[command[c].at] = id
      /\ \A t \in Targets \ {command[c].at} : new.owned[t] = held.owned[t]
  BY <1>1, <1>4 DEF Manifest
<1>6. \A d \in Commands \ {c} : command'[d] = command[d]
  BY <1>1 DEF Record
<1> HIDE DEF new
<1> QED
  BY <1>3, <1>4, <1>5, <1>6

(* The command with the lock moves on, and the file stays.                 *)
LEMMA WorkMoves ==
    ASSUME LockInv, OwnedInv, NEW c \in Commands, Locked(c), Locked(c)',
           \A d \in Commands \ {c} : command'[d] = command[d],
           UNCHANGED <<manifest, edits>>,
           refusals' \in Nat, refusals <= refusals', mishaps' \in Nat, mishaps <= mishaps',
           CommandInv(c)', WorkInv(c)', Calm' => AgreeInv(c)'
    PROVE  LockInv' /\ OwnedInv'
<1>1. ASSUME NEW d \in Commands \ {c}
      PROVE  ~Locked(d) /\ ~Locked(d)' /\ CommandInv(d)'
  BY DEF LockInv, Locked, CommandInv
<1>2. LockInv'
  BY <1>1 DEF LockInv
<1>3. OwnedInv'
  BY <1>1 DEF OwnedInv
<1> QED
  BY <1>2, <1>3

(* At a target: from one phase to another.                                 *)
LEMMA PhaseMoves ==
    ASSUME ConfigInv, LockInv, OwnedInv, NEW c \in Commands, command[c].pc \in AtTarget,
           NEW pc \in {"targets"} \cup AtTarget, MoveTo(c, pc),
           pc \in Installing => command[c].action = "install",
           UNCHANGED <<manifest, edits>>,
           refusals' \in Nat, refusals <= refusals', mishaps' \in Nat, mishaps <= mishaps',
           \A t \in Targets \ {command[c].at} : entry'[t] = entry[t],
           Calm' /\ AgreeInv(c) /\ WorkInv(c) =>
              /\ pc = "targets" => Agree(command[c].manifest, command[c].at)'
              /\ TargetInv(c)'
    PROVE  LockInv' /\ OwnedInv'
<1>1. Locked(c)
  BY DEF Locked, AtTarget, Installing
<1>2. CommandInv(c) /\ WorkInv(c)
  BY <1>1 DEF LockInv
<1>3. /\ command'[c].pc = pc
      /\ command'[c].id = command[c].id /\ command'[c].action = command[c].action
      /\ command'[c].manifest = command[c].manifest
      /\ command'[c].changed = command[c].changed
      /\ command'[c].todo = command[c].todo /\ command'[c].at = command[c].at
      /\ \A d \in Commands \ {c} : command'[d] = command[d]
  BY MovedFields
<1>4. Locked(c)' /\ pc # "idle" /\ pc # "waiting"
  BY <1>3 DEF Locked, AtTarget, Installing
<1>5. CommandInv(c)'
  BY <1>1, <1>2, <1>3, <1>4 DEF CommandInv, Locked
<1>6. WorkInv(c)'
  BY <1>2, <1>3 DEF WorkInv, Recorded
<1>7. ASSUME Calm'
      PROVE  AgreeInv(c)'
  <2>1. Calm
    BY <1>7 DEF Calm, LockInv
  <2>2. AgreeInv(c)
    BY <1>1, <2>1 DEF OwnedInv
  <2>3. command[c].pc # "targets"
    BY DEF AtTarget, Installing
  <2>4. ASSUME NEW t \in Targets, t # command[c].at
        PROVE  Agree(command[c].manifest, t)'
    <3>1. Agree(command[c].manifest, t) /\ entry'[t] = entry[t]
      BY <2>2, <2>4 DEF AgreeInv
    <3> QED
      BY <1>3, <3>1 DEF Agree
  <2>5. TargetInv(c)' /\ (pc = "targets" => Agree(command[c].manifest, command[c].at)')
    BY <1>2, <1>7, <2>2
  <2>6. ASSUME NEW t \in Targets, pc = "targets" \/ t # command[c].at
        PROVE  Agree(command[c].manifest, t)'
    BY <1>3, <2>4, <2>5, <2>6 DEF Agree
  <2> QED
    BY <1>3, <2>2, <2>5, <2>6 DEF AgreeInv, Agree
<1> QED
  BY <1>1, <1>3, <1>4, <1>5, <1>6, <1>7, WorkMoves

(* At a target: an identity is recorded that is the entry's.               *)
LEMMA RecordMoves ==
    ASSUME ConfigAssumption, ConfigInv, LockInv, OwnedInv, NEW c \in Commands,
           NEW id \in Identities, Record(c, id), command[c].pc \in AtTarget,
           UNCHANGED <<entry, manifest, edits, refusals, mishaps>>,
           entry[command[c].at] = id,
           command[c].action = "install" \/ command[c].pc = "removed"
    PROVE  LockInv' /\ OwnedInv'
<1>1. Locked(c) /\ command[c].pc # "targets"
  BY DEF Locked, AtTarget, Installing
<1>2. CommandInv(c) /\ WorkInv(c) /\ command[c].at \in Targets
  BY <1>1 DEF LockInv, WorkInv
<1>3. /\ command'[c].pc = "targets" /\ command'[c].changed
      /\ command'[c].id = command[c].id /\ command'[c].action = command[c].action
      /\ command'[c].manifest.state = command[c].manifest.state
      /\ command'[c].manifest.owned[command[c].at] = id
      /\ \A t \in Targets \ {command[c].at} :
            command'[c].manifest.owned[t] = command[c].manifest.owned[t]
      /\ command'[c].todo = command[c].todo
      /\ \A d \in Commands \ {c} : command'[d] = command[d]
  BY <1>2, RecordedFields
<1>4. Locked(c)'
  BY <1>3 DEF Locked
<1>5. CommandInv(c)'
  BY <1>1, <1>2, <1>3 DEF CommandInv, Locked
<1>6. WorkInv(c)'
  <2>1. \A x \in command'[c].todo : Recorded(command[c].manifest, x)
                                      = Recorded(command'[c].manifest, x)
    BY <1>2, <1>3 DEF WorkInv, Recorded
  <2> QED
    BY <1>2, <1>3, <2>1 DEF WorkInv, AtTarget, Installing, Recorded
<1>7. ASSUME Calm'
      PROVE  AgreeInv(c)'
  <2>1. Calm
    BY <1>7 DEF Calm
  <2>2. AgreeInv(c)
    BY <1>1, <2>1 DEF OwnedInv
  <2>3. command[c].action = "install" \/ command[c].manifest.state = "valid"
    BY <1>2, <2>2, ConfigAssumption
       DEF AgreeInv, TargetInv, WorkInv, Recorded, ConfigAssumption
  <2>4. ASSUME NEW t \in Targets
        PROVE  Agree(command[c].manifest, t)'
    <3>1. CASE t = command[c].at
      BY <1>3, <3>1 DEF Agree
    <3>2. CASE t # command[c].at
      BY <1>1, <1>3, <2>2, <3>2 DEF AgreeInv, Agree
    <3> QED
      BY <3>1, <3>2
  <2>5. TargetInv(c)'
    BY <1>3 DEF TargetInv
  <2> QED
    BY <1>3, <2>3, <2>4, <2>5 DEF AgreeInv
<1> QED
  BY <1>1, <1>3, <1>4, <1>5, <1>6, <1>7, WorkMoves DEF LockInv

(* What classifyMCPOwnership tells of an entry.                            *)
LEMMA OwnershipMeans ==
    ASSUME ConfigAssumption, NEW m, NEW t \in Targets, NEW id \in Builds
    PROVE  /\ Ownership(m, t, id) = "absent" => entry[t] = None
           /\ Ownership(m, t, id) = "current" => entry[t] = id
           /\ Ownership(m, t, id) = "recognized" => entry[t] # None /\ entry[t] = Recorded(m, t)
<1>1. id # None
  BY DEF ConfigAssumption
<1>2. CASE entry[t] = None
  BY <1>1, <1>2 DEF Ownership
<1>3. CASE entry[t] = id
  BY <1>1, <1>3 DEF Ownership
<1>4. CASE entry[t] \notin {None, id} /\ entry[t] = Recorded(m, t)
  BY <1>4 DEF Ownership
<1>5. CASE entry[t] \notin {None, id, Recorded(m, t)}
  BY <1>5 DEF Ownership
<1> QED
  BY <1>2, <1>3, <1>4, <1>5

(* The first inspection of a target.                                       *)
LEMMA StatusKept ==
    ASSUME ConfigAssumption, ConfigInv, LockInv, OwnedInv, NEW c \in Commands,
           NEW t \in Targets, StatusTarget(c, t)
    PROVE  LockInv' /\ OwnedInv'
<1> DEFINE own == Ownership(command[c].manifest, t, command[c].id)
           after == AfterStatus(c, t)
<1>1. Locked(c) /\ command[c].pc = "targets" /\ t \in command[c].todo
  BY DEF StatusTarget, Locked
<1>2. CommandInv(c) /\ WorkInv(c) /\ command[c].id \in Builds
  BY <1>1 DEF LockInv, CommandInv
<1>3. /\ command'[c].pc = after /\ command'[c].at = t
      /\ command'[c].id = command[c].id /\ command'[c].action = command[c].action
      /\ command'[c].manifest = command[c].manifest
      /\ command'[c].changed = command[c].changed
      /\ command'[c].todo = command[c].todo \ {t}
      /\ \A d \in Commands \ {c} : command'[d] = command[d]
  <2>1. HeldInv(c) /\ DOMAIN command = Commands
    BY DEF ConfigInv
  <2>2. command'[c] = [command[c] EXCEPT !.pc = after, !.at = t, !.todo = @ \ {t}]
    BY <2>1 DEF StatusTarget
  <2> HIDE DEF after
  <2> QED
    BY <2>1, <2>2 DEF StatusTarget, HeldInv
<1>4. /\ after \in {"targets", "recheck", "add"}
      /\ after = "add" => own = "absent" /\ command[c].action = "install"
      /\ after = "recheck" => own \in {"current", "recognized"}
  BY <1>1, <1>2 DEF AfterStatus, CommandInv
<1> HIDE DEF after
<1>5. Locked(c)'
  BY <1>3, <1>4 DEF Locked
<1>6. CommandInv(c)'
  BY <1>1, <1>2, <1>3, <1>4 DEF CommandInv
<1>7. WorkInv(c)'
  <2>1. /\ UNCHANGED manifest
        /\ command[c].manifest.state = manifest.state
        /\ ~command[c].changed => command[c].manifest = manifest
        /\ command[c].todo \subseteq Targets
        /\ \A x \in command[c].todo :
              command[c].manifest.owned[x] = Recorded(command[c].manifest, x)
    BY <1>2 DEF WorkInv, StatusTarget
  <2>2. command'[c].todo \subseteq command[c].todo /\ t \notin command'[c].todo
    BY <1>3
  <2> QED
    BY <1>1, <1>3, <1>4, <2>1, <2>2 DEF WorkInv, AtTarget, Installing, Recorded
<1>8. ASSUME Calm'
      PROVE  AgreeInv(c)'
  <2>1. Calm
    BY <1>8 DEF Calm, StatusTarget
  <2>2. AgreeInv(c)
    BY <1>1, <2>1 DEF OwnedInv
  <2>3. \A x \in Targets : Agree(command[c].manifest, x)
    BY <1>1, <2>2 DEF AgreeInv
  <2>4. \A x \in Targets : Agree(command[c].manifest, x)'
    BY <1>3, <2>3 DEF Agree, StatusTarget
  <2>5. command[c].manifest.owned[t] = Recorded(command[c].manifest, t)
    BY <1>1, <1>2 DEF WorkInv
  <2>6. command[c].manifest.owned[t] \in Builds \cup {None} /\ None \notin Builds
    BY ConfigAssumption DEF ConfigInv, HeldInv, Manifest, Identities, ConfigAssumption
  <2>7. CASE after = "recheck"
    <3>1. entry[t] \in Builds \/ command[c].manifest.owned[t] # None
      BY <1>2, <1>4, <2>5, <2>7, ConfigAssumption, OwnershipMeans
    <3>2. entry[t] = command[c].manifest.owned[t]
      BY <2>3, <3>1 DEF Agree
    <3>3. command[c].manifest.owned[t] \in Builds
      BY <2>6, <3>1, <3>2
    <3> QED
      BY <1>3, <2>2, <2>4, <2>7, <3>2, <3>3 DEF AgreeInv, TargetInv, StatusTarget
  <2>8. CASE after = "add"
    <3>1. entry[t] = None
      BY <1>2, <1>4, <2>8, ConfigAssumption, OwnershipMeans
    <3>2. command[c].manifest.owned[t] = None
      BY <2>3, <3>1 DEF Agree
    <3> QED
      BY <1>3, <2>2, <2>4, <2>8, <3>1, <3>2 DEF AgreeInv, TargetInv, StatusTarget
  <2>9. CASE after = "targets"
    BY <1>3, <2>2, <2>4, <2>9 DEF AgreeInv, TargetInv
  <2> QED
    BY <1>4, <2>7, <2>8, <2>9
<1> QED
  <2>1. /\ UNCHANGED <<manifest, edits, refusals, mishaps>>
        /\ refusals \in Nat /\ mishaps \in Nat
    BY DEF LockInv, StatusTarget
  <2> QED
    BY <1>1, <1>3, <1>5, <1>6, <1>7, <1>8, <2>1, WorkMoves

(* From one phase of a target to the next: the second inspection, what is  *)
(* done and what is looked at after it.                                    *)
LEMMA RecheckKept ==
    ASSUME ConfigInv, LockInv, OwnedInv, NEW c \in Commands, Recheck(c)
    PROVE  LockInv' /\ OwnedInv'
<1>1. PICK pc \in {"remove", "targets"} : MoveTo(c, pc)
  BY DEF Recheck
<1>2. /\ command[c].pc = "recheck" /\ UNCHANGED <<entry, manifest, edits, refusals, mishaps>>
      /\ refusals \in Nat /\ mishaps \in Nat
  BY DEF Recheck, LockInv
<1>3. command'[c].pc = pc /\ command'[c].manifest = command[c].manifest
      /\ command'[c].at = command[c].at
  BY <1>1, MovedFields
<1>4. AgreeInv(c) => (pc = "targets" => Agree(command[c].manifest, command[c].at)')
                     /\ TargetInv(c)'
  BY <1>2, <1>3 DEF AgreeInv, TargetInv, Agree
<1> QED
  BY <1>1, <1>2, <1>4, PhaseMoves DEF AtTarget, Installing

LEMMA RemoveKept ==
    ASSUME ConfigInv, LockInv, OwnedInv, NEW c \in Commands, Remove(c)
    PROVE  LockInv' /\ OwnedInv'
<1>1. /\ command[c].pc = "remove" /\ MoveTo(c, "removed")
      /\ entry' = [entry EXCEPT ![command[c].at] = None]
      /\ UNCHANGED <<manifest, edits, refusals, mishaps>>
      /\ refusals \in Nat /\ mishaps \in Nat /\ DOMAIN entry = Targets
  BY DEF Remove, LockInv, ConfigInv
<1>2. command'[c].pc = "removed" /\ command'[c].manifest = command[c].manifest
      /\ command'[c].at = command[c].at
  BY <1>1, MovedFields
<1>3. ASSUME AgreeInv(c), WorkInv(c)
      PROVE  TargetInv(c)'
  <2>1. command[c].at \in Targets
    BY <1>1, <1>3 DEF WorkInv, AtTarget
  <2> QED
    BY <1>1, <1>2, <1>3, <2>1 DEF AgreeInv, TargetInv
<1> QED
  BY <1>1, <1>3, PhaseMoves DEF AtTarget, Installing

LEMMA RemovedKept ==
    ASSUME ConfigAssumption, ConfigInv, LockInv, OwnedInv, NEW c \in Commands, Removed(c)
    PROVE  LockInv' /\ OwnedInv'
<1>1. /\ command[c].pc = "removed" /\ UNCHANGED <<entry, manifest, edits, refusals, mishaps>>
      /\ refusals \in Nat /\ mishaps \in Nat
  BY DEF Removed, LockInv
<1>2. CASE entry[command[c].at] # None /\ MoveTo(c, "targets")
  <2>1. command'[c].pc = "targets" /\ command'[c].manifest = command[c].manifest
        /\ command'[c].at = command[c].at
    BY <1>2, MovedFields
  <2>2. AgreeInv(c) => Agree(command[c].manifest, command[c].at)' /\ TargetInv(c)'
    BY <1>1, <1>2, <2>1 DEF AgreeInv, TargetInv, Agree
  <2> QED
    BY <1>1, <1>2, <2>2, PhaseMoves DEF AtTarget, Installing
<1>3. CASE /\ entry[command[c].at] = None /\ command[c].action = "install"
           /\ MoveTo(c, "replace")
  <2>1. command'[c].pc = "replace" /\ command'[c].manifest = command[c].manifest
        /\ command'[c].at = command[c].at
    BY <1>3, MovedFields
  <2>2. AgreeInv(c) => TargetInv(c)'
    BY <1>1, <1>3, <2>1 DEF AgreeInv, TargetInv
  <2> QED
    BY <1>1, <1>3, <2>2, PhaseMoves DEF AtTarget, Installing
<1>4. CASE entry[command[c].at] = None /\ Record(c, None)
  BY <1>1, <1>4, RecordMoves DEF AtTarget, Identities
<1> QED
  BY <1>2, <1>3, <1>4 DEF Removed, NextTarget

LEMMA AddKept ==
    ASSUME ConfigInv, LockInv, OwnedInv, NEW c \in Commands, Add(c)
    PROVE  LockInv' /\ OwnedInv'
<1>1. PICK pc : pc = AfterAdd[command[c].pc]
  OBVIOUS
<1>2. /\ command[c].pc \in Adding /\ MoveTo(c, pc)
      /\ entry' = [entry EXCEPT ![command[c].at] = Added(c)]
      /\ UNCHANGED <<manifest, edits, refusals, mishaps>>
      /\ refusals \in Nat /\ mishaps \in Nat /\ DOMAIN entry = Targets
  BY <1>1 DEF Add, LockInv, ConfigInv
<1>3. /\ command[c].pc = "add" => pc = "added"
      /\ command[c].pc = "replace" => pc = "replaced"
      /\ command[c].pc = "restore" => pc = "targets"
  BY <1>1 DEF AfterAdd, Adding
<1>4. command'[c].pc = pc /\ command'[c].manifest = command[c].manifest
      /\ command'[c].at = command[c].at /\ command'[c].id = command[c].id
  BY <1>2, MovedFields
<1>5. WorkInv(c) /\ command[c].action = "install"
  BY <1>2 DEF LockInv, Locked, Adding, WorkInv, Installing
<1>6. ASSUME AgreeInv(c), WorkInv(c)
      PROVE  /\ pc = "targets" => Agree(command[c].manifest, command[c].at)'
             /\ TargetInv(c)'
  <2>1. command[c].at \in Targets
        /\ command[c].manifest.owned[command[c].at] = Recorded(command[c].manifest, command[c].at)
    BY <1>2, <1>6 DEF WorkInv, AtTarget, Installing, Adding
  <2>2. entry'[command[c].at] = Added(c)
    BY <1>2, <2>1
  <2>3. CASE command[c].pc = "add"
    BY <1>3, <1>4, <1>6, <2>2, <2>3 DEF AgreeInv, TargetInv, Added
  <2>4. CASE command[c].pc = "replace"
    BY <1>3, <1>4, <1>6, <2>2, <2>4 DEF AgreeInv, TargetInv, Added
  <2>5. CASE command[c].pc = "restore"
    BY <1>3, <1>4, <2>1, <2>2, <2>5 DEF TargetInv, Added, Agree
  <2> QED
    BY <1>2, <2>3, <2>4, <2>5 DEF Adding
<1> QED
  <2>1. \A t \in Targets \ {command[c].at} : entry'[t] = entry[t]
    BY <1>2
  <2>2. command[c].pc \in AtTarget /\ pc \in {"targets"} \cup AtTarget
    BY <1>2, <1>3 DEF Adding, AtTarget, Installing
  <2> QED
    BY <1>2, <1>5, <1>6, <2>1, <2>2, PhaseMoves

LEMMA RefusedKept ==
    ASSUME ConfigInv, LockInv, OwnedInv, NEW c \in Commands, Refused(c)
    PROVE  LockInv' /\ OwnedInv'
<1>1. PICK pc : pc = IF command[c].pc = "remove" THEN "removed" ELSE AfterAdd[command[c].pc]
  OBVIOUS
<1>2. /\ command[c].pc \in Adding \cup {"remove"} /\ MoveTo(c, pc)
      /\ UNCHANGED <<entry, manifest, edits, mishaps>>
      /\ refusals \in Nat /\ mishaps \in Nat
      /\ refusals' \in {refusals, refusals + 1}
  BY <1>1 DEF Refused, LockInv
<1>3. /\ command[c].pc = "remove" => pc = "removed"
      /\ command[c].pc = "add" => pc = "added"
      /\ command[c].pc = "replace" => pc = "replaced"
      /\ command[c].pc = "restore" => pc = "targets"
  BY <1>1 DEF AfterAdd, Adding
<1>4. command'[c].pc = pc /\ command'[c].manifest = command[c].manifest
      /\ command'[c].at = command[c].at /\ command'[c].id = command[c].id
  BY <1>2, MovedFields
<1>5. command[c].pc \in Adding => command[c].action = "install"
  BY DEF LockInv, Locked, Adding, WorkInv, Installing
<1>6. command[c].pc \in {"replace", "restore"} /\ entry[command[c].at] = None
         => refusals' = refusals + 1
  BY DEF Refused, Adding
<1>7. ASSUME Calm', AgreeInv(c), WorkInv(c)
      PROVE  /\ pc = "targets" => Agree(command[c].manifest, command[c].at)'
             /\ TargetInv(c)'
  <2>1. refusals' <= 1
    BY <1>7 DEF Calm
  <2>2. CASE command[c].pc = "remove"
    BY <1>2, <1>3, <1>4, <1>7, <2>2 DEF AgreeInv, TargetInv
  <2>3. CASE command[c].pc = "add"
    BY <1>2, <1>3, <1>4, <1>7, <2>3 DEF AgreeInv, TargetInv
  <2>4. CASE command[c].pc = "replace"
    <3>1. command[c].manifest.owned[command[c].at] \in Builds /\ entry[command[c].at] = None
      BY <1>7, <2>4 DEF AgreeInv, TargetInv
    <3>2. refusals' = 1
      BY <1>2, <1>6, <2>1, <2>4, <3>1
    <3> QED
      BY <1>2, <1>3, <1>4, <2>4, <3>1, <3>2 DEF TargetInv
  <2>5. CASE command[c].pc = "restore"
    <3>1. entry[command[c].at] = None /\ refusals = 1
      BY <1>7, <2>5 DEF AgreeInv, TargetInv
    <3> QED
      BY <1>6, <2>1, <2>5, <3>1
  <2> QED
    BY <1>2, <2>2, <2>3, <2>4, <2>5 DEF Adding
<1> QED
  <2>1. command[c].pc \in AtTarget /\ pc \in {"targets"} \cup AtTarget
        /\ (pc \in Installing => command[c].action = "install")
    BY <1>2, <1>3, <1>5 DEF Adding, AtTarget, Installing
  <2>2. refusals' \in Nat /\ refusals <= refusals' /\ mishaps' \in Nat /\ mishaps <= mishaps'
    BY <1>2
  <2> QED
    BY <1>2, <1>7, <2>1, <2>2, PhaseMoves

LEMMA VerifyKept ==
    ASSUME ConfigAssumption, ConfigInv, LockInv, OwnedInv, NEW c \in Commands, Verify(c)
    PROVE  LockInv' /\ OwnedInv'
<1>1. /\ command[c].pc \in {"added", "replaced"}
      /\ UNCHANGED <<entry, manifest, edits, refusals, mishaps>>
      /\ refusals \in Nat /\ mishaps \in Nat
  BY DEF Verify, LockInv
<1>2. command[c].action = "install" /\ command[c].id \in Identities
  BY <1>1 DEF LockInv, Locked, WorkInv, Installing, ConfigInv, HeldInv
<1>3. CASE entry[command[c].at] = command[c].id /\ Record(c, command[c].id)
  <2>1. PICK id \in Identities : id = command[c].id
    BY <1>2
  <2> QED
    BY <1>1, <1>2, <1>3, <2>1, RecordMoves DEF AtTarget, Installing
<1>4. CASE /\ command[c].pc = "replaced" /\ entry[command[c].at] = None
           /\ entry[command[c].at] # command[c].id
           /\ MoveTo(c, "restore")
  <2>1. command'[c].pc = "restore" /\ command'[c].manifest = command[c].manifest
        /\ command'[c].at = command[c].at
    BY <1>4, MovedFields
  <2>2. AgreeInv(c) => TargetInv(c)'
    BY <1>1, <1>4, <2>1 DEF AgreeInv, TargetInv
  <2> QED
    BY <1>1, <1>2, <1>4, <2>2, PhaseMoves DEF AtTarget, Installing
<1>5. CASE /\ ~(command[c].pc = "replaced" /\ entry[command[c].at] = None)
           /\ entry[command[c].at] # command[c].id
           /\ MoveTo(c, "targets")
  <2>1. command'[c].pc = "targets" /\ command'[c].manifest = command[c].manifest
        /\ command'[c].at = command[c].at
    BY <1>5, MovedFields
  <2>2. None \notin Builds
    BY DEF ConfigAssumption
  <2>3. AgreeInv(c) => Agree(command[c].manifest, command[c].at)' /\ TargetInv(c)'
    BY <1>1, <1>5, <2>1, <2>2 DEF AgreeInv, TargetInv, Agree
  <2> QED
    BY <1>1, <1>5, <2>3, PhaseMoves DEF AtTarget, Installing
<1> QED
  BY <1>3, <1>4, <1>5 DEF Verify, NextTarget

LEMMA InspectionFailureKept ==
    ASSUME ConfigInv, LockInv, OwnedInv, NEW c \in Commands, InspectionFails(c)
    PROVE  LockInv' /\ OwnedInv'
<1>1. /\ command[c].pc \in AtTarget /\ MoveTo(c, "targets")
      /\ UNCHANGED <<entry, manifest, edits, refusals>>
      /\ refusals \in Nat /\ mishaps \in Nat /\ mishaps' = mishaps + 1
  BY DEF InspectionFails, LockInv, NextTarget, Mishap, AtTarget, Installing
<1>2. ~Calm'
  BY <1>1 DEF Calm
<1> QED
  BY <1>1, <1>2, PhaseMoves DEF AtTarget, Installing

(* A command without the lock comes or goes.                               *)
LEMMA WaitingKept ==
    ASSUME LockInv, OwnedInv, NEW c \in Commands, ~Locked(c), ~Locked(c)',
           \A d \in Commands \ {c} : command'[d] = command[d], CommandInv(c)',
           UNCHANGED <<entry, manifest, edits, refusals, mishaps>>
    PROVE  LockInv' /\ OwnedInv'
<1>1. ASSUME NEW d \in Commands \ {c}
      PROVE  /\ Locked(d)' = Locked(d)
             /\ CommandInv(d)'
             /\ Locked(d) => WorkInv(d)'
             /\ Locked(d) /\ AgreeInv(d) => AgreeInv(d)'
  <2>1. CommandInv(d) /\ (Locked(d) => WorkInv(d))
    BY DEF LockInv
  <2>2. command'[d] = command[d]
    OBVIOUS
  <2>3. Locked(d)' = Locked(d) /\ CommandInv(d)'
    BY <2>1, <2>2 DEF Locked, CommandInv
  <2>4. Locked(d) => WorkInv(d)'
    BY <2>1, <2>2 DEF WorkInv, Recorded
  <2>5. AgreeInv(d) => AgreeInv(d)'
    BY <2>2 DEF AgreeInv, TargetInv, Agree
  <2> QED
    BY <2>3, <2>4, <2>5
<1>2. LockInv'
  BY <1>1 DEF LockInv
<1>3. ASSUME Calm'
      PROVE  /\ (\A d \in Commands : ~Locked(d)') => \A t \in Targets : Agree(manifest, t)'
             /\ \A d \in Commands : Locked(d)' => AgreeInv(d)'
  <2>1. Calm
    BY <1>3 DEF Calm
  <2>2. (\A d \in Commands : ~Locked(d)') => \A d \in Commands : ~Locked(d)
    BY <1>1
  <2>3. \A t \in Targets : Agree(manifest, t) => Agree(manifest, t)'
    BY DEF Agree
  <2> QED
    BY <1>1, <2>1, <2>2, <2>3 DEF OwnedInv
<1> QED
  BY <1>2, <1>3 DEF OwnedInv

(* The command with the lock is done, or dead.                             *)
LEMMA ReleaseKept ==
    ASSUME ConfigInv, LockInv, NEW c \in Commands, Locked(c),
           command' = [command EXCEPT ![c] = NoCommand],
           manifest'.state # "valid" => \A t \in Targets : manifest'.owned[t] = None,
           refusals' \in Nat, mishaps' \in Nat,
           Calm' => \A t \in Targets : Agree(manifest, t)'
    PROVE  LockInv' /\ OwnedInv'
<1>1. command'[c].pc = "idle" /\ \A d \in Commands \ {c} : command'[d] = command[d]
  BY DEF ConfigInv, NoCommand
<1>2. ASSUME NEW d \in Commands
      PROVE  ~Locked(d)' /\ CommandInv(d)'
  <2>1. CASE d = c
    BY <1>1, <2>1 DEF Locked, CommandInv
  <2>2. CASE d # c
    BY <1>1, <2>2 DEF LockInv, Locked, CommandInv
  <2> QED
    BY <2>1, <2>2
<1> QED
  BY <1>2 DEF LockInv, OwnedInv

(* The lock is taken, and the manifest read again.                         *)
LEMMA LockKept ==
    ASSUME ConfigInv, LockInv, OwnedInv, NEW c \in Commands, Lock(c)
    PROVE  LockInv' /\ OwnedInv'
<1>1. /\ command[c].pc = "waiting" /\ \A d \in Commands : ~Locked(d)
      /\ UNCHANGED <<entry, manifest, edits, refusals, mishaps>>
      /\ CommandInv(c)
  BY DEF Lock, LockInv
<1>2. /\ command'[c].pc = "targets" /\ command'[c].todo = Targets
      /\ command'[c].manifest = manifest
      /\ command'[c].id = command[c].id /\ command'[c].action = command[c].action
      /\ command'[c].changed = command[c].changed
      /\ \A d \in Commands \ {c} : command'[d] = command[d]
  <2>1. HeldInv(c) /\ DOMAIN command = Commands
    BY DEF ConfigInv
  <2>2. command'[c] = [command[c] EXCEPT !.pc = "targets", !.todo = Targets,
                                         !.manifest = manifest]
    BY <2>1 DEF Lock
  <2> QED
    BY <2>1, <2>2 DEF Lock, HeldInv
<1>3. ASSUME NEW d \in Commands \ {c}
      PROVE  ~Locked(d)' /\ CommandInv(d)'
  BY <1>1, <1>2 DEF LockInv, Locked, CommandInv
<1>4. Locked(c)' /\ CommandInv(c)'
  BY <1>1, <1>2 DEF CommandInv, Locked
<1>5. WorkInv(c)'
  <2>1. \A t \in Targets : manifest.owned[t] = Recorded(manifest, t)
    BY DEF LockInv, Recorded
  <2> QED
    BY <1>1, <1>2, <2>1 DEF WorkInv, AtTarget, Installing, Recorded
<1>6. LockInv'
  BY <1>1, <1>3, <1>4, <1>5 DEF LockInv
<1>7. ASSUME Calm'
      PROVE  AgreeInv(c)'
  <2>1. \A t \in Targets : Agree(manifest, t)
    BY <1>1, <1>7 DEF OwnedInv, Calm
  <2>2. ~command'[c].changed
    BY <1>1, <1>2 DEF CommandInv
  <2>3. \A t \in Targets : Agree(command[c].manifest, t)'
    BY <1>1, <1>2, <2>1 DEF Agree
  <2> QED
    BY <1>2, <2>2, <2>3 DEF AgreeInv, TargetInv
<1> QED
  BY <1>3, <1>4, <1>6, <1>7 DEF OwnedInv

(* The manifest written is what the command recorded; one it may not write *)
(* has nothing to record.                                                  *)
LEMMA WriteKept ==
    ASSUME ConfigInv, LockInv, OwnedInv, NEW c \in Commands, WriteManifest(c)
    PROVE  LockInv' /\ OwnedInv'
<1>1. /\ command[c].pc = "targets" /\ command' = [command EXCEPT ![c] = NoCommand]
      /\ UNCHANGED <<entry, edits, refusals>>
      /\ refusals \in Nat /\ mishaps \in Nat
  BY DEF WriteManifest, LockInv
<1>2. Locked(c) /\ WorkInv(c)
  BY <1>1 DEF Locked, LockInv
<1>3. ASSUME Calm
      PROVE  AgreeInv(c) /\ \A t \in Targets : Agree(command[c].manifest, t)
  BY <1>1, <1>2, <1>3 DEF OwnedInv, AgreeInv
<1>4. CASE UNCHANGED manifest /\ mishaps' = mishaps + 1
  <2>1. ~Calm' /\ mishaps' \in Nat
    BY <1>1, <1>4 DEF Calm
  <2> QED
    BY <1>1, <1>2, <1>4, <2>1, ReleaseKept DEF LockInv
<1>5. CASE ~Writable(c) /\ UNCHANGED <<manifest, mishaps>>
  <2>1. ASSUME Calm'
        PROVE  \A t \in Targets : Agree(manifest, t)'
    <3>1. Calm
      BY <1>1, <1>5, <2>1 DEF Calm
    <3>2. ~command[c].changed
      BY <1>2, <1>3, <1>5, <3>1 DEF Writable, AgreeInv, WorkInv, Calm
    <3> QED
      BY <1>1, <1>2, <1>3, <1>5, <3>1, <3>2 DEF WorkInv, Agree
  <2> QED
    BY <1>1, <1>2, <1>5, <2>1, ReleaseKept DEF LockInv
<1>6. CASE /\ Writable(c) /\ UNCHANGED mishaps
           /\ manifest' = [command[c].manifest EXCEPT !.state = "valid"]
  <2>1. manifest'.state = "valid" /\ manifest'.owned = command[c].manifest.owned
    BY <1>6 DEF ConfigInv, HeldInv, Manifest
  <2>2. ASSUME Calm'
        PROVE  \A t \in Targets : Agree(manifest, t)'
    <3>1. Calm
      BY <1>1, <1>2, <1>6, <2>2 DEF Calm, Writable, WorkInv
    <3> QED
      BY <1>1, <1>3, <2>1, <3>1 DEF Agree
  <2> QED
    BY <1>1, <1>2, <1>6, <2>1, <2>2, ReleaseKept
<1> QED
  BY <1>4, <1>5, <1>6 DEF WriteManifest, Mishap

(* Every step of a command or of the user keeps both.                      *)
LEMMA OwnedStep ==
    ASSUME ConfigAssumption, ConfigInv, LockInv, OwnedInv, [MCPNext]_mcpVars
    PROVE  LockInv' /\ OwnedInv'
<1>1. ASSUME NEW t \in Targets, Edit(t)
      PROVE  LockInv' /\ OwnedInv'
  <2>1. /\ UNCHANGED <<manifest, command, refusals, mishaps>> /\ edits' = edits + 1
        /\ edits \in Nat
    BY <1>1 DEF Edit, ConfigInv
  <2>2. ~Calm'
    BY <2>1 DEF Calm
  <2>3. LockInv'
    BY <2>1 DEF LockInv, Locked, CommandInv, WorkInv, Recorded
  <2> QED
    BY <2>2, <2>3 DEF OwnedInv
<1>2. CASE UNCHANGED mcpVars
  <2>1. UNCHANGED <<entry, manifest, command, edits, refusals, mishaps>>
    BY <1>2 DEF mcpVars
  <2>2. LockInv'
    BY <2>1 DEF LockInv, Locked, CommandInv, WorkInv, Recorded
  <2>3. OwnedInv'
    BY <2>1 DEF OwnedInv, Locked, Calm, Agree, AgreeInv, TargetInv
  <2> QED
    BY <2>2, <2>3
<1>3. ASSUME NEW c \in Commands, Begin(c)
      PROVE  LockInv' /\ OwnedInv'
  <2>1. PICK action \in {"install", "uninstall"}, id \in Builds, allow \in BOOLEAN :
            command' = [command EXCEPT ![c] =
                [NoCommand EXCEPT !.pc = "waiting", !.action = action, !.id = id,
                                  !.allow = allow, !.manifest = manifest]]
    BY <1>3 DEF Begin
  <2>2. /\ \A d \in Commands \ {c} : command'[d] = command[d]
        /\ command'[c].pc = "waiting" /\ command'[c].action = action
        /\ command'[c].id = id /\ command'[c].changed = FALSE
    BY <2>1 DEF ConfigInv, NoCommand
  <2>3. ~Locked(c) /\ ~Locked(c)' /\ CommandInv(c)'
    BY <1>3, <2>2 DEF Begin, Locked, CommandInv
  <2> QED
    BY <1>3, <2>2, <2>3, WaitingKept DEF Begin
<1>4. ASSUME NEW c \in Commands, LockTimeout(c)
      PROVE  LockInv' /\ OwnedInv'
  <2>1. /\ \A d \in Commands \ {c} : command'[d] = command[d]
        /\ command'[c].pc = "idle"
    BY <1>4 DEF LockTimeout, ConfigInv, NoCommand
  <2>2. ~Locked(c) /\ ~Locked(c)' /\ CommandInv(c)'
    BY <1>4, <2>1 DEF LockTimeout, Locked, CommandInv
  <2> QED
    BY <1>4, <2>1, <2>2, WaitingKept DEF LockTimeout
<1>5. ASSUME NEW c \in Commands, Die(c)
      PROVE  LockInv' /\ OwnedInv'
  <2>1. /\ Locked(c) /\ command' = [command EXCEPT ![c] = NoCommand]
        /\ UNCHANGED <<manifest, refusals>>
        /\ refusals \in Nat /\ mishaps \in Nat /\ mishaps' = mishaps + 1
    BY <1>5 DEF Die, Mishap, LockInv
  <2>2. ~Calm' /\ mishaps' \in Nat
    BY <2>1 DEF Calm
  <2> QED
    BY <2>1, <2>2, ReleaseKept DEF LockInv
<1> QED
  BY <1>1, <1>2, <1>3, <1>4, <1>5, LockKept, StatusKept, RecheckKept, RemoveKept,
     RemovedKept, AddKept, RefusedKept, VerifyKept, InspectionFailureKept, WriteKept
     DEF MCPNext

(* At the start nothing is recorded, and no entry is a build's.            *)
LEMMA OwnedInit ==
    ASSUME ConfigAssumption, MCPInit
    PROVE  ConfigInv /\ LockInv /\ OwnedInv
<1>1. Unowned \in Manifest /\ \A t \in Targets : Unowned.owned[t] = None
  BY DEF Unowned, Manifest, Identities
<1>2. manifest \in Manifest /\ manifest.state # "valid" /\ manifest.owned = Unowned.owned
  BY <1>1 DEF MCPInit, Manifest
<1>3. /\ DOMAIN NoCommand = {"pc", "action", "id", "allow", "manifest", "changed",
                             "todo", "at"}
      /\ NoCommand.id \in Identities /\ NoCommand.manifest \in Manifest
      /\ NoCommand.pc = "idle"
  BY <1>1 DEF NoCommand, Identities
<1> HIDE DEF NoCommand
<1>4. \A c \in Commands : ~Locked(c) /\ CommandInv(c)
  BY <1>3 DEF MCPInit, Locked, CommandInv
<1>5. \A t \in Targets : Agree(manifest, t)
  BY <1>1, <1>2 DEF MCPInit, Agree, ConfigAssumption
<1> QED
  BY <1>1, <1>2, <1>3, <1>4, <1>5 DEF MCPInit, ConfigInv, HeldInv, LockInv, OwnedInv

(* One command holds the lock; what it holds in memory started as the file *)
(* and follows the entries target by target: an entry that is removed is   *)
(* known until another is recorded, put back or the record erased          *)
(* (mcp_config.go: installMCPConfigTarget, uninstallMCPConfigTarget).      *)
THEOREM OwnershipSafe == MCPSpec => [](ConfigInv /\ LockInv /\ OwnedInv)
<1>1. MCPInit => ConfigInv /\ LockInv /\ OwnedInv
  BY OwnedInit, ConfigAssumption
<1>2. ConfigInv /\ LockInv /\ OwnedInv /\ [MCPNext]_mcpVars
         => (ConfigInv /\ LockInv /\ OwnedInv)'
  BY ConfigStep, OwnedStep, ConfigAssumption
<1> QED
  BY <1>1, <1>2, PTL DEF MCPSpec

(* Whenever no command is at work the manifest records exactly the entries *)
(* that are a build's, each with the build that wrote it, whatever         *)
(* commands of whichever builds ran and one add or removal among them was  *)
(* refused (mcp_config.go: recordManifestIdentity; writeMCPManifest).      *)
THEOREM OwnershipKept == MCPSpec => []OwnershipAgrees
<1>1. ConfigInv /\ LockInv /\ OwnedInv => OwnershipAgrees
  <2> SUFFICES ASSUME LockInv, OwnedInv, \A c \in Commands : ~Locked(c), Calm,
                      NEW t \in Targets, entry[t] \in Builds \/ Recorded(manifest, t) # None
               PROVE  entry[t] = Recorded(manifest, t)
    BY DEF OwnershipAgrees, Calm
  <2>1. manifest.owned[t] = Recorded(manifest, t)
    BY DEF LockInv, Recorded
  <2> QED
    BY <2>1 DEF OwnedInv, Agree
<1> QED
  BY <1>1, OwnershipSafe, PTL
=============================================================================
