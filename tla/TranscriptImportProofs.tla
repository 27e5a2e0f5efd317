----------------------- MODULE TranscriptImportProofs -----------------------
(***************************************************************************)
(* Proofs about TranscriptImport, for every set of sources and importers,  *)
(* every size of a chunk and every bound.                                  *)
(*                                                                         *)
(* The operators below take the files F and the stored turns T as          *)
(* parameters, so that one lemma says for all of them that what held       *)
(* before a step of the agent or of an importer holds after it.            *)
(***************************************************************************)
EXTENDS TranscriptImport, TLAPS

FileOK(F, f) == F[f].id \in Nat \ {0} /\ F[f].lines \in Seq(BOOLEAN)

(* Files as they were found and as they are: the same one has grown.       *)
Prefix(old, new) == /\ Len(old) <= Len(new)
                    /\ \A k \in 1..Len(old) : new[k] = old[k]

Grown(F, G) ==
    \A f \in Sources : /\ FileOK(F, f) /\ FileOK(G, f)
                       /\ F[f].id <= G[f].id
                       /\ F[f].id = G[f].id => Prefix(F[f].lines, G[f].lines)

(* The first n lines of the file id are turns, if the file is still there. *)
Passed(F, T, f, id, n) ==
    /\ id \in Nat /\ id <= F[f].id
    /\ n \in Nat
    /\ id = F[f].id => /\ n <= Len(F[f].lines)
                       /\ \A k \in 1..n : F[f].lines[k] => <<f, id, k>> \in T

CursorOK(F, T, f, c) ==
    /\ DOMAIN c = {"exists", "offset", "id", "had", "owner", "final"}
    /\ Passed(F, T, f, c.id, c.offset)
    /\ ~c.exists => c.offset = 0

(* A file in the hands of an importer, from the cursor it loaded.          *)
ItemOK(F, T, f, x) ==
    /\ CursorOK(F, T, f, x.cursor)
    /\ x.file.lines \in Seq(BOOLEAN)
    /\ x.file.id = F[f].id => Prefix(x.file.lines, F[f].lines)
    /\ x.readEnd \in Nat
    /\ Passed(F, T, f, x.file.id, x.start)

HandOK(F, T, m) ==
    /\ m.phase \in {"none", "opened", "saving"}
    /\ m.phase = "opened" => \A f \in Sources : ItemOK(F, T, f, m.items[f])
    /\ m.phase = "saving" =>
           /\ DOMAIN m.cursors \subseteq Sources
           /\ \A f \in DOMAIN m.cursors : CursorOK(F, T, f, m.cursors[f])

ImportInv ==
    /\ DOMAIN files = Sources /\ DOMAIN cursors = Sources
    /\ DOMAIN importing = Importers
    /\ \A f \in Sources : FileOK(files, f) /\ DOMAIN files[f] = {"id", "lines", "torn"}
    /\ \A f \in Sources : CursorOK(files, turns, f, cursors[f])
    /\ \A i \in Importers : HandOK(files, turns, importing[i])
-----------------------------------------------------------------------------
(* What was passed over stays passed over.                                 *)
LEMMA PassedStays ==
    ASSUME NEW F, NEW G, NEW T, NEW U, Grown(F, G), T \subseteq U,
           NEW f \in Sources, NEW id, NEW n, Passed(F, T, f, id, n)
    PROVE  Passed(G, U, f, id, n)
<1>1. F[f].id \in Nat /\ G[f].id \in Nat
  BY DEF Grown, FileOK
<1>2. CASE id = G[f].id
  <2>1. id = F[f].id
    BY <1>1, <1>2 DEF Passed, Grown
  <2>2. /\ n \in Nat /\ n <= Len(F[f].lines)
        /\ \A k \in 1..n : F[f].lines[k] => <<f, id, k>> \in T
    BY <2>1 DEF Passed
  <2>3. Len(F[f].lines) \in Nat /\ Len(G[f].lines) \in Nat
    BY DEF Grown, FileOK
  <2>4. /\ Len(F[f].lines) <= Len(G[f].lines)
        /\ \A k \in 1..Len(F[f].lines) : G[f].lines[k] = F[f].lines[k]
    BY <1>2, <2>1 DEF Grown, Prefix
  <2>5. n <= Len(G[f].lines)
    BY <2>2, <2>3, <2>4
  <2>6. \A k \in 1..n : k \in 1..Len(F[f].lines)
    BY <2>2, <2>3
  <2>7. \A k \in 1..n : G[f].lines[k] => <<f, id, k>> \in U
    BY <2>2, <2>4, <2>6
  <2> QED
    BY <1>1, <1>2, <2>2, <2>5, <2>7 DEF Passed
<1>3. CASE id # G[f].id
  BY <1>1, <1>3 DEF Passed, Grown
<1> QED
  BY <1>2, <1>3

(* What an importer has in hand stays as good as it was when it was read.  *)
LEMMA HandStays ==
    ASSUME NEW F, NEW G, NEW T, NEW U, Grown(F, G), T \subseteq U,
           NEW m, HandOK(F, T, m)
    PROVE  HandOK(G, U, m)
<1>1. ASSUME NEW f \in Sources, NEW c, CursorOK(F, T, f, c)
      PROVE  CursorOK(G, U, f, c)
  BY <1>1, PassedStays DEF CursorOK
<1>2. ASSUME NEW f \in Sources, NEW x, ItemOK(F, T, f, x)
      PROVE  ItemOK(G, U, f, x)
  <2>1. Passed(G, U, f, x.file.id, x.start)
    BY <1>2, PassedStays DEF ItemOK
  <2>2. ASSUME x.file.id = G[f].id
        PROVE  Prefix(x.file.lines, G[f].lines)
    <3>1. x.file.id = F[f].id
      BY <1>2, <2>2 DEF ItemOK, Passed, Grown, FileOK
    <3>2. Prefix(x.file.lines, F[f].lines) /\ Prefix(F[f].lines, G[f].lines)
      BY <1>2, <2>2, <3>1 DEF ItemOK, Grown
    <3>3. /\ Len(x.file.lines) \in Nat
          /\ Len(F[f].lines) \in Nat /\ Len(G[f].lines) \in Nat
      BY <1>2 DEF ItemOK, Grown, FileOK
    <3>4. Len(x.file.lines) <= Len(G[f].lines)
      BY <3>2, <3>3 DEF Prefix
    <3>5. ASSUME NEW k \in 1..Len(x.file.lines)
          PROVE  G[f].lines[k] = x.file.lines[k]
      <4>1. k \in 1..Len(F[f].lines)
        BY <3>2, <3>3, <3>5 DEF Prefix
      <4> QED
        BY <3>2, <3>5, <4>1 DEF Prefix
    <3> QED
      BY <3>4, <3>5 DEF Prefix
  <2> QED
    BY <1>1, <1>2, <2>1, <2>2 DEF ItemOK
<1> QED
  BY <1>1, <1>2 DEF HandOK

(* A step of one importer, or of none.                                     *)
LEMMA ImportStepKeeps ==
    ASSUME ImportInv, Grown(files, files'), turns \subseteq turns',
           DOMAIN files' = Sources,
           \A f \in Sources : DOMAIN files'[f] = {"id", "lines", "torn"},
           DOMAIN cursors' = Sources, DOMAIN importing' = Importers,
           \A f \in Sources : \/ cursors'[f] = cursors[f]
                              \/ CursorOK(files, turns, f, cursors'[f]),
           \A i \in Importers : \/ importing'[i] = importing[i]
                                \/ HandOK(files', turns', importing'[i])
    PROVE  ImportInv'
<1>1. \A f \in Sources : CursorOK(files', turns', f, cursors'[f])
  BY PassedStays DEF ImportInv, CursorOK
<1>2. \A i \in Importers : HandOK(files', turns', importing'[i])
  BY HandStays DEF ImportInv
<1> QED
  BY <1>1, <1>2 DEF ImportInv, Grown

(* Files that are left alone.                                              *)
LEMMA SameFiles ==
    ASSUME ImportInv PROVE Grown(files, files)
BY DEF ImportInv, Grown, Prefix, FileOK

(* No cursor and no turn.                                                  *)
LEMMA InitImport == Init => ImportInv
<1> SUFFICES ASSUME Init PROVE ImportInv
  OBVIOUS
<1>1. \A f \in Sources : /\ FileOK(files, f)
                         /\ DOMAIN files[f] = {"id", "lines", "torn"}
  <2>1. \A f \in Sources : files[f] = [id |-> 1, lines |-> <<>>, torn |-> FALSE]
    BY DEF Init
  <2>2. ASSUME NEW f \in Sources
        PROVE  /\ FileOK(files, f)
               /\ DOMAIN files[f] = {"id", "lines", "torn"}
    <3>1. files[f].id = 1 /\ files[f].lines = <<>>
      BY <2>1
    <3>2. DOMAIN files[f] = {"id", "lines", "torn"}
      BY <2>1
    <3>3. <<>> \in Seq(BOOLEAN)
      OBVIOUS
    <3> QED
      BY <3>1, <3>2, <3>3 DEF FileOK
  <2> QED
    BY <2>2
<1>2. \A f \in Sources : CursorOK(files, turns, f, cursors[f])
  BY <1>1 DEF Init, NoCursor, CursorOK, Passed, FileOK
<1>3. \A i \in Importers : HandOK(files, turns, importing[i])
  BY DEF Init, NoImport, HandOK
<1> QED
  BY <1>1, <1>2, <1>3 DEF Init, ImportInv

(* The agent writes: files grow, or give way to new ones.                  *)
LEMMA AgentKeeps ==
    ASSUME ImportInv, NEW f \in Sources,
           BeginLine(f) \/ Replace(f) \/ \E parses \in BOOLEAN : EndLine(f, parses)
    PROVE  ImportInv'
<1>1. UNCHANGED <<turns, cursors, importing>>
  BY DEF BeginLine, Replace, EndLine, storeVars
<1>2. /\ DOMAIN files' = Sources
      /\ \A g \in Sources \ {f} : files'[g] = files[g]
  BY DEF BeginLine, Replace, EndLine, ImportInv
<1>3. /\ FileOK(files, f)
      /\ DOMAIN files[f] = {"id", "lines", "torn"}
      /\ Len(files[f].lines) \in Nat
  BY DEF ImportInv, FileOK
<1>4. /\ FileOK(files', f)
      /\ DOMAIN files'[f] = {"id", "lines", "torn"}
      /\ files[f].id <= files'[f].id
      /\ files[f].id = files'[f].id => Prefix(files[f].lines, files'[f].lines)
  <2>1. CASE BeginLine(f)
    <3>1. files'[f] = [files[f] EXCEPT !.torn = TRUE]
      BY <2>1 DEF BeginLine, ImportInv
    <3> QED
      BY <3>1, <1>3 DEF FileOK, Prefix
  <2>2. CASE Replace(f)
    <3>1. files'[f] = [id |-> files[f].id + 1, lines |-> <<TRUE, TRUE>>, torn |-> FALSE]
      BY <2>2 DEF Replace, ImportInv
    <3> QED
      BY <3>1, <1>3 DEF FileOK
  <2>3. ASSUME NEW parses \in BOOLEAN, EndLine(f, parses)
        PROVE  <1>4!1 /\ <1>4!2 /\ <1>4!3 /\ <1>4!4
    <3>1. files'[f] = [files[f] EXCEPT !.torn = FALSE,
                                       !.lines = Append(files[f].lines, parses)]
      BY <2>3 DEF EndLine, ImportInv
    <3>2. /\ DOMAIN files'[f] = {"id", "lines", "torn"}
          /\ files'[f].id = files[f].id
          /\ files'[f].lines = Append(files[f].lines, parses)
      BY <3>1, <1>3
    <3> QED
      BY <3>2, <1>3 DEF FileOK, Prefix
  <2> QED
    BY <2>1, <2>2, <2>3
<1>5. Grown(files, files')
  BY <1>2, <1>4, SameFiles DEF Grown, FileOK
<1> QED
  BY <1>1, <1>2, <1>4, <1>5, ImportStepKeeps DEF ImportInv

(* A chunk starts where the cursor stands, or at the start of a file that  *)
(* the cursor is not about.                                                *)
LEMMA ItemIsGood ==
    ASSUME ImportAssumption, ImportInv, NEW f \in Sources,
           NEW owner \in {"tail", "backfill"}
    PROVE  ItemOK(files, turns, f, Item(f, owner))
<1> DEFINE c == cursors[f]
           reset == c.exists /\ (c.offset > Size(f) \/ c.id # files[f].id)
           start == IF reset THEN 0 ELSE c.offset
           target == start + Chunk[owner]
           readEnd == IF target >= Size(f) THEN Size(f) ELSE target
           x == Item(f, owner)
<1>1. CursorOK(files, turns, f, c) /\ FileOK(files, f)
  BY DEF ImportInv
<1>2. /\ x.cursor = c /\ x.file = files[f]
      /\ x.start = start /\ x.readEnd = readEnd
  BY DEF Item
<1>3. Size(f) \in Nat /\ Chunk[owner] \in Nat /\ c.offset \in Nat
  <2>1. Len(files[f].lines) \in Nat
    BY <1>1 DEF FileOK
  <2>2. Chunk[owner] \in Nat \ {0}
    BY DEF ImportAssumption
  <2>3. Size(f) \in Nat
    <3> DEFINE part == IF files[f].torn THEN 1 ELSE 0
    <3>1. part \in Nat
      OBVIOUS
    <3>2. Size(f) = Len(files[f].lines) + part
      BY DEF Size
    <3> HIDE DEF part
    <3> QED
      BY <2>1, <3>1, <3>2
  <2>4. c.offset \in Nat
    BY <1>1 DEF CursorOK, Passed
  <2> QED
    BY <2>2, <2>3, <2>4
<1>4. readEnd \in Nat
  BY <1>3
<1>5. Passed(files, turns, f, files[f].id, start)
  <2>1. CASE start = 0
    BY <2>1, <1>1 DEF Passed, FileOK
  <2>2. CASE start # 0
    <3>1. start = c.offset /\ c.id = files[f].id
      BY <2>2, <1>1 DEF CursorOK
    <3> QED
      BY <3>1, <1>1 DEF CursorOK
  <2> QED
    BY <2>1, <2>2
<1>6. Prefix(files[f].lines, files[f].lines)
  BY <1>1 DEF Prefix, FileOK
<1> HIDE DEF start, readEnd, c
<1> QED
  BY <1>1, <1>2, <1>4, <1>5, <1>6 DEF ItemOK, FileOK

(* The transaction stores every line up to where the cursor will stand.    *)
LEMMA CommitBatchKeeps ==
    ASSUME ImportAssumption, ImportInv, NEW i \in Importers, CommitBatch(i)
    PROVE  ImportInv'
<1> DEFINE items == importing[i].items
           inactive == importing[i].inactive
           new == [f \in Changed(items) |->
                      Advanced(items[f], OwnerOf[i], inactive /\ GroupCaughtUp(items))]
<1>1. /\ importing[i].phase = "opened"
      /\ turns' = turns \cup
             UNION {{<<f, items[f].file.id, n>> :
                         n \in Parsed(items[f]) \ Issues(items[f])} : f \in Sources}
      /\ importing' = [importing EXCEPT ![i] = Saving(new)]
      /\ UNCHANGED <<files, cursors>>
  BY DEF CommitBatch, fileVars
<1>2. DOMAIN new \subseteq Sources
  BY DEF Changed
<1>3. ASSUME NEW f \in DOMAIN new
      PROVE  CursorOK(files, turns', f, new[f])
  <2> DEFINE x == items[f]
             n == EndOffset(x)
  <2>1. f \in Sources /\ x.changed
    BY DEF Changed
  <2>2. ItemOK(files, turns, f, x) /\ FileOK(files, f)
    BY <1>1, <2>1 DEF ImportInv, HandOK
  <2>3. /\ DOMAIN new[f] = {"exists", "offset", "id", "had", "owner", "final"}
        /\ new[f].exists /\ new[f].id = x.file.id /\ new[f].offset = n
    BY DEF Advanced
  <2>4. /\ n \in Nat /\ n <= x.readEnd /\ n <= Len(x.file.lines)
        /\ Len(x.file.lines) \in Nat /\ Len(files[f].lines) \in Nat
        /\ x.readEnd \in Nat /\ x.start \in Nat
    <3>1. x.file.lines \in Seq(BOOLEAN) /\ files[f].lines \in Seq(BOOLEAN)
      BY <2>2 DEF ItemOK, FileOK
    <3>2. Len(x.file.lines) \in Nat /\ Len(files[f].lines) \in Nat
      BY <3>1
    <3>3. x.readEnd \in Nat /\ x.start \in Nat
      BY <2>2 DEF ItemOK, Passed
    <3>4. n = IF x.readEnd > Len(x.file.lines) THEN Len(x.file.lines) ELSE x.readEnd
      BY <2>1 DEF EndOffset
    <3> HIDE DEF x, n
    <3> QED
      BY <3>2, <3>3, <3>4
  <2>5. /\ turns \subseteq turns'
        /\ \A k \in Parsed(x) \ Issues(x) : <<f, x.file.id, k>> \in turns'
    BY <2>1, <1>1
  <2> HIDE DEF new, x, n
  <2>6. ASSUME NEW k \in Nat, x.start < k, k <= n
        PROVE  k \in Parsed(x)
    <3>1. k \in (x.start + 1)..x.readEnd /\ k <= Len(x.file.lines)
      BY <2>4, <2>6
    <3> QED
      BY <3>1, <2>1 DEF Parsed
  <2>7. ASSUME x.file.id = files[f].id
        PROVE  /\ n <= Len(files[f].lines)
               /\ \A k \in 1..n : files[f].lines[k] => <<f, x.file.id, k>> \in turns'
    <3>1. /\ Len(x.file.lines) <= Len(files[f].lines)
          /\ \A k \in 1..Len(x.file.lines) : files[f].lines[k] = x.file.lines[k]
      BY <2>2, <2>7 DEF ItemOK, Prefix
    <3>2. n <= Len(files[f].lines)
      BY <3>1, <2>4
    <3>3. ASSUME NEW k \in 1..n, files[f].lines[k]
          PROVE  <<f, x.file.id, k>> \in turns'
      <4>1. k \in Nat /\ k <= n /\ k \in 1..Len(x.file.lines)
        BY <3>3, <2>4
      <4>2. CASE k <= x.start
        <5>1. k \in 1..x.start
          BY <4>1, <4>2, <3>3, <2>4
        <5> QED
          BY <5>1, <3>3, <2>2, <2>5, <2>7 DEF ItemOK, Passed
      <4>3. CASE k > x.start
        <5>1. x.file.lines[k]
          BY <3>1, <3>3, <4>1
        <5>2. k \in Parsed(x)
          BY <4>1, <4>3, <2>4, <2>6
        <5>3. k \in Parsed(x) \ Issues(x)
          BY <5>1, <5>2 DEF Issues
        <5> QED
          BY <5>3, <2>5
      <4> QED
        BY <4>1, <4>2, <4>3, <2>4
    <3> QED
      BY <3>2, <3>3
  <2>8. Passed(files, turns', f, x.file.id, n)
    BY <2>2, <2>4, <2>7 DEF Passed, ItemOK
  <2> QED
    BY <2>3, <2>8 DEF CursorOK
<1> HIDE DEF new
<1>4. HandOK(files, turns', Saving(new))
  BY <1>2, <1>3 DEF HandOK, Saving
<1>5. \A j \in Importers : \/ importing'[j] = importing[j]
                           \/ HandOK(files, turns', importing'[j])
  BY <1>1, <1>4 DEF ImportInv
<1>6. /\ turns \subseteq turns'
      /\ DOMAIN importing' = Importers
  BY <1>1 DEF ImportInv
<1> QED
  BY <1>1, <1>5, <1>6, SameFiles, ImportStepKeeps DEF ImportInv

(* The other steps of an importer store nothing.                           *)
LEMMA ImporterKeeps ==
    ASSUME ImportAssumption, ImportInv, NEW i \in Importers,
           \/ Open(i) \/ Finalize(i) \/ Claim(i) \/ Abandon(i)
           \/ \E f \in Sources : SaveCursor(i, f)
    PROVE  ImportInv'
<1>1. UNCHANGED <<files, turns>>
  BY DEF Open, Finalize, Claim, Abandon, SaveCursor, fileVars, storeVars
<1>2. SUFFICES ASSUME NEW m, importing' = [importing EXCEPT ![i] = m],
                      HandOK(files, turns, importing[i]) => HandOK(files, turns, m)
               PROVE  ImportInv'
  <2>1. PICK m : importing' = [importing EXCEPT ![i] = m]
    BY DEF Open, Finalize, Claim, Abandon, SaveCursor
  <2>2. m = importing'[i]
    BY <2>1 DEF ImportInv
  <2>3. HandOK(files, turns, NoImport)
    BY DEF HandOK, NoImport
  <2>4. ASSUME HandOK(files, turns, importing[i])
        PROVE  HandOK(files, turns, m)
    <3>1. CASE Open(i)
      <4> DEFINE items == [f \in Sources |-> Item(f, OwnerOf[i])]
      <4>1. m.phase = "opened" /\ m.items = items
        BY <3>1, <2>2 DEF Open, ImportInv
      <4>2. \A f \in Sources : items[f] = Item(f, OwnerOf[i])
        OBVIOUS
      <4>3. OwnerOf[i] \in {"tail", "backfill"}
        BY DEF ImportAssumption
      <4> HIDE DEF items
      <4> QED
        BY <4>1, <4>2, <4>3, ItemIsGood DEF HandOK
    <3>2. CASE Finalize(i) \/ Claim(i)
      <4> DEFINE items == importing[i].items
      <4>1. \A f \in Sources : CursorOK(files, turns, f, items[f].cursor)
        BY <3>2, <2>4 DEF Finalize, Claim, HandOK, ItemOK
      <4>2. ASSUME NEW f \in Sources, NEW c, NEW o,
                   \/ c = [items[f].cursor EXCEPT !.exists = TRUE, !.owner = o,
                                                  !.final = TRUE]
                   \/ c = [items[f].cursor EXCEPT !.exists = TRUE, !.owner = o]
            PROVE  CursorOK(files, turns, f, c)
        BY <4>1, <4>2 DEF CursorOK
      <4>3. ASSUME NEW cs, DOMAIN cs = Sources, m = Saving(cs),
                   \A f \in Sources : CursorOK(files, turns, f, cs[f])
            PROVE  HandOK(files, turns, m)
        BY <4>3 DEF HandOK, Saving
      <4>4. CASE Finalize(i)
        <5> DEFINE cs == [f \in Sources |-> [items[f].cursor EXCEPT !.exists = TRUE,
                                                !.owner = OwnerOf[i], !.final = TRUE]]
        <5>1. m = Saving(cs)
          BY <4>4, <2>2 DEF Finalize, ImportInv
        <5>2. \A f \in Sources : CursorOK(files, turns, f, cs[f])
          BY <4>2
        <5>3. DOMAIN cs = Sources
          OBVIOUS
        <5> HIDE DEF cs
        <5> QED
          BY <5>1, <5>2, <5>3, <4>3
      <4>5. CASE Claim(i)
        <5> DEFINE cs == [f \in Sources |-> [items[f].cursor EXCEPT !.exists = TRUE,
                                                !.owner = "tail"]]
        <5>1. m = Saving(cs) \/ m = NoImport
          BY <4>5, <2>2 DEF Claim, ImportInv
        <5>2. \A f \in Sources : CursorOK(files, turns, f, cs[f])
          BY <4>2
        <5>3. DOMAIN cs = Sources
          OBVIOUS
        <5> HIDE DEF cs
        <5> QED
          BY <5>1, <5>2, <5>3, <4>3, <2>3
      <4> QED
        BY <3>2, <4>4, <4>5
    <3>3. CASE Abandon(i)
      BY <3>3, <2>2, <2>3 DEF Abandon, ImportInv
    <3>4. ASSUME NEW f \in Sources, SaveCursor(i, f)
          PROVE  HandOK(files, turns, m)
      <4> DEFINE rest == DOMAIN importing[i].cursors \ {f}
                 left == [g \in rest |-> importing[i].cursors[g]]
      <4>1. m = NoImport \/ m = Saving(left)
        BY <3>4, <2>2 DEF SaveCursor, ImportInv
      <4>2. HandOK(files, turns, Saving(left))
        BY <3>4, <2>4 DEF SaveCursor, HandOK, Saving
      <4> QED
        BY <4>1, <4>2, <2>3
    <3> QED
      BY <3>1, <3>2, <3>3, <3>4
  <2> QED
    BY <2>1, <2>4, <1>2
<1>3. HandOK(files, turns, importing[i])
  BY DEF ImportInv
<1>4. /\ DOMAIN importing' = Importers
      /\ \A j \in Importers : \/ importing'[j] = importing[j]
                              \/ HandOK(files, turns, importing'[j])
  BY <1>2, <1>3 DEF ImportInv
<1>5. /\ DOMAIN cursors' = Sources
      /\ \A f \in Sources : \/ cursors'[f] = cursors[f]
                            \/ CursorOK(files, turns, f, cursors'[f])
  <2>1. CASE UNCHANGED cursors
    BY <2>1 DEF ImportInv
  <2>2. ASSUME NEW f \in Sources, SaveCursor(i, f)
        PROVE  <1>5!1 /\ <1>5!2
    <3>1. /\ cursors' = [cursors EXCEPT ![f] = importing[i].cursors[f]]
          /\ importing[i].phase = "saving" /\ f \in DOMAIN importing[i].cursors
      BY <2>2 DEF SaveCursor
    <3>2. CursorOK(files, turns, f, importing[i].cursors[f])
      BY <3>1, <1>3 DEF HandOK
    <3> QED
      BY <3>1, <3>2 DEF ImportInv
  <2> QED
    BY <2>1, <2>2 DEF Open, Finalize, Claim, Abandon
<1> QED
  BY <1>1, <1>4, <1>5, SameFiles, ImportStepKeeps DEF ImportInv

(* Every step keeps the invariant.                                         *)
LEMMA NextImport ==
    ASSUME ImportAssumption, ImportInv, [Next]_vars
    PROVE  ImportInv'
<1>1. CASE GoInactive \/ UNCHANGED vars
  BY <1>1 DEF GoInactive, vars, fileVars, storeVars, ImportInv
<1> QED
  BY <1>1, AgentKeeps, CommitBatchKeeps, ImporterKeeps DEF Next, ImportStep
-----------------------------------------------------------------------------
(* The inductive invariant holds throughout: importers that work from      *)
(* cursors of long ago, and overwrite each other's, only ever know less.   *)
THEOREM ImportSafe == Spec => []ImportInv
<1>1. Init => ImportInv
  BY InitImport
<1>2. ImportInv /\ [Next]_vars => ImportInv'
  BY NextImport, ImportAssumption
<1> QED
  BY <1>1, <1>2, PTL DEF Spec

(* No cursor runs ahead of the store, although it is renamed into place    *)
(* after the transaction and by several programs (saveTranscriptCursor).   *)
THEOREM NothingIsSkipped == Spec => []NothingSkipped
<1>1. ImportInv => NothingSkipped
  BY DEF ImportInv, CursorOK, Passed, NothingSkipped, TurnsOf
<1> QED
  BY <1>1, ImportSafe, PTL
-----------------------------------------------------------------------------
(* A file as it was opened, whatever became of it since: what the chunk    *)
(* starts after is in the store, and of an unchanged file that is all.     *)
Earned(T, f, x) ==
    /\ x.size \in Nat /\ Len(x.file.lines) <= x.size
    /\ ~x.changed => x.start = x.size
    /\ \A k \in 1..x.start :
          k <= Len(x.file.lines) /\ x.file.lines[k] => <<f, x.file.id, k>> \in T

EarnedInv ==
    \A i \in Importers : importing[i].phase = "opened" =>
        \A f \in Sources : Earned(turns, f, importing[i].items[f])

(* An importer opens a group.                                              *)
LEMMA ItemIsEarned ==
    ASSUME ImportInv, NEW f \in Sources, NEW owner
    PROVE  Earned(turns, f, Item(f, owner))
<1> DEFINE c == cursors[f]
           reset == c.exists /\ (c.offset > Size(f) \/ c.id # files[f].id)
           start == IF reset THEN 0 ELSE c.offset
           x == Item(f, owner)
<1>1. CursorOK(files, turns, f, c) /\ FileOK(files, f)
  BY DEF ImportInv
<1>2. /\ x.file = files[f] /\ x.start = start /\ x.size = Size(f)
      /\ x.changed <=> (reset \/ start # Size(f))
  BY DEF Item
<1>3. Size(f) \in Nat /\ Len(files[f].lines) <= Size(f)
  <2> DEFINE part == IF files[f].torn THEN 1 ELSE 0
  <2>1. part \in Nat /\ Len(files[f].lines) \in Nat
    BY <1>1 DEF FileOK
  <2>2. Size(f) = Len(files[f].lines) + part
    BY DEF Size
  <2> HIDE DEF part
  <2> QED
    BY <2>1, <2>2
<1>4. \A k \in 1..start : files[f].lines[k] => <<f, files[f].id, k>> \in turns
  <2>1. CASE reset \/ c.offset = 0
    <3>1. start = 0
      BY <2>1
    <3> HIDE DEF start
    <3> QED
      BY <3>1
  <2>2. CASE ~reset /\ c.offset # 0
    <3>1. c.id = files[f].id /\ start = c.offset
      BY <2>2, <1>1 DEF CursorOK
    <3> HIDE DEF start
    <3> QED
      BY <3>1, <1>1 DEF CursorOK, Passed
  <2> QED
    BY <2>1, <2>2
<1> HIDE DEF start, reset, c, x
<1> QED
  BY <1>2, <1>3, <1>4 DEF Earned, x

(* Turns are never taken back, and nobody else touches what is in hand.    *)
LEMMA EarnedStep ==
    ASSUME ImportInv, EarnedInv, [Next]_vars
    PROVE  EarnedInv'
<1>1. turns \subseteq turns'
  BY DEF Next, ImportStep, BeginLine, EndLine, Replace, GoInactive, Open, CommitBatch,
     Finalize, Claim, SaveCursor, Abandon, fileVars, storeVars, vars
<1>2. ASSUME NEW i \in Importers, importing'[i].phase = "opened"
      PROVE  importing'[i] = importing[i] \/ Open(i)
  <2>1. ASSUME NEW j \in Importers, j # i, ImportStep(j) \/ Abandon(j)
        PROVE  importing'[i] = importing[i]
    BY <2>1 DEF ImportInv, ImportStep, Open, CommitBatch, Finalize, Claim, SaveCursor,
       Abandon
  <2>2. CASE UNCHANGED importing
    BY <2>2
  <2>3. CASE \/ CommitBatch(i) \/ Finalize(i) \/ Claim(i) \/ Abandon(i)
             \/ \E f \in Sources : SaveCursor(i, f)
    <3>1. PICK cs : importing'[i] = NoImport \/ importing'[i] = Saving(cs)
      BY <2>3 DEF ImportInv, CommitBatch, Finalize, Claim, SaveCursor, Abandon
    <3> QED
      BY <3>1, <1>2 DEF NoImport, Saving
  <2> QED
    BY <2>1, <2>2, <2>3 DEF Next, ImportStep, BeginLine, EndLine, Replace, GoInactive, vars
<1>3. ASSUME NEW i \in Importers, Open(i), NEW f \in Sources
      PROVE  Earned(turns, f, importing'[i].items[f])
  <2> DEFINE items == [g \in Sources |-> Item(g, OwnerOf[i])]
  <2>1. importing'[i].items = items
    BY <1>3 DEF Open, ImportInv
  <2>2. items[f] = Item(f, OwnerOf[i])
    OBVIOUS
  <2> HIDE DEF items
  <2> QED
    BY <2>1, <2>2, ItemIsEarned
<1>4. ASSUME NEW i \in Importers, importing'[i].phase = "opened", NEW f \in Sources
      PROVE  Earned(turns, f, importing'[i].items[f])
  BY <1>2, <1>3, <1>4 DEF EarnedInv
<1> QED
  BY <1>1, <1>4 DEF EarnedInv, Earned

(* A file that is read to its end, with no line that could not be parsed.  *)
LEMMA ReadToEndEarns ==
    ASSUME ImportInv, EarnedInv, NEW i \in Importers, CommitBatch(i),
           coverage' = "complete", NEW f \in Sources, NEW x, x = importing[i].items[f],
           NEW n \in 1..Len(x.file.lines), x.file.lines[n]
    PROVE  <<f, x.file.id, n>> \in turns'
<1> DEFINE items == importing[i].items
<1>1. /\ importing[i].phase = "opened"
      /\ turns' = turns \cup
             UNION {{<<g, items[g].file.id, k>> :
                         k \in Parsed(items[g]) \ Issues(items[g])} : g \in Sources}
      /\ coverage' = Coverage(items, importing[i].inactive)
  BY DEF CommitBatch
<1>2. /\ ReadToEnd(x)
      /\ x.changed => Issues(x) = {}
  BY <1>1 DEF Coverage, GroupCaughtUp, Changed
<1>3. ItemOK(files, turns, f, x) /\ Earned(turns, f, x)
  BY <1>1 DEF ImportInv, HandOK, EarnedInv
<1>4. /\ Len(x.file.lines) \in Nat /\ x.readEnd \in Nat /\ x.start \in Nat /\ x.size \in Nat
      /\ Len(x.file.lines) <= x.size
  BY <1>3 DEF ItemOK, Passed, Earned
<1>5. CASE n <= x.start
  BY <1>1, <1>3, <1>4, <1>5 DEF Earned
<1>6. CASE ~(n <= x.start) /\ x.changed
  <2>1. Len(x.file.lines) <= x.readEnd
    BY <1>2, <1>4, <1>6 DEF ReadToEnd, EndOffset
  <2>2. n \in (x.start + 1)..x.readEnd
    BY <1>4, <1>6, <2>1
  <2>3. n \in Parsed(x)
    BY <1>4, <1>6, <2>2 DEF Parsed
  <2>4. n \in Parsed(x) \ Issues(x)
    BY <1>2, <1>6, <2>3
  <2> QED
    BY <1>1, <2>4
<1>7. CASE ~(n <= x.start) /\ ~x.changed
  BY <1>3, <1>4, <1>7 DEF Earned
<1> QED
  BY <1>5, <1>6, <1>7

(* A session is marked complete only by an importer that has every line of *)
(* every file of the group, as it opened them, in the store: the ones of   *)
(* its own chunk and the ones the cursors it loaded had passed, whoever    *)
(* imported them (transcript.go: importTranscriptGroupSnapshotAt).         *)
THEOREM CompletionIsEarned == Spec => CompleteIsEarned
<1> DEFINE Earns ==
        \A i \in Importers :
           importing[i].phase = "opened" /\ importing'[i].phase = "saving"
           /\ coverage' = "complete" =>
               \A f \in Sources :
                   LET x == importing[i].items[f]
                   IN {<<f, x.file.id, n>> : n \in {k \in 1..Len(x.file.lines) :
                                                       x.file.lines[k]}}
                          \subseteq turns'
<1>1. Init => ImportInv /\ EarnedInv
  BY InitImport DEF Init, EarnedInv, NoImport
<1>2. ImportInv /\ EarnedInv /\ [Next]_vars => (ImportInv /\ EarnedInv)'
  BY NextImport, EarnedStep, ImportAssumption
<1>3. ASSUME ImportInv, EarnedInv, [Next]_vars
      PROVE  [Earns]_vars
  <2> SUFFICES ASSUME NEW i \in Importers, importing[i].phase = "opened",
                      importing'[i].phase = "saving", coverage' = "complete",
                      NEW f \in Sources, NEW x, x = importing[i].items[f],
                      NEW n \in 1..Len(x.file.lines), x.file.lines[n]
               PROVE  <<f, x.file.id, n>> \in turns'
    OBVIOUS
  <2>1. CommitBatch(i) \/ Finalize(i) \/ Claim(i)
    <3>1. importing'[i] # importing[i]
      OBVIOUS
    <3>2. ASSUME NEW j \in Importers, j # i
          PROVE  ~(ImportStep(j) \/ Abandon(j))
      <4>1. ASSUME ImportStep(j) \/ Abandon(j)
            PROVE  \E m : importing' = [importing EXCEPT ![j] = m]
        BY <4>1 DEF ImportStep, Open, CommitBatch, Finalize, Claim, SaveCursor, Abandon
      <4>2. ASSUME NEW m, importing' = [importing EXCEPT ![j] = m]
            PROVE  importing'[i] = importing[i]
        BY <1>3, <3>2, <4>2 DEF ImportInv
      <4> QED
        BY <3>1, <4>1, <4>2
    <3>3. ~Open(i) /\ ~Abandon(i) /\ \A g \in Sources : ~SaveCursor(i, g)
      <4>1. NoImport.phase = "none"
        BY DEF NoImport
      <4>2. Abandon(i) => importing'[i] = NoImport
        BY <1>3 DEF Abandon, ImportInv
      <4> QED
        BY <4>1, <4>2 DEF Open, SaveCursor
    <3> QED
      BY <1>3, <3>1, <3>2, <3>3
         DEF Next, ImportStep, BeginLine, EndLine, Replace, GoInactive, vars
  <2>2. CASE CommitBatch(i)
    BY <1>3, <2>2, ReadToEndEarns
  <2>3. CASE Finalize(i) \/ Claim(i)
    <3>1. ~x.changed
      BY <2>3 DEF Finalize, Claim, Changed
    <3>2. ItemOK(files, turns, f, x) /\ Earned(turns, f, x)
      BY <1>3 DEF ImportInv, HandOK, EarnedInv
    <3>3. Len(x.file.lines) \in Nat /\ x.start \in Nat
      BY <3>2 DEF ItemOK, Passed
    <3>4. n \in 1..x.start /\ n <= Len(x.file.lines)
      BY <3>1, <3>2, <3>3 DEF Earned
    <3>5. turns' = turns
      BY <2>3 DEF Finalize, Claim, storeVars
    <3> QED
      BY <3>2, <3>4, <3>5 DEF Earned
  <2> QED
    BY <2>1, <2>2, <2>3
<1> QED
  BY <1>1, <1>2, <1>3, PTL DEF Spec, CompleteIsEarned
=============================================================================
