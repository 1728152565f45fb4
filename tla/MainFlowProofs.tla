--------------------------- MODULE MainFlowProofs ---------------------------
(***************************************************************************)
(* MainFlow for any tables, records and values, and any number of runs,    *)
(* crashes and I/O errors.                                                 *)
(***************************************************************************)
EXTENDS MainFlow, FiniteSetTheorems, TLAPS

-----------------------------------------------------------------------------
(* The inductive invariant.                                                *)

Covered(t) ==
  \A i \in 1..Len(ldb[t]) : t \in DOMAIN bloom /\ Exists(bloom[t], ldb[t][i])

AfterBlooms == {"scan", "scanTables", "leaves", "hierarchy", "check", "done"}

(* CreateBloomValue has its table in todo, and has covered the others. *)
BloomInv ==
  /\ pc \in Step /\ faults \in BOOLEAN
  /\ DOMAIN bloom \subseteq Table /\ DOMAIN ldb \subseteq Table
  /\ todo \subseteq DOMAIN ldb /\ current \in todo \cup {NoTable}
  /\ pc # "blooms" => todo = {} /\ current = NoTable
  /\ pc = "blooms" /\ ~faults => \A t \in DOMAIN ldb \ todo : Covered(t)
  /\ pc \in AfterBlooms /\ ~faults => \A t \in DOMAIN ldb : Covered(t)

(* The Bloom files that have the value, of all in the directory. *)
AllHits == Hits(bloom, DOMAIN bloom, valuetofind)

(* What ScanningWithBloom has counted is still in res. *)
ScanInv ==
  pc \in {"scanTables", "leaves", "hierarchy", "check"} /\ ~faults =>
    /\ res.foundInLeafBloom = Cardinality(AllHits)
    /\ res.foundInLeafBloomNoHierarchy = Cardinality(AllHits)
    /\ res.foundInSSTable = Occurrences(ldb, AllHits, {}, valuetofind)
    /\ res.foundInSSTableNoHierarchy = Occurrences(ldb, AllHits, {}, valuetofind)

(* The leaves are the Bloom files in the directory. *)
TreeInv == pc \in {"hierarchy", "check"} => tree = [t \in DOMAIN bloom |-> bloom[t]]

(* res has its fields. *)
ResInv ==
  res = [foundInLeafBloom |-> res.foundInLeafBloom,
         foundInSSTable |-> res.foundInSSTable,
         foundInLeafBloomNoHierarchy |-> res.foundInLeafBloomNoHierarchy,
         foundInSSTableNoHierarchy |-> res.foundInSSTableNoHierarchy,
         foundInLeafBloomWithHierarchy |-> res.foundInLeafBloomWithHierarchy,
         foundInSSTableWithHierarchy |-> res.foundInSSTableWithHierarchy,
         accessedBloomFilter |-> res.accessedBloomFilter]

FlowInv == BloomInv /\ ScanInv /\ TreeInv /\ ResInv /\ HierarchyAgrees

(* saveToFile of all values of a table covers it. *)
LEMMA SavedCovers ==
  ASSUME NEW records, NEW i \in 1..Len(records)
  PROVE  Exists(InsertAll(EmptyFilter, records), records[i])
BY DEF Exists, InsertAll, EmptyFilter, Positions

LEMMA FlowStarts ==
  ASSUME FlowAssumption, Init
  PROVE  FlowInv
<1>1. BloomInv
  <2>1. faults \in BOOLEAN
    BY Zenon DEF Init
  <2> QED
    BY <2>1 DEF Init, BloomInv, NoFiles, Step, AfterBlooms
<1> QED
  BY <1>1 DEF Init, FlowInv, ScanInv, TreeInv, ResInv, HierarchyAgrees, NoCounts

(* The steps of CreateBloomValue. *)
LEMMA CreateFileKeeps ==
  ASSUME FlowAssumption, BloomInv, NEW t \in Table, CreateFile(t)
  PROVE  BloomInv'
<1>1. /\ pc = "blooms" /\ t \in todo /\ current' = t
      /\ ldb' = ldb /\ pc' = pc /\ todo' = todo
      /\ DOMAIN bloom \subseteq DOMAIN bloom'
      /\ DOMAIN bloom' \subseteq DOMAIN bloom \cup {t}
      /\ \A x \in DOMAIN bloom : x # t => bloom'[x] = bloom[x]
  BY DEF CreateFile, Written
<1>2. faults' \in BOOLEAN /\ (~faults' => ~faults)
  <2>1. faults \in BOOLEAN
    BY DEF BloomInv
  <2>2. faults' = faults \/ faults' = TRUE
    BY Zenon DEF CreateFile
  <2> QED
    BY <2>1, <2>2, Zenon
<1>3. ASSUME ~faults', NEW x \in DOMAIN ldb \ todo PROVE Covered(x)'
  <2>1. Covered(x) /\ x # t
    BY <1>1, <1>2, <1>3 DEF BloomInv
  <2> QED
    BY <1>1, <2>1 DEF Covered
<1> QED
  BY <1>1, <1>2, <1>3, Zenon DEF BloomInv, AfterBlooms

LEMMA SaveToFileKeeps ==
  ASSUME FlowAssumption, BloomInv, SaveToFile
  PROVE  BloomInv'
<1>1. /\ pc = "blooms" /\ current \in todo /\ current' = NoTable
      /\ ldb' = ldb /\ pc' = pc /\ todo' = todo \ {current}
  BY Zenon DEF SaveToFile, BloomInv
<1>2. /\ DOMAIN bloom \subseteq DOMAIN bloom'
      /\ DOMAIN bloom' \subseteq DOMAIN bloom \cup {current}
      /\ \A x \in DOMAIN bloom : x # current => bloom'[x] = bloom[x]
  BY DEF SaveToFile, Written
<1>3. faults' \in BOOLEAN /\ (~faults' => ~faults)
  BY Zenon DEF SaveToFile, BloomInv
<1>4. ~faults' => bloom' = Written(bloom, current,
                             InsertAll(EmptyFilter, DumpSSTable(ldb, current, TRUE)))
  BY Zenon DEF SaveToFile
<1>5. ASSUME ~faults', NEW x \in DOMAIN ldb \ todo' PROVE Covered(x)'
  <2>1. CASE x = current
    <3>1. current \in DOMAIN bloom' /\ bloom'[current] = InsertAll(EmptyFilter, ldb[current])
      BY <1>1, <1>4, <1>5, Zenon DEF Written, DumpSSTable, BloomInv
    <3> QED
      BY <1>1, <2>1, <3>1, SavedCovers DEF Covered, Exists
  <2>2. CASE x # current
    <3>1. Covered(x)
      BY <1>1, <1>3, <1>5, <2>2 DEF BloomInv
    <3> QED
      BY <1>1, <1>2, <2>2, <3>1 DEF Covered
  <2> QED
    BY <2>1, <2>2
<1> QED
  BY <1>1, <1>2, <1>3, <1>5 DEF BloomInv, AfterBlooms

(* The other steps leave bloom alone, except Crash, after which nothing is  *)
(* claimed of it.                                                          *)
LEMMA BloomInductive ==
  ASSUME FlowAssumption, BloomInv, [Next]_vars
  PROVE  BloomInv'
<1> USE DEF BloomInv, Step, AfterBlooms
<1>1. ASSUME NEW v \in Value, StartProgram(v) PROVE BloomInv'
  BY <1>1 DEF StartProgram
<1>2. CASE DbCreation
  <2>1. DOMAIN ldb' \subseteq Table
    BY <1>2 DEF DbCreation
  <2> QED
    BY <1>2, <2>1 DEF DbCreation
<1>3. CASE ListTables
  BY <1>3 DEF ListTables, ListFiles, disk
<1>4. ASSUME NEW t \in Table, CreateFile(t) PROVE BloomInv'
  BY <1>4, CreateFileKeeps
<1>5. CASE SaveToFile
  BY <1>5, SaveToFileKeeps
<1>6. CASE EndBlooms
  BY <1>6, Zenon DEF EndBlooms, disk, Covered
<1>7. CASE ScanningWithBloom \/ ScanningWithoutBloom \/ CheckInHierarchy
  <2>1. /\ UNCHANGED <<ldb, bloom, todo, current>>
        /\ pc \in AfterBlooms /\ pc' \in AfterBlooms
    BY <1>7, Zenon DEF ScanningWithBloom, ScanningWithoutBloom, CheckInHierarchy, disk
  <2>2. faults' \in BOOLEAN /\ (~faults' => ~faults)
    BY <1>7, Zenon DEF ScanningWithBloom, ScanningWithoutBloom, CheckInHierarchy
  <2> QED
    BY <2>1, <2>2, Zenon DEF Covered
<1>8. CASE CreateLeafHierarchyLevel \/ CreateHierarchy \/ UNCHANGED vars
  BY <1>8, Zenon DEF CreateLeafHierarchyLevel, CreateHierarchy, disk, vars, Covered
<1>9. CASE WriteExp10Content \/ Crash
  <2>1. /\ ldb' = ldb /\ pc' = "stopped" /\ todo' = {} /\ current' = NoTable
    BY <1>9 DEF WriteExp10Content, Crash, Stop
  <2>2. faults' \in BOOLEAN
    BY <1>9, Zenon DEF WriteExp10Content, Crash, Stop
  <2>3. DOMAIN bloom' \subseteq DOMAIN bloom \cup DOMAIN ldb
    BY <1>9 DEF WriteExp10Content, Crash, Written
  <2> QED
    BY <2>1, <2>2, <2>3, Zenon
<1> QED
  BY <1>1, <1>2, <1>3, <1>4, <1>5, <1>6, <1>7, <1>8, <1>9, Zenon DEF Next

-----------------------------------------------------------------------------
(* The counts.                                                             *)

(* The directory, the value and res as ScanningWithBloom has left them. *)
Same == UNCHANGED <<ldb, bloom, valuetofind, res>>

LEMMA SameScan ==
  ASSUME ScanInv, Same, ~faults' => ~faults,
         pc' \in {"leaves", "hierarchy", "check"} =>
           pc \in {"scanTables", "leaves", "hierarchy", "check"},
         pc' # "scanTables" \/ pc = "scanTables"
  PROVE  ScanInv'
<1>1. AllHits' = AllHits
  BY DEF AllHits, Hits, Same
<1> QED
  BY <1>1 DEF ScanInv, Same

(* A search of the hierarchy that loads the Bloom files it was given finds *)
(* those that have the value, as the search through all of them did.       *)
LEMMA AnswerHits ==
  ASSUME tree = [t \in DOMAIN bloom |-> bloom[t]],
         NEW bloomFiles \in TreeAnswers(valuetofind)
  PROVE  /\ Hits(bloom, bloomFiles, valuetofind) = AllHits
         /\ bloomFiles \subseteq DOMAIN bloom /\ AllHits \subseteq bloomFiles
BY DEF TreeAnswers, Hits, AllHits

LEMMA CheckAgrees ==
  ASSUME FlowAssumption, FlowInv, CheckInHierarchy
  PROVE  HierarchyAgrees' /\ ResInv'
<1>1. PICK bloomFiles \in TreeAnswers(valuetofind), lost \in SUBSET DOMAIN ldb :
        /\ res' = LET r == IF bloomFiles = {} THEN res
                           ELSE ScanningInBloomFiles(bloomFiles, lost, valuetofind)
                  IN  [r EXCEPT !.foundInLeafBloomWithHierarchy = r.foundInLeafBloom,
                                !.foundInSSTableWithHierarchy = r.foundInSSTable,
                                !.accessedBloomFilter = Cardinality(bloomFiles)]
        /\ faults' = (faults \/ lost # {})
  BY Zenon DEF CheckInHierarchy
<1>2. pc = "check" /\ tree = [t \in DOMAIN bloom |-> bloom[t]]
  BY DEF CheckInHierarchy, FlowInv, TreeInv
<1>3. /\ Hits(bloom, bloomFiles, valuetofind) = AllHits
      /\ bloomFiles \subseteq Table /\ AllHits \subseteq bloomFiles
  BY <1>2, AnswerHits DEF FlowInv, BloomInv
<1>4. /\ Cardinality(AllHits) =< Cardinality(bloomFiles)
      /\ Cardinality(AllHits) \in Nat /\ Cardinality(bloomFiles) \in Nat
  <2>1. IsFiniteSet(bloomFiles)
    BY <1>3, FS_Subset DEF FlowAssumption
  <2> QED
    BY <1>3, <2>1, FS_Subset, FS_CardinalityType
<1> DEFINE r == IF bloomFiles = {} THEN res
                ELSE ScanningInBloomFiles(bloomFiles, lost, valuetofind)
<1>5. /\ r = [res EXCEPT !.foundInLeafBloom = r.foundInLeafBloom,
                         !.foundInSSTable = r.foundInSSTable]
      /\ bloomFiles # {} =>
           /\ r.foundInLeafBloom = Cardinality(AllHits)
           /\ r.foundInSSTable = Occurrences(ldb, AllHits, lost, valuetofind)
  BY <1>3, Zenon DEF FlowInv, ResInv, ScanningInBloomFiles
<1>6. res' = [r EXCEPT !.foundInLeafBloomWithHierarchy = r.foundInLeafBloom,
                       !.foundInSSTableWithHierarchy = r.foundInSSTable,
                       !.accessedBloomFilter = Cardinality(bloomFiles)]
  BY <1>1
<1> HIDE DEF r
<1>7. ResInv' /\ res'.foundInLeafBloomWithHierarchy = r.foundInLeafBloom
      /\ res'.foundInSSTableWithHierarchy = r.foundInSSTable
      /\ res'.accessedBloomFilter = Cardinality(bloomFiles)
      /\ res'.foundInLeafBloomNoHierarchy = res.foundInLeafBloomNoHierarchy
      /\ res'.foundInSSTableNoHierarchy = res.foundInSSTableNoHierarchy
  BY <1>5, <1>6, Zenon DEF FlowInv, ResInv
<1>8. ~faults' => ~faults /\ lost = {}
  BY <1>1, Zenon DEF FlowInv, BloomInv
<1>9. ~faults' => /\ r.foundInLeafBloom = Cardinality(AllHits)
                  /\ r.foundInSSTable = Occurrences(ldb, AllHits, {}, valuetofind)
                  /\ res.foundInLeafBloomNoHierarchy = Cardinality(AllHits)
                  /\ res.foundInSSTableNoHierarchy = Occurrences(ldb, AllHits, {}, valuetofind)
  <2>1. bloomFiles = {} => r = res
    BY DEF r
  <2> QED
    BY <1>2, <1>5, <1>8, <2>1 DEF FlowInv, ScanInv
<1> QED
  BY <1>4, <1>7, <1>9 DEF HierarchyAgrees

LEMMA ScanCounts ==
  ASSUME FlowAssumption, FlowInv, ScanningWithBloom
  PROVE  ScanInv' /\ ResInv'
<1>1. PICK lost \in SUBSET DOMAIN ldb :
        /\ res' = LET r == ScanningInBloomFiles(ListFiles(bloom), lost, valuetofind)
                  IN  [r EXCEPT !.foundInLeafBloomNoHierarchy = r.foundInLeafBloom,
                                !.foundInSSTableNoHierarchy = r.foundInSSTable]
        /\ faults' = (faults \/ lost # {})
  BY Zenon DEF ScanningWithBloom
<1>2. AllHits' = AllHits /\ ldb' = ldb /\ valuetofind' = valuetofind
  BY DEF ScanningWithBloom, disk, AllHits, Hits
<1>3. ~faults' => lost = {}
  BY <1>1, Zenon DEF FlowInv, BloomInv
<1>4. ResInv' /\ res'.foundInLeafBloom = Cardinality(AllHits)
      /\ res'.foundInLeafBloomNoHierarchy = Cardinality(AllHits)
      /\ res'.foundInSSTable = Occurrences(ldb, AllHits, lost, valuetofind)
      /\ res'.foundInSSTableNoHierarchy = Occurrences(ldb, AllHits, lost, valuetofind)
  BY <1>1, Zenon DEF FlowInv, ResInv, ScanningInBloomFiles, ListFiles, AllHits
<1> QED
  BY <1>2, <1>3, <1>4 DEF ScanInv

LEMMA FlowInductive ==
  ASSUME FlowAssumption, FlowInv, [Next]_vars
  PROVE  FlowInv'
<1>0. BloomInv'
  BY BloomInductive DEF FlowInv
<1> USE DEF FlowInv
<1>1. ASSUME NEW v \in Value, StartProgram(v) PROVE FlowInv'
  <2>1. pc' = "create" /\ ResInv'
    BY <1>1, Zenon DEF StartProgram, ResInv
  <2> QED
    BY <1>0, <2>1, Zenon DEF ScanInv, TreeInv, HierarchyAgrees
<1>2. CASE \/ DbCreation \/ ListTables \/ (\E t \in Table : CreateFile(t))
           \/ SaveToFile \/ EndBlooms
  <2>1. pc' \in {"list", "blooms", "scan"} /\ res' = res
    BY <1>2, Zenon DEF DbCreation, ListTables, CreateFile, SaveToFile, EndBlooms
  <2> QED
    BY <1>0, <2>1, Zenon DEF ScanInv, TreeInv, HierarchyAgrees, ResInv
<1>3. CASE ScanningWithBloom
  <2>1. pc' = "scanTables"
    BY <1>3 DEF ScanningWithBloom
  <2> QED
    BY <1>0, <1>3, <2>1, ScanCounts DEF TreeInv, HierarchyAgrees
<1>4. CASE ScanningWithoutBloom
  <2>1. pc = "scanTables" /\ pc' = "leaves" /\ Same
    BY <1>4 DEF ScanningWithoutBloom, disk, Same
  <2>2. ~faults' => ~faults
    BY <1>4, Zenon DEF ScanningWithoutBloom, BloomInv
  <2> QED
    BY <1>0, <2>1, <2>2, SameScan DEF TreeInv, HierarchyAgrees, ResInv, Same
<1>5. CASE CreateLeafHierarchyLevel \/ CreateHierarchy
  <2>1. /\ pc \in {"leaves", "hierarchy"} /\ pc' \in {"hierarchy", "check"} /\ Same
        /\ faults' = faults
    BY <1>5 DEF CreateLeafHierarchyLevel, CreateHierarchy, disk, Same
  <2>2. TreeInv'
    BY <1>5 DEF CreateLeafHierarchyLevel, CreateHierarchy, disk, TreeInv, ListFiles
  <2> QED
    BY <1>0, <2>1, <2>2, SameScan DEF HierarchyAgrees, ResInv, Same
<1>6. CASE CheckInHierarchy
  <2>1. pc' = "done"
    BY <1>6 DEF CheckInHierarchy
  <2> QED
    BY <1>0, <1>6, <2>1, CheckAgrees, Zenon DEF ScanInv, TreeInv
<1>7. CASE WriteExp10Content \/ Crash
  <2>1. pc' = "stopped" /\ res' = NoCounts
    BY <1>7 DEF WriteExp10Content, Crash, Stop
  <2> QED
    BY <1>0, <2>1 DEF ScanInv, TreeInv, HierarchyAgrees, ResInv, NoCounts
<1>8. CASE UNCHANGED vars
  BY <1>0, <1>8, Zenon DEF vars, disk, ScanInv, TreeInv, HierarchyAgrees, ResInv, AllHits, Hits
<1> QED
  BY <1>1, <1>2, <1>3, <1>4, <1>5, <1>6, <1>7, <1>8 DEF Next

-----------------------------------------------------------------------------
(* The properties.                                                         *)

(* Once CreateBloomValue is through without an I/O error every value of    *)
(* every table is in the table's Bloom file, whatever the runs before have *)
(* left in the directory.                                                  *)
THEOREM BloomCoversTablesThm ==
  ASSUME FlowAssumption
  PROVE  Spec => []BloomCoversTables
<1>1. FlowInv => BloomCoversTables
  BY Zenon DEF FlowInv, BloomInv, BloomCoversTables, Covered, Step, AfterBlooms
<1> QED
  BY <1>1, FlowStarts, FlowInductive, PTL DEF Spec

(* Without I/O errors MainFlow reports the same counts with and without    *)
(* the hierarchy, whatever false positives the hierarchy has.              *)
THEOREM HierarchyAgreesThm ==
  ASSUME FlowAssumption
  PROVE  Spec => []HierarchyAgrees
<1>1. FlowInv => HierarchyAgrees
  BY DEF FlowInv
<1> QED
  BY <1>1, FlowStarts, FlowInductive, PTL DEF Spec
=============================================================================
