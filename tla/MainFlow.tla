------------------------------ MODULE MainFlow ------------------------------
(***************************************************************************)
(* MainFlow and ExpTen (src/main.cpp) and the DBOperation methods they     *)
(* call (src/bloom_hierarchy/dbOperation.cpp) on one database directory:   *)
(* create the database, write one Bloom file per SSTable, search a value   *)
(* through all Bloom files, through all SSTables and through the Bloom     *)
(* hierarchy, and report the counts of each.  The program may crash        *)
(* anywhere and be run again on the directory it left behind.              *)
(*                                                                         *)
(* A Bloom file is the filter that loadFromFile makes of it: bytes that    *)
(* are missing at the end read as zero bits, so a file that createFile has *)
(* truncated is the empty filter.  The tree is its leaves; a search in it  *)
(* may return any set of leaves that BloomTree allows (NoFalseNegative).   *)
(***************************************************************************)
EXTENDS BloomFilter, Integers, Sequences, FiniteSets, FiniteSetsExt

CONSTANTS
  Table,       \* numbers of SSTables: t.ldb, and t.bloom beside it
  NoTable,     \* no table
  MaxRecords,  \* bound on the records of an SSTable
  Leftover,    \* what the int fields of res may hold before MainFlow
  MaxFlows     \* bound on the number of runs of the program

\* The directory has finitely many tables, and NoTable is none of them.
FlowAssumption == IsFiniteSet(Table) /\ NoTable \notin Table

VARIABLES
  ldb,          \* the .ldb files: the values that dumpSSTable finds in each
  bloom,        \* the .bloom files: the filter in each
  used,         \* the numbers LevelDB has given to tables
  pc,           \* the next step of MainFlow
  todo,         \* CreateBloomValue: the tables whose turn is still to come
  current,      \* CreateBloomValue: the table between createFile and saveToFile
  tree,         \* the leaves of treeHierarchy: name and filter
  valuetofind,
  res,          \* the counts in Result
  inTables,     \* ScanningWithoutBloom: foundInSSTable
  faults,       \* history: an I/O call failed since MainFlow began
  flows         \* history: the number of runs of the program

disk == <<ldb, bloom, used>>
vars == <<disk, pc, todo, current, tree, valuetofind, res, inTables, faults, flows>>

Records == UNION {[1..n -> Value] : n \in 1..MaxRecords}

Counts == [foundInLeafBloom : Int, foundInSSTable : Int,
           foundInLeafBloomNoHierarchy : Int, foundInSSTableNoHierarchy : Int,
           foundInLeafBloomWithHierarchy : Int, foundInSSTableWithHierarchy : Int,
           accessedBloomFilter : Int]

\* listFilesWithExtension, by the number in the name of the file.
ListFiles(files) == DOMAIN files

\* The file of table t is written anew with the filter f.
Written(files, t, f) == [x \in DOMAIN files \cup {t} |-> IF x = t THEN f ELSE files[x]]

\* The filter after insert of the value of every record.
InsertAll(filter, records) ==
  filter \cup UNION {Positions(records[i]) : i \in 1..Len(records)}

-----------------------------------------------------------------------------
(* The program.                                                            *)

\* main and ExpTen up to MainFlow: Result res is not initialised, or it
\* still holds the counts of the database before this one.
StartProgram(v) ==
  /\ pc = "stopped" /\ flows < MaxFlows
  /\ flows' = flows + 1
  /\ pc' = "create"
  /\ valuetofind' = v
  /\ \E leaf, sst \in Leftover :
       res' = [res EXCEPT !.foundInLeafBloom = leaf, !.foundInSSTable = sst]
  /\ UNCHANGED <<ldb, bloom, used, todo, current, tree, inTables, faults>>

NoCounts == [foundInLeafBloom |-> 0, foundInSSTable |-> 0,
             foundInLeafBloomNoHierarchy |-> 0, foundInSSTableNoHierarchy |-> 0,
             foundInLeafBloomWithHierarchy |-> 0, foundInSSTableWithHierarchy |-> 0,
             accessedBloomFilter |-> 0]

NoFiles == [t \in {} |-> EmptyFilter]

\* The process ends, and what it had in memory is gone.
Stop ==
  /\ pc' = "stopped"
  /\ todo' = {} /\ current' = NoTable /\ tree' = NoFiles
  /\ res' = NoCounts /\ inTables' = 0 /\ faults' = FALSE
  /\ UNCHANGED <<valuetofind, flows>>

\* writeExp10Content: the counts are written out, and MainFlow goes on to the
\* next database or the program ends.
WriteExp10Content ==
  /\ pc = "done"
  /\ Stop
  /\ UNCHANGED <<ldb, bloom, used>>

-----------------------------------------------------------------------------
(* Creating the database and the Bloom files.                              *)

\* DbCreation: whatever the directory held before, LevelDB keeps some of its
\* tables, removes others and writes new ones under numbers it never used.
\* It knows nothing of the Bloom files.
DbCreation ==
  /\ pc = "create"
  /\ \E keep \in SUBSET DOMAIN ldb, new \in SUBSET (Table \ used) :
       /\ \E content \in [new -> Records] :
            ldb' = [t \in keep \cup new |-> IF t \in new THEN content[t] ELSE ldb[t]]
       /\ used' = used \cup new
  /\ pc' = "list"
  /\ UNCHANGED <<bloom, todo, current, tree, valuetofind, res, inTables,
                 faults, flows>>

\* Mutant: tables that have a Bloom file already are skipped.
ListTablesWithoutBloom ==
  /\ pc = "list"
  /\ todo' = DOMAIN ldb \ DOMAIN bloom
  /\ pc' = "blooms"
  /\ UNCHANGED <<disk, current, tree, valuetofind, res, inTables, faults, flows>>

\* CreateBloomValue lists the .ldb files.
ListTables ==
  /\ pc = "list"
  /\ todo' = ListFiles(ldb)
  /\ pc' = "blooms"
  /\ UNCHANGED <<disk, current, tree, valuetofind, res, inTables, faults, flows>>

\* CreateBloomValue, first half of an iteration: createFile truncates the Bloom
\* file, or reports that it cannot be opened and goes on.
CreateFile(t) ==
  /\ pc = "blooms" /\ current = NoTable /\ t \in todo
  /\ current' = t
  /\ \/ bloom' = Written(bloom, t, EmptyFilter) /\ UNCHANGED faults
     \/ UNCHANGED bloom /\ faults' = TRUE
  /\ UNCHANGED <<ldb, used, pc, todo, tree, valuetofind, res, inTables, flows>>

\* dumpSSTable returns no record when the table cannot be read.
DumpSSTable(tables, t, readable) ==
  IF readable /\ t \in DOMAIN tables THEN tables[t] ELSE <<>>

\* CreateBloomValue, second half of an iteration: the values are inserted and
\* saveToFile writes the file, or cannot open it, or loses a part of it.
SaveToFile ==
  /\ pc = "blooms" /\ current # NoTable
  /\ \E readable \in BOOLEAN :
       LET filter == InsertAll(EmptyFilter, DumpSSTable(ldb, current, readable)) IN
         \/ /\ bloom' = Written(bloom, current, filter)
            /\ faults' = (faults \/ ~readable)
         \/ /\ UNCHANGED bloom
            /\ faults' = TRUE
         \/ /\ \E part \in SUBSET filter : bloom' = Written(bloom, current, part)
            /\ faults' = TRUE
  /\ todo' = todo \ {current}
  /\ current' = NoTable
  /\ UNCHANGED <<ldb, used, pc, tree, valuetofind, res, inTables, flows>>

EndBlooms ==
  /\ pc = "blooms" /\ current = NoTable /\ todo = {}
  /\ pc' = "scan"
  /\ UNCHANGED <<disk, todo, current, tree, valuetofind, res, inTables, faults, flows>>

-----------------------------------------------------------------------------
(* The searches.                                                           *)

\* RetrieveFromSStable: the records of a table whose value is v.
RetrieveFromSStable(tables, t, v, readable) ==
  LET records == DumpSSTable(tables, t, readable)
  IN  Cardinality({i \in 1..Len(records) : records[i] = v})

\* The files among names that have v, as the tables they belong to.
Hits(files, names, v) == {t \in names : Exists(files[t], v)}

\* The occurrences of v in the tables named; those in lost cannot be read.
Occurrences(tables, names, lost, v) ==
  MapThenSumSet(LAMBDA t : RetrieveFromSStable(tables, t, v, t \notin lost), names)

\* ScanningInBloomFiles: every Bloom file is loaded, and the table beside it is
\* searched when the filter has the value.
ScanningInBloomFiles(names, lost, v) ==
  LET hits == Hits(bloom, names, v)
  IN  [res EXCEPT !.foundInLeafBloom = Cardinality(hits),
                  !.foundInSSTable = Occurrences(ldb, hits, lost, v)]

\* ScanningWithBloom, and the two assignments to res after it in MainFlow.
ScanningWithBloom ==
  /\ pc = "scan"
  /\ \E lost \in SUBSET DOMAIN ldb :
       LET r == ScanningInBloomFiles(ListFiles(bloom), lost, valuetofind) IN
         /\ res' = [r EXCEPT !.foundInLeafBloomNoHierarchy = r.foundInLeafBloom,
                             !.foundInSSTableNoHierarchy = r.foundInSSTable]
         /\ faults' = (faults \/ lost # {})
  /\ pc' = "scanTables"
  /\ UNCHANGED <<disk, todo, current, tree, valuetofind, inTables, flows>>

\* ScanningWithoutBloom: its count is not reported.
ScanningWithoutBloom ==
  /\ pc = "scanTables"
  /\ \E lost \in SUBSET DOMAIN ldb :
       /\ inTables' = Occurrences(ldb, ListFiles(ldb), lost, valuetofind)
       /\ faults' = (faults \/ lost # {})
  /\ pc' = "leaves"
  /\ UNCHANGED <<disk, todo, current, tree, valuetofind, res, flows>>

\* CreateLeafHierarchyLevel: every Bloom file becomes a leaf.
CreateLeafHierarchyLevel ==
  /\ pc = "leaves"
  /\ tree' = [t \in ListFiles(bloom) |-> bloom[t]]
  /\ pc' = "hierarchy"
  /\ UNCHANGED <<disk, todo, current, valuetofind, res, inTables, faults, flows>>

\* CreateHierarchy: createTree adds the inner nodes (module BloomTree).
CreateHierarchy ==
  /\ pc = "hierarchy"
  /\ pc' = "check"
  /\ UNCHANGED <<disk, todo, current, tree, valuetofind, res, inTables, faults, flows>>

\* What checkExistance may return: it misses no leaf that has the value, and
\* may have others, since the filters of the leaves are not read.
TreeAnswers(v) == {a \in SUBSET DOMAIN tree : Hits(tree, DOMAIN tree, v) \subseteq a}

\* CheckInHierarchy, and the two assignments to res after it in MainFlow: when
\* the hierarchy returns no file, res keeps the counts it had.
CheckInHierarchy ==
  /\ pc = "check"
  /\ \E bloomFiles \in TreeAnswers(valuetofind), lost \in SUBSET DOMAIN ldb :
       LET r == IF bloomFiles = {} THEN res
                ELSE ScanningInBloomFiles(bloomFiles, lost, valuetofind)
       IN  /\ res' = [r EXCEPT !.foundInLeafBloomWithHierarchy = r.foundInLeafBloom,
                               !.foundInSSTableWithHierarchy = r.foundInSSTable,
                               !.accessedBloomFilter = Cardinality(bloomFiles)]
           /\ faults' = (faults \/ lost # {})
  /\ pc' = "done"
  /\ UNCHANGED <<disk, todo, current, tree, valuetofind, inTables, flows>>

\* The process ends at any point: an assertion that fails, an exception of
\* loadFromFile that nobody catches, a kill.  A Bloom file that saveToFile was
\* writing may have got any part of its bits.
Crash ==
  /\ pc # "stopped"
  /\ IF current = NoTable
     THEN UNCHANGED bloom
     ELSE \/ UNCHANGED bloom
          \/ \E part \in SUBSET InsertAll(EmptyFilter, ldb[current]) :
               bloom' = Written(bloom, current, part)
  /\ Stop
  /\ UNCHANGED <<ldb, used>>

-----------------------------------------------------------------------------
Init ==
  /\ ldb = [t \in {} |-> <<>>] /\ bloom = NoFiles
  /\ used = {}
  /\ pc = "stopped" /\ todo = {} /\ current = NoTable
  /\ tree = NoFiles
  /\ valuetofind \in Value
  /\ res = NoCounts
  /\ inTables = 0 /\ faults = FALSE /\ flows = 0

Next ==
  \/ \E v \in Value : StartProgram(v)
  \/ DbCreation
  \/ ListTables
  \/ \E t \in Table : CreateFile(t)
  \/ SaveToFile
  \/ EndBlooms
  \/ ScanningWithBloom
  \/ ScanningWithoutBloom
  \/ CreateLeafHierarchyLevel
  \/ CreateHierarchy
  \/ CheckInHierarchy
  \/ WriteExp10Content
  \/ Crash

Spec == Init /\ [][Next]_vars

-----------------------------------------------------------------------------
(* Properties.                                                             *)

Step == {"stopped", "create", "list", "blooms", "scan", "scanTables", "leaves",
         "hierarchy", "check", "done"}

\* Every variable keeps its type; in particular the table between createFile and
\* saveToFile is one that is still to be done and whose .ldb file exists.
TypeOK ==
  /\ DOMAIN ldb \subseteq used /\ used \subseteq Table
  /\ \A t \in DOMAIN ldb : ldb[t] \in Seq(Value)
  /\ DOMAIN bloom \subseteq used /\ \A t \in DOMAIN bloom : bloom[t] \in Filter
  /\ pc \in Step
  /\ todo \subseteq DOMAIN ldb
  /\ current \in todo \cup {NoTable}
  /\ DOMAIN tree \subseteq Table /\ \A t \in DOMAIN tree : tree[t] \in Filter
  /\ valuetofind \in Value
  /\ res \in Counts /\ inTables \in Int
  /\ faults \in BOOLEAN /\ flows \in 0..MaxFlows

\* Once CreateBloomValue is through without an I/O error, every value of every
\* table is in the table's Bloom file, whatever an earlier run that crashed
\* between createFile and saveToFile has left in the directory.
BloomCoversTables ==
  pc \in Step \ {"stopped", "create", "list", "blooms"} /\ ~faults =>
    \A t \in DOMAIN ldb : \A i \in 1..Len(ldb[t]) :
      t \in DOMAIN bloom /\ Exists(bloom[t], ldb[t][i])

\* Without I/O errors the search through the Bloom files reports exactly the
\* occurrences that the search through all tables finds: no filter hides one,
\* and Bloom files of tables that no longer exist add none.
BloomScanFindsAll ==
  pc \in {"leaves", "hierarchy", "check", "done"} /\ ~faults =>
    res.foundInSSTableNoHierarchy = inTables

\* Without I/O errors MainFlow reports the same two counts with and without the
\* hierarchy, also when the hierarchy returns no file and CheckInHierarchy
\* leaves the counts in res as they were.
HierarchyAgrees ==
  pc = "done" /\ ~faults =>
    /\ res.foundInLeafBloomWithHierarchy = res.foundInLeafBloomNoHierarchy
    /\ res.foundInSSTableWithHierarchy = res.foundInSSTableNoHierarchy
    /\ res.foundInLeafBloomWithHierarchy <= res.accessedBloomFilter

\* Errors and crashes only lose occurrences: no reported count of a finished
\* MainFlow, stale fields of res included, is above what the tables hold.
NeverOvercounts ==
  pc = "done" =>
    LET total == Occurrences(ldb, DOMAIN ldb, {}, valuetofind)
    IN  /\ res.foundInSSTableNoHierarchy \in 0..total
        /\ res.foundInSSTableWithHierarchy \in 0..total
=============================================================================
