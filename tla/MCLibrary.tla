------------------------------ MODULE MCLibrary ------------------------------
(***************************************************************************)
(* One run for the parts that work on their own: those of LevelDB, the      *)
(* Bloom files and MainFlow.  The variable part says which of them takes    *)
(* the steps of a behaviour, the others rest in an initial state.           *)
(***************************************************************************)
EXTENDS LogFormat, TableFormat, Iterators, SkipList, Cache, Limiter, PosixEnv,
        PosixFile, MemEnv, Encoding, FileNames, Repair

CONSTANTS va, vb, Table, NoTable
MCValue == {va, vb}

(* Nine bits, so that the first char of a Bloom file uses its sign bit and  *)
(* the second is only partly used.                                          *)
VARIABLES bitArray, bloomFile, loaded, keys, found, bytesPc
bytesVars == <<bitArray, bloomFile, loaded, keys, found, bytesPc>>
MCFileHashPos == (va :> (0 :> 0 @@ 1 :> 7 @@ 2 :> 8)) @@
                 (vb :> (0 :> 7 @@ 1 :> 8 @@ 2 :> 7))
Bytes == INSTANCE BloomFile WITH
  Bit <- 0..8, Value <- MCValue, HashPos <- MCFileHashPos, BitCount <- 9,
  KeyLength <- (va :> 1) @@ (vb :> 2), MaxKeys <- 2,
  file <- bloomFile, pc <- bytesPc

(* Two bits, and two values of which one needs both bits and the other, by  *)
(* hash collisions, only one.                                               *)
VARIABLES ldb, bloom, used, flowPc, todo, table, tree, valuetofind, res,
          inTables, faults, flows
flowVars == <<ldb, bloom, used, flowPc, todo, table, tree, valuetofind, res,
              inTables, faults, flows>>
MCFlowHashPos == (va :> (0 :> 0 @@ 1 :> 1 @@ 2 :> 0)) @@
                 (vb :> (0 :> 1 @@ 1 :> 1 @@ 2 :> 1))
Flow == INSTANCE MainFlow WITH
  Bit <- 0..1, Value <- MCValue, HashPos <- MCFlowHashPos, MaxRecords <- 2,
  Leftover <- {7}, MaxFlows <- 2, pc <- flowPc, current <- table

(* What the proofs about MainFlow assume. *)
ASSUME LibraryAssumption == Flow!FlowAssumption

VARIABLE part

restingVars ==
  <<logVars, blockVars, tableVars, iterVars, skipVars, cacheVars, limiterVars,
    lockVars, bgVars, fileVars, currentFile, memVars, encodingVars, fileName,
    repairVars, bytesVars, flowVars>>

Part ==
  {"log", "block", "table", "iterators", "skiplist", "cache", "limiter",
   "lock", "background", "writable", "current", "memenv", "batch", "edit",
   "names", "repair", "bytes", "flow"}

Rests(p) == part # p

NoIterators ==
  /\ kids[2] = {} /\ dbIter.seq = 0
  /\ \A e \in kids[1] : e.key = 1 /\ e.type = kTypeValue

LibraryInit ==
  /\ part \in Part
  /\ LogInit /\ BlockInit /\ TableInit /\ SkipInit
  /\ LimiterInit /\ LockInit /\ BgInit /\ CurrentInit /\ MemInit /\ EncodingInit
  /\ IterInit /\ (Rests("iterators") => NoIterators)
  /\ CacheInit /\ (Rests("cache") => cache.capacity = 0)
  /\ FileInit /\ (Rests("writable") => wfile.is_manifest)
  /\ NamesInit /\ (Rests("names") => fileName = <<>>)
  /\ RepairInit /\ (Rests("repair") => dir = <<LogOf({})>>)
  /\ Bytes!Init /\ (Rests("bytes") => bitArray = {})
  /\ Flow!Init /\ (Rests("flow") => valuetofind = va)

LibraryNext ==
  /\ UNCHANGED part
  /\ IF part = "log"        THEN LogNext      ELSE UNCHANGED logVars
  /\ IF part = "block"      THEN BlockNext    ELSE UNCHANGED blockVars
  /\ IF part = "table"      THEN TableNext    ELSE UNCHANGED tableVars
  /\ IF part = "iterators"  THEN IterNextStep ELSE UNCHANGED iterVars
  /\ IF part = "skiplist"   THEN SkipNext     ELSE UNCHANGED skipVars
  /\ IF part = "cache"      THEN CacheNext    ELSE UNCHANGED cacheVars
  /\ IF part = "limiter"    THEN LimiterNext  ELSE UNCHANGED limiterVars
  /\ IF part = "lock"       THEN LockNext     ELSE UNCHANGED lockVars
  /\ IF part = "background" THEN BgNext       ELSE UNCHANGED bgVars
  /\ IF part = "writable"   THEN FileNext     ELSE UNCHANGED fileVars
  /\ IF part = "current"    THEN CurrentNext  ELSE UNCHANGED currentFile
  /\ IF part = "memenv"     THEN MemNext      ELSE UNCHANGED memVars
  /\ IF part = "names"      THEN NamesNext    ELSE UNCHANGED fileName
  /\ IF part = "repair"     THEN RepairNext   ELSE UNCHANGED repairVars
  /\ IF part = "bytes"      THEN Bytes!Next   ELSE UNCHANGED bytesVars
  /\ IF part = "flow"       THEN Flow!Next    ELSE UNCHANGED flowVars
  /\ CASE part = "batch" -> BatchNext
       [] part = "edit"  -> EditNext
       [] OTHER          -> UNCHANGED encodingVars

LibrarySpec == LibraryInit /\ [][LibraryNext]_<<part, restingVars>>

-----------------------------------------------------------------------------
(* Properties of several modules, as those define them; of a part that      *)
(* rests there is nothing to check.                                         *)

(* What is decoded or parsed is what was encoded, and what was cut or is no *)
(* name of ours is refused: write_batch.cc, version_edit.cc, filename.cc.   *)
DecodesExactly ==
  /\ Rests("batch") \/ BatchReplays
  /\ Rests("edit") \/ EditReadsBack
  /\ Rests("names") \/ ParsesExactly

(* A Bloom file is loaded bit for bit, and one that was cut short as the    *)
(* bits that are in it: bloom_value.cpp, saveToFile and loadFromFile.       *)
BloomFileLoads == Rests("bytes") \/ (Bytes!RoundTrip /\ Bytes!ShortFileLoadsPrefix)

(* MainFlow's three searches count the same occurrences without errors, and *)
(* with errors never more than the tables hold: the Bloom files cover the   *)
(* tables after CreateBloomValue, and no stale field of res is reported.    *)
FlowExact ==
  /\ Flow!TypeOK /\ Flow!BloomCoversTables /\ Flow!BloomScanFindsAll
  /\ Flow!HierarchyAgrees /\ Flow!NeverOvercounts

-----------------------------------------------------------------------------
(* Constants.                                                               *)

MCBlockKeys == {<<1, 3>>, <<1, 1>>, <<1, 1, 2>>, <<1, 3, 2>>, <<2, 3>>,
                <<2, 2, 1>>, <<3, 1>>}
MCTableKeys == {<<1, 3>>, <<1, 1>>, <<1, 1, 2>>, <<1, 3, 2>>, <<3, 3>>,
                <<3, 2, 1>>, <<3, 1>>}
MCBloomHash == (<<1>> :> 200) @@ (<<1, 1>> :> 100) @@ (<<1, 3>> :> 77)
               @@ (<<3>> :> 5) @@ (<<3, 2>> :> 255)

MCHashOf == (1 :> 0) @@ (2 :> 2) @@ (3 :> 1)
MCCharge == (1 :> 1) @@ (2 :> 1) @@ (3 :> 3)

MCLockThreads == {<<"p", 1>>, <<"p", 2>>, <<"q", 1>>}

MCSlices == {<<>>, <<7, 0, 5, 2>>}

(* Directories with up to three files, each a log, a whole or a damaged     *)
(* table, or one that holds nothing that can be read.                       *)
FilesOf(n) ==
  {LogOf({n, n + 3}), LogOf({}), TableOf({n, n + 3}), DamagedOf({n, n + 3}), DamagedOf({})}
MCDirectories ==
  {<<a>> : a \in FilesOf(1)}
  \cup {<<a, b>> : a \in FilesOf(1), b \in FilesOf(2)}
  \cup {<<a, b, c>> : a \in {DamagedOf({1, 4})}, b \in {LogOf({2, 5}), DamagedOf({})},
                      c \in {LogOf({3}), TableOf({3})}}
=============================================================================
