---------------------------- MODULE TableFormat ----------------------------
(***************************************************************************)
(* LevelDB's tables: TableBuilder, the filter block and the bloom filters  *)
(* in it, Table::Open, InternalGet, ApproximateOffsetOf, and the two-level *)
(* iterator over the index block and the data blocks.                      *)
(*                                                                         *)
(* The file is a function from offsets to blocks.  Blocks are stored       *)
(* uncompressed, with a trailer of one cell.  One block may be damaged;    *)
(* checksums are verified, so that reading it is an error.                 *)
(***************************************************************************)
EXTENDS Block, Functions, TLC

CONSTANTS TableKeys,      \* internal keys that are added and sought
          TableBlockSize, \* options.block_size, in cells
          FilterBase,     \* kFilterBase, in cells
          BitsPerKey, Probes,  \* the parameters of the bloom filter
          HashBits,       \* the width of a hash, 32 in the code
          BloomHash       \* the hash of every user key

ASSUME TableAssumption ==
  /\ FilterBase \in Nat \ {0} /\ BitsPerKey \in Nat \ {0} /\ Probes \in Nat \ {0}
  /\ HashBits \in Nat \ {0}
  /\ \A k \in TableKeys : BloomHash[ExtractUserKey(k)] \in 0..2^HashBits - 1

VARIABLES tab,      \* TableBuilder::Rep, then the file it wrote
          tabKeys,  \* the keys added
          tabBad,   \* the offset of the damaged block, -1: none
          tabOpen,  \* Table::Rep: opened, failed, and the filter that was read
          tabIter,  \* the TwoLevelIterator
          tabPos,   \* the place the iterator should be at, 0: not valid
          tabLost   \* the iterator passed over entries it could not read

tableVars == <<tab, tabKeys, tabBad, tabOpen, tabIter, tabPos, tabLost>>

----------------------------------------------------------------------------
(* Bloom filters (util/bloom.cc), over the user keys (dbformat.cc,         *)
(* InternalFilterPolicy).                                                  *)

Delta(h) ==   \* rotate right by 17 of 32 bits
  LET low == 2 ^ ((HashBits + 1) \div 2)
  IN  (h \div low) + (h % low) * 2 ^ (HashBits - (HashBits + 1) \div 2)

ProbesOf(key, bits) ==
  LET h == BloomHash[ExtractUserKey(key)]
  IN  {((h + j * Delta(h)) % 2^HashBits) % bits : j \in 0..Probes - 1}

CreateFilter(keys) ==
  LET bits == Max({Cardinality(keys) * BitsPerKey, 2})
  IN  IF keys = {} THEN [bits |-> 0, set |-> {}]
      ELSE [bits |-> bits, set |-> UNION {ProbesOf(k, bits) : k \in keys}]

FilterMatches(f, key) == f.bits > 0 /\ ProbesOf(key, f.bits) \subseteq f.set

(* FilterBlockBuilder: the filters generated and the keys of the next one. *)
NewFilter == [filters |-> <<>>, keys |-> {}]

GenerateFilter(f) == [filters |-> Append(f.filters, CreateFilter(f.keys)), keys |-> {}]

StartBlock(f, offset) ==
  FoldLeft(LAMBDA g, i : GenerateFilter(g), f,
           [i \in 1..(offset \div FilterBase) - Len(f.filters) |-> i])

FinishFilter(f) == IF f.keys = {} THEN f ELSE GenerateFilter(f)

(* FilterBlockReader::KeyMayMatch *)
KeyMayMatch(f, offset, key) ==
  LET i == offset \div FilterBase
  IN  i < Len(f.filters) => FilterMatches(f.filters[i + 1], key)

----------------------------------------------------------------------------
(* TableBuilder *)

NewBuilder == [file |-> <<>>, offset |-> 0, data |-> NewBlock, index |-> NewBlock,
               filter |-> NewFilter, last |-> <<>>, pending |-> -1, meta |-> -1,
               indexAt |-> -1, filterAt |-> -1, closed |-> FALSE]

(* WriteBlock and WriteRawBlock *)
WriteBlock(r, b, size) ==
  [r EXCEPT !.file = (r.offset :> b) @@ @, !.offset = @ + size + 1]

FlushBlock(r) ==
  IF r.data.entries = <<>> THEN r
  ELSE LET w == WriteBlock(r, r.data, CurrentSizeEstimate(r.data))
       IN  [w EXCEPT !.data = NewBlock, !.pending = r.offset,
                     !.filter = StartBlock(@, w.offset)]

(* The index entry of the last block, under a key not below its keys. *)
IndexEntry(r, key) ==
  IF r.pending < 0 THEN r
  ELSE [r EXCEPT !.index = BlockAdd(@, key, r.pending, 1), !.pending = -1]

TableAdd(r, key, value) ==
  LET Add(i) == [i EXCEPT !.filter.keys = @ \cup {key}, !.last = key,
                          !.data = BlockAdd(@, key, value, RestartInterval)]
      Full(a) == IF CurrentSizeEstimate(a.data) >= TableBlockSize THEN FlushBlock(a) ELSE a
  IN  Full(Add(IF r.pending < 0 THEN r
               ELSE IndexEntry(r, FindShortestSeparator(r.last, key))))

(* The last data block, then the filter, the metaindex and the index block. *)
TableFinish(r) ==
  LET Filter(d) == WriteBlock([d EXCEPT !.filterAt = d.offset], FinishFilter(d.filter),
                              Len(d.filter.filters) + 1)
      Meta(f)   == WriteBlock([f EXCEPT !.meta = f.offset],
                              BlockAdd(NewBlock, <<0, 0>>, f.filterAt, 1), 4)
      Entry(m)  == IF m.pending < 0 THEN m ELSE IndexEntry(m, FindShortSuccessor(m.last))
      Index(i)  == WriteBlock([i EXCEPT !.indexAt = i.offset, !.closed = TRUE],
                              i.index, CurrentSizeEstimate(i.index))
  IN  Index(Entry(Meta(Filter(FlushBlock(r)))))

----------------------------------------------------------------------------
(* Table *)

ReadsOk(at) == at # tabBad

(* Table::Open, with ReadMeta and ReadFilter: without the index block the  *)
(* table does not open, without the other two it has no filter.            *)
OpenTable ==
  /\ tab.closed /\ tabOpen = "no"
  /\ tabOpen' = IF ~ ReadsOk(tab.indexAt) THEN "failed"
                ELSE IF ReadsOk(tab.meta) /\ ReadsOk(tab.filterAt) THEN "filter" ELSE "plain"
  /\ UNCHANGED <<tab, tabKeys, tabBad, tabIter, tabPos, tabLost>>

IndexBlock == tab.index
Sought(b, key) == IterSeek(b, NewIter(b), key)

(* Table::InternalGet: what the callback gets and the status. *)
InternalGet(key) ==
  LET Entry(block, e) == [ok |-> TRUE, entry |-> IF IterValid(block, e) THEN e.key ELSE <<>>]
      InBlock(block) == Entry(block, Sought(block, key))
      From(i) ==
        IF \/ ~ IterValid(IndexBlock, i)
           \/ tabOpen = "filter" /\ ~ KeyMayMatch(tab.file[tab.filterAt], i.value, key)
        THEN [ok |-> TRUE, entry |-> <<>>]
        ELSE IF ~ ReadsOk(i.value) THEN [ok |-> FALSE, entry |-> <<>>]
        ELSE InBlock(tab.file[i.value])
  IN  From(Sought(IndexBlock, key))

(* Table::ApproximateOffsetOf *)
TableOffsetOf(key) ==
  LET Offset(i) == IF IterValid(IndexBlock, i) THEN i.value ELSE tab.meta
  IN  Offset(Sought(IndexBlock, key))

----------------------------------------------------------------------------
(* TwoLevelIterator: the index iterator, the data iterator with the handle *)
(* of its block, and the saved status.  The iterator of a block that could *)
(* not be read is never valid.                                             *)

NoData     == [some |-> FALSE, err |-> FALSE, iter |-> <<>>]
NewTwoLevel == [index |-> NewIter(IndexBlock), data |-> NoData, handle |-> -1, bad |-> FALSE]

IndexValid(t) == IterValid(IndexBlock, t.index)
DataValid(t)  == t.data.some /\ ~ t.data.err /\ IterValid(tab.file[t.handle], t.data.iter)
StatusOk(t)   == ~ t.data.err /\ ~ t.bad

(* Table::BlockReader: the iterator of a block, or one that has its error. *)
BlockReader(at) ==
  IF ReadsOk(at) THEN [some |-> TRUE, err |-> FALSE, iter |-> NewIter(tab.file[at])]
  ELSE [some |-> TRUE, err |-> TRUE, iter |-> <<>>]

SetDataIterator(t, d) == [t EXCEPT !.bad = @ \/ t.data.err, !.data = d]

(* Mutant: the data iterator outlives a move of the index iterator. *)
KeepDataBlock(t) ==
  LET at == t.index.value
  IN  IF ~ IndexValid(t) THEN SetDataIterator(t, NoData)
      ELSE IF t.data.some THEN t
      ELSE [SetDataIterator(t, BlockReader(at)) EXCEPT !.handle = at]

InitDataBlock(t) ==
  LET at == t.index.value
  IN  IF ~ IndexValid(t) THEN SetDataIterator(t, NoData)
      ELSE IF t.data.some /\ t.handle = at THEN t
      ELSE [SetDataIterator(t, BlockReader(at)) EXCEPT !.handle = at]

(* An operation moves the data iterator to it, if there is one. *)
MoveData(t, it) == IF t.data.some /\ ~ t.data.err THEN [t EXCEPT !.data.iter = it] ELSE t

DataFirst(t)     == MoveData(t, IterFirst(tab.file[t.handle], t.data.iter))
DataLast(t)      == MoveData(t, IterLast(tab.file[t.handle], t.data.iter))
DataSeek(t, key) == MoveData(t, IterSeek(tab.file[t.handle], t.data.iter, key))

RECURSIVE SkipEmptyDataBlocksForward(_)
SkipEmptyDataBlocksForward(t) ==
  IF DataValid(t) THEN t
  ELSE IF ~ IndexValid(t) THEN SetDataIterator(t, NoData)
  ELSE SkipEmptyDataBlocksForward(
         DataFirst(InitDataBlock([t EXCEPT !.index = IterNext(IndexBlock, @)])))

RECURSIVE SkipEmptyDataBlocksBackward(_)
SkipEmptyDataBlocksBackward(t) ==
  IF DataValid(t) THEN t
  ELSE IF ~ IndexValid(t) THEN SetDataIterator(t, NoData)
  ELSE SkipEmptyDataBlocksBackward(
         DataLast(InitDataBlock([t EXCEPT !.index = IterPrev(IndexBlock, @)])))

TwoLevelSeek(t, key) ==
  SkipEmptyDataBlocksForward(
    DataSeek(InitDataBlock([t EXCEPT !.index = IterSeek(IndexBlock, @, key)]), key))
TwoLevelFirst(t) ==
  SkipEmptyDataBlocksForward(
    DataFirst(InitDataBlock([t EXCEPT !.index = IterFirst(IndexBlock, @)])))
TwoLevelLast(t) ==
  SkipEmptyDataBlocksBackward(
    DataLast(InitDataBlock([t EXCEPT !.index = IterLast(IndexBlock, @)])))
TwoLevelNext(t) ==
  SkipEmptyDataBlocksForward(MoveData(t, IterNext(tab.file[t.handle], t.data.iter)))
TwoLevelPrev(t) ==
  SkipEmptyDataBlocksBackward(MoveData(t, IterPrev(tab.file[t.handle], t.data.iter)))

----------------------------------------------------------------------------
(* A table is built, one of its blocks may be damaged, it is opened and    *)
(* read.                                                                   *)

TableInit ==
  /\ tab = NewBuilder /\ tabKeys = <<>> /\ tabBad = -1 /\ tabOpen = "no"
  /\ tabIter = [index |-> NewIter(NewBlock), data |-> NoData, handle |-> -1, bad |-> FALSE]
  /\ tabPos = 0 /\ tabLost = FALSE

AddToTable(k) ==
  /\ ~ tab.closed
  /\ tabKeys # <<>> => KeyLess(Last(tabKeys), k)
  /\ tab' = TableAdd(tab, k, Len(tabKeys) + 1)
  /\ tabKeys' = Append(tabKeys, k)
  /\ UNCHANGED <<tabBad, tabOpen, tabIter, tabPos, tabLost>>

FinishTable ==
  /\ ~ tab.closed /\ tabKeys # <<>>
  /\ tab' = TableFinish(tab)
  /\ tabBad' \in {-1} \cup DOMAIN tab'.file
  /\ UNCHANGED <<tabKeys, tabOpen, tabIter, tabPos, tabLost>>

(* The entries that cannot be read, and where an iterator lands that is    *)
(* sent to place p and goes on in a direction.                             *)
BadEntries ==
  IF tabBad \in DOMAIN tab.file \ {tab.meta, tab.indexAt, tab.filterAt}
  THEN {e.value : e \in ToSet(tab.file[tabBad].entries)} ELSE {}
Landing(p, up) ==
  LET S == {i \in DOMAIN tabKeys \ BadEntries : IF up THEN i >= p ELSE i <= p}
  IN  IF S = {} \/ p = 0 THEN 0 ELSE IF up THEN Min(S) ELSE Max(S)

TableMoves(t, p, up) ==
  /\ tabOpen \in {"plain", "filter"}
  /\ tabIter' = t /\ tabPos' = Landing(p, up)
  /\ tabLost' = (tabLost \/ p \in BadEntries)
  /\ UNCHANGED <<tab, tabKeys, tabBad, tabOpen>>

TableIter == IF tabIter.handle = -1 THEN NewTwoLevel ELSE tabIter

TableNext ==
  \/ \E k \in TableKeys : AddToTable(k)
  \/ FinishTable
  \/ OpenTable
  \/ TableMoves(TwoLevelFirst(TableIter), 1, TRUE)
  \/ TableMoves(TwoLevelLast(TableIter), Len(tabKeys), FALSE)
  \/ \E k \in TableKeys : TableMoves(TwoLevelSeek(TableIter, k), PlaceOf(tabKeys, k), TRUE)
  \/ tabPos # 0 /\ TableMoves(TwoLevelNext(TableIter), tabPos + 1, TRUE)
  \/ tabPos # 0 /\ TableMoves(TwoLevelPrev(TableIter), tabPos - 1, FALSE)

Opened == tabOpen \in {"plain", "filter"}

(* A lookup that reports no error is answered with the newest entry of the *)
(* user key that is not newer than asked for, and never with another entry *)
(* of that user key: table.cc, InternalGet, through the shortened index    *)
(* keys, the filter of the block and its restart points, and without the   *)
(* filter when that cannot be read.                                        *)
TableGetExact ==
  Opened => \A k \in TableKeys :
    LET r    == InternalGet(k)
        same == {i \in DOMAIN tabKeys : ExtractUserKey(tabKeys[i]) = ExtractUserKey(k)}
        seen == {i \in same : Tag(tabKeys[i]) <= Tag(k)}
    IN  IF r.ok THEN IF seen # {} THEN r.entry = tabKeys[Min(seen)]
                     ELSE \A i \in same : r.entry # tabKeys[i]
        ELSE BadEntries # {}

(* After any sequence of calls the two-level iterator is where a cursor    *)
(* over the readable entries would be: two_level_iterator.cc, which keeps  *)
(* a data iterator as long as the index stays on its block.                *)
TableIterExact ==
  Opened => IF tabPos = 0 THEN ~ DataValid(TableIter)
            ELSE /\ DataValid(TableIter) /\ TableIter.data.iter.key = tabKeys[tabPos]
                 /\ TableIter.data.iter.value = tabPos

(* An iterator that passed over a block it could not read never reports    *)
(* success afterwards: SetDataIterator saves the status.                   *)
ErrorIsKept == tabLost => ~ StatusOk(TableIter)

(* The offset that estimates of sizes are made from is that of the block   *)
(* with the key: table.cc, ApproximateOffsetOf.                            *)
OffsetOfBlock ==
  Opened => \A i \in DOMAIN tabKeys :
    \E e \in ToSet(tab.file[TableOffsetOf(tabKeys[i])].entries) : e.value = i

(* The readers of blocks and tables, with and without damage, show what the *)
(* builders were given: block.cc, table.cc and two_level_iterator.cc        *)
(* against block_builder.cc and table_builder.cc.                           *)
TableReaderExact ==
  BlockIterExact /\ TableGetExact /\ TableIterExact /\ ErrorIsKept /\ OffsetOfBlock
=============================================================================
