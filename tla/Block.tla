------------------------------- MODULE Block -------------------------------
(***************************************************************************)
(* The blocks of a table (table/block_builder.cc, table/block.cc): entries *)
(* with prefix-compressed keys, restart points, and the iterator over      *)
(* them.  An offset counts entries and a size counts cells, one for the    *)
(* three lengths and the value of an entry, one per key byte it stores,    *)
(* one per restart point and one for their number.  Blocks are as the      *)
(* builder wrote them.                                                     *)
(***************************************************************************)
EXTENDS Integers, FiniteSets, FiniteSetsExt, Sequences, SequencesExt

CONSTANTS MaxByte,          \* 0xff
          MaxTag,           \* PackSequenceAndType(kMaxSequenceNumber, kValueTypeForSeek)
          RestartInterval,  \* block_restart_interval
          BlockKeys         \* internal keys that are added and sought

ASSUME BlockAssumption ==
  MaxByte \in Nat /\ MaxTag \in Nat /\ RestartInterval \in Nat \ {0}

VARIABLES blk,      \* the BlockBuilder, then the Block
          blkDone,  \* Finish was called
          blkKeys,  \* the keys added
          blkIter,  \* the Block::Iter
          blkPos    \* the place the iterator should be at, 0: not valid

blockVars == <<blk, blkDone, blkKeys, blkIter, blkPos>>

-----------------------------------------------------------------------------
(* Keys as byte strings (util/comparator.cc, db/dbformat.cc).  A string is *)
(* a sequence of numbers.  The last cell of an internal key is its tag,    *)
(* the sequence number and type the code packs into eight bytes.           *)

(* The length of the common prefix. *)
Shared(a, b) ==
  Max({n \in 0..Min({Len(a), Len(b)}) : \A i \in 1..n : a[i] = b[i]})

(* BytewiseComparator: Slice::compare is below zero. *)
BytewiseLess(a, b) ==
  LET n == Shared(a, b)
  IN  n < Len(b) /\ (n < Len(a) => a[n + 1] < b[n + 1])

(* Cut after byte n, which is incremented. *)
Bump(s, n) == Append(SubSeq(s, 1, n - 1), s[n] + 1)

BytewiseSeparator(start, limit) ==
  LET n == Shared(start, limit) + 1
  IN  IF n <= Len(start) /\ n <= Len(limit) /\ start[n] < MaxByte /\ start[n] + 1 < limit[n]
      THEN Bump(start, n) ELSE start

BytewiseSuccessor(key) ==
  LET n == {i \in 1..Len(key) : key[i] # MaxByte}
  IN  IF n = {} THEN key ELSE Bump(key, Min(n))

ExtractUserKey(k) == SubSeq(k, 1, Len(k) - 1)
Tag(k)            == k[Len(k)]

(* InternalKeyComparator::Compare(a, b) < 0. *)
KeyLess(a, b) ==
  \/ BytewiseLess(ExtractUserKey(a), ExtractUserKey(b))
  \/ ExtractUserKey(a) = ExtractUserKey(b) /\ Tag(a) > Tag(b)

(* The end of both FindShort... functions: a user key that got shorter and *)
(* larger is the new key, with the earliest possible tag.                  *)
Shorten(k, user) ==
  IF Len(user) < Len(k) - 1 /\ BytewiseLess(ExtractUserKey(k), user)
  THEN Append(user, MaxTag) ELSE k

FindShortestSeparator(start, limit) ==
  Shorten(start, BytewiseSeparator(ExtractUserKey(start), ExtractUserKey(limit)))
FindShortSuccessor(key) == Shorten(key, BytewiseSuccessor(ExtractUserKey(key)))

-----------------------------------------------------------------------------
(* Building and reading a block.                                           *)

NewBlock == [entries |-> <<>>, restarts |-> <<0>>, counter |-> 0, last |-> <<>>]

(* BlockBuilder::Add *)
BlockAdd(b, key, value, interval) ==
  LET new    == b.counter >= interval
      shared == IF new THEN 0 ELSE Shared(b.last, key)
  IN  [entries  |-> Append(b.entries, [shared |-> shared, value |-> value,
                                       delta  |-> SubSeq(key, shared + 1, Len(key))]),
       restarts |-> IF new THEN Append(b.restarts, Len(b.entries)) ELSE b.restarts,
       counter  |-> IF new THEN 1 ELSE b.counter + 1,
       last     |-> key]

CurrentSizeEstimate(b) ==
  FoldLeft(LAMBDA n, e : n + 1 + Len(e.delta), Len(b.restarts) + 1, b.entries)

----------------------------------------------------------------------------
(* Block::Iter: the current entry, the end of its value, the key, and the  *)
(* restart block it is in.  Indexes are from 0, as in the code.            *)

NumRestarts(b)        == Len(b.restarts)
GetRestartPoint(b, i) == b.restarts[i + 1]

AtEnd(b, it)   == [it EXCEPT !.current = Len(b.entries), !.restart = NumRestarts(b)]
NewIter(b)     == AtEnd(b, [current |-> 0, restart |-> 0, next |-> 0, key |-> <<>>,
                            value |-> <<>>])
IterValid(b, it) == it.current < Len(b.entries)

SeekToRestartPoint(b, it, i) ==
  [it EXCEPT !.key = <<>>, !.restart = i, !.next = GetRestartPoint(b, i)]

ParseNextKey(b, it) ==
  IF it.next >= Len(b.entries) THEN AtEnd(b, it)
  ELSE LET e == b.entries[it.next + 1]
       IN  [current |-> it.next, next |-> it.next + 1, value |-> e.value,
            key     |-> SubSeq(it.key, 1, e.shared) \o e.delta,
            restart |-> Max({it.restart} \cup
                            {j \in it.restart..NumRestarts(b) - 1 :
                               GetRestartPoint(b, j) < it.next})]

(* do { } while (ParseNextKey() && NextEntryOffset() < offset) *)
ParseUntilOffset(b, it, offset) ==
  FoldLeft(LAMBDA i, e : IF IterValid(b, i) /\ i.next < offset THEN ParseNextKey(b, i) ELSE i,
           ParseNextKey(b, it), b.entries)

(* Parse the entries up to one that is not below the target. *)
ParseUntilKey(b, it, target) ==
  FoldLeft(LAMBDA i, e : IF IterValid(b, i) /\ KeyLess(i.key, target) THEN ParseNextKey(b, i)
                         ELSE i,
           ParseNextKey(b, it), b.entries)

IterFirst(b, it) == ParseNextKey(b, SeekToRestartPoint(b, it, 0))

IterLast(b, it) ==
  ParseUntilOffset(b, SeekToRestartPoint(b, it, NumRestarts(b) - 1), Len(b.entries))

IterNext(b, it) == ParseNextKey(b, it)

IterPrev(b, it) ==
  LET before == {j \in 0..it.restart : GetRestartPoint(b, j) < it.current}
  IN  IF before = {} THEN AtEnd(b, it)
      ELSE ParseUntilOffset(b, SeekToRestartPoint(b, it, Max(before)), it.current)

(* Seek's skip_seek *)
SkipSeek(it, left, ahead) == left = it.restart /\ ahead

(* Seek: a binary search over the restart points, from the current place   *)
(* on when the iterator has one, then a scan of the restart block.         *)
IterSeek(b, it, target) ==
  LET ahead == IterValid(b, it) /\ KeyLess(it.key, target)
      back  == IterValid(b, it) /\ KeyLess(target, it.key)
      find[left \in 0..NumRestarts(b), right \in 0..NumRestarts(b)] ==
        LET mid == (left + right + 1) \div 2
        IN  IF left >= right THEN left
            ELSE IF KeyLess(b.entries[GetRestartPoint(b, mid) + 1].delta, target)
            THEN find[mid, right] ELSE find[left, mid - 1]
      left  == find[IF ahead THEN it.restart ELSE 0,
                    IF back THEN it.restart ELSE NumRestarts(b) - 1]
      from  == IF SkipSeek(it, left, ahead) THEN it ELSE SeekToRestartPoint(b, it, left)
  IN  IF IterValid(b, it) /\ ~ ahead /\ ~ back THEN it
      ELSE ParseUntilKey(b, from, target)

----------------------------------------------------------------------------
(* A block is built and then read. *)

BlockInit ==
  /\ blk = NewBlock /\ blkDone = FALSE /\ blkKeys = <<>> /\ blkPos = 0
  /\ blkIter = NewIter(NewBlock)

AddEntry(k) ==
  /\ ~ blkDone
  /\ blkKeys # <<>> => KeyLess(Last(blkKeys), k)
  /\ blk' = BlockAdd(blk, k, Len(blkKeys) + 1, RestartInterval)
  /\ blkKeys' = Append(blkKeys, k)
  /\ UNCHANGED <<blkDone, blkIter, blkPos>>

FinishBlock ==
  /\ ~ blkDone /\ blkDone' = TRUE
  /\ blkIter' = NewIter(blk)
  /\ UNCHANGED <<blk, blkKeys, blkPos>>

(* The place of the first key not below k in a sorted sequence, 0: none. *)
PlaceOf(keys, k) ==
  LET at == {i \in DOMAIN keys : ~ KeyLess(keys[i], k)} IN IF at = {} THEN 0 ELSE Min(at)

Moves(it, pos) == blkDone /\ blkIter' = it /\ blkPos' = pos /\ UNCHANGED <<blk, blkDone, blkKeys>>

BlockNext ==
  \/ \E k \in BlockKeys : AddEntry(k)
  \/ FinishBlock
  \/ Moves(IterFirst(blk, blkIter), IF blkKeys = <<>> THEN 0 ELSE 1)
  \/ Moves(IterLast(blk, blkIter), Len(blkKeys))
  \/ \E k \in BlockKeys : Moves(IterSeek(blk, blkIter, k), PlaceOf(blkKeys, k))
  \/ blkPos # 0 /\ Moves(IterNext(blk, blkIter), IF blkPos < Len(blkKeys) THEN blkPos + 1 ELSE 0)
  \/ blkPos # 0 /\ Moves(IterPrev(blk, blkIter), blkPos - 1)

(* After any sequence of calls the iterator is on the entry a cursor over  *)
(* the sorted keys would be on, with that entry's key and value, or on     *)
(* none: block.cc, Block::Iter, whose Seek starts from where it is.        *)
BlockIterExact ==
  blkDone => IF blkPos = 0 THEN ~ IterValid(blk, blkIter)
             ELSE /\ IterValid(blk, blkIter) /\ blkIter.key = blkKeys[blkPos]
                  /\ blkIter.value = blkPos
=============================================================================
