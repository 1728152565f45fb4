----------------------------- MODULE Iterators -----------------------------
(***************************************************************************)
(* Reading a database in order: MergingIterator (table/merger.cc) over the *)
(* iterators of the memtable and of the tables, and DBIter (db/db_iter.cc) *)
(* over it, which shows a user the newest value of every key at a          *)
(* sequence number.  Writes go on being added to the memtable under the    *)
(* iterator.                                                               *)
(*                                                                         *)
(* A child is the set of its entries and the entry its iterator is on, so  *)
(* that an insertion moves no iterator, as in the skip list.  Read         *)
(* sampling (DBIter::ParseKey) is in module Levels.                        *)
(***************************************************************************)
EXTENDS InternalKeys, FiniteSets, FiniteSetsExt

CONSTANTS LoadedEntries,     \* bound: entries before the iterator is made
          MaxInserts  \* bound: entries added while it is used

VARIABLES kids,    \* the entries of the memtable and of the tables
          dbIter,  \* the DBIter, with the MergingIterator inside
          dbAt     \* the user key it should be on, 0: not valid

iterVars == <<kids, dbIter, dbAt>>

NoEntry == IKey(0, 0, 0)
First(S) == IF S = {} THEN NoEntry ELSE CHOOSE e \in S : \A d \in S : ILeq(e, d)
Final(S) == IF S = {} THEN NoEntry ELSE CHOOSE e \in S : \A d \in S : ILeq(d, e)

(* The child iterators: where Seek, Next and Prev leave them. *)
SeekIn(S, e)   == First({d \in S : ILeq(e, d)})
NextIn(S, e)   == First({d \in S : ILess(e, d)})
PrevIn(S, e)   == Final({d \in S : ILess(d, e)})

----------------------------------------------------------------------------
(* MergingIterator: the places of the children, the current child (0: not  *)
(* valid) and the direction.                                               *)

FindSmallest(at) ==
  LET ok == {i \in DOMAIN at : at[i] # NoEntry}
  IN  IF ok = {} THEN 0 ELSE CHOOSE i \in ok : \A j \in ok : ILeq(at[i], at[j])
FindLargest(at) ==
  LET ok == {i \in DOMAIN at : at[i] # NoEntry}
  IN  IF ok = {} THEN 0 ELSE CHOOSE i \in ok : \A j \in ok : ILeq(at[j], at[i])

Up(at)   == [at |-> at, cur |-> FindSmallest(at), fwd |-> TRUE]
Down(at) == [at |-> at, cur |-> FindLargest(at), fwd |-> FALSE]

MergeValid(m) == m.cur # 0
MergeKey(m)   == m.at[m.cur]

MergeFirst     == Up([i \in DOMAIN kids |-> First(kids[i])])
MergeLast      == Down([i \in DOMAIN kids |-> Final(kids[i])])
MergeSeek(e)   == Up([i \in DOMAIN kids |-> SeekIn(kids[i], e)])

(* Mutant: the other children are not moved when the direction changes. *)
MergeNextInPlace(m) == Up([m.at EXCEPT ![m.cur] = NextIn(kids[m.cur], @)])

MergeNext(m) ==
  LET k == MergeKey(m)
  IN  Up([i \in DOMAIN kids |->
            IF i = m.cur \/ ~ m.fwd THEN NextIn(kids[i], k) ELSE m.at[i]])

(* Prev: the other children go to their last entry before the key, through *)
(* Seek and Prev, or SeekToLast when they have none after it.              *)
MergePrev(m) ==
  LET k == MergeKey(m)
      Back(S) == IF SeekIn(S, k) # NoEntry THEN PrevIn(S, SeekIn(S, k)) ELSE Final(S)
  IN  Down([i \in DOMAIN kids |->
              IF i = m.cur THEN PrevIn(kids[i], k)
              ELSE IF m.fwd THEN Back(kids[i]) ELSE m.at[i]])

----------------------------------------------------------------------------
(* DBIter: iter_, sequence_, direction_, valid_, saved_key_, saved_value_. *)

Invalid(d) == [d EXCEPT !.valid = FALSE, !.key = 0]

Hidden(e, skipping, skip) == skipping /\ e.key <= skip

(* FindNextUserEntry *)
RECURSIVE FindNextUserEntry(_, _, _)
FindNextUserEntry(d, skipping, skip) ==
  LET e    == MergeKey(d.m)
      seen == e.seq <= d.seq
      on   == [d EXCEPT !.m = MergeNext(@)]
      Go(s, k) == IF MergeValid(on.m) THEN FindNextUserEntry(on, s, k) ELSE Invalid(on)
  IN  IF seen /\ e.type = kTypeDeletion THEN Go(TRUE, e.key)
      ELSE IF seen /\ ~ Hidden(e, skipping, skip)
      THEN [d EXCEPT !.valid = TRUE, !.key = 0]
      ELSE Go(skipping, skip)

(* The scan reached the entries of a smaller user key. *)
AtPreviousKey(e, k) == e.key < k

(* FindPrevUserEntry: deleted tells whether value_type is kTypeDeletion. *)
RECURSIVE FindPrevUserEntry(_, _)
FindPrevUserEntry(d, deleted) ==
  LET e     == MergeKey(d.m)
      seen  == MergeValid(d.m) /\ e.seq <= d.seq
      found == ~ deleted /\ (~ MergeValid(d.m) \/ (seen /\ AtPreviousKey(e, d.key)))
      back  == [d EXCEPT !.m = MergePrev(@)]
  IN  IF found THEN [d EXCEPT !.valid = TRUE]
      ELSE IF ~ MergeValid(d.m) THEN [Invalid(d) EXCEPT !.val = 0, !.fwd = TRUE]
      ELSE IF ~ seen THEN FindPrevUserEntry(back, deleted)
      ELSE IF e.type = kTypeDeletion
      THEN FindPrevUserEntry([back EXCEPT !.key = 0, !.val = 0], TRUE)
      ELSE FindPrevUserEntry([back EXCEPT !.key = e.key, !.val = e.seq], FALSE)

DBNext(d) ==
  LET skip == IF d.fwd THEN MergeKey(d.m).key ELSE d.key
      m    == IF d.fwd \/ MergeValid(d.m) THEN MergeNext(d.m) ELSE MergeFirst
      n    == [d EXCEPT !.m = m, !.fwd = TRUE, !.key = skip]
  IN  IF MergeValid(m) THEN FindNextUserEntry(n, TRUE, skip) ELSE Invalid(n)

(* Prev's scan for the last entry of a smaller user key. *)
RECURSIVE BeforeKey(_, _)
BeforeKey(m, k) ==
  LET Stop(p) == IF ~ MergeValid(p) \/ MergeKey(p).key < k THEN p ELSE BeforeKey(p, k)
  IN  Stop(MergePrev(m))

DBPrev(d) ==
  LET Turn(k, m) ==
        IF MergeValid(m)
        THEN FindPrevUserEntry([d EXCEPT !.m = m, !.key = k, !.fwd = FALSE], TRUE)
        ELSE [Invalid(d) EXCEPT !.m = m, !.val = 0]
      From(k) == Turn(k, BeforeKey(d.m, k))
  IN  IF d.fwd THEN From(MergeKey(d.m).key) ELSE FindPrevUserEntry(d, TRUE)

Forward(d, m) ==
  LET f == [d EXCEPT !.m = m, !.fwd = TRUE, !.val = 0]
  IN  IF MergeValid(m) THEN FindNextUserEntry(f, FALSE, 0) ELSE [f EXCEPT !.valid = FALSE]

DBSeek(d, k)       == Forward(d, MergeSeek(LookupKey(k, d.seq)))
DBSeekToFirst(d)   == Forward(d, MergeFirst)
DBSeekToLast(d)    ==
  FindPrevUserEntry([d EXCEPT !.m = MergeLast, !.fwd = FALSE, !.val = 0], TRUE)

----------------------------------------------------------------------------

(* The writes 1..LoadedEntries, the older ones in a table, are read at a sequence *)
(* number.                                                                 *)
IterInit ==
  \E e \in [1..LoadedEntries -> Key \X {kTypeDeletion, kTypeValue}], split, s \in 0..LoadedEntries :
    /\ kids = <<{IKey(e[n][1], n, e[n][2]) : n \in split + 1..LoadedEntries},
                {IKey(e[n][1], n, e[n][2]) : n \in 1..split}>>
    /\ dbIter = [m |-> Up(<<NoEntry, NoEntry>>), seq |-> s, fwd |-> TRUE, valid |-> FALSE,
                 key |-> 0, val |-> 0]
    /\ dbAt = 0

(* A write reaches the memtable. *)
Insert(k, t) ==
  LET n == Cardinality(kids[1] \cup kids[2]) + 1
  IN  /\ n <= LoadedEntries + MaxInserts
      /\ kids' = [kids EXCEPT ![1] = @ \cup {IKey(k, n, t)}]
      /\ UNCHANGED <<dbIter, dbAt>>

(* The keys and values a user sees at the iterator's sequence number. *)
Seen(k) == Answer(Newest(kids[1] \cup kids[2], k, dbIter.seq))
Shown   == {k \in Key : Seen(k) # {}}

Lowest(S)  == IF S = {} THEN 0 ELSE Min(S)
Highest(S) == IF S = {} THEN 0 ELSE Max(S)

Step(d, at) == dbIter' = d /\ dbAt' = at /\ UNCHANGED kids

IterNextStep ==
  \/ \E k \in Key, t \in {kTypeDeletion, kTypeValue} : Insert(k, t)
  \/ Step(DBSeekToFirst(dbIter), Lowest(Shown))
  \/ Step(DBSeekToLast(dbIter), Highest(Shown))
  \/ \E k \in Key : Step(DBSeek(dbIter, k), Lowest({j \in Shown : j >= k}))
  \/ dbAt # 0 /\ Step(DBNext(dbIter), Lowest({j \in Shown : j > dbAt}))
  \/ dbAt # 0 /\ Step(DBPrev(dbIter), Highest({j \in Shown : j < dbAt}))

(* After any sequence of calls, with writes in between, the iterator shows *)
(* the key and the value a cursor over the snapshot would show, or is not  *)
(* valid: db_iter.cc and merger.cc through every change of direction.      *)
DBIterExact ==
  IF dbAt = 0 THEN ~ dbIter.valid
  ELSE /\ dbIter.valid
       /\ LET shown == IF dbIter.fwd THEN {MergeKey(dbIter.m)}
                       ELSE {IKey(dbIter.key, dbIter.val, kTypeValue)}
          IN  shown = Seen(dbAt)

(* Moving backwards, the internal iterator stays before all entries of the *)
(* key that is shown: the comment (2) on DBIter::Direction, on which the   *)
(* next change of direction relies.                                        *)
ReverseIsBefore ==
  (dbIter.valid /\ ~ dbIter.fwd /\ MergeValid(dbIter.m)) => MergeKey(dbIter.m).key < dbIter.key

(* The iterator shows the snapshot, and is where its next change of         *)
(* direction expects it: db_iter.cc over merger.cc.                         *)
IteratorExact == DBIterExact /\ ReverseIsBefore
=============================================================================
