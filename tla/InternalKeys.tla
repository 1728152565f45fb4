---------------------------- MODULE InternalKeys ----------------------------
(***************************************************************************)
(* Internal keys of LevelDB (src/leveldb/db/dbformat.h, dbformat.cc).  An  *)
(* entry of a memtable or table is a user key, the sequence number of the  *)
(* write and its type; the value of an entry is told by its sequence       *)
(* number, which no two entries share.  User keys are integers, in the     *)
(* order of the user's comparator.                                         *)
(***************************************************************************)
EXTENDS Integers, Sequences, SequencesExt

CONSTANTS
  Key,        \* user keys, integers
  MaxSequence \* kMaxSequenceNumber, above every sequence number in use

kTypeDeletion == 0
kTypeValue    == 1

IKey(k, s, t) == [key |-> k, seq |-> s, type |-> t]

(* kValueTypeForSeek is kTypeValue, the type that sorts first. *)
LookupKey(k, s) == IKey(k, s, kTypeValue)

(* InternalKeyComparator::Compare(a, b) < 0: user keys ascend, the packed  *)
(* sequence number and type descend.                                       *)
ILess(a, b) ==
  \/ a.key < b.key
  \/ a.key = b.key /\ a.seq > b.seq
  \/ a.key = b.key /\ a.seq = b.seq /\ a.type > b.type

ILeq(a, b) == ~ILess(b, a)

Sorted(S) == SetToSortSeq(S, ILess)

(* The entry that a lookup of key k at sequence number s is answered with: *)
(* the newest one of the key that is not newer than s, if there is one.    *)
Visible(S, k, s) == {e \in S : e.key = k /\ e.seq <= s}

Newest(S, k, s) ==
  {e \in Visible(S, k, s) : \A d \in Visible(S, k, s) : d.seq <= e.seq}

(* What a user is told: the value, or nothing for a deletion marker or a   *)
(* key without an entry.                                                   *)
Answer(S) == {e \in S : e.type = kTypeValue}
=============================================================================
