---------------------------- MODULE BloomFilter ----------------------------
(***************************************************************************)
(* class bloom_value (src/bloom_hierarchy/bloom_value.hpp, .cpp): a bit    *)
(* array and three hash positions per key.  A filter is the set of the     *)
(* positions whose bit is true.                                            *)
(***************************************************************************)
EXTENDS Naturals

CONSTANTS
  Bit,      \* the positions of bitArray (0..1999999 in the code)
  Value,    \* the strings that are inserted and searched
  HashPos   \* HashPos[v][i]: std::hash(v + to_string(i)) % bitArray.size()

NumHashFunctions == 3

ASSUME HashAssumption == HashPos \in [Value -> [0..NumHashFunctions-1 -> Bit]]

Filter == SUBSET Bit

\* A default-constructed bloom_value: std::bitset starts with no bit set.
EmptyFilter == {}

\* The positions that insert(v) sets and exists(v) reads.
Positions(v) == {HashPos[v][i] : i \in 0..NumHashFunctions-1}

\* bloom_value::insert
Insert(filter, v) == filter \cup Positions(v)

\* bloom_value::exists(const std::string& key)
Exists(filter, v) == \A i \in 0..NumHashFunctions-1 : HashPos[v][i] \in filter
=============================================================================
