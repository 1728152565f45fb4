----------------------------- MODULE BloomFile -----------------------------
(***************************************************************************)
(* bloom_value::saveToFile and loadFromFile, and the overload of exists    *)
(* that takes an array (src/bloom_hierarchy/bloom_value.cpp).  A file is a *)
(* sequence of chars: the bytes of numHashFunctions and the bit array,     *)
(* eight bits in a char.  A write may be cut short; a later read still     *)
(* makes a filter of what is there.                                        *)
(***************************************************************************)
EXTENDS BloomFilter, Integers, Sequences, FiniteSets, FiniteSetsExt

CONSTANTS
  BitCount,   \* bitArray.size()
  KeyLength,  \* the length of every string
  MaxKeys     \* bound on the length of an array of keys

VARIABLES
  bitArray,  \* the filter that is saved
  file,      \* the chars in the file
  loaded,    \* the filter that loadFromFile returns
  keys,      \* the argument of exists(key[])
  found,     \* what it returns
  pc

vars == <<bitArray, file, loaded, keys, found, pc>>

IntBytes == 4
BufferSize == (BitCount + 7) \div 8

\* Conversion of an int to char, which is signed.
ToChar(n) == LET b == n % 256 IN IF b >= 128 THEN b - 256 ELSE b

\* The bytes of an int, the least significant first.
IntToChars(n) == [j \in 1..IntBytes |-> ToChar((n \div 256^(j-1)) % 256)]

\* The char j of the buffer: bit i is set by buffer[i / 8] |= 1 << (i % 8).
SavedChar(bits, j) == ToChar(SumSet({2^k : k \in {x \in 0..7 : 8*j + x \in bits}}))

\* saveToFile: the header and the buffer.
Saved(bits) == IntToChars(NumHashFunctions) \o
                 [j \in 1..BufferSize |-> SavedChar(bits, j - 1)]

\* The buffer that loadFromFile reads: chars that the file lacks stay zero.
BufferChar(chars, j) ==
  IF IntBytes + j + 1 <= Len(chars) THEN chars[IntBytes + j + 1] ELSE 0

\* Mutant: a char is only tested for being set.
LoadedAny(chars) == {i \in 0..BitCount-1 : BufferChar(chars, i \div 8) # 0}

\* (buffer[i / 8] >> (i % 8)) & 1, an arithmetic shift of the promoted char.
Loaded(chars) ==
  {i \in 0..BitCount-1 : (BufferChar(chars, i \div 8) \div 2^(i % 8)) % 2 = 1}

-----------------------------------------------------------------------------
\* saveToFile, completely written or cut short.
SaveToFile ==
  /\ pc = "save"
  /\ \E n \in 0..Len(Saved(bitArray)) : file' = SubSeq(Saved(bitArray), 1, n)
  /\ pc' = "load"
  /\ UNCHANGED <<bitArray, loaded, keys, found>>

\* loadFromFile; the number of hash functions in the file is not used.
LoadFromFile ==
  /\ pc = "load"
  /\ loaded' = Loaded(file)
  /\ pc' = "exists"
  /\ UNCHANGED <<bitArray, file, keys, found>>

\* exists(const std::string key[]): key->length() is the length of key[0], and
\* arrays that are shorter than that are not read here.
ExistsKeys ==
  /\ pc = "exists"
  /\ \E n \in 1..MaxKeys : \E ks \in [1..n -> Value] :
       /\ KeyLength[ks[1]] <= n
       /\ keys' = ks
       /\ found' = \E j \in 1..KeyLength[ks[1]] : Exists(loaded, ks[j])
  /\ pc' = "done"
  /\ UNCHANGED <<bitArray, file, loaded>>

Init ==
  /\ bitArray \in Filter
  /\ file = <<>> /\ loaded = EmptyFilter /\ keys = <<>> /\ found = FALSE
  /\ pc = "save"

Next == SaveToFile \/ LoadFromFile \/ ExistsKeys

Spec == Init /\ [][Next]_vars

-----------------------------------------------------------------------------
(* Properties.                                                             *)

Complete == Len(file) = IntBytes + BufferSize

\* A filter that was saved completely is loaded bit for bit, the top bit of
\* every (signed) char and the bits of a last, partly used char included.
RoundTrip == pc # "save" /\ pc # "load" /\ Complete => loaded = bitArray

\* A file that was cut short, down to the empty file of createFile, is loaded as
\* the bits that were written: no bit is invented, and none that is in the file
\* is lost.
ShortFileLoadsPrefix ==
  pc # "save" /\ pc # "load" =>
    loaded = {b \in bitArray : b \div 8 < Len(file) - IntBytes}

\* "Checks if at least one element in key[] exists in Bloom filter" (line 75).
AtLeastOneExists ==
  pc = "done" => (found <=> \E j \in 1..Len(keys) : Exists(loaded, keys[j]))
=============================================================================
