------------------------------- MODULE Cache -------------------------------
(***************************************************************************)
(* LRUCache (util/cache.cc) with its hash table, and the threads that use  *)
(* it the way TableCache (db/table_cache.cc) and Table::BlockReader do: a  *)
(* lookup, and on a miss an open that may fail and an insertion, each of   *)
(* the cache's operations under its mutex.  One shard is modelled; a file  *)
(* that is removed is evicted.                                             *)
(***************************************************************************)
EXTENDS Integers, FiniteSets, FiniteSetsExt, Sequences, SequencesExt

CONSTANTS CacheUser,    \* threads
          CacheKey,     \* keys: file numbers, block offsets
          HashOf,       \* the hash of every key
          Charge,       \* the charge of every key
          Capacities,   \* capacity_ is one of these, 0: no caching
          MinLength,    \* the least length of the hash table, 4 in the code
          MaxHandles    \* bound: handles ever made

ASSUME CacheAssumption == MinLength \in Nat \ {0} /\ Capacities \subseteq Nat

VARIABLES cache,    \* the LRUCache
          handles,  \* every LRUHandle made; freed ones keep their record
          user      \* what every thread does: the key it missed, the handles it holds

cacheVars == <<cache, handles, user>>

CacheInit ==
  /\ \E cap \in Capacities :
       cache = [capacity |-> cap, usage |-> 0, lru |-> <<>>, inUse |-> {},
                table |-> [i \in 0..MinLength - 1 |-> <<>>], elems |-> 0]
  /\ handles = <<>>
  /\ user = [u \in CacheUser |-> [missed |-> {}, held |-> <<>>]]

----------------------------------------------------------------------------
(* HandleTable: buckets of handles, FindPointer by hash and key. *)

Length(c)       == Cardinality(DOMAIN c.table)
Bucket(c, key)  == HashOf[key] % Length(c)
InTable(c, hs, key) == {h \in ToSet(c.table[Bucket(c, key)]) : hs[h].key = key}

(* Resize: every entry is pushed to the front of its new bucket. *)
Resize(c, hs) ==
  LET n   == Length(c) * 2
      all == FlattenSeq([i \in 1..Length(c) |-> c.table[i - 1]])
  IN  [c EXCEPT !.table = [i \in 0..n - 1 |->
         Reverse(SelectSeq(all, LAMBDA h : HashOf[hs[h].key] % n = i))]]

TableInsert(c, hs, h) ==
  LET b   == Bucket(c, hs[h].key)
      old == InTable(c, hs, hs[h].key)
      r   == IF old # {}
             THEN [c EXCEPT !.table[b] = [i \in DOMAIN @ |-> IF @[i] \in old THEN h ELSE @[i]]]
             ELSE [c EXCEPT !.table[b] = Append(@, h), !.elems = @ + 1]
  IN  IF r.elems > Length(r) THEN Resize(r, hs) ELSE r

TableRemove(c, hs, key) ==
  LET old == InTable(c, hs, key)
  IN  [c EXCEPT !.table[Bucket(c, key)] = SelectSeq(@, LAMBDA h : h \notin old),
                !.elems = @ - Cardinality(old)]

----------------------------------------------------------------------------
(* LRUCache.  A pair is a cache and the handles. *)

Pair(c, hs) == [c |-> c, hs |-> hs]
LRURemove(c, h) == [c EXCEPT !.lru = SelectSeq(@, LAMBDA g : g # h), !.inUse = @ \ {h}]

Ref(p, h) ==
  LET e == p.hs[h]
      c == IF e.refs = 1 /\ e.inCache THEN [LRURemove(p.c, h) EXCEPT !.inUse = @ \cup {h}] ELSE p.c
  IN  Pair(c, [p.hs EXCEPT ![h].refs = @ + 1])

Unref(p, h) ==
  LET e == [p.hs[h] EXCEPT !.refs = @ - 1]
      c == IF e.inCache /\ e.refs = 1 THEN [LRURemove(p.c, h) EXCEPT !.lru = Append(@, h)]
           ELSE p.c
  IN  Pair(c, [p.hs EXCEPT ![h] = [e EXCEPT !.freed = e.refs = 0]])

(* Mutant: the entry is freed whoever holds it. *)
EraseAndFree(p, S) ==
  FoldSet(LAMBDA h, q :
            Pair([LRURemove(q.c, h) EXCEPT !.usage = @ - q.hs[h].charge],
                 [q.hs EXCEPT ![h].inCache = FALSE, ![h].refs = @ - 1, ![h].freed = TRUE]), p, S)

(* FinishErase of the entries S, none or one, out of the hash table. *)
FinishErase(p, S) ==
  FoldSet(LAMBDA h, q :
            Unref(Pair([LRURemove(q.c, h) EXCEPT !.usage = @ - q.hs[h].charge],
                       [q.hs EXCEPT ![h].inCache = FALSE]), h), p, S)

Erase(p, key) ==
  FinishErase(Pair(TableRemove(p.c, p.hs, key), p.hs), InTable(p.c, p.hs, key))

(* Insert's loop, and Prune's, which goes on until the LRU list is empty. *)
RECURSIVE EvictOldest(_, _)
EvictOldest(p, limit) ==
  IF p.c.usage > limit /\ p.c.lru # <<>>
  THEN EvictOldest(Erase(p, p.hs[Head(p.c.lru)].key), limit) ELSE p

InsertHandle(key) ==
  LET h    == Len(handles) + 1
      on   == cache.capacity > 0
      hs   == Append(handles, [key |-> key, charge |-> Charge[key], inCache |-> on, freed |-> FALSE,
                               refs |-> IF on THEN 2 ELSE 1])
      old  == InTable(cache, handles, key)
      c    == [TableInsert(cache, hs, h) EXCEPT !.inUse = @ \cup {h}, !.usage = @ + Charge[key]]
  IN  EvictOldest(IF on THEN FinishErase(Pair(c, hs), old) ELSE Pair(cache, hs), cache.capacity)

----------------------------------------------------------------------------
(* The threads. *)

Becomes(p) == cache' = p.c /\ handles' = p.hs

(* FindTable, BlockReader: the lookup. *)
LookupKeyOf(u, key) ==
  LET found == InTable(cache, handles, key)
  IN  /\ user[u].missed = {} /\ user[u].held = <<>>
      /\ IF found = {}
         THEN user' = [user EXCEPT ![u].missed = {key}] /\ UNCHANGED <<cache, handles>>
         ELSE \E h \in found : /\ Becomes(Ref(Pair(cache, handles), h))
                               /\ user' = [user EXCEPT ![u].held = <<h>>]

(* The file or the block is read; an error is not cached. *)
InsertMissed(u) ==
  /\ user[u].missed # {}
  /\ \/ /\ Len(handles) < MaxHandles
        /\ \E key \in user[u].missed : Becomes(InsertHandle(key))
        /\ user' = [user EXCEPT ![u] = [missed |-> {}, held |-> <<Len(handles) + 1>>]]
     \/ user' = [user EXCEPT ![u].missed = {}] /\ UNCHANGED <<cache, handles>>

ReleaseHandle(u) ==
  /\ user[u].held # <<>>
  /\ Becomes(Unref(Pair(cache, handles), Head(user[u].held)))
  /\ user' = [user EXCEPT ![u].held = Tail(@)]

(* TableCache::Evict, when RemoveObsoleteFiles removes the file. *)
Evict(key) == Becomes(Erase(Pair(cache, handles), key)) /\ UNCHANGED user

Prune ==
  Becomes(EvictOldest(Pair(cache, handles), -1)) /\ UNCHANGED user

CacheNext ==
  \/ \E u \in CacheUser, key \in CacheKey : LookupKeyOf(u, key)
  \/ \E u \in CacheUser : InsertMissed(u) \/ ReleaseHandle(u)
  \/ \E key \in CacheKey : Evict(key)
  \/ Prune

Holders(h) == {u \in CacheUser : h \in ToSet(user[u].held)}

(* What a thread holds is not freed, and what nobody holds and the cache   *)
(* does not have is: refs counts exactly the holders and the cache, across *)
(* eviction, erasure and two insertions of one key (cache.cc, Unref).      *)
HeldIsNotFreed ==
  \A h \in DOMAIN handles :
    /\ handles[h].refs = Cardinality(Holders(h)) + (IF handles[h].inCache THEN 1 ELSE 0)
    /\ handles[h].freed <=> handles[h].refs = 0

(* The LRU list has exactly the cached entries nobody holds, the in-use    *)
(* list the others, and usage_ is their charge: the comments on lru_ and   *)
(* in_use_ in cache.cc.                                                    *)
ListsPartition ==
  LET cached == {h \in DOMAIN handles : handles[h].inCache}
  IN  /\ ToSet(cache.lru) = {h \in cached : Holders(h) = {}} /\ IsInjective(cache.lru)
      /\ cache.inUse = {h \in cached : Holders(h) # {}}
      /\ cache.usage = MapThenSumSet(LAMBDA h : handles[h].charge, cached)

(* A lookup finds every cached entry, in the bucket of its hash, and only  *)
(* the last one inserted for its key: cache.cc, HandleTable, over Resize.  *)
TableFindsCached ==
  \A h \in DOMAIN handles :
    handles[h].inCache <=> InTable(cache, handles, handles[h].key) = {h}

(* An insertion leaves the cache within its capacity unless everything in  *)
(* it is held: cache.cc, Insert.                                           *)
InsertBounds ==
  Len(handles') > Len(handles) =>
    (cache'.usage <= cache'.capacity \/ cache'.lru = <<>>)

(* After every call the cache has freed no entry in use, lost none, finds   *)
(* what it has and kept to its capacity: cache.cc, LRUCache and             *)
(* HandleTable.                                                             *)
CacheSound ==
  [][(HeldIsNotFreed /\ ListsPartition /\ TableFindsCached)' /\ InsertBounds]_cacheVars
=============================================================================
