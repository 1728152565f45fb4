--------------------------- MODULE SkipListProofs ---------------------------
(***************************************************************************)
(* The skip list for any keys, heights, interleaving of the writer's       *)
(* stores with the reader's loads, and number of searches.                 *)
(***************************************************************************)
EXTENDS SkipList, WellFoundedInduction, TLAPS


(* A bounded set of natural numbers has a largest member. *)
LEMMA HasMax ==
  ASSUME NEW b \in Nat, NEW S \in SUBSET (0..b), S # {}
  PROVE  Max(S) \in S /\ \A y \in S : y =< Max(S)
<1> DEFINE T == {b - x : x \in S}
<1>1. T \subseteq Nat /\ T # {}
  <2>1. PICK s \in S : TRUE
    BY Zenon
  <2>2. b - s \in T
    OBVIOUS
  <2> QED
    BY <2>2
<1>2. PICK m \in T : \A y \in T : ~ (<<y, m>> \in OpToRel(<, Nat))
  <2> HIDE DEF T
  <2> QED
    BY <1>1, NatLessThanWellFounded, WFMin, Zenon
<1>3. \A y \in T : ~(y < m)
  BY <1>1, <1>2, Zenon DEF OpToRel
<1>4. PICK x \in S : m = b - x
  OBVIOUS
<1>5. ASSUME NEW y \in S PROVE y =< x
  <2>1. b - y \in T
    OBVIOUS
  <2>2. ~(b - y < b - x)
    BY Zenon, <1>3, <1>4, <2>1
  <2>3. b \in Nat /\ x \in Nat /\ y \in Nat
    OBVIOUS
  <2> HIDE DEF T
  <2> QED
    BY <2>2, <2>3
<1>6. \E z \in S : \A y \in S : z >= y
  BY Zenon, <1>5
<1>7. Max(S) \in S /\ \A y \in S : Max(S) >= y
  BY <1>6, Zenon DEF Max
<1> QED
  BY Zenon, <1>7

-----------------------------------------------------------------------------
(* The inductive invariant.                                                *)

Node == SkipKeys \cup {SkipHead}
Level == 1..MaxHeight

LinksOK == next \in [Node -> [Level -> SkipKeys \cup {Nil}]]

InList(n, l) == n = SkipHead \/ n \in Linked(l)

(* Each level is a sorted list: from a node in it the link goes to the      *)
(* nearest one above.                                                      *)
Sorted ==
  \A l \in Level, n \in Node : InList(n, l) =>
    /\ next[n][l] > n
    /\ \A m \in Linked(l) : m > n => m >= next[n][l]

Nested == \A l, m \in Level : l =< m => Linked(m) \subseteq Linked(l)

(* A node that is not in a level has no link there, except the one that    *)
(* SetLink has just set.                                                   *)
Fresh ==
  \A l \in Level, n \in SkipKeys :
    n \notin Linked(l) =>
      next[n][l] = IF ins.step = "publish" /\ n = ins.key /\ l = ins.level
                   THEN next[ins.prev[l]][l] ELSE Nil

(* Insert has its node below the current level, and not from there on; its *)
(* predecessors are the neighbours.                                        *)
InsertInv ==
  /\ ins.step \in {"none", "set", "publish"}
  /\ ins.step # "none" =>
       /\ ins.key \in SkipKeys /\ ins.height \in Level /\ ins.level \in 1..ins.height
       /\ ins = [step |-> ins.step, key |-> ins.key, height |-> ins.height,
                 level |-> ins.level, prev |-> ins.prev]
       /\ \A l \in 1..ins.level-1 : ins.key \in Linked(l)
       /\ \A l \in ins.level..MaxHeight : ins.key \notin Linked(l)
       /\ \A l \in ins.level..ins.height :
            /\ ins.prev[l] \in Node /\ InList(ins.prev[l], l)
            /\ ins.prev[l] < ins.key /\ ins.key < next[ins.prev[l]][l]

ListInv == LinksOK /\ Sorted /\ Nested /\ Fresh /\ InsertInv /\ heights \in SUBSET Level

(* The reader is on a node of the level it searches. *)
FindInv ==
  /\ find.step \in {"none", "go", "done"} /\ find.kind \in {"ge", "lt", "last", "next"}
  /\ find = [step |-> find.step, kind |-> find.kind, key |-> find.key, x |-> find.x,
             level |-> find.level, result |-> find.result, base |-> find.base,
             count |-> find.count]
  /\ find.base \subseteq Linked(1) /\ find.key \in 0..Nil
  /\ find.step = "go" =>
       /\ find.level \in Level /\ find.x \in Node
       /\ \A l \in Level : l = find.level => InList(find.x, l)
       /\ find.kind \in {"ge", "lt"} => find.x < find.key
       /\ find.kind = "next" => find.x = find.key /\ find.level = 1
  /\ find.step = "done" => find.result \in Linked(1) \cup {SkipHead, Nil}

SkipInv == ListInv /\ FindInv /\ FindMissesNothing

(* What is in a level. *)
LEMMA LinkedIs ==
  ASSUME NEW l \in Level, LinksOK
  PROVE  /\ Linked(l) \subseteq SkipKeys
         /\ \A m : m \in Linked(l) <=> m # Nil /\ \E n \in Node : m = next[n][l]
BY DEF Linked, LinksOK, Node

LEMMA Numbers ==
  /\ SkipKeys \subseteq Nat /\ Nil \in Nat /\ 0 < Nil /\ SkipHead = 0 /\ Node \subseteq Nat
  /\ \A k \in SkipKeys : 0 < k /\ k < Nil
  /\ 1 \in Level /\ Level \subseteq Nat /\ SkipHead \in Node
BY SkipAssumption DEF Nil, SkipHead, Node, Level

LEMMA SkipStarts == SkipInit => SkipInv
<1> SUFFICES ASSUME SkipInit PROVE SkipInv
  OBVIOUS
<1>1. LinksOK /\ \A l \in Level : Linked(l) = {}
  BY Zenon DEF SkipInit, LinksOK, Linked, Node, Level
<1>2. \A n \in Node, l \in Level : next[n][l] = Nil
  BY Zenon DEF SkipInit, Node, Level
<1>3. ins.step = "none" /\ heights = {1}
  BY Zenon DEF SkipInit, NoInsert
<1>4. Sorted /\ Nested
  <2>1. \A n \in Node : n \in Nat /\ Nil > n
    BY Zenon, Numbers DEF Node
  <2> QED
    BY Zenon, <1>1, <1>2, <2>1 DEF Sorted, Nested
<1>5. Fresh /\ InsertInv
  BY Zenon, <1>2, <1>3 DEF Fresh, InsertInv, Node
<1>6. FindInv /\ FindMissesNothing
  BY <1>1, Numbers DEF FindInv, FindMissesNothing, SkipInit, NoFind
<1> QED
  BY Zenon, <1>1, <1>3, <1>4, <1>5, <1>6, Numbers DEF SkipInv, ListInv

-----------------------------------------------------------------------------
(* The writer.                                                             *)

(* The reader's node stays in its level while levels only grow. *)
LEMMA ReaderStays ==
  ASSUME FindInv, FindMissesNothing, find' = find,
         \A l \in Level : Linked(l) \subseteq Linked(l)'
  PROVE  FindInv' /\ FindMissesNothing'
<1>1. FindMissesNothing'
  BY Zenon DEF FindMissesNothing
<1>2. Linked(1) \subseteq Linked(1)'
  BY Zenon, Numbers
<1> QED
  BY Zenon, <1>1, <1>2 DEF FindInv, InList

(* The nearest node below a key that is not in the level. *)
LEMMA PrevIsNeighbour ==
  ASSUME ListInv, NEW k \in SkipKeys, NEW l \in Level, k \notin Linked(l)
  PROVE  /\ PrevAt(l, k) \in Node /\ InList(PrevAt(l, k), l)
         /\ PrevAt(l, k) < k /\ k < next[PrevAt(l, k)][l]
<1> DEFINE S == {n \in Linked(l) \cup {SkipHead} : n < k}
           p == PrevAt(l, k)
<1>1. Linked(l) \subseteq SkipKeys
  BY Zenon, LinkedIs DEF ListInv
<1>2. S \in SUBSET (0..k) /\ S # {} /\ k \in Nat
  <2>1. SkipHead \in S
    BY Zenon, Numbers
  <2>2. k \in Nat /\ \A n \in S : n \in Nat /\ n < k
    BY <1>1, Numbers, Zenon
  <2> HIDE DEF S
  <2> QED
    BY <2>1, <2>2
<1>3. p \in S /\ \A y \in S : y =< p
  BY <1>2, HasMax, Zenon DEF PrevAt
<1>4. p \in Node /\ InList(p, l) /\ p < k
  BY Zenon, <1>1, <1>3 DEF Node, InList
<1>5. next[p][l] > p /\ next[p][l] \in SkipKeys \cup {Nil}
  BY Zenon, <1>4 DEF ListInv, Sorted, LinksOK
<1>6. next[p][l] # Nil => next[p][l] \in Linked(l)
  BY Zenon, <1>4, LinkedIs DEF ListInv
<1>7. k < next[p][l]
  <2> SUFFICES ASSUME ~(k < next[p][l]) PROVE FALSE
    OBVIOUS
  <2>1. next[p][l] # Nil /\ next[p][l] \in Linked(l)
    BY Zenon, <1>5, <1>6, Numbers
  <2>2. next[p][l] < k
    <3>1. next[p][l] \in Nat /\ k \in Nat /\ next[p][l] # k
      BY <2>1, <1>1, Numbers, Zenon
    <3> QED
      BY <3>1
  <2>3. next[p][l] \in S
    BY Zenon, <2>1, <2>2
  <2>4. next[p][l] =< p /\ next[p][l] \in Nat /\ p \in Nat
    BY Zenon, <2>1, <2>3, <1>1, <1>3, <1>4, Numbers
  <2> QED
    BY <2>4, <1>5
<1> QED
  BY Zenon, <1>4, <1>7

LEMMA InsertNodeKeeps ==
  ASSUME SkipInv, NEW k \in SkipKeys, NEW h \in Level, InsertNode(k, h)
  PROVE  SkipInv'
<1>1. /\ ins.step = "none" /\ k \notin Linked(1) /\ next' = next /\ find' = find
      /\ heights' = heights \cup {Max(heights \cup {h})}
      /\ ins' = [step |-> "set", key |-> k, height |-> h, level |-> 1,
                 prev |-> [l \in 1..h |-> PrevAt(l, k)]]
  BY Zenon DEF InsertNode
<1>2. \A l \in Level : Linked(l)' = Linked(l)
  BY Zenon, <1>1 DEF Linked
<1>3. \A l \in Level : k \notin Linked(l)
  BY <1>1, Numbers DEF SkipInv, ListInv, Nested, Level
<1>4. heights' \in SUBSET Level
  <2>1. heights \cup {h} \in SUBSET (0..MaxHeight) /\ heights \cup {h} # {}
    BY DEF SkipInv, ListInv, Level
  <2>2. Max(heights \cup {h}) \in heights \cup {h}
    BY <2>1, HasMax, SkipAssumption, Zenon
  <2> QED
    BY Zenon, <1>1, <2>2 DEF SkipInv, ListInv
<1>5. LinksOK' /\ Sorted' /\ Nested'
  BY <1>1, <1>2 DEF SkipInv, ListInv, LinksOK, Sorted, Nested, InList
<1>6. Fresh'
  BY <1>1, <1>2, Zenon DEF SkipInv, ListInv, Fresh
<1>7. InsertInv'
  <2>0. 1..h \subseteq Level
    BY SkipAssumption DEF Level
  <2>1. \A l \in 1..h : /\ l \in Level /\ ins'.prev[l] = PrevAt(l, k)
                        /\ PrevAt(l, k) \in Node /\ InList(PrevAt(l, k), l)
                        /\ PrevAt(l, k) < k /\ k < next[PrevAt(l, k)][l]
    BY Zenon, <1>1, <1>3, <2>0, PrevIsNeighbour DEF SkipInv
  <2>2. \A l \in 1..h : /\ ins'.prev[l] \in Node
                        /\ ins'.prev[l] = SkipHead \/ ins'.prev[l] \in Linked(l)'
                        /\ ins'.prev[l] < k /\ k < next'[ins'.prev[l]][l]
    BY Zenon, <1>1, <1>2, <2>1 DEF InList
  <2> QED
    BY <1>1, <1>2, <1>3, <2>2 DEF InsertInv, InList, Level
<1> QED
  BY <1>1, <1>2, <1>4, <1>5, <1>6, <1>7, ReaderStays, Zenon DEF SkipInv, ListInv

(* The node and the level of an insertion, and the links around it. *)
LEMMA Inserting ==
  ASSUME ListInv, ins.step # "none"
  PROVE  \E k \in SkipKeys, L \in Level, p \in Node :
           /\ k = ins.key /\ L = ins.level /\ p = ins.prev[L]
           /\ L =< ins.height /\ k \notin Linked(L) /\ InList(p, L)
           /\ p < k /\ k < next[p][L]
           /\ k # p /\ next[p][L] \in SkipKeys \cup {Nil}
<1>1. /\ ins.key \in SkipKeys /\ ins.level \in 1..ins.height /\ ins.height \in Level
      /\ \A l \in ins.level..MaxHeight : ins.key \notin Linked(l)
      /\ \A l \in ins.level..ins.height :
           /\ ins.prev[l] \in Node /\ InList(ins.prev[l], l)
           /\ ins.prev[l] < ins.key /\ ins.key < next[ins.prev[l]][l]
  BY Zenon DEF ListInv, InsertInv
<1>2. /\ ins.level \in Level /\ ins.level \in ins.level..MaxHeight
      /\ ins.level \in ins.level..ins.height /\ ins.level =< ins.height
  BY <1>1, SkipAssumption DEF Level
<1>3. /\ ins.prev[ins.level] \in Node /\ InList(ins.prev[ins.level], ins.level)
      /\ ins.prev[ins.level] < ins.key /\ ins.key < next[ins.prev[ins.level]][ins.level]
      /\ ins.key \notin Linked(ins.level)
  BY Zenon, <1>1, <1>2
<1>4. next[ins.prev[ins.level]][ins.level] \in SkipKeys \cup {Nil}
  BY Zenon, <1>2, <1>3 DEF ListInv, LinksOK
<1>5. ins.key # ins.prev[ins.level]
  <2>1. ins.key \in Nat /\ ins.prev[ins.level] \in Nat
    BY <1>1, <1>3, Numbers, Zenon
  <2> QED
    BY <1>3, <2>1
<1> QED
  BY Zenon, <1>1, <1>2, <1>3, <1>4, <1>5

LEMMA SetLinkKeeps ==
  ASSUME SkipInv, SetLink
  PROVE  SkipInv'
<1> USE DEF SkipInv
<1>1. PICK k \in SkipKeys, L \in Level, p \in Node :
        /\ k = ins.key /\ L = ins.level /\ p = ins.prev[L]
        /\ L =< ins.height /\ k \notin Linked(L) /\ InList(p, L)
        /\ p < k /\ k < next[p][L]
        /\ k # p /\ next[p][L] \in SkipKeys \cup {Nil}
  BY Zenon, Inserting DEF SetLink
<1>2. /\ ins.step = "set" /\ find' = find /\ heights' = heights
      /\ next' = [next EXCEPT ![k][L] = next[p][L]]
      /\ ins' = [ins EXCEPT !.step = "publish"]
  BY Zenon, <1>1 DEF SetLink
<1>3. /\ LinksOK' /\ next'[k][L] = next[p][L] /\ k \in Node
      /\ \A n \in Node, l \in Level : n # k \/ l # L => next'[n][l] = next[n][l]
  BY Zenon, <1>1, <1>2 DEF ListInv, LinksOK, Node
<1>4. next[k][L] = Nil
  BY Zenon, <1>1, <1>2 DEF ListInv, Fresh
<1>5. ASSUME NEW l \in Level PROVE Linked(l)' = Linked(l)
  <2>1. \A m : m \in Linked(l)' <=> m # Nil /\ \E n \in Node : m = next'[n][l]
    BY Zenon DEF Linked, Node, Nil
  <2>2. \A m : m \in Linked(l) <=> m # Nil /\ \E n \in Node : m = next[n][l]
    BY Zenon, LinkedIs DEF ListInv
  <2>3. ASSUME NEW m, m \in Linked(l)' PROVE m \in Linked(l)
    <3>1. PICK n \in Node : m = next'[n][l] /\ m # Nil
      BY Zenon, <2>1, <2>3
    <3>2. CASE n = k /\ l = L
      BY Zenon, <1>3, <2>2, <3>1, <3>2
    <3>3. CASE n # k \/ l # L
      BY Zenon, <1>3, <2>2, <3>1, <3>3
    <3> QED
      BY Zenon, <3>2, <3>3
  <2>4. ASSUME NEW m, m \in Linked(l) PROVE m \in Linked(l)'
    <3>1. PICK n \in Node : m = next[n][l] /\ m # Nil
      BY Zenon, <2>2, <2>4
    <3>2. n # k \/ l # L
      BY Zenon, <1>4, <3>1
    <3> QED
      BY Zenon, <1>3, <2>1, <3>1, <3>2
  <2> QED
    BY Zenon, <2>3, <2>4
<1>6. Sorted'
  <2> SUFFICES ASSUME NEW l \in Level, NEW n \in Node, InList(n, l)
               PROVE  /\ next'[n][l] > n
                      /\ \A m \in Linked(l) : m > n => m >= next'[n][l]
    BY Zenon, <1>5 DEF Sorted, InList
  <2>1. n # k \/ l # L
    BY <1>1, Numbers DEF InList
  <2> QED
    BY Zenon, <1>3, <2>1 DEF ListInv, Sorted
<1>7. Nested'
  BY <1>5 DEF ListInv, Nested
<1>8. /\ ins'.step = "publish" /\ ins'.key = k /\ ins'.level = L /\ ins'.prev = ins.prev
      /\ ins'.height = ins.height
  BY Zenon, <1>1, <1>2 DEF ListInv, InsertInv
<1>9. Fresh'
  <2> SUFFICES ASSUME NEW l \in Level, NEW n \in SkipKeys, n \notin Linked(l)
               PROVE  next'[n][l] = IF n = k /\ l = L THEN next'[ins.prev[l]][l] ELSE Nil
    BY <1>5, <1>8 DEF Fresh
  <2>1. CASE n = k /\ l = L
    <3>1. next'[p][L] = next[p][L]
      BY Zenon, <1>1, <1>3
    <3> QED
      BY Zenon, <1>1, <1>3, <2>1, <3>1
  <2>2. CASE ~(n = k /\ l = L)
    <3>1. next'[n][l] = next[n][l]
      BY Zenon, <1>3, <2>2 DEF Node
    <3> QED
      BY Zenon, <1>2, <2>2, <3>1 DEF ListInv, Fresh
  <2> QED
    BY Zenon, <2>1, <2>2
<1>10. InsertInv'
  <2>1. \A l \in L..ins.height : l \in Level
    BY <1>2, SkipAssumption DEF ListInv, InsertInv, Level
  <2>2. \A l \in L..ins.height : next'[ins.prev[l]][l] = next[ins.prev[l]][l]
    BY <1>1, <1>2, <1>3, <2>1, Numbers DEF ListInv, InsertInv
  <2>3. /\ \A l \in 1..L-1 : l \in Level /\ k \in Linked(l)
        /\ \A l \in L..MaxHeight : l \in Level /\ k \notin Linked(l)
    BY <1>1, <1>2, SkipAssumption DEF ListInv, InsertInv, Level
  <2>4. /\ ins.height \in Level /\ L \in 1..ins.height
        /\ \A l \in L..ins.height :
             /\ ins.prev[l] \in Node /\ InList(ins.prev[l], l)
             /\ ins.prev[l] < k /\ k < next[ins.prev[l]][l]
    BY Zenon, <1>1, <1>2 DEF ListInv, InsertInv
  <2>5. ins' = [step |-> ins'.step, key |-> ins'.key, height |-> ins'.height,
                level |-> ins'.level, prev |-> ins'.prev]
    BY Zenon, <1>2 DEF ListInv, InsertInv
  <2> QED
    BY <1>5, <1>8, <2>1, <2>2, <2>3, <2>4, <2>5 DEF InsertInv, InList
<1> QED
  BY Zenon, <1>2, <1>3, <1>5, <1>6, <1>7, <1>9, <1>10, ReaderStays DEF ListInv

LEMMA PublishKeeps ==
  ASSUME SkipInv, Publish
  PROVE  SkipInv'
<1> USE DEF SkipInv
<1>1. PICK k \in SkipKeys, L \in Level, p \in Node :
        /\ k = ins.key /\ L = ins.level /\ p = ins.prev[L]
        /\ L =< ins.height /\ k \notin Linked(L) /\ InList(p, L)
        /\ p < k /\ k < next[p][L]
        /\ k # p /\ next[p][L] \in SkipKeys \cup {Nil}
  BY Zenon, Inserting DEF Publish
<1>2. /\ ins.step = "publish" /\ find' = find /\ heights' = heights
      /\ next' = [next EXCEPT ![p][L] = k]
      /\ ins' = IF L = ins.height THEN NoInsert
                ELSE [ins EXCEPT !.step = "set", !.level = L + 1]
  BY Zenon, <1>1 DEF Publish
<1>3. /\ LinksOK' /\ next'[p][L] = k /\ k \in Node
      /\ \A n \in Node, l \in Level : n # p \/ l # L => next'[n][l] = next[n][l]
  BY <1>1, <1>2, Zenon DEF ListInv, LinksOK, Node
<1> DEFINE q == next[p][L]
<1>4. next[k][L] = q /\ next'[k][L] = q
  <2>1. next[k][L] = q
    BY Zenon, <1>1, <1>2 DEF ListInv, Fresh
  <2> QED
    BY Zenon, <1>1, <1>3, <2>1
<1>5. Linked(L)' = Linked(L) \cup {k} /\ \A l \in Level : l # L => Linked(l)' = Linked(l)
  <2>1. \A l \in Level : \A m : m \in Linked(l)' <=> m # Nil /\ \E n \in Node : m = next'[n][l]
    BY Zenon DEF Linked, Node, Nil
  <2>2. \A l \in Level : \A m : m \in Linked(l) <=> m # Nil /\ \E n \in Node : m = next[n][l]
    BY Zenon, LinkedIs DEF ListInv
  <2>3. \A l \in Level : l # L => Linked(l)' = Linked(l)
    BY <1>3 DEF Linked, Node, Nil
  <2>4. ASSUME NEW m, m \in Linked(L)' PROVE m \in Linked(L) \cup {k}
    <3>1. PICK n \in Node : m = next'[n][L] /\ m # Nil
      BY Zenon, <2>1, <2>4
    <3>2. CASE n = p
      BY Zenon, <1>3, <3>1, <3>2
    <3>3. CASE n # p
      BY Zenon, <1>3, <2>2, <3>1, <3>3
    <3> QED
      BY Zenon, <3>2, <3>3
  <2>5. ASSUME NEW m, m \in Linked(L) PROVE m \in Linked(L)'
    <3>1. PICK n \in Node : m = next[n][L] /\ m # Nil
      BY Zenon, <2>2, <2>5
    <3>2. CASE n = p
      <4>1. m = next'[k][L]
        BY Zenon, <1>4, <3>1, <3>2
      <4> QED
        BY Zenon, <1>3, <2>1, <3>1, <4>1
    <3>3. CASE n # p
      BY Zenon, <1>3, <2>1, <3>1, <3>3
    <3> QED
      BY Zenon, <3>2, <3>3
  <2>6. k \in Linked(L)'
    BY <1>3, <2>1, Numbers
  <2> QED
    BY Zenon, <2>3, <2>4, <2>5, <2>6
<1>6. Sorted'
  <2> SUFFICES ASSUME NEW l \in Level, NEW n \in Node, InList(n, l)'
               PROVE  /\ next'[n][l] > n
                      /\ \A m \in Linked(l)' : m > n => m >= next'[n][l]
    BY Zenon DEF Sorted
  <2>1. CASE l # L
    <3>1. InList(n, l)
      BY Zenon, <1>5, <2>1 DEF InList
    <3>2. next'[n][l] = next[n][l]
      BY Zenon, <1>3, <2>1
    <3> QED
      BY Zenon, <1>5, <2>1, <3>1, <3>2 DEF ListInv, Sorted
  <2>2. CASE l = L /\ n = p
    <3>1. \A m \in Linked(L) : m > p => m >= q
      BY Zenon, <1>1 DEF ListInv, Sorted
    <3>2. p \in Nat /\ k \in Nat /\ q \in Nat /\ Linked(L) \subseteq Nat
      BY Zenon, <1>1, Numbers, LinkedIs DEF ListInv
    <3>3. next'[n][l] = k /\ Linked(l)' = Linked(L) \cup {k} /\ n = p /\ p < k /\ k < q
      BY Zenon, <1>1, <1>3, <1>5, <2>2
    <3>4. \A m \in Linked(L) \cup {k} : m > p => m >= k
      BY <3>1, <3>2, <3>3
    <3> QED
      BY <3>2, <3>3, <3>4
  <2>3. CASE l = L /\ n = k
    <3>1. \A m \in Linked(L) : m > p => m >= q
      BY <1>1, SMTT(30) DEF ListInv, Sorted
    <3>2. p \in Nat /\ k \in Nat /\ q \in Nat /\ Linked(L) \subseteq Nat
      BY Zenon, <1>1, Numbers, LinkedIs DEF ListInv
    <3>3. next'[n][l] = q /\ Linked(l)' = Linked(L) \cup {k} /\ n = k /\ p < k /\ k < q
      BY Zenon, <1>1, <1>4, <1>5, <2>3
    <3>4. \A m \in Linked(L) \cup {k} : m > k => m >= q
      BY <3>1, <3>2, <3>3
    <3> QED
      BY <3>2, <3>3, <3>4
  <2>4. CASE l = L /\ n # p /\ n # k
    <3>1. InList(n, L) /\ next'[n][L] = next[n][L]
      BY Zenon, <1>3, <1>5, <2>4 DEF InList
    <3>2. /\ next[n][L] > n
          /\ \A m \in Linked(L) : m > n => m >= next[n][L]
          /\ \A m \in Linked(L) : m > p => m >= q
      BY Zenon, <1>1, <3>1 DEF ListInv, Sorted
    <3>3. /\ p \in Nat /\ k \in Nat /\ q \in Nat /\ n \in Nat /\ Linked(L) \subseteq Nat
          /\ next[n][L] \in Nat
      <4>1. p \in Nat /\ k \in Nat /\ q \in Nat /\ n \in Nat /\ Linked(L) \subseteq Nat
        BY Zenon, <1>1, Numbers, LinkedIs DEF ListInv
      <4>2. next[n][L] \in SkipKeys \cup {Nil}
        BY Zenon DEF ListInv, LinksOK
      <4> QED BY Zenon, <4>1, <4>2, Numbers
    <3>4. k > n => k >= next[n][L]
      <4> SUFFICES ASSUME k > n PROVE k >= next[n][L]
        OBVIOUS
      <4>1. ~(n > p)
        BY <1>1, <3>1, <3>2, <3>3, Numbers, SMTT(30) DEF InList
      <4>2. p \in Linked(L) /\ p > n
        BY <1>1, <2>4, <3>3, <4>1, Numbers, SMTT(30) DEF InList
      <4> QED
        BY <1>1, <3>2, <3>3, <4>2, SMTT(30)
    <3> QED
      BY Zenon, <1>5, <2>4, <3>1, <3>2, <3>4
  <2> QED
    BY Zenon, <2>1, <2>2, <2>3, <2>4
<1>7. \A l \in Level : l < L => k \in Linked(l)
  BY <1>1, <1>2, Numbers DEF ListInv, InsertInv, Level
<1>8. Nested'
  <2> SUFFICES ASSUME NEW l \in Level, NEW m \in Level, l =< m
               PROVE  Linked(m)' \subseteq Linked(l)'
    BY Zenon DEF Nested
  <2>1. Linked(m) \subseteq Linked(l) /\ Linked(l) \subseteq Linked(l)'
    BY Zenon, <1>5 DEF ListInv, Nested
  <2>2. m = L => k \in Linked(l)'
    BY <1>5, <1>7, Numbers
  <2> QED
    BY Zenon, <1>5, <2>1, <2>2
<1>9. ins'.step \in {"none", "set"}
  BY Zenon, <1>2 DEF NoInsert, ListInv, InsertInv
<1>10. Fresh'
  <2> SUFFICES ASSUME NEW l \in Level, NEW n \in SkipKeys, n \notin Linked(l)'
               PROVE  next'[n][l] = Nil
    BY Zenon, <1>9 DEF Fresh
  <2>1. n \notin Linked(l) /\ ~(n = k /\ l = L)
    BY Zenon, <1>5
  <2>2. next[n][l] = Nil
    BY Zenon, <1>1, <2>1 DEF ListInv, Fresh
  <2>3. ~(n = p /\ l = L)
    BY <1>1, <2>1, Numbers DEF InList
  <2> QED
    BY Zenon, <1>3, <2>2, <2>3 DEF Node
<1>11. InsertInv'
  <2>1. CASE L = ins.height
    BY Zenon, <1>2, <2>1 DEF InsertInv, NoInsert
  <2>2. CASE L # ins.height
    <3>1. /\ ins.height \in Level /\ L \in 1..ins.height
          /\ ins = [step |-> ins.step, key |-> ins.key, height |-> ins.height,
                    level |-> ins.level, prev |-> ins.prev]
          /\ \A l \in L..MaxHeight : k \notin Linked(l)
          /\ \A l \in L..ins.height :
               /\ ins.prev[l] \in Node /\ InList(ins.prev[l], l)
               /\ ins.prev[l] < k /\ k < next[ins.prev[l]][l]
      BY Zenon, <1>1, <1>2 DEF ListInv, InsertInv
    <3>2. ins' = [step |-> "set", key |-> k, height |-> ins.height,
                  level |-> L + 1, prev |-> ins.prev]
      BY <1>1, <1>2, <2>2, <3>1, Zenon
    <3>3. L + 1 \in 1..ins.height
      BY <2>2, <3>1 DEF Level
    <3>4. \A l \in 1..L : k \in Linked(l)'
      <4>1. \A l \in 1..L : l \in Level /\ (l = L \/ l < L)
        BY SkipAssumption DEF Level
      <4> QED
        BY Zenon, <1>5, <1>7, <4>1
    <3>5. \A l \in L+1..MaxHeight : l \in Level /\ l # L /\ l \in L..MaxHeight
      BY SkipAssumption DEF Level
    <3>6. \A l \in L+1..ins.height : l \in Level /\ l # L /\ l \in L..ins.height
      BY <3>1, SkipAssumption DEF Level
    <3>7. \A l \in L+1..MaxHeight : k \notin Linked(l)'
      BY Zenon, <1>5, <3>1, <3>5
    <3>8. \A l \in L+1..ins.height :
            /\ ins.prev[l] \in Node
            /\ ins.prev[l] = SkipHead \/ ins.prev[l] \in Linked(l)'
            /\ ins.prev[l] < k /\ k < next'[ins.prev[l]][l]
      BY <1>3, <1>5, <3>1, <3>6 DEF InList
    <3>9. L + 1 - 1 = L
      BY Numbers
    <3> QED
      BY <3>1, <3>2, <3>3, <3>4, <3>7, <3>8, <3>9 DEF InsertInv, InList
  <2> QED
    BY Zenon, <2>1, <2>2
<1> QED
  BY Zenon, <1>2, <1>3, <1>5, <1>6, <1>8, <1>10, <1>11, ReaderStays DEF ListInv

-----------------------------------------------------------------------------
(* The reader.                                                             *)

(* The list is not changed by the reader. *)
LEMMA ListStays ==
  ASSUME ListInv, UNCHANGED <<next, heights, ins>>
  PROVE  ListInv' /\ \A l \in Level : Linked(l)' = Linked(l)
<1>1. \A l \in Level : Linked(l)' = Linked(l)
  BY Zenon DEF Linked
<1>2. InsertInv'
  BY DEF ListInv, InsertInv, InList, Linked
<1> QED
  BY <1>1, <1>2 DEF ListInv, LinksOK, Sorted, Nested, Fresh, InList

LEMMA StartFindKeeps ==
  ASSUME SkipInv, NEW kind \in {"ge", "lt", "last"}, NEW k \in 1..Nil, StartFind(kind, k)
  PROVE  SkipInv'
<1>1. PICK h \in heights :
        find' = [step |-> "go", kind |-> kind, key |-> k, result |-> Nil, base |-> Linked(1),
                 x |-> SkipHead, level |-> h, count |-> find.count + 1]
  BY Zenon DEF StartFind
<1>2. ListInv' /\ Linked(1)' = Linked(1) /\ h \in Level
  BY Zenon, ListStays, Numbers DEF StartFind, SkipInv, ListInv
<1> QED
  BY <1>1, <1>2, Numbers DEF SkipInv, FindInv, FindMissesNothing, InList

LEMMA IteratorNextKeeps ==
  ASSUME SkipInv, IteratorNext
  PROVE  SkipInv'
<1>1. /\ find.step = "done" /\ find.result \in SkipKeys
      /\ find' = [find EXCEPT !.step = "go", !.kind = "next", !.key = find.result,
                              !.base = Linked(1), !.x = find.result, !.level = 1,
                              !.count = @ + 1]
  BY Zenon DEF IteratorNext
<1>2. ListInv' /\ Linked(1)' = Linked(1)
  BY Zenon, ListStays, Numbers DEF IteratorNext, SkipInv
<1>3. find.result \in Linked(1)
  BY <1>1, Numbers DEF SkipInv, FindInv
<1>4. find' = [step |-> "go", kind |-> "next", key |-> find.result, x |-> find.result,
               level |-> 1, result |-> find.result, base |-> Linked(1),
               count |-> find.count + 1]
  BY <1>1, Zenon DEF SkipInv, FindInv
<1>5. find.result \in Node /\ find.result \in 0..Nil
  BY <1>1, Numbers DEF Node
<1>6. FindInv' /\ FindMissesNothing'
  BY Zenon, <1>2, <1>3, <1>4, <1>5, Numbers DEF FindInv, FindMissesNothing, InList
<1> QED
  BY Zenon, <1>2, <1>6 DEF SkipInv

LEMMA FindStepKeeps ==
  ASSUME SkipInv, FindStep
  PROVE  SkipInv'
<1>1. PICK x \in Node, l \in Level :
        /\ x = find.x /\ l = find.level /\ InList(x, l)
        /\ find.kind \in {"ge", "lt"} => x < find.key
        /\ find.kind = "next" => x = find.key /\ l = 1
  BY Zenon DEF FindStep, SkipInv, FindInv
<1>2. PICK n \in SkipKeys \cup {Nil} : n = next[x][l]
  BY Zenon, <1>1 DEF SkipInv, ListInv, LinksOK
<1>3. /\ find.step = "go" /\ find.kind \in {"ge", "lt", "last", "next"}
      /\ find = [step |-> find.step, kind |-> find.kind, key |-> find.key, x |-> find.x,
                 level |-> find.level, result |-> find.result, base |-> find.base,
                 count |-> find.count]
      /\ find.base \subseteq Linked(1) /\ find.key \in 0..Nil
  BY Zenon DEF FindStep, SkipInv, FindInv
<1>4. ListInv' /\ \A m \in Level : Linked(m)' = Linked(m)
  BY Zenon, ListStays DEF FindStep, SkipInv
<1>5. /\ n > x /\ \A m \in Linked(l) : m > x => m >= n
      /\ n # Nil => n \in Linked(l) /\ n \in Node
      /\ Linked(1) \subseteq SkipKeys /\ x \in Nat /\ n \in Nat /\ 1 \in Level /\ n =< Nil
  <2>1. n > x /\ \A m \in Linked(l) : m > x => m >= n
    BY Zenon, <1>1, <1>2 DEF SkipInv, ListInv, Sorted
  <2>2. n # Nil => n \in Linked(l) /\ n \in Node
    BY Zenon, <1>2, LinkedIs DEF SkipInv, ListInv, Node
  <2> QED
    BY <2>1, <2>2, Numbers, LinkedIs DEF SkipInv, ListInv
<1>6. CASE KeepsSearching(n)
  <2>1. find' = [find EXCEPT !.x = n] /\ find.kind # "next"
    BY Zenon, <1>1, <1>2, <1>6, <1>3 DEF FindStep, KeepsSearching
  <2>2. n # Nil /\ (find.kind \in {"ge", "lt"} => n < find.key)
    BY <1>3, <1>5, <1>6, Numbers DEF KeepsSearching
  <2>3. FindInv'
    BY Zenon, <1>1, <1>3, <1>4, <1>5, <2>1, <2>2 DEF FindInv, InList
  <2>4. FindMissesNothing'
    BY Zenon, <1>3, <2>1 DEF FindMissesNothing
  <2> QED
    BY Zenon, <1>4, <2>3, <2>4 DEF SkipInv
<1>7. CASE ~KeepsSearching(n) /\ l > 1
  <2>1. find' = [find EXCEPT !.level = l - 1] /\ find.kind # "next"
    BY <1>1, <1>2, <1>7 DEF FindStep
  <2>2. l - 1 \in Level /\ InList(x, l - 1)
    <3>1. l - 1 \in Level /\ l - 1 =< l
      BY <1>7, SkipAssumption DEF Level
    <3> QED
      BY Zenon, <1>1, <3>1 DEF SkipInv, ListInv, Nested, InList
  <2>3. FindInv'
    BY Zenon, <1>1, <1>3, <1>4, <1>5, <2>1, <2>2 DEF FindInv, InList
  <2>4. FindMissesNothing'
    BY Zenon, <1>3, <2>1 DEF FindMissesNothing
  <2> QED
    BY <1>4, <2>3, <2>4 DEF SkipInv
<1>8. CASE ~KeepsSearching(n) /\ ~(l > 1)
  <2>1. l = 1
    BY <1>8 DEF Level
  <2> DEFINE found == IF find.kind \in {"lt", "last"} THEN x ELSE n
  <2>2. find' = [find EXCEPT !.step = "done", !.result = found, !.level = 0]
    BY Zenon, <1>1, <1>2, <1>8 DEF FindStep
  <2>3. found \in Linked(1) \cup {SkipHead, Nil}
    BY Zenon, <1>1, <1>5, <2>1 DEF InList
  <2>4. FindInv'
    BY <1>3, <1>4, <1>5, <2>2, <2>3, Zenon DEF FindInv
  <2>5. \A b \in find.base : b \in Nat /\ b < Nil /\ (b > x => b >= n)
    BY Zenon, <1>3, <1>5, <2>1, Numbers
  <2>6. /\ find.kind \in {"ge", "lt"} => n >= find.key
        /\ find.kind = "last" => n = Nil
    BY <1>3, <1>5, <1>8, Numbers DEF KeepsSearching
  <2>7. FindMissesNothing'
    <3>1. CASE find.kind = "ge"
      BY <1>1, <1>3, <1>5, <2>2, <2>5, <2>6, <3>1, Numbers DEF FindMissesNothing
    <3>2. CASE find.kind = "lt"
      BY <1>1, <1>3, <1>5, <2>2, <2>5, <2>6, <3>2, Numbers DEF FindMissesNothing
    <3>3. CASE find.kind = "last"
      BY <1>1, <1>3, <1>5, <2>2, <2>5, <2>6, <3>3, Numbers DEF FindMissesNothing
    <3>4. CASE find.kind = "next"
      BY Zenon, <1>1, <1>3, <1>5, <2>2, <2>5, <3>4, Numbers DEF FindMissesNothing
    <3> QED
      BY Zenon, <1>3, <3>1, <3>2, <3>3, <3>4
  <2> QED
    BY <1>4, <2>4, <2>7 DEF SkipInv
<1> QED
  BY Zenon, <1>6, <1>7, <1>8

LEMMA SkipInductive == SkipInv /\ [SkipNext]_skipVars => SkipInv'
<1> SUFFICES ASSUME SkipInv, [SkipNext]_skipVars PROVE SkipInv'
  OBVIOUS
<1>1. ASSUME NEW k \in SkipKeys, NEW h \in 1..MaxHeight, InsertNode(k, h) PROVE SkipInv'
  BY Zenon, <1>1, InsertNodeKeeps DEF Level
<1>2. CASE SetLink \/ Publish
  BY Zenon, <1>2, SetLinkKeeps, PublishKeeps
<1>3. ASSUME NEW k \in SkipKeys, StartFind("ge", k) \/ StartFind("lt", k) PROVE SkipInv'
  <2>1. k \in 1..Nil
    BY Numbers
  <2> QED
    BY Zenon, <1>3, <2>1, StartFindKeeps
<1>4. CASE StartFind("last", Nil)
  <2>1. Nil \in 1..Nil
    BY Numbers
  <2> QED
    BY Zenon, <1>4, <2>1, StartFindKeeps
<1>5. CASE IteratorNext \/ FindStep
  BY <1>5, IteratorNextKeeps, FindStepKeeps
<1>6. CASE UNCHANGED skipVars
  <2>1. UNCHANGED <<next, heights, ins>> /\ find' = find
    BY Zenon, <1>6 DEF skipVars
  <2>2. ListInv' /\ \A l \in Level : Linked(l)' = Linked(l)
    BY Zenon, <2>1, ListStays DEF SkipInv
  <2> QED
    BY Zenon, <2>1, <2>2, ReaderStays DEF SkipInv
<1> QED
  BY Zenon, <1>1, <1>2, <1>3, <1>4, <1>5, <1>6 DEF SkipNext

-----------------------------------------------------------------------------
(* The properties.                                                         *)

(* A reader without a lock misses no key that was in the list when it      *)
(* began, and finds the nearest one, whatever Insert does meanwhile.       *)
THEOREM FindMissesNothingThm == SkipSpec => []FindMissesNothing
<1>1. SkipInv => FindMissesNothing
  BY Zenon DEF SkipInv
<1> QED
  BY <1>1, SkipStarts, SkipInductive, PTL DEF SkipSpec

(* At every step of Insert the links of every level ascend, and a node of  *)
(* a level is in the levels below.                                         *)
THEOREM LevelsNestThm == SkipSpec => []LevelsNest
<1>1. SkipInv => LevelsNest
  <2> SUFFICES ASSUME SkipInv PROVE LevelsNest
    OBVIOUS
  <2>1. ASSUME NEW n \in Node, NEW l \in Level PROVE next[n][l] > n
    <3>1. CASE InList(n, l)
      BY Zenon, <3>1 DEF SkipInv, ListInv, Sorted
    <3>2. CASE ~InList(n, l) /\ ins.step = "publish" /\ n = ins.key /\ l = ins.level
      <4>1. n \in SkipKeys /\ next[n][l] = next[ins.prev[l]][l]
        BY Zenon, <3>2 DEF SkipInv, ListInv, Fresh, InList, Node
      <4>2. ins.key < next[ins.prev[l]][l] /\ next[ins.prev[l]][l] \in Nat /\ n \in Nat
        BY <3>2, Inserting, Numbers, Zenon DEF SkipInv
      <4> QED
        BY Zenon, <3>2, <4>1, <4>2
    <3>3. CASE ~InList(n, l) /\ ~(ins.step = "publish" /\ n = ins.key /\ l = ins.level)
      <4>1. n \in SkipKeys /\ next[n][l] = Nil
        BY Zenon, <3>3 DEF SkipInv, ListInv, Fresh, InList, Node
      <4> QED
        BY Zenon, <4>1, Numbers
    <3> QED
      BY Zenon, <3>1, <3>2, <3>3
  <2>2. ASSUME NEW l \in 2..MaxHeight PROVE Linked(l) \subseteq Linked(l - 1)
    <3>1. l \in Level /\ l - 1 \in Level /\ l - 1 =< l
      BY SkipAssumption DEF Level
    <3> QED
      BY Zenon, <3>1 DEF SkipInv, ListInv, Nested
  <2> QED
    BY Zenon, <2>1, <2>2 DEF LevelsNest, Node, Level
<1> QED
  BY <1>1, SkipStarts, SkipInductive, PTL DEF SkipSpec
=============================================================================
