------------------------------ MODULE SkipList ------------------------------
(***************************************************************************)
(* The skip list of a memtable (db/skiplist.h): one writer, which the      *)
(* caller synchronizes, and a reader that takes no lock.  A node is its    *)
(* key; 0 is head_ and Nil, above every key, is nullptr.  Levels are from  *)
(* 1.  Every store and every load of a link is a step.                     *)
(***************************************************************************)
EXTENDS Integers, FiniteSets, FiniteSetsExt

CONSTANTS SkipKeys,   \* keys, positive numbers
          MaxSkipKey, \* bound: the largest key
          MaxHeight,  \* kMaxHeight
          MaxFinds    \* bound: searches by the reader

ASSUME SkipAssumption == MaxSkipKey \in Nat /\ SkipKeys \subseteq 1..MaxSkipKey
                           /\ MaxHeight \in Nat \ {0}

Nil == MaxSkipKey + 1
SkipHead == 0

VARIABLES next,     \* the links of every node
          heights,  \* the values max_height_ has had; a relaxed load may see any
          ins,      \* Insert: the node, its height, prev[], the level and step
          find      \* the reader's search

skipVars == <<next, heights, ins, find>>

NoInsert == [step |-> "none", key |-> Nil, height |-> 0, level |-> 0, prev |-> <<>>]
NoFind   == [step |-> "none", kind |-> "ge", key |-> 0, x |-> SkipHead, level |-> 0, result |-> Nil,
             base |-> {}, count |-> 0]

SkipInit ==
  /\ next = [n \in SkipKeys \cup {SkipHead} |-> [l \in 1..MaxHeight |-> Nil]]
  /\ heights = {1} /\ ins = NoInsert /\ find = NoFind

(* The nodes a link of this level points to. *)
Linked(l) == {next[n][l] : n \in SkipKeys \cup {SkipHead}} \ {Nil}

(* FindGreaterOrEqual for the writer, whom nobody disturbs: prev[l]. *)
PrevAt(l, k) == Max({n \in Linked(l) \cup {SkipHead} : n < k})

(* Insert up to the new node, with RandomHeight h. *)
InsertNode(k, h) ==
  /\ ins.step = "none" /\ k \notin Linked(1)
  /\ heights' = heights \cup {Max(heights \cup {h})}
  /\ ins' = [step |-> "set", key |-> k, height |-> h, level |-> 1,
             prev |-> [l \in 1..h |-> PrevAt(l, k)]]
  /\ UNCHANGED <<next, find>>

(* Mutant: the node is published, and its own link is set a step later. *)
PublishFirst ==
  LET p == ins.prev[ins.level]
      Step(step, after) == [step |-> step, key |-> ins.key, height |-> ins.height,
                            level |-> ins.level, prev |-> ins.prev, after |-> after]
  IN  /\ \/ /\ ins.step = "set"
            /\ next' = [next EXCEPT ![p][ins.level] = ins.key]
            /\ ins' = Step("link", next[p][ins.level])
         \/ /\ ins.step = "link"
            /\ next' = [next EXCEPT ![ins.key][ins.level] = ins.after]
            /\ ins' = Step("publish", ins.after)
      /\ UNCHANGED <<heights, find>>

(* x->NoBarrier_SetNext(i, prev[i]->NoBarrier_Next(i)) *)
SetLink ==
  /\ ins.step = "set"
  /\ next' = [next EXCEPT ![ins.key][ins.level] = next[ins.prev[ins.level]][ins.level]]
  /\ ins' = [ins EXCEPT !.step = "publish"]
  /\ UNCHANGED <<heights, find>>

(* prev[i]->SetNext(i, x), and the end of the loop. *)
Publish ==
  /\ ins.step = "publish"
  /\ next' = [next EXCEPT ![ins.prev[ins.level]][ins.level] = ins.key]
  /\ ins' = IF ins.level = ins.height THEN NoInsert
            ELSE [ins EXCEPT !.step = "set", !.level = @ + 1]
  /\ UNCHANGED <<heights, find>>

(* A search begins at head_, on the level of the max_height_ it reads; an  *)
(* iterator's Next begins at its node, on the lowest level.                *)
StartFind(kind, k) ==
  /\ find.step \in {"none", "done"} /\ find.count < MaxFinds
  /\ \E h \in heights :
       find' = [step |-> "go", kind |-> kind, key |-> k, result |-> Nil, base |-> Linked(1),
                x |-> SkipHead, level |-> h, count |-> find.count + 1]
  /\ UNCHANGED <<next, heights, ins>>

IteratorNext ==
  /\ find.step = "done" /\ find.result \in SkipKeys /\ find.count < MaxFinds
  /\ find' = [find EXCEPT !.step = "go", !.kind = "next", !.key = find.result, !.base = Linked(1),
                          !.x = find.result, !.level = 1, !.count = @ + 1]
  /\ UNCHANGED <<next, heights, ins>>

(* The search goes on in this list: KeyIsAfterNode in FindGreaterOrEqual,  *)
(* the conditions of FindLessThan and FindLast.                            *)
KeepsSearching(n) ==
  CASE find.kind \in {"ge", "lt"} -> n < find.key
    [] find.kind = "last" -> n # Nil
    [] OTHER -> FALSE

(* One load of x->Next(level) and what the loop does with it. *)
FindStep ==
  LET n == next[find.x][find.level]
      r == IF find.kind \in {"lt", "last"} THEN find.x ELSE n
  IN  /\ find.step = "go"
      /\ find' = IF KeepsSearching(n) THEN [find EXCEPT !.x = n]
                 ELSE IF find.level > 1 THEN [find EXCEPT !.level = @ - 1]
                 ELSE [find EXCEPT !.step = "done", !.result = r, !.level = 0]
      /\ UNCHANGED <<next, heights, ins>>

SkipNext ==
  \/ \E k \in SkipKeys, h \in 1..MaxHeight : InsertNode(k, h)
  \/ SetLink
  \/ Publish
  \/ \E k \in SkipKeys : StartFind("ge", k) \/ StartFind("lt", k)
  \/ StartFind("last", Nil)
  \/ IteratorNext
  \/ FindStep

SkipSpec == SkipInit /\ [][SkipNext]_skipVars

(* A search that ran beside an insertion misses no key that was in the     *)
(* list when it began, and finds the nearest one: skiplist.h, where only   *)
(* "writes require external synchronization".                              *)
FindMissesNothing ==
  find.step = "done" =>
    CASE find.kind = "ge"   -> find.result >= find.key
                                 /\ \A b \in find.base : b >= find.key => find.result <= b
      [] find.kind = "next" -> find.result > find.key
                                 /\ \A b \in find.base : b > find.key => find.result <= b
      [] find.kind = "lt"   -> find.result < find.key
                                 /\ \A b \in find.base : b < find.key => find.result >= b
      [] OTHER              -> \A b \in find.base : find.result >= b

(* At every step of an insertion the links of every level ascend, and a    *)
(* node linked on a level is linked on the levels below.                   *)
LevelsNest ==
  /\ \A n \in SkipKeys \cup {SkipHead}, l \in 1..MaxHeight : next[n][l] > n
  /\ \A l \in 2..MaxHeight : Linked(l) \subseteq Linked(l - 1)
=============================================================================
