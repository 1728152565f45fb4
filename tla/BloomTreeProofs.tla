-------------------------- MODULE BloomTreeProofs ---------------------------
(***************************************************************************)
(* The tree of Bloom filters, for every number of leaves, every ratio,     *)
(* every set of threads and every assignment of hash positions.            *)
(***************************************************************************)
EXTENDS BloomTree, SequenceTheorems, TLAPS

\* What is on the heap: children are older than their parent, a leaf has no
\* children, and below is the union over the children.
HeapOK ==
  /\ Len(below) = Len(nodes)
  /\ \A n \in NodeIds :
       /\ \A j \in 1..Len(nodes[n].children) : nodes[n].children[j] \in 1..n-1
       /\ IsLeaf(n) => below[n] = {n}
       /\ ~IsLeaf(n) =>
            \A l \in NodeIds : l \in below[n] <=>
              \E j \in 1..Len(nodes[n].children) : l \in below[nodes[n].children[j]]
       /\ below[n] \subseteq NodeIds

\* NodeIsOrOfLeaves, bit by bit.
OrOK ==
  \A n \in NodeIds : \A p \in Bit :
    p \in nodes[n].blValue <=> \E l \in below[n] : p \in nodes[l].blValue

LeavesOK == \A l \in LeafIds : l \in NodeIds /\ IsLeaf(l)

\* The level that createLevel works on covers all leaves, and the nodes built
\* so far cover its first Len(levelNodes) * Ratio nodes.
LevelOK ==
  phase = "level" =>
    /\ \A j \in 1..Len(level) : level[j] \in NodeIds
    /\ \A k \in 1..Len(levelNodes) : levelNodes[k] \in NodeIds
    /\ Len(levelNodes) <= LevelSize(Len(level))
    /\ \A l \in LeafIds : \E j \in 1..Len(level) : l \in below[level[j]]
    /\ \A j \in 1..Len(level) : j <= Len(levelNodes) * Ratio =>
         \E k \in 1..Len(levelNodes) : below[level[j]] \subseteq below[levelNodes[k]]

RootOK == phase = "built" => root \in NodeIds /\ LeafIds \subseteq below[root]

\* Every leaf that has the value is already reported or is still under a node
\* on the stack.
SearchOK ==
  \A r \in Reader :
    /\ search[r] # "idle" => phase = "built"
    /\ search[r] = "done" => stack[r] = <<>>
    /\ \A j \in 1..Len(stack[r]) : stack[r][j] \in NodeIds
    /\ search[r] # "idle" =>
         \A l \in LeafIds : Exists(nodes[l].blValue, value[r]) =>
           \/ \E pos \in 1..Len(names[r]) : names[r][pos] = nodes[l].filename
           \/ \E j \in 1..Len(stack[r]) : l \in below[stack[r][j]]

IInv == /\ TypeOK /\ HeapOK /\ OrOK /\ LeavesOK
        /\ LevelOK /\ RootOK /\ SearchOK

-----------------------------------------------------------------------------
(* Arithmetic of createLevel and addchildren.                              *)

\* The loop of createLevel makes enough nodes for the level below; with a ratio
\* of at least 3 it makes fewer than that level has, unless it makes one, and
\* with a ratio of at most 2 it never comes down to one.
LEMMA LevelSizeFacts ==
  ASSUME NEW s \in Nat
  PROVE  /\ LevelSize(s) \in Nat /\ LevelSize(s) >= 1
         /\ s <= LevelSize(s) * Ratio
         /\ Ratio >= 3 /\ LevelSize(s) > 1 => LevelSize(s) < s
         /\ Ratio <= 2 /\ s >= Ratio => LevelSize(s) > 1 /\ LevelSize(s) >= Ratio
<1> DEFINE q == s \div Ratio
<1>1. q \in Nat /\ Ratio * q <= s /\ s < Ratio * q + Ratio
  BY TreeAssumption
<1>2. LevelSize(s) = q + 1
  BY Zenon DEF LevelSize
<1> HIDE DEF q
<1>3. s <= (q + 1) * Ratio
  BY <1>1, TreeAssumption
<1>4. ASSUME Ratio >= 3, q + 1 > 1 PROVE q + 1 < s
  <2>1. 3 * q <= Ratio * q
    BY <1>1, <1>4, TreeAssumption
  <2> QED BY <2>1, <1>1, <1>4, TreeAssumption
<1>5. ASSUME Ratio <= 2, s >= Ratio PROVE q >= 1 /\ q + 1 >= Ratio
  <2>1. CASE Ratio = 1 BY <2>1, <1>1, <1>5
  <2>2. CASE Ratio = 2 BY <2>2, <1>1, <1>5
  <2> QED BY <2>1, <2>2, <1>5, TreeAssumption
<1> QED BY <1>1, <1>2, <1>3, <1>4, <1>5, TreeAssumption

\* addchildren takes the next nodes of the level, in order, and stops at its end.
LEMMA AddChildrenFacts ==
  ASSUME NEW lv \in Seq(Nat), NEW pos \in Nat
  PROVE  /\ AddChildren(pos, lv) \in Seq(Nat)
         /\ \A j \in 1..Len(AddChildren(pos, lv)) :
              pos + j \in 1..Len(lv) /\ AddChildren(pos, lv)[j] = lv[pos + j]
         /\ \A k \in 1..Len(lv) : k > pos /\ k <= pos + Ratio =>
              \E j \in 1..Len(AddChildren(pos, lv)) : AddChildren(pos, lv)[j] = lv[k]
<1> DEFINE n == SmallerOf(pos + Ratio, Len(lv))
           c == SubSeq(lv, pos + 1, n)
<1>1. n \in Nat /\ n <= Len(lv) /\ n <= pos + Ratio /\ (n = pos + Ratio \/ n = Len(lv))
  BY TreeAssumption DEF SmallerOf
<1> HIDE DEF n
<1>2. c = [j \in 1..(n - pos) |-> lv[pos + j]] /\ c \in Seq(Nat)
      /\ Len(c) = IF n >= pos THEN n - pos ELSE 0
  BY <1>1
<1>3. AddChildren(pos, lv) = c
  BY Zenon DEF AddChildren, n
<1> HIDE DEF c
<1>4. \A j \in 1..Len(c) : pos + j \in 1..Len(lv) /\ c[j] = lv[pos + j]
  <2> SUFFICES ASSUME NEW j \in 1..Len(c)
               PROVE  pos + j \in 1..Len(lv) /\ c[j] = lv[pos + j]
    BY Zenon
  <2>0. Len(lv) \in Nat /\ Len(c) = (IF n >= pos THEN n - pos ELSE 0)
    BY Zenon, <1>2, LenProperties
  <2>1. j \in 1..(n - pos) /\ pos + j \in 1..Len(lv)
    <3> HIDE DEF c
    <3>1. CASE n >= pos BY <3>1, <2>0, <1>1
    <3>2. CASE ~(n >= pos) BY <3>2, <2>0, <1>1
    <3> QED BY Zenon, <3>1, <3>2
  <2>2. c[j] = lv[pos + j] BY Zenon, <1>2, <2>1
  <2> QED BY Zenon, <2>1, <2>2
<1>5. ASSUME NEW k \in 1..Len(lv), k > pos, k <= pos + Ratio
      PROVE  \E j \in 1..Len(c) : c[j] = lv[k]
  <2>1. k - pos \in 1..Len(c) BY <1>1, <1>2, <1>5
  <2>2. c[k - pos] = lv[k] BY SMTT(30), <2>1, <1>4
  <2> QED BY Zenon, <2>1, <2>2
<1> QED BY Zenon, <1>2, <1>3, <1>4, <1>5

-----------------------------------------------------------------------------
(* What a new node does to the heap.                                       *)

\* A new node changes no node that was there before.
LEMMA HeapGrows ==
  ASSUME TypeOK, HeapOK, NEW x \in Node, NEW b \in SUBSET Nat,
         nodes' = Append(nodes, x), below' = Append(below, b)
  PROVE  /\ nodes' \in Seq(Node) /\ below' \in Seq(SUBSET Nat)
         /\ Len(nodes) \in Nat
         /\ Len(nodes') = Len(nodes) + 1 /\ Len(below') = Len(nodes) + 1
         /\ \A n \in NodeIds : nodes'[n] = nodes[n] /\ below'[n] = below[n]
         /\ nodes'[Len(nodes) + 1] = x /\ below'[Len(nodes) + 1] = b
         /\ \A n \in NodeIds : n \in NodeIds' /\ (IsLeaf(n)' <=> IsLeaf(n))
<1>1. nodes \in Seq(Node) /\ below \in Seq(SUBSET Nat) /\ Len(below) = Len(nodes)
  BY Zenon DEF TypeOK, HeapOK
<1>2. Len(nodes) \in Nat
  BY Zenon, <1>1, LenProperties
<1>3. /\ nodes' \in Seq(Node) /\ Len(nodes') = Len(nodes) + 1
      /\ \A n \in 1..Len(nodes) : nodes'[n] = nodes[n]
      /\ nodes'[Len(nodes) + 1] = x
  BY <1>1, AppendProperties
<1>4. /\ below' \in Seq(SUBSET Nat) /\ Len(below') = Len(nodes) + 1
      /\ \A n \in 1..Len(nodes) : below'[n] = below[n]
      /\ below'[Len(nodes) + 1] = b
  BY SMTT(40), <1>1, AppendProperties
<1> QED BY <1>2, <1>3, <1>4 DEF NodeIds, IsLeaf

\* A node whose children are on the heap and whose filter is the OR of theirs
\* keeps the heap in order.
LEMMA NewNodeKeepsHeap ==
  ASSUME TypeOK, HeapOK, OrOK, NEW x \in Node, NEW b \in SUBSET Nat,
         nodes' = Append(nodes, x), below' = Append(below, b),
         \A j \in 1..Len(x.children) : x.children[j] \in NodeIds,
         x.filename # Memory => b = {Len(nodes) + 1},
         x.filename = Memory =>
           /\ b = UNION {below[x.children[j]] : j \in 1..Len(x.children)}
           /\ x.blValue = UNION {nodes[x.children[j]].blValue :
                                   j \in 1..Len(x.children)}
  PROVE  HeapOK' /\ OrOK'
<1> DEFINE new == Len(nodes) + 1
<1>1. /\ Len(nodes) \in Nat /\ Len(nodes') = new /\ Len(below') = new
      /\ \A n \in NodeIds : nodes'[n] = nodes[n] /\ below'[n] = below[n]
      /\ nodes'[new] = x /\ below'[new] = b
      /\ NodeIds' = NodeIds \cup {new}
      /\ new \notin NodeIds
  BY HeapGrows DEF NodeIds
<1>2. \A n \in NodeIds : below[n] \subseteq NodeIds
  BY Zenon DEF HeapOK
<1>3. b \subseteq NodeIds'
  <2>1. CASE x.filename # Memory BY Zenon, <2>1, <1>1
  <2>2. CASE x.filename = Memory BY <2>2, <1>1, <1>2
  <2> QED BY Zenon, <2>1, <2>2
<1>4. ASSUME NEW n \in NodeIds'
      PROVE  /\ \A j \in 1..Len(nodes'[n].children) : nodes'[n].children[j] \in 1..n-1
             /\ IsLeaf(n)' => below'[n] = {n}
             /\ ~IsLeaf(n)' =>
                  \A l \in NodeIds' : l \in below'[n] <=>
                    \E j \in 1..Len(nodes'[n].children) :
                      l \in below'[nodes'[n].children[j]]
             /\ below'[n] \subseteq NodeIds'
             /\ \A p \in Bit : p \in nodes'[n].blValue <=>
                                \E l \in below'[n] : p \in nodes'[l].blValue
  <2>1. CASE n \in NodeIds
    <3>1. /\ \A j \in 1..Len(nodes[n].children) : nodes[n].children[j] \in 1..n-1
          /\ IsLeaf(n) => below[n] = {n}
          /\ ~IsLeaf(n) =>
               \A l \in NodeIds : l \in below[n] <=>
                 \E j \in 1..Len(nodes[n].children) :
                   l \in below[nodes[n].children[j]]
          /\ below[n] \subseteq NodeIds
      BY Zenon, <2>1 DEF HeapOK
    <3>2. nodes'[n] = nodes[n] /\ below'[n] = below[n]
      BY Zenon, <2>1, <1>1
    <3>3. \A j \in 1..Len(nodes[n].children) : nodes[n].children[j] \in NodeIds
      BY <3>1, <2>1, <1>1 DEF NodeIds
    <3>4. \A j \in 1..Len(nodes[n].children) :
             below'[nodes[n].children[j]] = below[nodes[n].children[j]]
      BY Zenon, <3>3, <1>1
    <3>5. ~IsLeaf(n) =>
            \A l \in NodeIds' : l \in below[n] <=>
              \E j \in 1..Len(nodes[n].children) : l \in below'[nodes[n].children[j]]
      BY Zenon, <3>1, <3>3, <3>4, <1>1, <1>2
    <3>6. \A p \in Bit : p \in nodes[n].blValue <=>
                         \E l \in below[n] : p \in nodes'[l].blValue
      BY Zenon, <3>1, <2>1, <1>1 DEF OrOK
    <3> QED BY ZenonT(40), <3>1, <3>2, <3>5, <3>6, <1>1 DEF IsLeaf
  <2>2. CASE n = new
    <3>1. nodes'[n] = x /\ below'[n] = b
      BY Zenon, <2>2, <1>1
    <3>2. \A j \in 1..Len(x.children) : x.children[j] \in 1..n-1
      BY <2>2, <1>1 DEF NodeIds
    <3>3. CASE x.filename # Memory
      <4>1. b = {n} BY Zenon, <3>3, <2>2
      <4> QED BY Zenon, <3>1, <3>2, <3>3, <4>1, <1>3 DEF IsLeaf
    <3>4. CASE x.filename = Memory
      <4>0. ASSUME NEW j \in 1..Len(x.children)
            PROVE  /\ x.children[j] \in NodeIds
                   /\ below'[x.children[j]] = below[x.children[j]]
                   /\ \A l \in below[x.children[j]] : nodes'[l] = nodes[l]
        BY Zenon, <1>1, <1>2
      <4>1. \A l : l \in b <=>
              \E j \in 1..Len(x.children) : l \in below'[x.children[j]]
        <5>1. \A l : l \in b <=>
                \E j \in 1..Len(x.children) : l \in below[x.children[j]]
          BY <3>4
        <5> QED BY Zenon, <5>1, <4>0
      <4>2. ASSUME NEW p \in Bit
            PROVE  p \in x.blValue <=> \E l \in b : p \in nodes'[l].blValue
        <5>1. p \in x.blValue <=> \E j \in 1..Len(x.children) :
                                     p \in nodes[x.children[j]].blValue
          BY ZenonT(40), <3>4
        <5>2. ASSUME NEW j \in 1..Len(x.children)
              PROVE  p \in nodes[x.children[j]].blValue <=>
                       \E l \in below'[x.children[j]] : p \in nodes'[l].blValue
          <6>1. p \in nodes[x.children[j]].blValue <=>
                  \E l \in below[x.children[j]] : p \in nodes[l].blValue
            BY Zenon, <4>0 DEF OrOK
          <6> QED BY ZenonT(40), <6>1, <4>0
        <5>3. ASSUME NEW l \in b, p \in nodes'[l].blValue PROVE p \in x.blValue
          <6>1. PICK j \in 1..Len(x.children) : l \in below'[x.children[j]]
            BY Zenon, <4>1
          <6> QED BY Zenon, <6>1, <5>1, <5>2, <5>3
        <5>4. ASSUME p \in x.blValue PROVE \E l \in b : p \in nodes'[l].blValue
          <6>1. PICK j \in 1..Len(x.children) : p \in nodes[x.children[j]].blValue
            BY Zenon, <5>1, <5>4
          <6>2. PICK l \in below'[x.children[j]] : p \in nodes'[l].blValue
            BY Zenon, <6>1, <5>2
          <6> QED BY Zenon, <6>2, <4>1
        <5> QED BY Zenon, <5>3, <5>4
      <4> QED BY Zenon, <3>1, <3>2, <3>4, <4>1, <4>2, <1>3 DEF IsLeaf
    <3> QED BY Zenon, <3>3, <3>4
  <2> QED BY Zenon, <2>1, <2>2, <1>1
<1> QED BY ZenonT(40), <1>1, <1>4 DEF HeapOK, OrOK

-----------------------------------------------------------------------------
(* Every action keeps the invariant.                                       *)

\* The initial state has no nodes and no searches.
LEMMA InitInv == Init => IInv
<1> SUFFICES ASSUME Init PROVE IInv
  OBVIOUS
<1> USE DEF Init
<1>1. TypeOK
  BY TreeAssumption DEF TypeOK
<1>2. HeapOK /\ OrOK /\ LeavesOK
  BY DEF HeapOK, OrOK, LeavesOK, NodeIds, LeafIds
<1>3. LevelOK /\ RootOK /\ SearchOK
  BY DEF LevelOK, RootOK, SearchOK
<1> QED BY Zenon, <1>1, <1>2, <1>3 DEF IInv

\* A new leaf is the only leaf below itself.
LEMMA CreateLeafLevelInv ==
  ASSUME IInv, NEW bv \in Filter, NEW f \in File, CreateLeafLevel(bv, f)
  PROVE  IInv'
<1> DEFINE x == LeafNode(bv, f)
           b == {Len(nodes) + 1}
<1>0. TypeOK /\ HeapOK /\ OrOK /\ LeavesOK /\ LevelOK /\ RootOK /\ SearchOK
  BY Zenon DEF IInv
<1>1. /\ x \in Node /\ x.filename = f /\ x.filename # Memory /\ x.children = <<>>
      /\ b \in SUBSET Nat
  BY <1>0, LenProperties, TreeAssumption DEF LeafNode, Node, TypeOK
<1>2. /\ phase = "leaves" /\ nodes' = Append(nodes, x) /\ below' = Append(below, b)
      /\ leafNodes' = Append(leafNodes, Len(nodes) + 1)
      /\ UNCHANGED <<level, levelNodes, root, phase, search, value, stack, names,
                    foundInHierarchy, asked>>
  BY Zenon DEF CreateLeafLevel, searchVars
<1> HIDE DEF x
<1>3. /\ nodes' \in Seq(Node) /\ below' \in Seq(SUBSET Nat)
      /\ Len(nodes) \in Nat /\ Len(nodes') = Len(nodes) + 1
      /\ nodes'[Len(nodes) + 1] = x
      /\ \A n \in NodeIds : n \in NodeIds' /\ (IsLeaf(n)' <=> IsLeaf(n))
  BY Zenon, <1>0, <1>1, <1>2, HeapGrows
<1>4. HeapOK' /\ OrOK'
  <2>1. \A j \in 1..Len(x.children) : x.children[j] \in NodeIds
    BY <1>1
  <2> QED BY Zenon, <1>0, <1>1, <1>2, <2>1, NewNodeKeepsHeap
<1>5. TypeOK'
  BY <1>0, <1>2, <1>3 DEF TypeOK
<1>6. LeavesOK'
  <2> SUFFICES ASSUME NEW l \in LeafIds' PROVE l \in NodeIds' /\ IsLeaf(l)'
    BY Zenon DEF LeavesOK
  <2>1. leafNodes \in Seq(Nat)
    BY Zenon, <1>0 DEF TypeOK
  <2>2. LeafIds' = LeafIds \cup {Len(nodes) + 1}
    BY SMTT(40), <2>1, <1>2, <1>3, AppendProperties DEF LeafIds
  <2>3. CASE l \in LeafIds
    BY Zenon, <2>3, <1>0, <1>3 DEF LeavesOK
  <2>4. CASE l = Len(nodes) + 1
    BY <2>4, <1>1, <1>3 DEF NodeIds, IsLeaf
  <2> QED BY Zenon, <2>2, <2>3, <2>4
<1>7. LevelOK' /\ RootOK'
  BY Zenon, <1>2 DEF LevelOK, RootOK
<1>8. SearchOK'
  BY Zenon, <1>0, <1>2, <1>3 DEF SearchOK
<1> QED BY Zenon, <1>4, <1>5, <1>6, <1>7, <1>8 DEF IInv

\* createTree starts with the leaves, which cover themselves.
LEMMA CreateTreeInv ==
  ASSUME IInv, CreateTree
  PROVE  IInv'
<1> USE DEF IInv, CreateTree, searchVars
<1>1. TypeOK' /\ HeapOK' /\ OrOK' /\ LeavesOK'
  <2>1. TypeOK' BY DEF TypeOK
  <2>2. HeapOK' BY Zenon DEF HeapOK, NodeIds, IsLeaf
  <2>3. OrOK' /\ LeavesOK' BY Zenon DEF OrOK, LeavesOK, NodeIds, IsLeaf, LeafIds
  <2> QED BY Zenon, <2>1, <2>2, <2>3
<1>2. LevelOK'
  <2>1. Len(level') \in Nat /\ Len(levelNodes') = 0 /\ Ratio \in Nat
    BY TreeAssumption DEF TypeOK
  <2>2. \A j \in 1..Len(level') : level'[j] \in NodeIds' /\ level'[j] \in below'[level'[j]]
    <3>1. \A l \in LeafIds : l \in NodeIds /\ l \in below[l]
      BY DEF LeavesOK, HeapOK
    <3>2. \A j \in 1..Len(leafNodes) : leafNodes[j] \in LeafIds
      BY Zenon DEF LeafIds
    <3>3. level' = leafNodes /\ below' = below /\ NodeIds' = NodeIds
      BY Zenon DEF NodeIds
    <3> QED BY ONLY <3>1, <3>2, <3>3
  <2>3. \A l \in LeafIds' : \E j \in 1..Len(level') : l \in below'[level'[j]]
    BY Zenon, <2>2 DEF LeafIds
  <2>4. Len(levelNodes') <= LevelSize(Len(level'))
    BY <2>1, LevelSizeFacts
  <2> QED BY <2>1, <2>2, <2>3, <2>4 DEF LevelOK
<1>3. RootOK' /\ SearchOK'
  BY Zenon DEF RootOK, SearchOK, NodeIds, LeafIds
<1> QED BY Zenon, <1>1, <1>2, <1>3

\* A new inner node covers the next Ratio nodes of the level below.
LEMMA NewLevelNodeInv ==
  ASSUME IInv, NewLevelNode
  PROVE  IInv'
<1> DEFINE k == Len(levelNodes)
           c == AddChildren(k * Ratio, level)
           x == [children |-> c, blValue |-> OrOfChildren(c), filename |-> Memory]
           b == UNION {below[c[j]] : j \in 1..Len(c)}
           new == Len(nodes) + 1
<1>0. TypeOK /\ HeapOK /\ OrOK /\ LeavesOK /\ LevelOK /\ RootOK /\ SearchOK
  BY Zenon DEF IInv
<1>1. /\ phase = "level" /\ k < LevelSize(Len(level))
      /\ nodes' = Append(nodes, x) /\ below' = Append(below, b)
      /\ levelNodes' = Append(levelNodes, new)
      /\ UNCHANGED <<leafNodes, level, root, phase, search, value, stack, names,
                    foundInHierarchy, asked>>
  BY Zenon DEF NewLevelNode, searchVars
<1>2. /\ k \in Nat /\ Len(level) \in Nat /\ level \in Seq(Nat)
      /\ Ratio \in Nat /\ k * Ratio \in Nat /\ (k + 1) * Ratio = k * Ratio + Ratio
      /\ LevelSize(Len(level)) \in Nat
  <2>1. k \in Nat /\ Len(level) \in Nat /\ level \in Seq(Nat) /\ Ratio \in Nat
    BY Zenon, <1>0, LenProperties, TreeAssumption DEF TypeOK
  <2> HIDE DEF k
  <2> QED BY <2>1, LevelSizeFacts
<1>3. /\ c \in Seq(Nat)
      /\ \A j \in 1..Len(c) : \E pos \in 1..Len(level) : c[j] = level[pos]
      /\ \A pos \in 1..Len(level) : pos > k * Ratio /\ pos <= k * Ratio + Ratio =>
           \E j \in 1..Len(c) : c[j] = level[pos]
  <2> HIDE DEF k
  <2> QED BY ZenonT(40), <1>2, AddChildrenFacts
<1>4. \A j \in 1..Len(level) : level[j] \in NodeIds
  BY Zenon, <1>0, <1>1 DEF LevelOK
<1>5. \A j \in 1..Len(c) : c[j] \in NodeIds
  BY Zenon, <1>3, <1>4
<1> HIDE DEF c
<1>6. x \in Node /\ x.filename = Memory /\ x.children = c /\ b \in SUBSET Nat
  <2>1. \A n \in NodeIds : nodes[n].blValue \in Filter /\ below[n] \in SUBSET Nat
    <3> SUFFICES ASSUME NEW n \in NodeIds
                 PROVE  nodes[n].blValue \in Filter /\ below[n] \in SUBSET Nat
      OBVIOUS
    <3>1. /\ nodes \in Seq(Node) /\ n \in 1..Len(nodes)
          /\ below \in Seq(SUBSET Nat) /\ n \in 1..Len(below)
      BY Zenon, <1>0 DEF TypeOK, HeapOK, NodeIds
    <3>2. nodes[n] \in Node /\ below[n] \in SUBSET Nat
      BY Zenon, <3>1, ElementOfSeq
    <3> QED BY Zenon, <3>2 DEF Node
  <2>2. OrOfChildren(c) \in Filter /\ b \in SUBSET Nat
    BY Zenon, <2>1, <1>5 DEF OrOfChildren, Filter
  <2> QED BY Zenon, <2>2, <1>3 DEF Node
<1>7. x.blValue = UNION {nodes[c[j]].blValue : j \in 1..Len(c)}
  BY Zenon DEF OrOfChildren
<1> HIDE DEF x
<1>8. HeapOK' /\ OrOK'
  <2> HIDE DEF b
  <2>1. b = UNION {below[x.children[j]] : j \in 1..Len(x.children)}
    BY Zenon, <1>6 DEF b
  <2>2. x.blValue = UNION {nodes[x.children[j]].blValue : j \in 1..Len(x.children)}
    BY Zenon, <1>6, <1>7
  <2>3. \A j \in 1..Len(x.children) : x.children[j] \in NodeIds
    BY Zenon, <1>5, <1>6
  <2> QED BY Zenon, <1>0, <1>1, <1>6, <2>1, <2>2, <2>3, NewNodeKeepsHeap
<1>9. /\ nodes' \in Seq(Node) /\ below' \in Seq(SUBSET Nat)
      /\ Len(nodes) \in Nat /\ Len(nodes') = new
      /\ \A n \in NodeIds : nodes'[n] = nodes[n] /\ below'[n] = below[n]
      /\ below'[new] = b
      /\ \A n \in NodeIds : n \in NodeIds' /\ (IsLeaf(n)' <=> IsLeaf(n))
  <2> HIDE DEF b
  <2> QED BY Zenon, <1>0, <1>1, <1>6, HeapGrows
<1>10. new \in NodeIds' /\ new \in Nat
  BY <1>9 DEF NodeIds
<1>11. TypeOK'
  BY SMTT(40), <1>0, <1>1, <1>9, <1>10 DEF TypeOK
<1>12. LeavesOK'
  BY Zenon, <1>0, <1>1, <1>9 DEF LeavesOK, LeafIds
<1>13. LevelOK'
  <2>1. /\ Len(levelNodes') = k + 1 /\ levelNodes'[k + 1] = new
        /\ \A pos \in 1..k : levelNodes'[pos] = levelNodes[pos]
    BY <1>0, <1>1, <1>10, AppendProperties DEF TypeOK
  <2>2. /\ \A pos \in 1..k : levelNodes[pos] \in NodeIds
        /\ \A j \in 1..Len(level) : j <= k * Ratio =>
             \E pos \in 1..k : below[level[j]] \subseteq below[levelNodes[pos]]
        /\ \A l \in LeafIds : \E j \in 1..Len(level) : l \in below[level[j]]
    BY Zenon, <1>0, <1>1 DEF LevelOK
  <2> HIDE DEF k, b, new
  <2>3. \A pos \in 1..k + 1 : levelNodes'[pos] \in NodeIds'
    <3> SUFFICES ASSUME NEW pos \in 1..k + 1 PROVE levelNodes'[pos] \in NodeIds'
      OBVIOUS
    <3>1. CASE pos \in 1..k BY Zenon, <3>1, <2>1, <2>2, <1>9
    <3>2. CASE pos = k + 1 BY Zenon, <3>2, <2>1, <1>10
    <3> QED BY <3>1, <3>2, <1>2
  <2>4. \A j \in 1..Len(level) : level[j] \in NodeIds' /\ below'[level[j]] = below[level[j]]
    BY Zenon, <1>4, <1>9
  <2>5. ASSUME NEW j \in 1..Len(level), j <= (k + 1) * Ratio
        PROVE  \E pos \in 1..k + 1 : below'[level[j]] \subseteq below'[levelNodes'[pos]]
    <3>1. CASE j <= k * Ratio
      <4>1. PICK pos \in 1..k : below[level[j]] \subseteq below[levelNodes[pos]]
        BY Zenon, <2>2, <3>1
      <4>2. below'[levelNodes'[pos]] = below[levelNodes[pos]] /\ pos \in 1..k + 1
        BY SMTT(40), <2>1, <2>2, <1>9, <1>2
      <4> QED BY Zenon, <4>1, <4>2, <2>4
    <3>2. CASE ~(j <= k * Ratio)
      <4>1. j > k * Ratio /\ j <= k * Ratio + Ratio
        BY <3>2, <2>5, <1>2
      <4>2. PICK pos \in 1..Len(c) : c[pos] = level[j]
        BY Zenon, <4>1, <1>3
      <4>3. below[level[j]] \subseteq b
        BY Zenon, <4>2 DEF b
      <4>4. below'[level[j]] \subseteq below'[levelNodes'[k + 1]]
        BY Zenon, <4>3, <2>1, <2>4, <1>9
      <4> QED BY SMTT(40), <4>4, <1>2
    <3> QED BY Zenon, <3>1, <3>2
  <2>6. \A l \in LeafIds' : \E j \in 1..Len(level) : l \in below'[level[j]]
    BY ZenonT(40), <2>2, <2>4, <1>1 DEF LeafIds
  <2>7. k + 1 <= LevelSize(Len(level))
    BY <1>1, <1>2
  <2>8. LevelSize(Len(level))' = LevelSize(Len(level))
    BY Zenon, <1>1
  <2> QED BY Zenon, <2>1, <2>3, <2>4, <2>5, <2>6, <2>7, <2>8, <1>1 DEF LevelOK
<1>14. RootOK'
  BY Zenon, <1>1 DEF RootOK
<1>15. SearchOK'
  BY Zenon, <1>0, <1>1, <1>9 DEF SearchOK
<1> QED BY Zenon, <1>8, <1>11, <1>12, <1>13, <1>14, <1>15 DEF IInv

\* A finished level covers all leaves, and so does a root.
LEMMA EndLevelInv ==
  ASSUME IInv, EndLevel
  PROVE  IInv'
<1> DEFINE k == Len(levelNodes)
<1>0. TypeOK /\ HeapOK /\ OrOK /\ LeavesOK /\ LevelOK /\ RootOK /\ SearchOK
  BY DEF IInv
<1>1. /\ phase = "level" /\ k = LevelSize(Len(level))
      /\ UNCHANGED <<nodes, below, leafNodes, search, value, stack, names,
                    foundInHierarchy, asked>>
  BY Zenon DEF EndLevel, searchVars
<1>2. k \in Nat /\ k >= 1 /\ Len(level) \in Nat /\ Len(level) <= k * Ratio
  <2>1. Len(level) \in Nat
    BY Zenon, <1>0, LenProperties DEF TypeOK
  <2> QED BY Zenon, <2>1, <1>1, LevelSizeFacts
<1>3. \A l \in LeafIds : \E pos \in 1..k : l \in below[levelNodes[pos]]
  <2> SUFFICES ASSUME NEW l \in LeafIds PROVE \E pos \in 1..k : l \in below[levelNodes[pos]]
    OBVIOUS
  <2>1. PICK j \in 1..Len(level) : l \in below[level[j]]
    BY Zenon, <1>0, <1>1 DEF LevelOK
  <2>2. j <= k * Ratio
    BY <1>2, TreeAssumption
  <2> QED BY Zenon, <2>1, <2>2, <1>0, <1>1 DEF LevelOK
<1>4. \A pos \in 1..k : levelNodes[pos] \in NodeIds
  BY Zenon, <1>0, <1>1 DEF LevelOK
<1>5. HeapOK' /\ OrOK' /\ LeavesOK'
  <2>1. HeapOK' BY Zenon, <1>0, <1>1 DEF HeapOK, NodeIds, IsLeaf
  <2>2. OrOK' /\ LeavesOK' BY <1>0, <1>1 DEF OrOK, LeavesOK, NodeIds, IsLeaf, LeafIds
  <2> QED BY Zenon, <2>1, <2>2
<1>6. CASE k > 1
  <2>1. level' = levelNodes /\ levelNodes' = <<>> /\ UNCHANGED <<root, phase>>
    BY Zenon, <1>6 DEF EndLevel
  <2>2. TypeOK'
    BY <1>0, <1>1, <2>1 DEF TypeOK
  <2>3. LevelOK'
    <3>1. Len(levelNodes') = 0 /\ Len(level') = k /\ 0 <= LevelSize(k)
      BY <2>1, <1>2, LevelSizeFacts
    <3>2. ~(\E j \in 1..Len(level') : j <= 0 * Ratio)
      BY <3>1, <1>2, TreeAssumption
    <3>3. \A j \in 1..k : level'[j] \in NodeIds'
      BY Zenon, <2>1, <1>1, <1>4 DEF NodeIds
    <3>4. \A l \in LeafIds' : \E j \in 1..k : l \in below'[level'[j]]
      BY <2>1, <1>1, <1>3, Zenon DEF LeafIds
    <3>5. \A pos \in 1..Len(levelNodes') : levelNodes'[pos] \in NodeIds'
      BY <3>1
    <3>6. Len(levelNodes') <= LevelSize(Len(level'))
      BY Zenon, <3>1
    <3> HIDE DEF k
    <3> QED BY Zenon, <3>1, <3>2, <3>3, <3>4, <3>5, <3>6 DEF LevelOK
  <2>4. RootOK' /\ SearchOK'
    BY Zenon, <1>0, <1>1, <2>1 DEF RootOK, SearchOK, NodeIds, LeafIds
  <2> QED BY Zenon, <1>5, <2>2, <2>3, <2>4 DEF IInv
<1>7. CASE ~(k > 1)
  <2>1. root' = levelNodes[1] /\ phase' = "built" /\ UNCHANGED <<level, levelNodes>>
    BY Zenon, <1>7 DEF EndLevel
  <2>2. k = 1
    <3> HIDE DEF k
    <3> QED BY <1>7, <1>2
  <2>3. TypeOK'
    <3>1. levelNodes[1] \in Nat
      <4>1. levelNodes \in Seq(Nat) /\ 1 \in 1..Len(levelNodes)
        BY <1>0, <2>2 DEF TypeOK
      <4> QED BY Zenon, <4>1, ElementOfSeq
    <3> QED BY Zenon, <1>0, <1>1, <2>1, <3>1 DEF TypeOK
  <2>4. LevelOK'
    BY Zenon, <2>1 DEF LevelOK
  <2>5. RootOK'
    BY <2>1, <2>2, <1>1, <1>3, <1>4 DEF RootOK, NodeIds, LeafIds
  <2>6. SearchOK'
    BY Zenon, <1>0, <1>1, <2>1 DEF SearchOK, NodeIds, LeafIds
  <2> QED BY Zenon, <1>5, <2>3, <2>4, <2>5, <2>6 DEF IInv
<1> QED BY Zenon, <1>6, <1>7

\* A step that builds nothing keeps what is said of the tree.
LEMMA TreeUnchanged ==
  ASSUME IInv, UNCHANGED buildVars
  PROVE  HeapOK' /\ OrOK' /\ LeavesOK' /\ LevelOK' /\ RootOK'
<1> USE DEF IInv, buildVars
<1>1. HeapOK' BY SMTT(40) DEF HeapOK, NodeIds, IsLeaf
<1>2. OrOK' /\ LeavesOK' BY Zenon DEF OrOK, LeavesOK, NodeIds, IsLeaf, LeafIds
<1>3. LevelOK'
  <2>1. LevelSize(Len(level))' = LevelSize(Len(level))
    OBVIOUS
  <2> QED BY Zenon, <2>1 DEF LevelOK, NodeIds, LeafIds
<1>4. RootOK' BY Zenon DEF RootOK, NodeIds, LeafIds
<1> QED BY Zenon, <1>1, <1>2, <1>3, <1>4

\* A search starts at the root, which covers every leaf.
LEMMA StartInv ==
  ASSUME IInv, TypeOK', NEW r \in Reader, phase = "built", UNCHANGED buildVars,
         search'[r] = "running", stack'[r] = <<root>>,
         \A q \in Reader : q # r => /\ search'[q] = search[q] /\ value'[q] = value[q]
                                   /\ stack'[q] = stack[q] /\ names'[q] = names[q]
  PROVE  IInv'
<1>0. RootOK /\ SearchOK
  BY Zenon DEF IInv
<1>1. root \in NodeIds /\ LeafIds \subseteq below[root]
  BY Zenon, <1>0 DEF RootOK
<1>2. HeapOK' /\ OrOK' /\ LeavesOK' /\ LevelOK' /\ RootOK'
  BY Zenon, TreeUnchanged
<1>3. SearchOK'
  <2> SUFFICES ASSUME NEW q \in Reader
               PROVE  /\ search'[q] # "idle" => phase' = "built"
                      /\ search'[q] = "done" => stack'[q] = <<>>
                      /\ \A j \in 1..Len(stack'[q]) : stack'[q][j] \in NodeIds'
                      /\ search'[q] # "idle" =>
                           \A l \in LeafIds' : Exists(nodes'[l].blValue, value'[q]) =>
                             \/ \E pos \in 1..Len(names'[q]) : names'[q][pos] = nodes'[l].filename
                             \/ \E j \in 1..Len(stack'[q]) : l \in below'[stack'[q][j]]
    BY Zenon DEF SearchOK, Exists
  <2>1. /\ NodeIds' = NodeIds /\ LeafIds' = LeafIds
        /\ UNCHANGED <<nodes, below, phase>>
    BY Zenon DEF NodeIds, LeafIds, buildVars
  <2>2. CASE q = r
    <3>1. stack'[q] = <<root>> /\ search'[q] = "running"
      BY Zenon, <2>2
    <3>2. Len(stack'[q]) = 1 /\ stack'[q][1] = root /\ 1 \in 1..Len(stack'[q])
      BY SMTT(40), <3>1
    <3>3. \A j \in 1..Len(stack'[q]) : j = 1
      BY <3>2
    <3> QED BY Zenon, <3>1, <3>2, <3>3, <2>1, <1>1
  <2>3. CASE q # r
    <3>1. /\ search'[q] = search[q] /\ value'[q] = value[q] /\ stack'[q] = stack[q]
          /\ names'[q] = names[q]
      BY Zenon, <2>3
    <3> QED BY <3>1, <2>1, <1>0 DEF SearchOK
  <2> QED BY Zenon, <2>2, <2>3
<1> QED BY Zenon, <1>2, <1>3 DEF IInv

\* A visit reports a leaf, or replaces a matching inner node by its children,
\* which cover the same leaves, or drops a node whose leaves cannot have the
\* value because its filter is the OR of theirs.
LEMMA SearchVisitInv ==
  ASSUME IInv, NEW r \in Reader, Visit(r)
  PROVE  IInv'
<1> DEFINE n == Head(stack[r])
           v == value[r]
           d == Descend(n, v)
<1>0. TypeOK /\ HeapOK /\ OrOK /\ LeavesOK /\ RootOK /\ SearchOK
  BY Zenon DEF IInv
<1>1. /\ search[r] = "running" /\ stack[r] # <<>>
      /\ stack' = [stack EXCEPT ![r] = d \o Tail(stack[r])]
      /\ names' = [names EXCEPT ![r] =
                      IF IsLeaf(n) THEN Append(names[r], nodes[n].filename)
                                   ELSE names[r]]
      /\ foundInHierarchy' \in {foundInHierarchy, foundInHierarchy + 1}
      /\ UNCHANGED buildVars /\ UNCHANGED <<search, value, asked>>
  BY Zenon DEF Visit
<1>2. HeapOK' /\ OrOK' /\ LeavesOK' /\ LevelOK' /\ RootOK'
  BY Zenon, <1>1, TreeUnchanged
<1>3. /\ stack[r] \in Seq(Nat) /\ names[r] \in Seq(File)
      /\ Len(stack[r]) \in Nat /\ Len(stack[r]) >= 1
      /\ n = stack[r][1] /\ n \in NodeIds
      /\ Tail(stack[r]) \in Seq(Nat) /\ Len(Tail(stack[r])) = Len(stack[r]) - 1
      /\ \A j \in 1..Len(Tail(stack[r])) : Tail(stack[r])[j] = stack[r][j + 1]
  <2>1. stack[r] \in Seq(Nat) /\ names[r] \in Seq(File)
    BY Zenon, <1>0 DEF TypeOK
  <2>2. /\ Len(stack[r]) \in Nat /\ Len(stack[r]) >= 1
        /\ Tail(stack[r]) \in Seq(Nat) /\ Len(Tail(stack[r])) = Len(stack[r]) - 1
        /\ \A j \in 1..Len(Tail(stack[r])) : Tail(stack[r])[j] = stack[r][j + 1]
        /\ n = stack[r][1]
    BY <2>1, <1>1, EmptySeq, HeadTailProperties
  <2>3. 1 \in 1..Len(stack[r])
    BY <2>2
  <2> QED BY Zenon, <2>1, <2>2, <2>3, <1>0 DEF SearchOK
<1>4. /\ nodes[n] \in Node /\ nodes[n].children \in Seq(Nat)
      /\ nodes[n].filename \in File \cup {Memory}
  <2>1. nodes \in Seq(Node) /\ n \in 1..Len(nodes)
    BY Zenon, <1>0, <1>3 DEF TypeOK, NodeIds
  <2>2. nodes[n] \in Node
    BY Zenon, <2>1, ElementOfSeq
  <2> QED BY Zenon, <2>2 DEF Node
<1>5. d \in Seq(Nat) /\ \A j \in 1..Len(d) : d[j] \in NodeIds
  <2>1. \A j \in 1..Len(nodes[n].children) : nodes[n].children[j] \in NodeIds
    <3>1. \A j \in 1..Len(nodes[n].children) : nodes[n].children[j] \in 1..n-1
      BY Zenon, <1>0, <1>3 DEF HeapOK
    <3>2. n \in 1..Len(nodes) /\ Len(nodes) \in Nat
      BY Zenon, <1>0, <1>3, LenProperties DEF TypeOK, NodeIds
    <3> HIDE DEF n
    <3> QED BY SMTT(40), <3>1, <3>2 DEF NodeIds
  <2> QED BY <2>1, <1>4 DEF Descend
<1> HIDE DEF d, n
<1>6. /\ stack'[r] = d \o Tail(stack[r]) /\ stack'[r] \in Seq(Nat)
      /\ Len(stack'[r]) = Len(d) + Len(Tail(stack[r])) /\ Len(d) \in Nat
      /\ \A j \in 1..Len(d) : j \in 1..Len(stack'[r]) /\ stack'[r][j] = d[j]
      /\ \A j \in 1..Len(Tail(stack[r])) :
           /\ Len(d) + j \in 1..Len(stack'[r])
           /\ stack'[r][Len(d) + j] = stack[r][j + 1]
  <2>1. stack'[r] = d \o Tail(stack[r])
    BY Zenon, <1>0, <1>1 DEF TypeOK
  <2>2. Len(d) \in Nat /\ Len(Tail(stack[r])) \in Nat
    BY Zenon, <1>3, <1>5, LenProperties
  <2>3. /\ stack'[r] \in Seq(Nat) /\ Len(stack'[r]) = Len(d) + Len(Tail(stack[r]))
        /\ \A pos \in 1..Len(d) + Len(Tail(stack[r])) :
             stack'[r][pos] = IF pos <= Len(d) THEN d[pos] ELSE Tail(stack[r])[pos - Len(d)]
    BY <2>1, <1>3, <1>5, ConcatProperties
  <2>4. \A j \in 1..Len(d) : j \in 1..Len(stack'[r]) /\ stack'[r][j] = d[j]
    BY SMTT(40), <2>2, <2>3
  <2>5. ASSUME NEW j \in 1..Len(Tail(stack[r]))
        PROVE  /\ Len(d) + j \in 1..Len(stack'[r])
               /\ stack'[r][Len(d) + j] = stack[r][j + 1]
    <3>1. Len(d) + j \in 1..Len(stack'[r]) /\ ~(Len(d) + j <= Len(d))
          /\ (Len(d) + j) - Len(d) = j
      BY <2>2, <2>3
    <3>2. stack'[r][Len(d) + j] = Tail(stack[r])[j]
      BY Zenon, <3>1, <2>3
    <3> QED BY Zenon, <3>1, <3>2, <1>3
  <2> QED BY Zenon, <2>1, <2>2, <2>3, <2>4, <2>5
<1>7. ASSUME IsLeaf(n) PROVE nodes[n].filename \in File
  BY Zenon, <1>4, <1>7 DEF IsLeaf
<1>8. /\ names'[r] \in Seq(File)
      /\ \A pos \in 1..Len(names[r]) : pos \in 1..Len(names'[r]) /\ names'[r][pos] = names[r][pos]
      /\ IsLeaf(n) => \E pos \in 1..Len(names'[r]) : names'[r][pos] = nodes[n].filename
  <2>1. names[r] \in Seq(File) /\ Len(names[r]) \in Nat
    BY Zenon, <1>3, LenProperties
  <2>2. CASE IsLeaf(n)
    <3>1. names'[r] = Append(names[r], nodes[n].filename)
      BY Zenon, <2>2, <1>0, <1>1 DEF TypeOK
    <3>2. /\ names'[r] \in Seq(File) /\ Len(names'[r]) = Len(names[r]) + 1
          /\ \A pos \in 1..Len(names[r]) : names'[r][pos] = names[r][pos]
          /\ names'[r][Len(names[r]) + 1] = nodes[n].filename
      BY <3>1, <2>1, <2>2, <1>7, AppendProperties
    <3>3. Len(names[r]) + 1 \in 1..Len(names'[r])
      BY SMTT(40), <3>2, <2>1
    <3> QED BY <3>2, <3>3, <2>1
  <2>3. CASE ~IsLeaf(n)
    BY Zenon, <2>1, <2>3, <1>0, <1>1 DEF TypeOK
  <2> QED BY Zenon, <2>2, <2>3
<1>9. TypeOK'
  <2>1. stack' \in [Reader -> Seq(Nat)] /\ names' \in [Reader -> Seq(File)]
    BY Zenon, <1>0, <1>1, <1>6, <1>8 DEF TypeOK
  <2> QED BY SMTT(40), <2>1, <1>0, <1>1 DEF TypeOK, buildVars
<1>10. ASSUME NEW pos \in 1..Len(stack'[r]) PROVE stack'[r][pos] \in NodeIds
  <2>1. CASE pos <= Len(d)
    <3>1. pos \in 1..Len(d)
      BY SMTT(40), <2>1, <1>6
    <3> QED BY Zenon, <3>1, <1>5, <1>6
  <2>2. CASE ~(pos <= Len(d))
    <3>1. pos - Len(d) \in 1..Len(Tail(stack[r])) /\ Len(d) + (pos - Len(d)) = pos
          /\ (pos - Len(d)) + 1 \in 1..Len(stack[r])
      BY SMTT(40), <2>2, <1>3, <1>6
    <3>2. stack'[r][pos] = stack[r][(pos - Len(d)) + 1]
      BY Zenon, <3>1, <1>6
    <3> QED BY Zenon, <3>1, <3>2, <1>0 DEF SearchOK
  <2> QED BY Zenon, <2>1, <2>2
<1>11. ASSUME NEW l \in LeafIds, Exists(nodes[l].blValue, v)
       PROVE  \/ \E pos \in 1..Len(names'[r]) : names'[r][pos] = nodes[l].filename
              \/ \E j \in 1..Len(stack'[r]) : l \in below[stack'[r][j]]
  <2>1. \/ \E pos \in 1..Len(names[r]) : names[r][pos] = nodes[l].filename
        \/ \E j \in 1..Len(stack[r]) : l \in below[stack[r][j]]
    BY Zenon, <1>0, <1>1, <1>11 DEF SearchOK
  <2>2. CASE \E pos \in 1..Len(names[r]) : names[r][pos] = nodes[l].filename
    BY Zenon, <2>2, <1>8
  <2>3. ASSUME NEW j \in 1..Len(stack[r]), l \in below[stack[r][j]], j # 1
        PROVE  \E pos \in 1..Len(stack'[r]) : l \in below[stack'[r][pos]]
    <3>1. j - 1 \in 1..Len(Tail(stack[r])) /\ (j - 1) + 1 = j
      BY <2>3, <1>3
    <3>2. /\ Len(d) + (j - 1) \in 1..Len(stack'[r])
          /\ stack'[r][Len(d) + (j - 1)] = stack[r][j]
      BY Zenon, <3>1, <1>6
    <3> QED BY Zenon, <3>2, <2>3
  <2>4. CASE l \in below[n]
    <3>1. CASE IsLeaf(n)
      <4>1. below[n] = {n}
        BY Zenon, <3>1, <1>0, <1>3 DEF HeapOK
      <4> QED BY Zenon, <4>1, <3>1, <2>4, <1>8
    <3>2. CASE ~IsLeaf(n)
      <4>1. Exists(nodes[n].blValue, v)
        <5>1. v \in Value
          BY Zenon, <1>0 DEF TypeOK
        <5>2. \A pos \in 0..NumHashFunctions-1 : HashPos[v][pos] \in Bit
          BY Zenon, <5>1, HashAssumption
        <5> QED BY SMTT(30), <5>2, <2>4, <1>11, <1>3, <1>0 DEF Exists, OrOK
      <4>2. d = nodes[n].children
        BY <3>2, <4>1 DEF d, Descend
      <4>3. l \in NodeIds
        BY <1>0 DEF LeavesOK
      <4>4. PICK j \in 1..Len(d) : l \in below[d[j]]
        BY ZenonT(40), <4>2, <4>3, <3>2, <2>4, <1>3, <1>0 DEF HeapOK
      <4> QED BY Zenon, <4>4, <1>6
    <3> QED BY <3>1, <3>2
  <2> QED BY Zenon, <2>1, <2>2, <2>3, <2>4, <1>3
<1>12. SearchOK'
  <2> SUFFICES ASSUME NEW q \in Reader
               PROVE  /\ search'[q] # "idle" => phase' = "built"
                      /\ search'[q] = "done" => stack'[q] = <<>>
                      /\ \A j \in 1..Len(stack'[q]) : stack'[q][j] \in NodeIds'
                      /\ search'[q] # "idle" =>
                           \A l \in LeafIds' : Exists(nodes'[l].blValue, value'[q]) =>
                             \/ \E pos \in 1..Len(names'[q]) : names'[q][pos] = nodes'[l].filename
                             \/ \E j \in 1..Len(stack'[q]) : l \in below'[stack'[q][j]]
    BY Zenon DEF SearchOK, Exists
  <2>1. /\ NodeIds' = NodeIds /\ LeafIds' = LeafIds
        /\ UNCHANGED <<nodes, below, phase, search, value>>
    BY Zenon, <1>1 DEF NodeIds, LeafIds, buildVars
  <2>2. CASE q = r
    BY SMTT(40), <2>1, <2>2, <1>0, <1>1, <1>10, <1>11 DEF SearchOK
  <2>3. CASE q # r
    <3>1. stack'[q] = stack[q] /\ names'[q] = names[q]
      BY Zenon, <2>3, <1>0, <1>1 DEF TypeOK
    <3> QED BY <3>1, <2>1, <1>0 DEF SearchOK
  <2> QED BY <2>2, <2>3
<1> QED BY Zenon, <1>2, <1>9, <1>12 DEF IInv

\* A search that only returns keeps what it has collected.
LEMMA ReturnKeepsSearches ==
  ASSUME SearchOK, UNCHANGED buildVars, UNCHANGED <<value, stack, names>>,
         \A q \in Reader : search'[q] # search[q] =>
                           search[q] = "running" /\ stack[q] = <<>>
  PROVE  SearchOK'
<1> SUFFICES ASSUME NEW q \in Reader
             PROVE  /\ search'[q] # "idle" => phase' = "built"
                    /\ search'[q] = "done" => stack'[q] = <<>>
                    /\ \A j \in 1..Len(stack'[q]) : stack'[q][j] \in NodeIds'
                    /\ search'[q] # "idle" =>
                         \A l \in LeafIds' : Exists(nodes'[l].blValue, value'[q]) =>
                           \/ \E pos \in 1..Len(names'[q]) : names'[q][pos] = nodes'[l].filename
                           \/ \E j \in 1..Len(stack'[q]) : l \in below'[stack'[q][j]]
  BY Zenon DEF SearchOK, Exists
<1>1. NodeIds' = NodeIds /\ LeafIds' = LeafIds /\ UNCHANGED <<nodes, below, phase>>
  BY Zenon DEF NodeIds, LeafIds, buildVars
<1>2. CASE search'[q] = search[q]
  BY <1>1, <1>2 DEF SearchOK
<1>3. CASE search[q] = "running" /\ stack[q] = <<>>
  BY <1>1, <1>3 DEF SearchOK
<1> QED BY Zenon, <1>2, <1>3

\* Every step of the specification keeps the invariant.
LEMMA NextInv == IInv /\ [Next]_vars => IInv'
<1> SUFFICES ASSUME IInv, [Next]_vars PROVE IInv'
  OBVIOUS
<1>0. TypeOK
  BY Zenon DEF IInv
<1>1. ASSUME NEW bv \in Filter, NEW f \in File, CreateLeafLevel(bv, f) PROVE IInv'
  BY Zenon, <1>1, CreateLeafLevelInv
<1>2. CASE CreateTree
  BY Zenon, <1>2, CreateTreeInv
<1>3. CASE NewLevelNode
  BY SMTT(40), <1>3, NewLevelNodeInv
<1>4. CASE EndLevel
  BY <1>4, EndLevelInv
<1>5. ASSUME NEW thr \in Thread, NEW v \in Value, CheckExistanceThread(thr, v) PROVE IInv'
  <2>1. thr \in Reader
    BY Zenon DEF Reader
  <2>2. TypeOK'
    <3>1. <<root>> \in Seq(Nat) /\ <<>> \in Seq(File)
      BY <1>0 DEF TypeOK
    <3> QED BY Zenon, <3>1, <2>1, <1>0, <1>5 DEF TypeOK, CheckExistanceThread, buildVars
  <2>3. /\ phase = "built" /\ UNCHANGED buildVars
        /\ search'[thr] = "running" /\ stack'[thr] = <<root>>
        /\ \A q \in Reader : q # thr => /\ search'[q] = search[q] /\ value'[q] = value[q]
                                      /\ stack'[q] = stack[q] /\ names'[q] = names[q]
    BY Zenon, <2>1, <1>0, <1>5 DEF TypeOK, CheckExistanceThread
  <2> QED BY Zenon, <2>1, <2>2, <2>3, StartInv
<1>6. ASSUME NEW v \in Value, CheckExistance(v) PROVE IInv'
  <2>1. Main \in Reader
    BY Zenon DEF Reader
  <2>2. TypeOK'
    <3>1. <<root>> \in Seq(Nat) /\ asked' \in Seq(Value)
      BY <1>0, <1>6 DEF TypeOK, CheckExistance
    <3> QED BY Zenon, <3>1, <2>1, <1>0, <1>6 DEF TypeOK, CheckExistance, buildVars
  <2>3. /\ phase = "built" /\ UNCHANGED buildVars
        /\ search'[Main] = "running" /\ stack'[Main] = <<root>>
        /\ \A q \in Reader : q # Main => /\ search'[q] = search[q] /\ value'[q] = value[q]
                                         /\ stack'[q] = stack[q] /\ names'[q] = names[q]
    BY Zenon, <2>1, <1>0, <1>6 DEF TypeOK, CheckExistance
  <2> QED BY Zenon, <2>1, <2>2, <2>3, StartInv
<1>7. ASSUME NEW r \in Reader, Visit(r) PROVE IInv'
  BY Zenon, <1>7, SearchVisitInv
<1>8. ASSUME NEW r \in Reader, Return(r) PROVE IInv'
  <2>1. TypeOK'
    BY Zenon, <1>0, <1>8 DEF TypeOK, Return, buildVars
  <2>2. HeapOK' /\ OrOK' /\ LeavesOK' /\ LevelOK' /\ RootOK'
    BY Zenon, <1>8, TreeUnchanged DEF Return
  <2>3. SearchOK'
    <3>1. \A q \in Reader : search'[q] # search[q] =>
                           search[q] = "running" /\ stack[q] = <<>>
      BY Zenon, <1>0, <1>8 DEF TypeOK, Return
    <3> QED BY Zenon, <3>1, <1>8, ReturnKeepsSearches DEF IInv, Return
  <2> QED BY Zenon, <2>1, <2>2, <2>3 DEF IInv
<1>9. CASE UNCHANGED vars
  <2>1. TypeOK'
    BY Zenon, <1>0, <1>9 DEF TypeOK, vars, buildVars, searchVars
  <2>2. HeapOK' /\ OrOK' /\ LeavesOK' /\ LevelOK' /\ RootOK'
    BY Zenon, <1>9, TreeUnchanged DEF vars
  <2>3. SearchOK'
    BY Zenon, <1>9, ReturnKeepsSearches DEF IInv, vars, searchVars
  <2> QED BY Zenon, <2>1, <2>2, <2>3 DEF IInv
<1> QED BY Zenon, <1>1, <1>2, <1>3, <1>4, <1>5, <1>6, <1>7, <1>8, <1>9 DEF Next

\* IInv holds in every reachable state.
THEOREM BloomTreeInv == Spec => []IInv
<1> QED BY InitInv, NextInv, PTL DEF Spec

\* The variables keep their types.
THEOREM BloomTreeType == Spec => []TypeOK
<1>1. IInv => TypeOK
  BY Zenon DEF IInv
<1> QED BY <1>1, BloomTreeInv, PTL

\* No finished search misses a Bloom file whose own filter has the value: what
\* the hierarchy saves never costs an answer.
THEOREM NoFalseNegativeThm == Spec => []NoFalseNegative
<1>1. IInv => NoFalseNegative
  <2> SUFFICES ASSUME IInv, NEW r \in Reader, search[r] = "done",
                      NEW l \in LeafIds, Exists(nodes[l].blValue, value[r])
               PROVE  \E pos \in 1..Len(names[r]) : names[r][pos] = nodes[l].filename
    BY Zenon DEF NoFalseNegative
  <2>1. stack[r] = <<>>
    BY Zenon DEF IInv, SearchOK
  <2>2. ~(\E j \in 1..Len(stack[r]) : l \in below[stack[r][j]])
    BY <2>1
  <2> QED BY Zenon, <2>2 DEF IInv, SearchOK
<1> QED BY <1>1, BloomTreeInv, PTL

\* The filter of every node is the OR of the filters of the leaves under it.
THEOREM NodeIsOrOfLeavesThm == Spec => []NodeIsOrOfLeaves
<1>1. IInv => NodeIsOrOfLeaves
  <2> SUFFICES ASSUME IInv, NEW n \in NodeIds
               PROVE  nodes[n].blValue = UNION {nodes[l].blValue : l \in below[n]}
    BY Zenon DEF NodeIsOrOfLeaves
  <2>1. \A m \in NodeIds : nodes[m].blValue \subseteq Bit
    <3> SUFFICES ASSUME NEW m \in NodeIds PROVE nodes[m].blValue \subseteq Bit
      OBVIOUS
    <3>1. nodes \in Seq(Node) /\ m \in 1..Len(nodes)
      BY Zenon DEF IInv, TypeOK, NodeIds
    <3>2. nodes[m] \in Node
      BY Zenon, <3>1, ElementOfSeq
    <3> QED BY Zenon, <3>2 DEF Node, Filter
  <2>2. below[n] \subseteq NodeIds
    BY Zenon DEF IInv, HeapOK
  <2>3. \A p \in Bit : p \in nodes[n].blValue <=> \E l \in below[n] : p \in nodes[l].blValue
    BY Zenon DEF IInv, OrOK
  <2> QED BY Zenon, <2>1, <2>2, <2>3
<1> QED BY <1>1, BloomTreeInv, PTL

-----------------------------------------------------------------------------
(* How often createLevel calls itself.                                     *)

\* With a ratio of at least 3 every recursive call of createLevel has fewer
\* nodes to work on than its caller, so createTree returns.
THEOREM LevelsShrinkThm == Spec => LevelsShrink
<1> DEFINE Shrinks == phase = "level" /\ Ratio >= 3 /\ level' # level
                        => Len(level') < Len(level)
<1>1. TypeOK /\ [Next]_vars => [Shrinks]_vars
  <2> SUFFICES ASSUME TypeOK, Next, phase = "level", Ratio >= 3, level' # level
               PROVE  Len(level') < Len(level)
    OBVIOUS
  <2>1. EndLevel
    BY Zenon DEF Next, CreateLeafLevel, CreateTree, NewLevelNode, CheckExistanceThread,
           CheckExistance, Visit, Return, buildVars
  <2>2. level' = levelNodes /\ Len(levelNodes) = LevelSize(Len(level))
        /\ LevelSize(Len(level)) > 1
    BY Zenon, <2>1 DEF EndLevel
  <2>3. Len(level) \in Nat
    BY Zenon, LenProperties DEF TypeOK
  <2> QED BY Zenon, <2>2, <2>3, LevelSizeFacts
<1> QED BY <1>1, BloomTreeType, PTL DEF Spec, LevelsShrink

\* With a ratio of 1 or 2, a level of at least ratio nodes gives another one.
SmallInv ==
  /\ SmallRatioNeverBuilds
  /\ phase = "level" /\ Ratio <= 2 /\ Len(leafNodes) >= Ratio => Len(level) >= Ratio

\* With a ratio of 1 or 2 createTree never reaches a root, unless there are
\* fewer leaves than ratio.
THEOREM SmallRatioNeverBuildsThm == Spec => []SmallRatioNeverBuilds
<1>1. Init => SmallInv
  BY Zenon DEF Init, SmallInv, SmallRatioNeverBuilds
<1>2. TypeOK /\ SmallInv /\ [Next]_vars => SmallInv'
  <2> SUFFICES ASSUME TypeOK, SmallInv, [Next]_vars PROVE SmallInv'
    OBVIOUS
  <2>0. Len(level) \in Nat /\ Len(leafNodes) \in Nat /\ Ratio \in Nat
    BY Zenon, LenProperties, TreeAssumption DEF TypeOK
  <2>1. CASE EndLevel
    <3>1. /\ phase = "level" /\ leafNodes' = leafNodes
          /\ Len(levelNodes) = LevelSize(Len(level))
          /\ Len(levelNodes) > 1 => level' = levelNodes /\ phase' = phase
      BY Zenon, <2>1 DEF EndLevel
    <3>2. CASE Ratio >= 3
      <4>1. ~(Ratio <= 2) BY <3>2, <2>0
      <4> QED BY Zenon, <4>1, <3>2 DEF SmallInv, SmallRatioNeverBuilds
    <3>3. CASE Len(leafNodes) < Ratio
      <4>1. ~(Len(leafNodes) >= Ratio) BY <3>3, <2>0
      <4> QED BY Zenon, <4>1, <3>1, <3>3 DEF SmallInv, SmallRatioNeverBuilds
    <3>4. CASE Ratio <= 2 /\ Len(leafNodes) >= Ratio
      <4>1. Len(level) >= Ratio
        BY Zenon, <3>1, <3>4 DEF SmallInv
      <4>2. LevelSize(Len(level)) > 1 /\ LevelSize(Len(level)) >= Ratio
        BY Zenon, <4>1, <3>4, <2>0, LevelSizeFacts
      <4> QED BY Zenon, <4>2, <3>1 DEF SmallInv, SmallRatioNeverBuilds
    <3> QED BY <3>2, <3>3, <3>4, <2>0
  <2>2. CASE CreateTree
    BY Zenon, <2>2 DEF SmallInv, SmallRatioNeverBuilds, CreateTree
  <2>3. ASSUME NEW bv \in Filter, NEW f \in File, CreateLeafLevel(bv, f) PROVE SmallInv'
    BY Zenon, <2>3 DEF SmallInv, SmallRatioNeverBuilds, CreateLeafLevel
  <2>4. CASE UNCHANGED <<phase, leafNodes, level>>
    BY Zenon, <2>4 DEF SmallInv, SmallRatioNeverBuilds
  <2> QED BY Zenon, <2>1, <2>2, <2>3, <2>4 DEF Next, NewLevelNode, CheckExistanceThread,
             CheckExistance, Visit, Return, vars, buildVars
<1>3. SmallInv => SmallRatioNeverBuilds
  BY Zenon DEF SmallInv
<1> QED BY <1>1, <1>2, <1>3, BloomTreeType, PTL DEF Spec
=============================================================================
