----------------------------- MODULE BloomTree -----------------------------
(***************************************************************************)
(* class bloomTree (src/bloom_hierarchy/bloomTree.cpp, node.cpp): a tree   *)
(* over the Bloom filters of the SSTables.  createLeafLevel adds a leaf,   *)
(* createTree builds level after level of nodes whose filter is the OR of  *)
(* at most ratio children, and a search walks down from the root through   *)
(* the nodes whose filter has the value and collects the leaves it meets.  *)
(*                                                                         *)
(* The heap of Node objects is the sequence nodes: a node is its index.    *)
(* A search is a stack of nodes still to be visited, so that searches of   *)
(* several threads interleave node by node.  The variable below is a       *)
(* history variable: the leaves of the subtree of each node.               *)
(***************************************************************************)
EXTENDS BloomFilter, Integers, Sequences, FiniteSets

CONSTANTS
  File,      \* names of Bloom files, never the string "Memory"
  Memory,    \* the file name of an inner node
  Ratio,     \* the constructor's ratio
  MaxLeaves, \* bound on the number of leaves
  MaxNodes,  \* bound on the number of nodes on the heap
  Thread,    \* threads that call checkExistanceThread
  Main,      \* the thread that calls checkExistance
  MaxChecks  \* bound on the number of calls of checkExistance

ASSUME TreeAssumption ==
  /\ Ratio \in Nat \ {0}
  /\ Value # {}
  /\ Memory \notin File
  /\ Main \notin Thread
  /\ MaxLeaves \in Nat /\ MaxNodes \in Nat /\ MaxChecks \in Nat

VARIABLES
  nodes,            \* the heap: children, filter and file name of every Node
  below,            \* history: the leaves under each node
  leafNodes,        \* bloomTree::leafNodes
  level,            \* the parameter nodes of the current createLevel
  levelNodes,       \* the level that createLevel is building
  root,             \* bloomTree::root, 0 while it is not initialised
  phase,            \* "leaves", "level" (inside createTree) or "built"
  search,           \* per reader: "idle", "running" or "done"
  value,            \* per reader: the value of the latest search
  stack,            \* per reader: nodes still to be visited
  names,            \* per reader: blNames of a thread, bloomNames of Main
  foundInHierarchy, \* bloomTree::foundInHierarchy
  asked             \* history: the values of Main's searches, in order

buildVars  == <<nodes, below, leafNodes, level, levelNodes, root, phase>>
searchVars == <<search, value, stack, names, foundInHierarchy, asked>>
vars       == <<buildVars, searchVars>>

Reader == Thread \cup {Main}

Node == [children : Seq(Nat), blValue : Filter, filename : File \cup {Memory}]

LeafNode(bv, f) == [children |-> <<>>, blValue |-> bv, filename |-> f]

NodeIds == 1..Len(nodes)

IsLeaf(n) == nodes[n].filename # Memory

-----------------------------------------------------------------------------
(* Building the tree.                                                      *)

SmallerOf(a, b) == IF a <= b THEN a ELSE b

\* bloomTree::createLeafLevel: called once for every Bloom file.
CreateLeafLevel(bv, f) ==
  /\ phase = "leaves"
  /\ Len(leafNodes) < MaxLeaves /\ Len(nodes) < MaxNodes
  /\ \A n \in NodeIds : nodes[n].filename # f
  /\ nodes' = Append(nodes, LeafNode(bv, f))
  /\ below' = Append(below, {Len(nodes) + 1})
  /\ leafNodes' = Append(leafNodes, Len(nodes) + 1)
  /\ UNCHANGED <<level, levelNodes, root, phase, searchVars>>

\* bloomTree::createTree: enters createLevel with the leaves.
CreateTree ==
  /\ phase = "leaves"
  /\ phase' = "level"
  /\ level' = leafNodes
  /\ levelNodes' = <<>>
  /\ UNCHANGED <<nodes, below, leafNodes, root, searchVars>>

\* Mutant: the loop in addchildren stops one node early.
AddChildrenShort(i, lv) == SubSeq(lv, i + 1, SmallerOf(i + Ratio - 1, Len(lv)))

\* Node::addchildren(i, ratio, nodes): the nodes i, i+1, ... of the level
\* below, at most ratio of them (i counts from 0).
AddChildren(i, lv) == SubSeq(lv, i + 1, SmallerOf(i + Ratio, Len(lv)))

\* Mutant: one node too many.
LevelSizePlusTwo(size) == size \div Ratio + 2

\* The number of iterations of the loop in createLevel: size/ratio is an
\* integer division, so ceil leaves it alone and the bound is loop + 1.
LevelSize(size) == size \div Ratio + 1

\* The OR of the children's bit arrays.
OrOfChildren(children) ==
  UNION {nodes[children[j]].blValue : j \in 1..Len(children)}

\* One iteration of the loop in createLevel.
NewLevelNode ==
  /\ phase = "level"
  /\ Len(levelNodes) < LevelSize(Len(level)) /\ Len(nodes) < MaxNodes
  /\ LET children == AddChildren(Len(levelNodes) * Ratio, level)
     IN  /\ nodes' = Append(nodes, [children |-> children,
                                    blValue  |-> OrOfChildren(children),
                                    filename |-> Memory])
         /\ below' = Append(below, UNION {below[children[j]] :
                                            j \in 1..Len(children)})
  /\ levelNodes' = Append(levelNodes, Len(nodes) + 1)
  /\ UNCHANGED <<leafNodes, level, root, phase, searchVars>>

\* The end of createLevel: a call of itself on the new level, or the root.
EndLevel ==
  /\ phase = "level"
  /\ Len(levelNodes) = LevelSize(Len(level))
  /\ IF Len(levelNodes) > 1
     THEN /\ level' = levelNodes
          /\ levelNodes' = <<>>
          /\ UNCHANGED <<root, phase>>
     ELSE /\ root' = levelNodes[1]
          /\ phase' = "built"
          /\ UNCHANGED <<level, levelNodes>>
  /\ UNCHANGED <<nodes, below, leafNodes, searchVars>>

-----------------------------------------------------------------------------
(* Searching the tree.                                                     *)

\* Mutant: the vector of names survives from one search to the next.
CheckExistanceThreadKeepsNames(t, v) ==
  /\ phase = "built"
  /\ search[t] # "running"
  /\ search' = [search EXCEPT ![t] = "running"]
  /\ value' = [value EXCEPT ![t] = v]
  /\ stack' = [stack EXCEPT ![t] = <<root>>]
  /\ UNCHANGED <<buildVars, names, foundInHierarchy, asked>>

\* bloomTree::checkExistanceThread(value): a fresh local vector blNames.
CheckExistanceThread(t, v) ==
  /\ phase = "built"
  /\ search[t] # "running"
  /\ search' = [search EXCEPT ![t] = "running"]
  /\ value' = [value EXCEPT ![t] = v]
  /\ stack' = [stack EXCEPT ![t] = <<root>>]
  /\ names' = [names EXCEPT ![t] = <<>>]
  /\ UNCHANGED <<buildVars, foundInHierarchy, asked>>

\* Mutant: bloomNames is cleared, foundInHierarchy is not.
CheckExistanceClearsNames(v) ==
  /\ phase = "built"
  /\ search[Main] # "running"
  /\ Len(asked) < MaxChecks
  /\ search' = [search EXCEPT ![Main] = "running"]
  /\ value' = [value EXCEPT ![Main] = v]
  /\ stack' = [stack EXCEPT ![Main] = <<root>>]
  /\ asked' = Append(asked, v)
  /\ names' = [names EXCEPT ![Main] = <<>>]
  /\ UNCHANGED <<buildVars, foundInHierarchy>>

\* bloomTree::checkExistance(value): the member bloomNames is not cleared and
\* foundInHierarchy is not reset.
CheckExistance(v) ==
  /\ phase = "built"
  /\ search[Main] # "running"
  /\ Len(asked) < MaxChecks
  /\ search' = [search EXCEPT ![Main] = "running"]
  /\ value' = [value EXCEPT ![Main] = v]
  /\ stack' = [stack EXCEPT ![Main] = <<root>>]
  /\ asked' = Append(asked, v)
  /\ UNCHANGED <<buildVars, names, foundInHierarchy>>

\* The nodes that the visit of node n leaves to be visited in its place.
Descend(n, v) ==
  IF ~IsLeaf(n) /\ Exists(nodes[n].blValue, v) THEN nodes[n].children
                                               ELSE <<>>

\* One call of the recursive checkExistanceThread / checkExistance.
Visit(r) ==
  /\ search[r] = "running"
  /\ stack[r] # <<>>
  /\ LET n == Head(stack[r]) IN
       /\ stack' = [stack EXCEPT ![r] = Descend(n, value[r]) \o Tail(@)]
       /\ names' = [names EXCEPT ![r] =
                      IF IsLeaf(n) THEN Append(@, nodes[n].filename) ELSE @]
       /\ foundInHierarchy' =
            IF r = Main /\ ~IsLeaf(n) /\ Exists(nodes[n].blValue, value[r])
            THEN foundInHierarchy + 1 ELSE foundInHierarchy
  /\ UNCHANGED <<buildVars, search, value, asked>>

\* The outermost call returns the collected names.
Return(r) ==
  /\ search[r] = "running"
  /\ stack[r] = <<>>
  /\ search' = [search EXCEPT ![r] = "done"]
  /\ UNCHANGED <<buildVars, value, stack, names, foundInHierarchy, asked>>

-----------------------------------------------------------------------------
Init ==
  /\ nodes = <<>> /\ below = <<>> /\ leafNodes = <<>>
  /\ level = <<>> /\ levelNodes = <<>> /\ root = 0
  /\ phase = "leaves"
  /\ search = [r \in Reader |-> "idle"]
  /\ value = [r \in Reader |-> CHOOSE v \in Value : TRUE]
  /\ stack = [r \in Reader |-> <<>>]
  /\ names = [r \in Reader |-> <<>>]
  /\ foundInHierarchy = 0
  /\ asked = <<>>

Build == NewLevelNode \/ EndLevel

Next ==
  \/ \E bv \in Filter, f \in File : CreateLeafLevel(bv, f)
  \/ CreateTree
  \/ NewLevelNode
  \/ EndLevel
  \/ \E t \in Thread, v \in Value : CheckExistanceThread(t, v)
  \/ \E v \in Value : CheckExistance(v)
  \/ \E r \in Reader : Visit(r) \/ Return(r)

Spec == Init /\ [][Next]_vars

\* createLevel is a loop in one thread and a search is a recursion in one
\* thread: the operating system keeps running both.
FairSpec == /\ Spec
            /\ WF_vars(Build)
            /\ \A r \in Reader : WF_vars(Visit(r) \/ Return(r))
-----------------------------------------------------------------------------
(* Properties.                                                             *)

\* Every variable keeps its type; in particular a search never reports the name
\* of an inner node ("Memory") as a Bloom file.
TypeOK ==
  /\ nodes \in Seq(Node) /\ below \in Seq(SUBSET Nat)
  /\ leafNodes \in Seq(Nat) /\ level \in Seq(Nat) /\ levelNodes \in Seq(Nat)
  /\ root \in Nat
  /\ phase \in {"leaves", "level", "built"}
  /\ search \in [Reader -> {"idle", "running", "done"}]
  /\ value \in [Reader -> Value]
  /\ stack \in [Reader -> Seq(Nat)]
  /\ names \in [Reader -> Seq(File)]
  /\ foundInHierarchy \in Nat
  /\ asked \in Seq(Value)

LeafIds == {leafNodes[i] : i \in 1..Len(leafNodes)}

\* The filter of every inner node is the OR of the filters of all leaves of its
\* subtree, at every level (createLevel, lines 106-108): a bit of a leaf is
\* never lost and none is invented on the way up.
NodeIsOrOfLeaves ==
  \A n \in NodeIds : nodes[n].blValue = UNION {nodes[l].blValue : l \in below[n]}

\* A finished search, of a thread or of Main, has every Bloom file whose own
\* filter has the value: walking the hierarchy loses no file that a scan of all
\* Bloom files would have read.
NoFalseNegative ==
  \A r \in Reader : search[r] = "done" =>
    \A l \in LeafIds : Exists(nodes[l].blValue, value[r]) =>
      \E i \in 1..Len(names[r]) : names[r][i] = nodes[l].filename

ChildrenOf(n) == {nodes[n].children[j] : j \in 1..Len(nodes[n].children)}

\* The leaves with a parent whose filter has v: a leaf's own filter is not read.
Candidate(l, v) ==
  \E p \in NodeIds : l \in ChildrenOf(p) /\ Exists(nodes[p].blValue, v)

\* The names of the candidates for v, in the order the leaves were added.
Answer(v) ==
  LET IsCandidate(l) == Candidate(l, v)
      hits == SelectSeq(leafNodes, IsCandidate)
  IN  [i \in 1..Len(hits) |-> nodes[hits[i]].filename]

\* checkExistanceThread returns exactly the candidates, each once and in leaf
\* order, whatever the other threads are doing on the shared tree.
ThreadAnswerExact ==
  \A t \in Thread : search[t] = "done" => names[t] = Answer(value[t])

\* The inner nodes whose filter has v.
Matching(v) == {n \in NodeIds : ~IsLeaf(n) /\ Exists(nodes[n].blValue, v)}

\* bloomNames and foundInHierarchy are never reset: after the k-th call of
\* checkExistance they hold the answers and the matching inner nodes of all k
\* calls, the earlier ones before the later ones.
ChecksAccumulate ==
  search[Main] = "done" =>
    LET Names[k \in 0..Len(asked)] ==
          IF k = 0 THEN <<>> ELSE Names[k-1] \o Answer(asked[k])
        Found[k \in 0..Len(asked)] ==
          IF k = 0 THEN 0 ELSE Found[k-1] + Cardinality(Matching(asked[k]))
    IN  /\ names[Main] = Names[Len(asked)]
        /\ foundInHierarchy = Found[Len(asked)]

\* With a ratio of at least 3 every call of createLevel works on fewer nodes
\* than the call before, so the recursion of createLevel is well-founded.
LevelsShrink ==
  [][phase = "level" /\ Ratio >= 3 /\ level' # level
       => Len(level') < Len(level)]_vars

\* With a ratio of 1 or 2 createLevel reaches a root only when the leaves fit
\* under one node: two nodes give two nodes again, so the recursion never ends.
SmallRatioNeverBuilds ==
  phase = "built" => Ratio >= 3 \/ Len(leafNodes) < Ratio

\* createTree, a recursion of createLevel, returns and leaves a root.
TreeGetsBuilt == phase = "level" ~> phase = "built"

\* Every search returns: the walk from the root is finite.
SearchesEnd == \A r \in Reader : search[r] = "running" ~> search[r] = "done"
=============================================================================
