------------------------- MODULE ParallelLoopProofs -------------------------
(***************************************************************************)
(* parallelize_loop for every pair of bounds, every number of blocks and   *)
(* every interleaving of the caller with the workers.                      *)
(***************************************************************************)
EXTENDS ParallelLoop, FiniteSetTheorems, TLAPS

-----------------------------------------------------------------------------
(* The blocks are intervals of the range.                                  *)

(* What the caller has computed when the loop begins. *)
Split ==
  /\ first_index # index_after_last
  /\ the_first_index = LowerOf(first_index, index_after_last)
  /\ last_index = UpperOf(first_index, index_after_last) - 1
  /\ num_blocks \in Nat \ {0} /\ block_size \in Nat \ {0}
  /\ num_blocks * block_size =< last_index + 1 - the_first_index

(* The bounds are integers of the model. *)
BoundsOK == first_index \in IndexRange /\ index_after_last \in IndexRange

(* A product grows with its first factor. *)
LEMMA TimesGrows ==
  ASSUME NEW a \in Nat, NEW b \in Nat, NEW n \in Nat, a =< b
  PROVE  a * n =< b * n /\ a * n \in Nat /\ b * n \in Nat
<1>1. PICK d \in Nat : b = a + d
  BY SMT
<1>2. b * n = a * n + d * n /\ a * n \in Nat /\ d * n \in Nat
  BY <1>1, Z3
<1> QED
  BY <1>2, SMT

(* The range lies between the arguments. *)
LEMMA RangeBetween ==
  ASSUME LoopAssumption, BoundsOK, Split
  PROVE  /\ the_first_index \in Int /\ last_index \in Int
         /\ Between = the_first_index..last_index
         /\ Between \subseteq IndexRange
BY DEF LoopAssumption, BoundsOK, Split, Between, LowerOf, UpperOf, IndexRange

(* Each block lies within the range. *)
LEMMA BlockBounds ==
  ASSUME LoopAssumption, BoundsOK, Split, NEW b \in 0..num_blocks-1
  PROVE  /\ BlockStart(b) \in Int /\ BlockEnd(b) \in Int
         /\ the_first_index =< BlockStart(b)
         /\ BlockStart(b) =< BlockEnd(b) /\ BlockEnd(b) =< last_index + 1
<1>1. the_first_index \in Int /\ last_index \in Int
  BY RangeBetween
<1>2. /\ num_blocks \in Nat \ {0} /\ block_size \in Nat
      /\ num_blocks * block_size =< last_index + 1 - the_first_index
  BY DEF Split
<1>3. b * block_size \in Nat /\ (b + 1) * block_size =< num_blocks * block_size
  BY <1>2, TimesGrows, b \in Nat, b + 1 \in Nat, b + 1 =< num_blocks
<1>4. (b + 1) * block_size = b * block_size + block_size
  BY <1>2, Z3
<1>5. num_blocks * block_size \in Nat
  BY <1>2, TimesGrows
<1> QED
  BY <1>1, <1>2, <1>3, <1>4, <1>5, SMT DEF BlockStart, BlockEnd

(* A block ends before a later one starts. *)
LEMMA BlocksOrdered ==
  ASSUME LoopAssumption, BoundsOK, Split,
         NEW b \in 0..num_blocks-1, NEW d \in 0..num_blocks-1, b < d
  PROVE  BlockEnd(b) =< BlockStart(d)
<1>1. the_first_index \in Int /\ block_size \in Nat /\ num_blocks \in Nat
  BY RangeBetween DEF Split
<1>2. (b + 1) * block_size =< d * block_size /\ d * block_size \in Nat /\ (b + 1) * block_size \in Nat
  BY <1>1, TimesGrows, b + 1 \in Nat, d \in Nat, b + 1 =< d
<1> QED
  BY <1>1, <1>2, SMT DEF BlockStart, BlockEnd

(* So two blocks share no index. *)
LEMMA BlocksDisjoint ==
  ASSUME LoopAssumption, BoundsOK, Split,
         NEW b \in 0..num_blocks-1, NEW d \in 0..num_blocks-1, b # d
  PROVE  BlockIndices(b) \cap BlockIndices(d) = {}
<1>1. /\ BlockStart(b) \in Int /\ BlockEnd(b) \in Int
      /\ BlockStart(d) \in Int /\ BlockEnd(d) \in Int
  BY BlockBounds
<1>2. BlockEnd(b) =< BlockStart(d) \/ BlockEnd(d) =< BlockStart(b)
  <2>1. b < d \/ d < b
    BY DEF Split
  <2> QED
    BY <2>1, BlocksOrdered
<1> QED
  BY <1>1, <1>2 DEF BlockIndices

(* Every index of the range is in a block, and no other index is. *)
LEMMA BlocksCover ==
  ASSUME LoopAssumption, BoundsOK, Split, NEW j \in Int
  PROVE  j \in Between <=> \E b \in 0..num_blocks-1 : j \in BlockIndices(b)
<1>1. /\ the_first_index \in Int /\ last_index \in Int
      /\ Between = the_first_index..last_index
      /\ num_blocks \in Nat \ {0} /\ block_size \in Nat \ {0}
  BY RangeBetween DEF Split
<1>2. ASSUME NEW b \in 0..num_blocks-1, j \in BlockIndices(b) PROVE j \in Between
  BY <1>1, <1>2, BlockBounds DEF BlockIndices
<1>3. ASSUME j \in Between PROVE \E b \in 0..num_blocks-1 : j \in BlockIndices(b)
  <2> DEFINE m == num_blocks - 1
  <2>0. m \in 0..num_blocks-1 /\ BlockStart(m) \in Int
    BY <1>1, BlockBounds
  <2>1. CASE BlockStart(m) =< j
    <3>1. j \in BlockIndices(m)
      BY <1>1, <1>3, <2>0, <2>1 DEF BlockIndices, BlockEnd
    <3> QED
      BY <3>1, <2>0
  <2>2. CASE ~(BlockStart(m) =< j)
    <3> DEFINE q == (j - the_first_index) \div block_size
    <3>1. j - the_first_index \in Nat
      BY <1>1, <1>3
    <3>2. /\ q \in Nat /\ q * block_size =< j - the_first_index
          /\ j - the_first_index < q * block_size + block_size
      BY <1>1, <3>1, Z3
    <3> HIDE DEF q
    <3>3. q < num_blocks - 1
      <4> SUFFICES ASSUME num_blocks - 1 =< q PROVE FALSE
        BY <1>1, <3>2, SMT
      <4>1. /\ (num_blocks - 1) * block_size =< q * block_size
            /\ (num_blocks - 1) * block_size \in Nat /\ q * block_size \in Nat
        BY <1>1, <3>2, TimesGrows, num_blocks - 1 \in Nat
      <4> QED
        BY <4>1, <3>2, <2>2, <1>1, SMT DEF BlockStart
    <3>4. (q + 1) * block_size = q * block_size + block_size /\ q * block_size \in Nat
      BY <1>1, <3>2, Z3
    <3>5. j \in BlockIndices(q)
      BY <1>1, <3>2, <3>3, <3>4, SMT DEF BlockIndices, BlockStart, BlockEnd
    <3> QED
      BY <1>1, <3>2, <3>3, <3>5
  <2> QED
    BY <2>1, <2>2
<1> QED
  BY <1>2, <1>3
-----------------------------------------------------------------------------
(* The inductive invariant.                                                *)

(* The blocks that blocks_running counts. *)
Live == {b \in BlockNo : block[b] \in {"counted", "queued", "running", "ran"}}

HasRun(b) == block[b] \in {"ran", "done"}

CallerInv ==
  /\ loopPc \in {"count", "push", "wait"} => Split
  /\ loopPc = "call" => t = 0 /\ num_blocks = 0
  /\ loopPc = "returned" => \/ first_index = index_after_last /\ t = 0
                            \/ Split /\ t = num_blocks /\ Live = {}
  /\ loopPc = "push" => t < num_blocks
  /\ loopPc = "wait" => t = num_blocks

(* The caller makes the blocks in order. *)
MadeInv ==
  \A b \in BlockNo :
    /\ block[b] # "none" <=> b < t \/ (b = t /\ loopPc = "push")
    /\ block[b] = "counted" <=> b = t /\ loopPc = "push"

CountInv == blocks_running = Cardinality(Live)

(* An index has been visited once when the block it is in has run. *)
VisitInv ==
  \A j \in IndexRange :
    visits[j] = IF \E b \in BlockNo : HasRun(b) /\ j \in BlockIndices(b) THEN 1 ELSE 0

LoopInv == LoopTypeOK /\ CallerInv /\ MadeInv /\ CountInv /\ VisitInv

(* The counter is a natural number that does not exceed MaxBlocks. *)
LEMMA LiveFinite ==
  ASSUME LoopAssumption
  PROVE  IsFiniteSet(Live) /\ Cardinality(Live) \in 0..MaxBlocks
<1>1. IsFiniteSet(BlockNo) /\ Cardinality(BlockNo) = MaxBlocks
  BY FS_Interval DEF BlockNo, LoopAssumption
<1>2. Live \subseteq BlockNo
  BY DEF Live
<1>3. IsFiniteSet(Live) /\ Cardinality(Live) =< Cardinality(BlockNo)
  BY <1>1, <1>2, FS_Subset
<1>4. Cardinality(Live) \in Nat
  BY <1>3, FS_CardinalityType
<1> QED
  BY <1>1, <1>3, <1>4 DEF LoopAssumption

LEMMA LoopStarts ==
  ASSUME LoopAssumption, LoopInit
  PROVE  LoopInv
<1>1. Live = {}
  BY DEF LoopInit, Live
<1>2. CountInv
  BY <1>1, FS_EmptySet DEF LoopInit, CountInv
<1>3. LoopTypeOK /\ CallerInv /\ MadeInv /\ VisitInv
  BY DEF LoopAssumption, LoopInit, LoopTypeOK, CallerInv, MadeInv, VisitInv, HasRun, BlockNo, IndexRange
<1> QED
  BY <1>2, <1>3 DEF LoopInv

(* The size of a block times the number of blocks does not exceed the range. *)
LEMMA EnterSplits ==
  ASSUME LoopAssumption, LoopTypeOK, Enter, first_index # index_after_last
  PROVE  Split' /\ num_blocks' \in 0..requested
<1> DEFINE size == UpperOf(first_index, index_after_last) - LowerOf(first_index, index_after_last)
<1>1. size \in Nat \ {0} /\ requested \in Nat \ {0}
  BY DEF LoopAssumption, LoopTypeOK, UpperOf, LowerOf, IndexRange
<1>2. /\ the_first_index' = LowerOf(first_index, index_after_last)
      /\ last_index' = UpperOf(first_index, index_after_last) - 1
      /\ block_size' = IF size < requested THEN 1 ELSE size \div requested
      /\ num_blocks' = IF size < requested THEN size ELSE requested
      /\ UNCHANGED <<first_index, index_after_last, requested>>
  BY DEF Enter, args
<1>3. last_index' + 1 - the_first_index' = size
  BY <1>2 DEF LoopAssumption, LoopTypeOK, UpperOf, LowerOf, IndexRange
<1> HIDE DEF size
<1>4. /\ num_blocks' \in Nat \ {0} /\ block_size' \in Nat \ {0}
      /\ num_blocks' * block_size' =< size
  <2>1. CASE size < requested
    BY <2>1, <1>1, <1>2, SMT
  <2>2. CASE ~(size < requested)
    <3>1. /\ size \div requested \in Nat \ {0}
          /\ requested * (size \div requested) =< size
      BY <2>2, <1>1, Z3
    <3> QED
      BY <3>1, <2>2, <1>1, <1>2
  <2> QED
    BY <2>1, <2>2
<1>5. num_blocks' \in 0..requested
  BY <1>1, <1>2
<1> QED
  BY <1>2, <1>3, <1>4, <1>5 DEF Split, LowerOf, UpperOf

LEMMA EnterKeeps ==
  ASSUME LoopAssumption, LoopInv, Enter
  PROVE  LoopInv'
<1> USE DEF LoopAssumption, LoopInv
<1>1. /\ loopPc = "call" /\ t = 0
      /\ UNCHANGED <<first_index, index_after_last, requested, t, blocks_running, block, visits>>
  BY DEF Enter, args, CallerInv
<1>2. \A b \in BlockNo : block[b] = "none"
  BY <1>1 DEF MadeInv, BlockNo
<1>3. MadeInv' /\ CountInv'
  <2>1. loopPc' # "push"
    BY DEF Enter
  <2>2. Live' = Live
    BY <1>1 DEF Live
  <2> QED
    BY <1>1, <1>2, <2>1, <2>2 DEF MadeInv, CountInv, BlockNo
<1>4. VisitInv'
  BY <1>1, <1>2 DEF VisitInv, HasRun
<1>5. LoopTypeOK' /\ CallerInv'
  <2>1. CASE first_index = index_after_last
    BY <2>1, <1>1 DEF Enter, locals, LoopTypeOK, CallerInv
  <2>2. CASE first_index # index_after_last
    <3>1. Split' /\ num_blocks' \in 0..requested /\ loopPc' = "count"
      BY <2>2, EnterSplits DEF Enter
    <3>2. the_first_index' \in Int /\ last_index' \in Int /\ block_size' \in Nat
      <4>1. /\ the_first_index' = LowerOf(first_index, index_after_last)
            /\ last_index' = UpperOf(first_index, index_after_last) - 1
        BY <2>2 DEF Enter
      <4>2. block_size' \in Nat
        BY <3>1 DEF Split
      <4> QED
        BY <4>1, <4>2 DEF LoopTypeOK, UpperOf, LowerOf, IndexRange
    <3> QED
      BY <3>1, <3>2, <1>1 DEF LoopTypeOK, CallerInv
  <2> QED
    BY <2>1, <2>2
<1> QED
  BY <1>3, <1>4, <1>5

(* The caller's loop. *)
LEMMA CountKeeps ==
  ASSUME LoopAssumption, LoopInv, CountBlock
  PROVE  LoopInv'
<1> USE DEF LoopAssumption, LoopInv
<1>1. /\ loopPc = "count" /\ Split
      /\ UNCHANGED <<first_index, index_after_last, requested, the_first_index, last_index,
                     num_blocks, block_size, t, visits>>
  BY DEF CountBlock, args, locals, CallerInv
<1>2. Split'
  BY <1>1 DEF Split
<1>3. CASE t < num_blocks
  <2>1. /\ blocks_running' = blocks_running + 1 /\ block' = [block EXCEPT ![t] = "counted"]
        /\ loopPc' = "push" /\ t \in BlockNo /\ block[t] = "none"
    BY <1>1, <1>3 DEF CountBlock, LoopTypeOK, BlockNo, MadeInv
  <2>2. Live' = Live \cup {t} /\ t \notin Live
    BY <2>1 DEF Live, LoopTypeOK
  <2>3. Cardinality(Live') = Cardinality(Live) + 1
    BY SMTT(30), <2>2, LiveFinite, FS_AddElement
  <2>4. CountInv' /\ blocks_running' \in 0..MaxBlocks
    <3>1. Cardinality(Live') \in 0..MaxBlocks
      <4>1. Live' \subseteq BlockNo
        BY <2>1, <2>2 DEF Live
      <4>2. IsFiniteSet(BlockNo) /\ Cardinality(BlockNo) = MaxBlocks
        BY FS_Interval DEF BlockNo
      <4>3. IsFiniteSet(Live') /\ Cardinality(Live') =< Cardinality(BlockNo)
        BY <4>1, <4>2, FS_Subset
      <4> QED
        BY <4>2, <4>3, FS_CardinalityType
    <3> QED
      BY <3>1, <2>1, <2>3 DEF CountInv
  <2>5. LoopTypeOK'
    BY <1>1, <1>3, <2>1, <2>4 DEF LoopTypeOK
  <2>6. CallerInv'
    BY <1>1, <1>2, <1>3, <2>1 DEF CallerInv
  <2>7. MadeInv'
    BY <1>1, <2>1 DEF MadeInv, LoopTypeOK, BlockNo
  <2>8. VisitInv'
    <3>1. \A b \in BlockNo : HasRun(b)' <=> HasRun(b)
      BY <2>1 DEF HasRun, LoopTypeOK
    <3> QED
      BY <1>1, <3>1 DEF VisitInv, BlockIndices, BlockStart, BlockEnd
  <2> QED
    BY <2>4, <2>5, <2>6, <2>7, <2>8
<1>4. CASE ~(t < num_blocks)
  <2>1. loopPc' = "wait" /\ UNCHANGED <<blocks_running, block>> /\ t = num_blocks
    BY <1>1, <1>4 DEF CountBlock, LoopTypeOK
  <2>2. Live' = Live
    BY <2>1 DEF Live
  <2> QED
    BY <1>1, <1>2, <2>1, <2>2 DEF LoopTypeOK, CallerInv, MadeInv, CountInv, VisitInv, HasRun,
       BlockIndices, BlockStart, BlockEnd
<1> QED
  BY <1>3, <1>4

LEMMA PushKeeps ==
  ASSUME LoopAssumption, LoopInv, PushBlock
  PROVE  LoopInv'
<1> USE DEF LoopAssumption, LoopInv
<1>1. /\ loopPc = "push" /\ loopPc' = "count" /\ t' = t + 1 /\ Split /\ t < num_blocks
      /\ block' = [block EXCEPT ![t] = "queued"]
      /\ UNCHANGED <<first_index, index_after_last, requested, the_first_index, last_index,
                     num_blocks, block_size, blocks_running, visits>>
  BY DEF PushBlock, args, locals, CallerInv
<1>2. t \in BlockNo /\ block[t] = "counted"
  BY <1>1 DEF LoopTypeOK, BlockNo, MadeInv
<1>3. LoopTypeOK'
  BY <1>1, <1>2 DEF LoopTypeOK
<1>4. CallerInv'
  BY <1>1 DEF CallerInv, Split
<1>5. MadeInv'
  BY <1>1, <1>2 DEF MadeInv, LoopTypeOK, BlockNo
<1>6. CountInv'
  <2>1. Live' = Live
    BY <1>1, <1>2 DEF Live, LoopTypeOK
  <2> QED
    BY <1>1, <2>1 DEF CountInv
<1>7. VisitInv'
  <2>1. \A b \in BlockNo : HasRun(b)' <=> HasRun(b)
    BY <1>1, <1>2 DEF HasRun, LoopTypeOK
  <2> QED
    BY <1>1, <2>1 DEF VisitInv, BlockIndices, BlockStart, BlockEnd
<1> QED
  BY <1>3, <1>4, <1>5, <1>6, <1>7

LEMMA WaitKeeps ==
  ASSUME LoopAssumption, LoopInv, WaitForBlocks
  PROVE  LoopInv'
<1> USE DEF LoopAssumption, LoopInv
<1>1. /\ loopPc = "wait" /\ loopPc' = "returned" /\ blocks_running = 0
      /\ UNCHANGED <<first_index, index_after_last, requested, the_first_index, last_index,
                     num_blocks, block_size, t, blocks_running, block, visits>>
  BY DEF WaitForBlocks, args, locals
<1>2. Live = {} /\ Live' = Live
  <2>1. Live = {}
    BY Zenon, <1>1, LiveFinite, FS_EmptySet DEF CountInv
  <2> QED
    BY <1>1, <2>1 DEF Live
<1>3. CallerInv'
  BY <1>1, <1>2 DEF CallerInv, Split
<1>4. LoopTypeOK' /\ MadeInv' /\ CountInv' /\ VisitInv'
  BY Zenon, <1>1, <1>2 DEF LoopTypeOK, MadeInv, CountInv, VisitInv, HasRun, BlockIndices, BlockStart, BlockEnd
<1> QED
  BY <1>3, <1>4

(* A block that a worker has was made by the caller, and is counted. *)
LEMMA WorkerInBlock ==
  ASSUME LoopAssumption, LoopInv, NEW b \in BlockNo,
         block[b] \in {"queued", "running", "ran"}
  PROVE  /\ Split /\ b \in 0..num_blocks-1 /\ b \in Live
         /\ b < t /\ loopPc \in {"count", "push", "wait"}
<1>1. b \in Live
  BY DEF Live
<1>2. b < t
  BY DEF LoopInv, MadeInv
<1>3. loopPc \in {"count", "push", "wait"}
  BY <1>1, <1>2 DEF LoopInv, CallerInv, LoopTypeOK, BlockNo, LoopAssumption
<1> QED
  BY <1>1, <1>2, <1>3 DEF LoopInv, CallerInv, LoopTypeOK, BlockNo, LoopAssumption

LEMMA StartKeeps ==
  ASSUME LoopAssumption, LoopInv, NEW b \in BlockNo, StartBlock(b)
  PROVE  LoopInv'
<1> USE DEF LoopAssumption, LoopInv
<1>1. /\ block[b] = "queued" /\ block' = [block EXCEPT ![b] = "running"]
      /\ UNCHANGED <<first_index, index_after_last, requested, the_first_index, last_index,
                     num_blocks, block_size, t, blocks_running, visits, loopPc>>
  BY DEF StartBlock, args, locals
<1>2. loopPc \in {"count", "push", "wait"}
  BY <1>1, WorkerInBlock
<1>3. LoopTypeOK' /\ CallerInv'
  BY <1>1, <1>2 DEF LoopTypeOK, CallerInv, Split
<1>4. MadeInv'
  BY <1>1 DEF MadeInv, LoopTypeOK
<1>5. CountInv'
  <2>1. Live' = Live
    BY <1>1 DEF Live, LoopTypeOK
  <2> QED
    BY <1>1, <2>1 DEF CountInv
<1>6. VisitInv'
  <2>1. \A d \in BlockNo : HasRun(d)' <=> HasRun(d)
    BY <1>1 DEF HasRun, LoopTypeOK
  <2> QED
    BY <1>1, <2>1 DEF VisitInv, BlockIndices, BlockStart, BlockEnd
<1> QED
  BY <1>3, <1>4, <1>5, <1>6

(* The indices of a block that has not run have not been visited. *)
LEMMA RunKeeps ==
  ASSUME LoopAssumption, LoopInv, NEW b \in BlockNo, RunBlock(b)
  PROVE  LoopInv'
<1> USE DEF LoopAssumption, LoopInv
<1>1. /\ block[b] = "running" /\ block' = [block EXCEPT ![b] = "ran"]
      /\ visits' = [j \in IndexRange |-> IF j \in BlockIndices(b) THEN visits[j] + 1
                                                                  ELSE visits[j]]
      /\ UNCHANGED <<first_index, index_after_last, requested, the_first_index, last_index,
                     num_blocks, block_size, t, blocks_running, loopPc>>
  BY DEF RunBlock, args, locals
<1>2. Split /\ b \in 0..num_blocks-1 /\ loopPc \in {"count", "push", "wait"} /\ BoundsOK
  BY <1>1, WorkerInBlock DEF LoopTypeOK, BoundsOK
<1>3. LoopTypeOK' /\ CallerInv'
  BY <1>1, <1>2 DEF LoopTypeOK, CallerInv, Split
<1>4. MadeInv'
  BY <1>1 DEF MadeInv, LoopTypeOK
<1>5. CountInv'
  <2>1. Live' = Live
    BY <1>1 DEF Live, LoopTypeOK
  <2> QED
    BY <1>1, <2>1 DEF CountInv
<1>6. VisitInv'
  <2>1. \A d \in BlockNo : HasRun(d)' <=> HasRun(d) \/ d = b
    BY <1>1 DEF HasRun, LoopTypeOK
  <2>2. \A d \in BlockNo : BlockIndices(d)' = BlockIndices(d)
    BY <1>1 DEF BlockIndices, BlockStart, BlockEnd
  <2>3. ASSUME NEW d \in BlockNo, HasRun(d)
        PROVE  BlockIndices(d) \cap BlockIndices(b) = {}
    <3>1. d # b /\ d < t
      BY <2>3, <1>1 DEF HasRun, MadeInv
    <3>2. d \in 0..num_blocks-1
      BY <3>1 DEF LoopTypeOK, BlockNo
    <3> QED
      BY <3>1, <3>2, <1>2, BlocksDisjoint
  <2>4. ASSUME NEW j \in IndexRange
        PROVE  visits'[j] = IF \E d \in BlockNo : HasRun(d)' /\ j \in BlockIndices(d)'
                            THEN 1 ELSE 0
    <3>1. CASE j \in BlockIndices(b)
      <4>1. visits[j] = 0
        BY <3>1, <2>3 DEF VisitInv
      <4>2. visits'[j] = 1
        BY <3>1, <4>1, <1>1
      <4> QED
        BY <4>2, <3>1, <2>1, <2>2
    <3>2. CASE j \notin BlockIndices(b)
      <4>1. visits'[j] = visits[j]
        BY <3>2, <1>1
      <4>2. (\E d \in BlockNo : HasRun(d)' /\ j \in BlockIndices(d)')
              <=> (\E d \in BlockNo : HasRun(d) /\ j \in BlockIndices(d))
        BY <3>2, <2>1, <2>2
      <4> QED
        BY <4>1, <4>2 DEF VisitInv
    <3> QED
      BY <3>1, <3>2
  <2> QED
    BY <2>4 DEF VisitInv
<1> QED
  BY <1>3, <1>4, <1>5, <1>6

LEMMA FinishKeeps ==
  ASSUME LoopAssumption, LoopInv, NEW b \in BlockNo, FinishBlock(b)
  PROVE  LoopInv'
<1> USE DEF LoopAssumption, LoopInv
<1>1. /\ block[b] = "ran" /\ block' = [block EXCEPT ![b] = "done"]
      /\ blocks_running' = blocks_running - 1
      /\ UNCHANGED <<first_index, index_after_last, requested, the_first_index, last_index,
                     num_blocks, block_size, t, visits, loopPc>>
  BY DEF FinishBlock, args, locals
<1>2. loopPc \in {"count", "push", "wait"} /\ b \in Live
  BY <1>1, WorkerInBlock
<1>3. Live' = Live \ {b}
  BY <1>1, <1>2 DEF Live, LoopTypeOK
<1>4. IsFiniteSet(Live) /\ Cardinality(Live') = Cardinality(Live) - 1
  BY <1>2, <1>3, LiveFinite, FS_RemoveElement
<1>5. Cardinality(Live') \in Nat
  BY SMTT(30), <1>3, <1>4, FS_RemoveElement, FS_CardinalityType
<1>6. CountInv' /\ blocks_running' \in 0..MaxBlocks
  BY <1>1, <1>4, <1>5 DEF CountInv, LoopTypeOK
<1>7. LoopTypeOK' /\ CallerInv'
  BY <1>1, <1>2, <1>6 DEF LoopTypeOK, CallerInv, Split
<1>8. MadeInv'
  BY <1>1 DEF MadeInv, LoopTypeOK
<1>9. VisitInv'
  <2>1. \A d \in BlockNo : HasRun(d)' <=> HasRun(d)
    BY <1>1 DEF HasRun, LoopTypeOK
  <2> QED
    BY <1>1, <2>1 DEF VisitInv, BlockIndices, BlockStart, BlockEnd
<1> QED
  BY <1>6, <1>7, <1>8, <1>9

LEMMA LoopInductive ==
  ASSUME LoopAssumption, LoopInv, [LoopNext]_loopVars
  PROVE  LoopInv'
<1>1. CASE Enter
  BY <1>1, EnterKeeps
<1>2. CASE CountBlock
  BY <1>2, CountKeeps
<1>3. CASE PushBlock
  BY <1>3, PushKeeps
<1>4. CASE WaitForBlocks
  BY <1>4, WaitKeeps
<1>5. ASSUME NEW b \in BlockNo, Worker(b) PROVE LoopInv'
  BY <1>5, StartKeeps, RunKeeps, FinishKeeps DEF Worker
<1>6. CASE UNCHANGED loopVars
  BY <1>6 DEF loopVars, args, locals, LoopInv, LoopTypeOK, CallerInv, Split, MadeInv, CountInv, Live,
              VisitInv, HasRun, BlockIndices, BlockStart, BlockEnd
<1> QED
  BY <1>1, <1>2, <1>3, <1>4, <1>5, <1>6 DEF LoopNext, Caller

(* What the invariant says of a visit, in terms of the range. *)
LEMMA VisitedBetween ==
  ASSUME LoopAssumption, LoopInv, NEW j \in IndexRange, visits[j] # 0
  PROVE  visits[j] = 1 /\ j \in Between
<1>1. PICK b \in BlockNo : HasRun(b) /\ j \in BlockIndices(b)
  BY DEF LoopInv, VisitInv
<1>2. b < t
  BY <1>1 DEF LoopInv, MadeInv, HasRun
<1>3. Split /\ BoundsOK /\ b \in 0..num_blocks-1
  BY <1>2 DEF LoopInv, CallerInv, LoopTypeOK, BlockNo, BoundsOK, LoopAssumption
<1>4. j \in Int
  BY DEF IndexRange
<1>5. visits[j] = 1
  BY <1>1 DEF LoopInv, VisitInv
<1> QED
  BY <1>1, <1>3, <1>4, <1>5, BlocksCover

-----------------------------------------------------------------------------
(* The properties.                                                         *)

(* Every variable of parallelize_loop keeps its type: blocks_running is    *)
(* never counted below zero, and no more blocks are made than asked for.   *)
THEOREM LoopType ==
  ASSUME LoopAssumption
  PROVE  LoopSpec => []LoopTypeOK
<1>1. LoopInv => LoopTypeOK
  BY DEF LoopInv
<1> QED
  BY <1>1, LoopStarts, LoopInductive, PTL DEF LoopSpec

(* At no time has an index been visited twice, nor one outside the range:  *)
(* the blocks parallelize_loop makes do not overlap.                       *)
THEOREM BlocksApartThm ==
  ASSUME LoopAssumption
  PROVE  LoopSpec => []BlocksApart
<1>1. ASSUME LoopInv PROVE BlocksApart
  <2> SUFFICES ASSUME NEW j \in IndexRange
               PROVE  visits[j] =< IF j \in Between THEN 1 ELSE 0
    BY DEF BlocksApart
  <2>1. CASE visits[j] = 0
    BY <2>1
  <2>2. CASE visits[j] # 0
    BY <2>2, <1>1, VisitedBetween
  <2> QED
    BY <2>1, <2>2
<1> QED
  BY <1>1, LoopStarts, LoopInductive, PTL DEF LoopSpec

(* When parallelize_loop returns, every index between its arguments has    *)
(* been visited exactly once and no other has, for any arguments.          *)
THEOREM EachIndexOnceThm ==
  ASSUME LoopAssumption
  PROVE  LoopSpec => []EachIndexOnce
<1>1. ASSUME LoopInv PROVE EachIndexOnce
  <2> SUFFICES ASSUME loopPc = "returned", NEW j \in IndexRange
               PROVE  visits[j] = IF j \in Between THEN 1 ELSE 0
    BY DEF EachIndexOnce
  <2>1. CASE visits[j] # 0
    BY <2>1, <1>1, VisitedBetween
  <2>2. CASE visits[j] = 0
    <3> SUFFICES ASSUME j \in Between PROVE FALSE
      BY <2>2
    <3>1. first_index # index_after_last
      BY <1>1 DEF LoopInv, LoopTypeOK, IndexRange, Between, LowerOf, UpperOf
    <3>2. Split /\ t = num_blocks /\ Live = {} /\ BoundsOK
      BY <1>1, <3>1 DEF LoopInv, CallerInv, LoopTypeOK, BoundsOK
    <3>3. PICK b \in 0..num_blocks-1 : j \in BlockIndices(b)
      BY <3>2, BlocksCover DEF IndexRange
    <3>4. b \in BlockNo /\ b < t
      BY <1>1, <3>2 DEF LoopInv, LoopTypeOK, BlockNo, LoopAssumption
    <3>5. HasRun(b)
      BY <1>1, <3>2, <3>4 DEF LoopInv, MadeInv, LoopTypeOK, Live, HasRun
    <3> QED
      BY <1>1, <2>2, <3>3, <3>4, <3>5 DEF LoopInv, VisitInv
  <2> QED
    BY <2>1, <2>2
<1> QED
  BY <1>1, LoopStarts, LoopInductive, PTL DEF LoopSpec

(* When parallelize_loop returns no worker has a block left that would     *)
(* touch the caller's local variables.                                     *)
THEOREM NoBlockOutlivesCallThm ==
  ASSUME LoopAssumption
  PROVE  LoopSpec => []NoBlockOutlivesCall
<1>1. ASSUME LoopInv PROVE NoBlockOutlivesCall
  <2> SUFFICES ASSUME loopPc = "returned", NEW b \in BlockNo
               PROVE  block[b] \in {"none", "done"}
    BY DEF NoBlockOutlivesCall
  <2>1. CASE t = 0
    BY <1>1, <2>1 DEF LoopInv, MadeInv, BlockNo
  <2>2. CASE Live = {}
    BY <1>1, <2>2 DEF LoopInv, LoopTypeOK, Live
  <2> QED
    BY <1>1, <2>1, <2>2 DEF LoopInv, CallerInv
<1> QED
  BY <1>1, LoopStarts, LoopInductive, PTL DEF LoopSpec

(* parallelize_loop applies loop exactly once to every index between its    *)
(* arguments, at no time twice, and leaves no block behind, for any indices *)
(* and any number of blocks.                                                *)
THEOREM LoopIsExact ==
  ASSUME LoopAssumption
  PROVE  LoopSpec => []LoopExact
BY LoopType, EachIndexOnceThm, BlocksApartThm, NoBlockOutlivesCallThm, PTL DEF LoopExact
=============================================================================
