---------------------------- MODULE ParallelLoop ----------------------------
(***************************************************************************)
(* thread_pool::parallelize_loop (src/bloom_hierarchy/threadPool.hpp): the *)
(* caller splits a range of indices into blocks, pushes one task per block *)
(* and spins until the counter blocks_running is back at zero, while the   *)
(* workers of the pool run the blocks.                                     *)
(*                                                                         *)
(* The pool is not paused and runs every task it is given, at any time     *)
(* after the push (module ThreadPool).                                     *)
(***************************************************************************)
EXTENDS Integers, FiniteSets

CONSTANTS
  MinIndex, MaxIndex,  \* bounds of the arguments first_index, index_after_last
  MaxBlocks            \* bound on the argument num_blocks and on thread_count

LoopAssumption == MinIndex \in Int /\ MaxIndex \in Int /\ MaxBlocks \in Nat

IndexRange == MinIndex..MaxIndex
BlockNo == 0..MaxBlocks-1

VARIABLES
  first_index, index_after_last,  \* the arguments
  requested,        \* the argument num_blocks, thread_count when it is 0
  the_first_index, last_index, num_blocks, block_size,  \* the local variables
  t,                \* the loop variable
  blocks_running,   \* std::atomic<ui32> blocks_running
  block,            \* per block: "none", "counted", "queued", "running", "ran", "done"
  visits,           \* how often loop has been applied to each index
  loopPc            \* where the caller is

args     == <<first_index, index_after_last, requested>>
locals   == <<the_first_index, last_index, num_blocks, block_size>>
loopVars == <<args, locals, t, blocks_running, block, visits, loopPc>>

-----------------------------------------------------------------------------
LowerOf(a, b) == IF b < a THEN b ELSE a
UpperOf(a, b) == IF b < a THEN a ELSE b

\* Everything before the loop: the indices are put in order, and when there are
\* fewer of them than blocks every index becomes a block.
Enter ==
  /\ loopPc = "call"
  /\ IF first_index = index_after_last
     THEN loopPc' = "returned" /\ UNCHANGED locals
     ELSE LET total_size == UpperOf(first_index, index_after_last)
                              - LowerOf(first_index, index_after_last) IN
          /\ the_first_index' = LowerOf(first_index, index_after_last)
          /\ last_index' = UpperOf(first_index, index_after_last) - 1
          /\ block_size' = IF total_size < requested THEN 1
                                                     ELSE total_size \div requested
          /\ num_blocks' = IF total_size < requested THEN total_size ELSE requested
          /\ loopPc' = "count"
  /\ UNCHANGED <<args, t, blocks_running, block, visits>>

\* The arguments start and end of block b.
BlockStart(b) == b * block_size + the_first_index

\* Mutant: the last block does not take the remainder.
BlockEndEven(b) == (b + 1) * block_size + the_first_index

BlockEnd(b) == IF b = num_blocks - 1 THEN last_index + 1
                                     ELSE (b + 1) * block_size + the_first_index

BlockIndices(b) == BlockStart(b)..BlockEnd(b)-1

\* One iteration of the loop, first half: blocks_running++.
CountBlock ==
  /\ loopPc = "count"
  /\ IF t < num_blocks
     THEN /\ blocks_running' = blocks_running + 1
          /\ block' = [block EXCEPT ![t] = "counted"]
          /\ loopPc' = "push"
     ELSE /\ loopPc' = "wait"
          /\ UNCHANGED <<blocks_running, block>>
  /\ UNCHANGED <<args, locals, t, visits>>

\* One iteration of the loop, second half: push_task.
PushBlock ==
  /\ loopPc = "push"
  /\ block' = [block EXCEPT ![t] = "queued"]
  /\ t' = t + 1
  /\ loopPc' = "count"
  /\ UNCHANGED <<args, locals, blocks_running, visits>>

\* A worker takes the block from the queue.
StartBlock(b) ==
  /\ block[b] = "queued"
  /\ block' = [block EXCEPT ![b] = "running"]
  /\ UNCHANGED <<args, locals, t, blocks_running, visits, loopPc>>

\* It runs loop(start, end).
RunBlock(b) ==
  /\ block[b] = "running"
  /\ visits' = [i \in IndexRange |-> IF i \in BlockIndices(b) THEN visits[i] + 1
                                                              ELSE visits[i]]
  /\ block' = [block EXCEPT ![b] = "ran"]
  /\ UNCHANGED <<args, locals, t, blocks_running, loopPc>>

\* Mutant: the task does not count itself down.
FinishBlockSilently(b) ==
  /\ block[b] = "ran"
  /\ block' = [block EXCEPT ![b] = "done"]
  /\ UNCHANGED <<args, locals, t, blocks_running, visits, loopPc>>

\* The worker goes on with blocks_running--.
FinishBlock(b) ==
  /\ block[b] = "ran"
  /\ blocks_running' = blocks_running - 1
  /\ block' = [block EXCEPT ![b] = "done"]
  /\ UNCHANGED <<args, locals, t, visits, loopPc>>

\* The caller reads blocks_running as 0.
WaitForBlocks ==
  /\ loopPc = "wait"
  /\ blocks_running = 0
  /\ loopPc' = "returned"
  /\ UNCHANGED <<args, locals, t, blocks_running, block, visits>>

-----------------------------------------------------------------------------
LoopInit ==
  /\ first_index \in IndexRange /\ index_after_last \in IndexRange
  /\ requested \in 1..MaxBlocks
  /\ the_first_index = 0 /\ last_index = 0 /\ num_blocks = 0 /\ block_size = 0
  /\ t = 0 /\ blocks_running = 0
  /\ block = [b \in BlockNo |-> "none"]
  /\ visits = [i \in IndexRange |-> 0]
  /\ loopPc = "call"

Caller == Enter \/ CountBlock \/ PushBlock \/ WaitForBlocks
Worker(b) == StartBlock(b) \/ RunBlock(b) \/ FinishBlock(b)

LoopNext == Caller \/ \E b \in BlockNo : Worker(b)

LoopSpec == LoopInit /\ [][LoopNext]_loopVars

\* The caller runs, and the pool runs every task that was pushed.
LoopFairSpec == /\ LoopSpec
                /\ WF_loopVars(Caller)
                /\ \A b \in BlockNo : WF_loopVars(Worker(b))

-----------------------------------------------------------------------------
(* Properties.                                                             *)

\* Every variable keeps its type; in particular no more blocks are made than
\* were asked for, and blocks_running does not fall below zero.
LoopTypeOK ==
  /\ first_index \in IndexRange /\ index_after_last \in IndexRange
  /\ requested \in 1..MaxBlocks
  /\ the_first_index \in Int /\ last_index \in Int
  /\ num_blocks \in 0..requested /\ block_size \in Nat
  /\ t \in 0..num_blocks /\ blocks_running \in 0..MaxBlocks
  /\ block \in [BlockNo -> {"none", "counted", "queued", "running", "ran", "done"}]
  /\ visits \in [IndexRange -> Nat]
  /\ loopPc \in {"call", "count", "push", "wait", "returned"}

\* The indices between the two arguments, whichever of them is the larger.
Between == LowerOf(first_index, index_after_last) ..
             UpperOf(first_index, index_after_last) - 1

\* When parallelize_loop returns, loop has been applied exactly once to every
\* index between the arguments and to no other.
EachIndexOnce ==
  loopPc = "returned" =>
    \A i \in IndexRange : visits[i] = IF i \in Between THEN 1 ELSE 0

\* At no time has an index been visited twice or one outside the arguments been
\* visited at all: the blocks do not overlap.
BlocksApart ==
  \A i \in IndexRange : visits[i] <= IF i \in Between THEN 1 ELSE 0

\* When parallelize_loop returns, no task is left that would still read loop or
\* count down blocks_running: both are captured by reference, and the counter is
\* a local variable of the call.
NoBlockOutlivesCall ==
  loopPc = "returned" => \A b \in BlockNo : block[b] \in {"none", "done"}

(* parallelize_loop applies loop exactly once to every index, at no time   *)
(* twice, and leaves no block that uses its local variables.               *)
LoopExact == LoopTypeOK /\ EachIndexOnce /\ BlocksApart /\ NoBlockOutlivesCall

\* parallelize_loop returns.
LoopReturns == <>(loopPc = "returned")
=============================================================================
