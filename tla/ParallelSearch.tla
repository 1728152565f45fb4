--------------------------- MODULE ParallelSearch ---------------------------
(***************************************************************************)
(* CheckInHierarchyMultiplyValueForThreads and ...ForOneThread             *)
(* (src/bloom_hierarchy/dbOperation.cpp), dbThreadPoolInit                 *)
(* (dbThreadPool.hpp) and the end of MainFlowMultiplyValues (main.cpp):    *)
(* for each number of threads a new pool replaces the old one, the list of *)
(* values is cut into one chunk per thread, each chunk is submitted as a   *)
(* task, and the main thread waits for the futures; at the end the tree is *)
(* deleted.                                                                *)
(*                                                                         *)
(* The pool is used through PoolContract, which ThreadPool implements.     *)
(* The search of one value only reads the tree (module BloomTree); what    *)
(* matters here is that it may throw, when a Bloom file cannot be opened.  *)
(***************************************************************************)
EXTENDS Integers, Sequences, FiniteSets

CONSTANTS
  Threads,   \* the array threads: the numbers of threads that are tried
  HardwareConcurrency,
  DataSize   \* valuesToFind.size()

\* What the code gives: threads has only positive numbers.
SearchAssumption ==
  /\ Threads \in Seq(Nat \ {0})
  /\ HardwareConcurrency \in Nat /\ DataSize \in Nat

Position == 0..DataSize-1
Chunk == 0..HardwareConcurrency-1

VARIABLES
  round,        \* the position in the array threads
  threadNmb,    \* the number of threads of the current round, 0 before the first
  searchPc,     \* where the main thread is
  i,            \* its loop variable: chunks submitted, futures waited for
  status,       \* the futures of the current pool
  closed,       \* dbThreadPool holds no pool
  position,     \* per task: the loop variable i of the lambda f1
  searches,     \* per value: how often it has been searched in this round
  treeDeleted   \* delete treeHierarchy has happened

Futures == INSTANCE PoolContract WITH Task <- Chunk

mainVars == <<round, threadNmb, searchPc, i>>
futureVars == <<status, closed>>
parallelVars == <<mainVars, futureVars, position, searches, treeDeleted>>

-----------------------------------------------------------------------------
(* The chunks.                                                             *)

ChunkSize == DataSize \div threadNmb

ChunkStart(c) == c * ChunkSize

\* Mutant: the last chunk is as long as the others.
ChunkEndEven(c) == ChunkStart(c) + ChunkSize

ChunkEnd(c) == IF c = threadNmb - 1 THEN DataSize ELSE ChunkStart(c) + ChunkSize

-----------------------------------------------------------------------------
(* The main thread.                                                        *)

\* The loop over threads: dbThreadPoolInit makes a pool of t threads, and the
\* destructor of the old pool, which is not paused, lets its tasks finish.
StartRound ==
  /\ searchPc = "rounds" /\ round <= Len(Threads)
  /\ IF Threads[round] <= HardwareConcurrency
     THEN /\ \A c \in Chunk : status[c] # "pending"
          /\ threadNmb' = Threads[round]
          /\ status' = [c \in Chunk |-> "none"]
          /\ closed' = FALSE
          /\ position' = [c \in Chunk |-> 0]
          /\ searches' = [p \in Position |-> 0]
          /\ searchPc' = "submit" /\ i' = 0
          /\ UNCHANGED round
     ELSE /\ round' = round + 1
          /\ UNCHANGED <<threadNmb, searchPc, i, futureVars, position, searches>>
  /\ UNCHANGED treeDeleted

\* One iteration of the submitting loop.
SubmitChunk ==
  /\ searchPc = "submit" /\ i < threadNmb
  /\ Futures!SubmitTask(i)
  /\ position' = [position EXCEPT ![i] = ChunkStart(i)]
  /\ i' = i + 1
  /\ UNCHANGED <<round, threadNmb, searchPc, searches, treeDeleted>>

EndSubmit ==
  /\ searchPc = "submit" /\ i = threadNmb
  /\ searchPc' = "wait" /\ i' = 0
  /\ UNCHANGED <<round, threadNmb, futureVars, position, searches, treeDeleted>>

\* task.wait(): the future is ready; an exception in it is not looked at.
WaitFuture ==
  /\ searchPc = "wait" /\ i < threadNmb
  /\ status[i] # "pending"
  /\ i' = i + 1
  /\ UNCHANGED <<round, threadNmb, searchPc, futureVars, position, searches, treeDeleted>>

\* All futures are ready: the time is logged and the next round begins.
EndRound ==
  /\ searchPc = "wait" /\ i = threadNmb
  /\ searchPc' = "rounds" /\ round' = round + 1
  /\ UNCHANGED <<threadNmb, i, futureVars, position, searches, treeDeleted>>

\* delete treeHierarchy in MainFlowMultiplyValues; dbThreadPool lives on.
DeleteTree ==
  /\ searchPc = "rounds" /\ round > Len(Threads)
  /\ searchPc' = "end"
  /\ treeDeleted' = TRUE
  /\ UNCHANGED <<round, threadNmb, i, futureVars, position, searches>>

MainStep == StartRound \/ SubmitChunk \/ EndSubmit \/ WaitFuture \/ EndRound \/ DeleteTree

-----------------------------------------------------------------------------
(* The tasks: the lambda f1.                                               *)

\* One iteration: checkExistanceThread and the search in the files it names.
SearchValue(c) ==
  /\ status[c] = "pending" /\ position[c] < ChunkEnd(c)
  /\ searches' = [searches EXCEPT ![position[c]] = @ + 1]
  /\ position' = [position EXCEPT ![c] = @ + 1]
  /\ UNCHANGED <<mainVars, futureVars, treeDeleted>>

\* loadFromFile throws: the loop ends, and the future gets the exception.
SearchThrows(c) ==
  /\ status[c] = "pending" /\ position[c] < ChunkEnd(c)
  /\ Futures!FinishTask(c, "exception")
  /\ UNCHANGED <<mainVars, position, searches, treeDeleted>>

\* The loop is through.
EndChunk(c) ==
  /\ status[c] = "pending" /\ position[c] >= ChunkEnd(c)
  /\ Futures!FinishTask(c, "value")
  /\ UNCHANGED <<mainVars, position, searches, treeDeleted>>

TaskStep(c) == SearchValue(c) \/ SearchThrows(c) \/ EndChunk(c)

-----------------------------------------------------------------------------
SearchInit ==
  /\ round = 1 /\ threadNmb = 0 /\ searchPc = "rounds" /\ i = 0
  /\ status = [c \in Chunk |-> "none"] /\ closed = TRUE
  /\ position = [c \in Chunk |-> 0]
  /\ searches = [p \in Position |-> 0]
  /\ treeDeleted = FALSE

SearchNext == MainStep \/ \E c \in Chunk : TaskStep(c)

SearchSpec == SearchInit /\ [][SearchNext]_parallelVars

\* The main thread runs, and the pool runs every task it is given.
SearchFairSpec == /\ SearchSpec
                  /\ WF_parallelVars(MainStep)
                  /\ \A c \in Chunk : WF_parallelVars(TaskStep(c))

-----------------------------------------------------------------------------
(* Properties.                                                             *)

\* Every variable keeps its type; in particular the loop of a task never leaves
\* the list of values.
SearchTypeOK ==
  /\ round \in 1..Len(Threads)+1
  /\ threadNmb \in 0..HardwareConcurrency
  /\ searchPc \in {"rounds", "submit", "wait", "end"}
  /\ i \in 0..threadNmb
  /\ status \in [Chunk -> {"none", "pending", "value", "exception", "broken"}]
  /\ closed \in BOOLEAN /\ treeDeleted \in BOOLEAN
  /\ position \in [Chunk -> 0..DataSize]
  /\ searches \in [Position -> Nat]

\* The chunk of value p ended with an exception.
ChunkFailed(p) ==
  \E c \in 0..threadNmb-1 :
    ChunkStart(c) <= p /\ p < ChunkEnd(c) /\ status[c] = "exception"

\* When a round is over, each value has been searched exactly once, or it has
\* not been searched and its chunk ended with an exception, which nobody sees:
\* no value is lost or searched twice for any number of threads, more threads
\* than values included.
RoundCoversValues ==
  searchPc = "rounds" /\ threadNmb > 0 =>
    \A p \in Position : searches[p] = 1 \/ (searches[p] = 0 /\ ChunkFailed(p))

\* No value is searched by two tasks of a round.
ChunksApart == \A p \in Position : searches[p] <= 1

\* No task is left that would read the tree after it has been deleted, and the
\* pool of a round is destroyed only when its tasks are done.
NoTaskOutlivesRound ==
  treeDeleted \/ searchPc = "rounds" => \A c \in Chunk : status[c] # "pending"

(* A round of the parallel search searches every value once, but for the   *)
(* chunks that threw, and leaves no task that uses the pool or the tree.   *)
RoundsExact ==
  SearchTypeOK /\ RoundCoversValues /\ ChunksApart /\ NoTaskOutlivesRound

\* All rounds end, and the tree is deleted.
SearchEnds == <>treeDeleted
=============================================================================
