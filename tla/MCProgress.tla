----------------------------- MODULE MCProgress -----------------------------
(***************************************************************************)
(* One run for what has to happen in the end: the tree gets built and      *)
(* searched, the pool runs its tasks, parallelize_loop and the rounds of   *)
(* the parallel search return, and LevelDB answers its writers.  The       *)
(* variable part says which component takes the steps of a behaviour, the  *)
(* others rest in an initial state; fairness is each component's own.      *)
(***************************************************************************)
EXTENDS ParallelLoop, ParallelSearch, SequencesExt, TLC

CONSTANTS Bit, Value, HashPos, File, Memory, Ratio, MaxLeaves, MaxNodes,
          Thread, Main, MaxChecks
VARIABLES nodes, below, leafNodes, level, levelNodes, root, phase, search, value,
          stack, names, foundInHierarchy, asked
Tree == INSTANCE BloomTree

CONSTANTS Task, NoTask, Client, MaxThreads, Modulus
VARIABLES tasks, tasks_total, paused, running, thread_count, worker, held, future,
          submitting, owner, after, next, was_paused, seen, pushed, popped, atCall
Pool == INSTANCE ThreadPool

CONSTANTS Writer, BufferSize, Trigger, StopWrites, MaxGroup, Budgets
VARIABLES disk, dbPhase, vs, mem, imm, memdata, pending, bg_error, queue, wr,
          group, bg, garbage, opening, reader, acked, safe, atRisk, budget
DB == INSTANCE Store WITH phase <- dbPhase

(* What the proofs about parallelize_loop and the search rounds assume. *)
ASSUME ProgressAssumption == LoopAssumption /\ SearchAssumption

VARIABLE part

treeVars == <<nodes, below, leafNodes, level, levelNodes, root, phase, search,
              value, stack, names, foundInHierarchy, asked>>
poolVars == <<tasks, tasks_total, paused, running, thread_count, worker, held,
              future, submitting, owner, after, next, was_paused, seen, pushed,
              popped, atCall>>
storeVars == <<disk, dbPhase, vs, mem, imm, memdata, pending, bg_error, queue, wr,
               group, bg, garbage, opening, reader, acked, safe, atRisk, budget>>
vars == <<part, treeVars, poolVars, loopVars, parallelVars, storeVars>>

-----------------------------------------------------------------------------
Init ==
  /\ part \in {"tree", "pool", "loop", "rounds", "store"}
  /\ Tree!Init /\ SearchInit
  /\ DB!Init /\ (part # "store" => budget.errors = 0)
  /\ Pool!Init /\ (part # "pool" => thread_count = 1)
  /\ LoopInit
  /\ (part # "loop" => first_index = MaxIndex /\ index_after_last = MaxIndex
                       /\ requested = 1)

(* The tasks of the pool differ in their names only: it is enough that they *)
(* are submitted in one order, and that only the first of them throws.     *)
Tasks  == SetToSeq(Task)
InTurn ==
  /\ \A n \in 2..Len(Tasks) : future[Tasks[n]] # "none" => future[Tasks[n - 1]] # "none"
  /\ \A n \in 1..Len(Tasks) : future[Tasks[n]] # IF n = 1 THEN "value" ELSE "exception"

(* A step A of component p, in which the others rest. *)
Only(p, A) == part = p /\ A /\ UNCHANGED part
OfTree(A)   == Only("tree", A)
                 /\ UNCHANGED <<poolVars, loopVars, parallelVars, storeVars>>
OfPool(A)   == Only("pool", A) /\ InTurn'
                 /\ UNCHANGED <<treeVars, loopVars, parallelVars, storeVars>>
OfLoop(A)   == Only("loop", A)
                 /\ UNCHANGED <<treeVars, poolVars, parallelVars, storeVars>>
OfRounds(A) == Only("rounds", A)
                 /\ UNCHANGED <<treeVars, poolVars, loopVars, storeVars>>
OfStore(A)  == Only("store", A)
                 /\ UNCHANGED <<treeVars, poolVars, loopVars, parallelVars>>

Next ==
  \/ OfTree(Tree!Next) \/ OfPool(Pool!Next) \/ OfLoop(LoopNext)
  \/ OfRounds(SearchNext) \/ OfStore(DB!Next)

(* The threads of each component, numbered.  No behaviour has steps of two *)
(* components, so weak fairness for every number is the fairness of        *)
(* BloomTree, ThreadPool, ParallelLoop, ParallelSearch and Store.          *)
Readers == SetToSeq(Tree!Reader)
Clients == SetToSeq(Client)
Writers == SetToSeq(Writer)

TreeThread(n) ==
  \/ n = 0 /\ Tree!Build
  \/ n \in DOMAIN Readers /\ (Tree!Visit(Readers[n]) \/ Tree!Return(Readers[n]))
PoolThread(n) ==
  \/ n \in Pool!Index /\ Pool!WorkerStep(n)
  \/ n = 2 /\ Pool!OwnerStep
  \/ n - 2 \in DOMAIN Clients /\ Pool!Push(Clients[n - 2])
LoopThread(n) ==
  \/ n \in BlockNo /\ Worker(n)
  \/ n = 4 /\ Caller
RoundsThread(n) ==
  \/ n \in Chunk /\ TaskStep(n)
  \/ n = 4 /\ MainStep
StoreThread(n) ==
  \/ n \in DOMAIN Writers /\ DB!WriterStep(Writers[n])
  \/ n = 0 /\ DB!BackgroundStep
  \/ n = 3 /\ DB!RemoveFile
  \/ n = 4 /\ DB!Closed

ThreadStep(n) ==
  /\ UNCHANGED part
  /\ CASE part = "tree"   -> TreeThread(n)
       [] part = "pool"   -> PoolThread(n)
       [] part = "loop"   -> LoopThread(n)
       [] part = "rounds" -> RoundsThread(n)
       [] part = "store"  -> StoreThread(n)

moving ==
  CASE part = "tree"   -> treeVars
    [] part = "pool"   -> poolVars
    [] part = "loop"   -> loopVars
    [] part = "rounds" -> parallelVars
    [] part = "store"  -> storeVars

FairSpec == Init /\ [][Next]_vars /\ \A n \in 0..4 : WF_moving(ThreadStep(n))

-----------------------------------------------------------------------------
(* Properties, as the modules define them.                                 *)

(* createTree, checkExistance and checkExistanceThread return: createLevel *)
(* gets fewer nodes with each call, and a search goes down only.           *)
TreeCallsReturn == Tree!TreeGetsBuilt /\ Tree!SearchesEnd

\* While the pool is not paused for good, every task that submit took is run.
FuturesGetReady == Pool!FuturesGetReady
\* wait_for_tasks, reset and the destructor of the pool return.
CallsReturn == part = "pool" => Pool!CallsReturn

(* parallelize_loop returns, and so do the rounds of the parallel search,  *)
(* after which the tree is deleted.                                        *)
ParallelCallsReturn ==
  /\ part = "loop" => LoopReturns
  /\ part = "rounds" => SearchEnds

(* DBImpl::Write returns, also when the memtable is full or a write fails, *)
(* and so does the destructor of DBImpl.                                   *)
StoreCallsReturn == DB!WriteReturns /\ DB!CloseReturns

-----------------------------------------------------------------------------
(* Constants: one bit, which the value needs, so that a search goes down a *)
(* tree or stops at its root.  The indices of the loop may be signed.      *)

MCBit == {0}
MCHashPos == [v \in Value |-> [k \in 0..2 |-> 0]]
MCMinIndex == -1
MCThreads == <<1, 2, 4, 8>>
MCBudgets == {[writes |-> 3, opens |-> 1, reads |-> 0, crashes |-> 0, errors |-> 0],
              [writes |-> 2, opens |-> 1, reads |-> 0, crashes |-> 0, errors |-> 1]}
=============================================================================
