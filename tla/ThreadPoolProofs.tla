-------------------------- MODULE ThreadPoolProofs --------------------------
(***************************************************************************)
(* Proofs about ThreadPool, for every set of clients and of tasks, every   *)
(* number of threads and every modulus above the number of tasks.  IInv is *)
(* the inductive invariant of the pool; the order of the queue (Logged)    *)
(* and the promises (Kept) are invariants relative to it.                  *)
(***************************************************************************)
EXTENDS ThreadPool, FiniteSetTheorems, SequenceTheorems, TLAPS

\* Below the modulus, unsigned arithmetic is exact.
LEMMA WrapSmall ==
  ASSUME NEW n \in Nat, n < Modulus
  PROVE  Wrap(n) = n
BY PoolAssumption DEF Wrap

\* An unsigned result is below the modulus.
LEMMA WrapType ==
  ASSUME NEW n \in Int
  PROVE  Wrap(n) \in 0..Modulus-1
<1>1. Modulus \in Nat /\ Modulus > 0
  BY PoolAssumption, FS_CardinalityType
<1> QED BY <1>1 DEF Wrap

\* A worker holds a task exactly while it runs it or has not counted it down.
Busy == \A w \in Index : held[w] # NoTask <=> worker[w] \in {"run", "ran"}

\* The variables have their types in the initial state.
LEMMA InitType == Init => TypeOK
<1> SUFFICES ASSUME Init PROVE TypeOK
  OBVIOUS
<1>1. Modulus \in Nat /\ Modulus > 0
  BY PoolAssumption, FS_CardinalityType
<1>2. <<>> \in Seq(Task)
  BY Zenon, EmptySeq
<1>3. 0 \in 0..MaxThreads /\ MaxThreads \in Nat
  BY PoolAssumption
<1>4. /\ worker \in [Index -> WorkerPc]
      /\ held \in [Index -> Task \cup {NoTask}]
      /\ future \in [Task -> {"none", "pending", "value", "exception", "broken"}]
      /\ submitting \in [Client -> Task \cup {NoTask}]
  BY Zenon DEF Init, WorkerPc
<1>5. tasks_total \in 0..Modulus-1 /\ next \in 0..MaxThreads /\ seen \in Nat
  BY <1>1, <1>3 DEF Init
<1> QED BY Zenon, <1>2, <1>4, <1>5 DEF Init, TypeOK, OwnerPc

\* Every step keeps the types.
LEMMA NextType == TypeOK /\ Busy /\ [Next]_vars => TypeOK'
<1> SUFFICES ASSUME TypeOK, Busy, [Next]_vars PROVE TypeOK'
  OBVIOUS
<1> USE DEF TypeOK
<1>0. 0 \in 0..MaxThreads /\ MaxThreads \in Nat
  BY PoolAssumption
<1>1. ASSUME NEW c \in Client, NEW t \in Task, Submit(c, t) PROVE TypeOK'
  <2>1. tasks_total' \in 0..Modulus-1
    BY <1>1, WrapType DEF Submit
  <2> QED BY Zenon, <1>1, <2>1 DEF Submit, ownerVars, history
<1>2. ASSUME NEW c \in Client, Push(c) PROVE TypeOK'
  <2>1. submitting[c] \in Task
    BY Zenon, <1>2 DEF Push
  <2>2. tasks' \in Seq(Task) /\ pushed' \in Seq(Task)
    BY Zenon, <1>2, <2>1, AppendProperties DEF Push
  <2> QED BY Zenon, <1>2, <2>2 DEF Push, workerVars, ownerVars
<1>3. ASSUME NEW w \in Index, ReadRunning(w) PROVE TypeOK'
  BY Zenon, <1>3 DEF ReadRunning, poolVars, ownerVars, history, WorkerPc
<1>4. ASSUME NEW w \in Index, ReadPaused(w) PROVE TypeOK'
  BY Zenon, <1>4 DEF ReadPaused, poolVars, ownerVars, history, WorkerPc
<1>5. ASSUME NEW w \in Index, PopTask(w) PROVE TypeOK'
  <2>1. CASE tasks = <<>>
    BY Zenon, <1>5, <2>1 DEF PopTask, ownerVars, WorkerPc
  <2>2. CASE tasks # <<>>
    <3>1. Head(tasks) \in Task /\ Tail(tasks) \in Seq(Task)
      BY Zenon, <2>2, HeadTailProperties
    <3>2. Append(popped, Head(tasks)) \in Seq(Task)
      BY Zenon, <3>1, AppendProperties
    <3> QED BY Zenon, <1>5, <2>2, <3>1, <3>2 DEF PopTask, ownerVars, WorkerPc
  <2> QED BY Zenon, <2>1, <2>2
<1>6. ASSUME NEW w \in Index, RunTask(w) PROVE TypeOK'
  BY Zenon, <1>6 DEF RunTask, poolVars, ownerVars, history, WorkerPc
<1>7. ASSUME NEW w \in Index, CountDown(w) PROVE TypeOK'
  <2>1. tasks_total' \in 0..Modulus-1
    BY <1>7, WrapType DEF CountDown
  <2> QED BY Zenon, <1>7, <2>1 DEF CountDown, ownerVars, history, WorkerPc
<1>8. ASSUME NEW b \in BOOLEAN, SetPaused(b) PROVE TypeOK'
  BY Zenon, <1>8 DEF SetPaused, workerVars, ownerVars, history
<1>9. CASE CallWait
  <2>1. atCall' \subseteq Task
    BY Zenon, <1>9 DEF CallWait, Busy
  <2> QED BY Zenon, <1>9, <2>1 DEF CallWait, poolVars, workerVars, queueLog, OwnerPc
<1>10. CASE CallReset
  BY Zenon, <1>10 DEF CallReset, workerVars, history, OwnerPc
<1>11. CASE CallDestroy
  BY Zenon, <1>11 DEF CallDestroy, poolVars, workerVars, history, OwnerPc
<1>12. CASE CreateThread
  <2>1. CASE next < thread_count
    <3>1. next \in Index /\ next + 1 \in 0..MaxThreads
      BY SMTT(40), <2>1, PoolAssumption DEF Index
    <3> QED BY Zenon, <1>12, <2>1, <3>1 DEF CreateThread, poolVars, history, WorkerPc
  <2>2. CASE ~ (next < thread_count)
    BY Zenon, <1>12, <2>2 DEF CreateThread, poolVars, history, OwnerPc
  <2> QED BY Zenon, <2>1, <2>2
<1>13. CASE WaitReadPaused \/ WaitReadTotal
  BY <1>13 DEF WaitReadPaused, WaitReadTotal, poolVars, workerVars, history, OwnerPc
<1>14. CASE RunningReadFirst
  <2>1. Len(tasks) \in Nat /\ tasks_total \in Nat
    BY LenProperties
  <2> QED BY Zenon, <1>14, <2>1 DEF RunningReadFirst, poolVars, workerVars, history, OwnerPc
<1>15. CASE RunningReadSecond
  BY Zenon, <1>15 DEF RunningReadSecond, poolVars, workerVars, history, OwnerPc
<1>16. CASE Waited
  BY Zenon, <1>16, <1>0 DEF Waited, workerVars, queueLog, OwnerPc
<1>17. CASE JoinThread
  <2>1. next \in Index /\ next + 1 \in 0..MaxThreads
    BY SMTT(40), <1>17, PoolAssumption DEF JoinThread, Index
  <2> QED BY Zenon, <1>17, <2>1 DEF JoinThread, poolVars, history, WorkerPc
<1>18. CASE Destroyed
  BY Zenon, <1>18, EmptySeq DEF Destroyed, history, OwnerPc
<1>19. ASSUME NEW n \in 1..MaxThreads, Restart(n) PROVE TypeOK'
  BY Zenon, <1>19, <1>0 DEF Restart, workerVars, history, OwnerPc
<1>20. CASE UNCHANGED vars
  BY Zenon, <1>20 DEF vars, poolVars, workerVars, ownerVars, history
<1> QED
  BY ZenonT(40), <1>1, <1>2, <1>3, <1>4, <1>5, <1>6, <1>7, <1>8, <1>9, <1>10, <1>11, <1>12,
     <1>13, <1>14, <1>15, <1>16, <1>17, <1>18, <1>19, <1>20
  DEF Next, WorkerStep, OwnerStep
-----------------------------------------------------------------------------
(* The inductive invariant.  A task is in at most one place (on its way    *)
(* into the queue, in it, or in a worker), its promise tells where, and    *)
(* the owner's position says which threads exist.                          *)

\* The promise of a task that has not run is pending.
Placed ==
  /\ \A c \in Client : submitting[c] # NoTask => future[submitting[c]] = "pending"
  /\ \A i \in 1..Len(tasks) : future[tasks[i]] = "pending"
  /\ \A w \in Index : worker[w] = "run" => future[held[w]] = "pending"
  /\ \A w \in Index : worker[w] = "ran" => future[held[w]] \in {"value", "exception"}

\* No task is in two places.
Apart ==
  /\ \A c, d \in Client : submitting[c] # NoTask /\ submitting[c] = submitting[d] => c = d
  /\ \A i, j \in 1..Len(tasks) : tasks[i] = tasks[j] => i = j
  /\ \A v, w \in Index : held[v] # NoTask /\ held[v] = held[w] => v = w
  /\ \A c \in Client, i \in 1..Len(tasks) : submitting[c] # tasks[i]
  /\ \A c \in Client, w \in Index : submitting[c] # NoTask => submitting[c] # held[w]
  /\ \A i \in 1..Len(tasks), w \in Index : tasks[i] # held[w]

\* A pending task is in some place.
Found == \A t \in Task : future[t] = "pending" => t \in Unfinished

\* What the owner's position says of its call and of the threads.
Phase ==
  /\ owner \in {"create", "idle"} => after = "idle"
  /\ owner = "join" => after # "idle"
  /\ owner = "gone" => after = "destroy"
  /\ after = "destroy" => \A c \in Client : submitting[c] = NoTask
  /\ owner \in {"waitRunning", "haveTotal", "haveQueued"} => paused = TRUE
  /\ \A w \in Index : w >= thread_count => worker[w] = "none"
  /\ owner \in {"create", "join"} => next <= thread_count
  /\ owner = "create" => \A w \in Index : w >= next => worker[w] = "none"
  /\ owner = "join" => \A w \in Index : w < next => worker[w] = "none"
  /\ owner = "gone" => \A w \in Index : worker[w] = "none"

\* A destructor that is past wait_for_tasks has nothing left to run, unless the
\* pool is paused.
Drained ==
  after = "destroy" /\ owner \in {"waited", "join", "gone"} /\ paused = FALSE
    => Unfinished = {}

IInv == /\ TypeOK /\ Busy /\ Placed /\ Apart /\ Found
        /\ TasksTotalExact /\ Phase /\ Drained

-----------------------------------------------------------------------------
(* The set Unfinished.                                                     *)

\* Who is in Unfinished.
LEMMA Members ==
  ASSUME TypeOK, NEW t
  PROVE  t \in Unfinished
         <=> /\ t \in Task
             /\ \/ \E c \in Client : submitting[c] = t
                \/ \E i \in 1..Len(tasks) : tasks[i] = t
                \/ \E w \in Index : held[w] = t
<1>1. \A i \in 1..Len(tasks) : tasks[i] \in Task
  BY Zenon, ElementOfSeq DEF TypeOK
<1>2. /\ submitting \in [Client -> Task \cup {NoTask}]
      /\ held \in [Index -> Task \cup {NoTask}]
      /\ NoTask \notin Task
  BY Zenon, PoolAssumption DEF TypeOK
<1> QED BY Zenon, <1>1, <1>2 DEF Unfinished, Submitting, InWorkers, ToTask

\* Who is in Unfinished after a step.
LEMMA MembersNext ==
  ASSUME TypeOK', NEW t
  PROVE  t \in Unfinished'
         <=> /\ t \in Task
             /\ \/ \E c \in Client : submitting'[c] = t
                \/ \E i \in 1..Len(tasks') : tasks'[i] = t
                \/ \E w \in Index : held'[w] = t
<1>1. \A i \in 1..Len(tasks') : tasks'[i] \in Task
  BY Zenon, ElementOfSeq DEF TypeOK
<1>2. /\ submitting' \in [Client -> Task \cup {NoTask}]
      /\ held' \in [Index -> Task \cup {NoTask}]
      /\ NoTask \notin Task
  BY PoolAssumption DEF TypeOK
<1> QED BY Zenon, <1>1, <1>2 DEF Unfinished, Submitting, InWorkers, ToTask

\* Unfinished is finite, and smaller than the modulus.
LEMMA UnfinishedFinite ==
  ASSUME TypeOK
  PROVE  /\ IsFiniteSet(Unfinished)
         /\ Cardinality(Unfinished) \in Nat
         /\ Cardinality(Unfinished) < Modulus
<1>1. Unfinished \subseteq Task
  BY Zenon, Members
<1>2. IsFiniteSet(Unfinished) /\ Cardinality(Unfinished) <= Cardinality(Task)
  BY <1>1, FS_Subset, PoolAssumption
<1>3. Cardinality(Unfinished) \in Nat /\ Cardinality(Task) \in Nat
  BY Zenon, <1>2, FS_CardinalityType, PoolAssumption
<1> QED BY <1>2, <1>3, PoolAssumption

\* The same after a step.
LEMMA UnfinishedFiniteNext ==
  ASSUME TypeOK'
  PROVE  /\ IsFiniteSet(Unfinished')
         /\ Cardinality(Unfinished') \in Nat
         /\ Cardinality(Unfinished') < Modulus
<1>1. Unfinished' \subseteq Task
  BY Zenon, MembersNext
<1>2. IsFiniteSet(Unfinished') /\ Cardinality(Unfinished') <= Cardinality(Task)
  BY Zenon, <1>1, FS_Subset, PoolAssumption
<1>3. Cardinality(Unfinished') \in Nat /\ Cardinality(Task) \in Nat
  BY Zenon, <1>2, FS_CardinalityType, PoolAssumption
<1> QED BY <1>2, <1>3, PoolAssumption
-----------------------------------------------------------------------------
(* The actions that move a task.                                           *)

Rest == Busy /\ Placed /\ Apart /\ Found /\ TasksTotalExact /\ Phase /\ Drained

\* Phase is about the owner, and about which threads exist.
LEMMA PhaseStays ==
  ASSUME Phase, UNCHANGED <<paused, thread_count, owner, after, next>>,
         \A c \in Client : submitting[c] = NoTask => submitting'[c] = NoTask,
         \A w \in Index : worker[w] = "none" => worker'[w] = "none"
  PROVE  Phase'
<1>1. /\ \A w \in Index : w >= thread_count => worker'[w] = "none"
      /\ owner = "create" => \A w \in Index : w >= next => worker'[w] = "none"
      /\ owner = "join" => \A w \in Index : w < next => worker'[w] = "none"
      /\ owner = "gone" => \A w \in Index : worker'[w] = "none"
      /\ after = "destroy" => \A c \in Client : submitting'[c] = NoTask
  BY Zenon DEF Phase
<1>2. /\ paused' = paused /\ thread_count' = thread_count
      /\ owner' = owner /\ after' = after /\ next' = next
  OBVIOUS
<1> QED BY Zenon, <1>1, <1>2 DEF Phase

\* submit counts a task that was in no place.
LEMMA SubmitInv ==
  ASSUME IInv, TypeOK', NEW c \in Client, NEW t \in Task, Submit(c, t)
  PROVE  Rest'
<1> USE DEF IInv
<1>1. /\ submitting \in [Client -> Task \cup {NoTask}]
      /\ held \in [Index -> Task \cup {NoTask}]
      /\ future \in [Task -> {"none", "pending", "value", "exception", "broken"}]
      /\ \A i \in 1..Len(tasks) : tasks[i] \in Task
      /\ NoTask \notin Task
  BY Zenon, ElementOfSeq, PoolAssumption DEF TypeOK
<1>2. /\ submitting[c] = NoTask /\ future[t] = "none"
      /\ owner # "gone" /\ after # "destroy"
      /\ tasks' = tasks /\ held' = held /\ worker' = worker
      /\ UNCHANGED <<paused, thread_count, owner, after, next>>
  BY Zenon DEF Submit, ownerVars
<1>3. \A d \in Client : submitting'[d] = IF d = c THEN t ELSE submitting[d]
  BY Zenon, <1>1 DEF Submit
<1>4. \A u \in Task : future'[u] = IF u = t THEN "pending" ELSE future[u]
  BY Zenon, <1>1 DEF Submit
<1>5. /\ \A d \in Client : submitting[d] # t
      /\ \A i \in 1..Len(tasks) : tasks[i] # t
      /\ \A w \in Index : held[w] # t
  BY <1>1, <1>2 DEF Placed, Busy
<1>6. Busy'
  BY Zenon, <1>2 DEF Busy
<1>7. Placed'
  BY SMTT(40), <1>1, <1>2, <1>3, <1>4, <1>5 DEF Placed, Busy
<1>8. Apart'
  BY SMTT(40), <1>1, <1>2, <1>3, <1>5 DEF Apart
<1>9. /\ t \notin Unfinished
      /\ \A u : u \in Unfinished' <=> u \in Unfinished \/ u = t
  BY SMTT(40), <1>1, <1>2, <1>3, <1>5, Members, MembersNext
<1>10. Found'
  BY Zenon, <1>4, <1>9 DEF Found
<1>11. TasksTotalExact'
  <2>1. Unfinished' = Unfinished \cup {t}
    BY <1>9
  <2>2. Cardinality(Unfinished') = Cardinality(Unfinished) + 1
    BY Zenon, <1>9, <2>1, UnfinishedFinite, FS_AddElement
  <2>3. tasks_total = Cardinality(Unfinished)
    BY Zenon, <1>2 DEF TasksTotalExact
  <2>4. tasks_total' = Wrap(tasks_total + 1)
    BY Zenon DEF Submit
  <2>5. Wrap(Cardinality(Unfinished')) = Cardinality(Unfinished')
    BY Zenon, UnfinishedFiniteNext, WrapSmall
  <2> QED BY Zenon, <2>2, <2>3, <2>4, <2>5 DEF TasksTotalExact
<1>12. Phase'
  BY Zenon, <1>2 DEF Phase
<1>13. Drained'
  BY <1>2 DEF Drained
<1> QED BY SMTT(40), <1>6, <1>7, <1>8, <1>10, <1>11, <1>12, <1>13 DEF Rest

\* push_task moves a task into the queue.
LEMMA PushInv ==
  ASSUME IInv, TypeOK', NEW c \in Client, Push(c)
  PROVE  Rest'
<1> USE DEF IInv
<1>1. /\ submitting \in [Client -> Task \cup {NoTask}]
      /\ held \in [Index -> Task \cup {NoTask}]
      /\ \A i \in 1..Len(tasks) : tasks[i] \in Task
      /\ NoTask \notin Task
      /\ Len(tasks) \in Nat
  BY Zenon, ElementOfSeq, LenProperties, PoolAssumption DEF TypeOK
<1>2. /\ submitting[c] \in Task
      /\ UNCHANGED <<held, worker, future, paused, thread_count, owner, after, next>>
      /\ tasks_total' = tasks_total
  BY Zenon, <1>1 DEF Push, ownerVars, workerVars
<1>3. \A d \in Client : submitting'[d] = IF d = c THEN NoTask ELSE submitting[d]
  BY Zenon, <1>1 DEF Push
<1>4. /\ Len(tasks') = Len(tasks) + 1
      /\ \A i \in 1..Len(tasks) : tasks'[i] = tasks[i]
      /\ tasks'[Len(tasks) + 1] = submitting[c]
  BY SMTT(40), <1>2, AppendProperties DEF Push, TypeOK
<1>5. \A i \in 1..Len(tasks') :
        \/ i \in 1..Len(tasks) /\ tasks'[i] = tasks[i]
        \/ i = Len(tasks) + 1 /\ tasks'[i] = submitting[c]
  BY <1>1, <1>4
<1>6. Busy'
  BY Zenon, <1>2 DEF Busy
<1>7. Placed'
  <2>1. \A i \in 1..Len(tasks') : future[tasks'[i]] = "pending"
    BY SMTT(40), <1>1, <1>2, <1>5 DEF Placed
  <2> QED BY Zenon, <1>1, <1>2, <1>3, <2>1 DEF Placed
<1>8. Apart'
  <2>1. \A i, j \in 1..Len(tasks') : tasks'[i] = tasks'[j] => i = j
    BY SMTT(40), <1>5 DEF Apart
  <2>2. \A d \in Client, i \in 1..Len(tasks') : submitting'[d] # tasks'[i]
    BY SMTT(40), <1>1, <1>2, <1>3, <1>5 DEF Apart
  <2>3. \A i \in 1..Len(tasks'), w \in Index : tasks'[i] # held[w]
    BY <1>1, <1>2, <1>5 DEF Apart
  <2> QED BY SMTT(40), <1>1, <1>2, <1>3, <2>1, <2>2, <2>3 DEF Apart
<1>9. Unfinished' = Unfinished
  <2>1. ASSUME NEW u \in Task
        PROVE  (\E d \in Client : submitting'[d] = u) \/ (\E i \in 1..Len(tasks') : tasks'[i] = u)
               <=> (\E d \in Client : submitting[d] = u) \/ (\E i \in 1..Len(tasks) : tasks[i] = u)
    <3>1. ASSUME NEW i \in 1..Len(tasks), tasks[i] = u
          PROVE  \E j \in 1..Len(tasks') : tasks'[j] = u
      BY <3>1, <1>1, <1>4
    <3>2. Len(tasks) + 1 \in 1..Len(tasks')
      BY <1>1, <1>4
    <3> QED BY Zenon, <1>1, <1>2, <1>3, <1>4, <1>5, <3>1, <3>2
  <2> QED BY Zenon, <1>2, <2>1, Members, MembersNext
<1>10. Found' /\ TasksTotalExact' /\ Drained'
  BY Zenon, <1>2, <1>9 DEF Found, TasksTotalExact, Drained
<1>11. Phase'
  <2>1. \A d \in Client : submitting[d] = NoTask => submitting'[d] = NoTask
    BY Zenon, <1>3
  <2> QED BY Zenon, <1>2, <2>1, PhaseStays
<1> QED BY SMTT(40), <1>6, <1>7, <1>8, <1>10, <1>11 DEF Rest
\* pop_task moves the first task of the queue into a worker.
LEMMA PopInv ==
  ASSUME IInv, TypeOK', NEW w \in Index, PopTask(w), tasks # <<>>
  PROVE  Rest'
<1> USE DEF IInv
<1>1. /\ submitting \in [Client -> Task \cup {NoTask}]
      /\ held \in [Index -> Task \cup {NoTask}]
      /\ worker \in [Index -> WorkerPc]
      /\ \A i \in 1..Len(tasks) : tasks[i] \in Task
      /\ NoTask \notin Task
      /\ Len(tasks) \in Nat /\ Len(tasks) > 0
  BY SMTT(40), ElementOfSeq, LenProperties, EmptySeq, PoolAssumption DEF TypeOK
<1>2. /\ worker[w] = "pop" /\ held[w] = NoTask
      /\ UNCHANGED <<submitting, future, paused, thread_count, owner, after, next>>
      /\ tasks_total' = tasks_total
  BY Zenon DEF PopTask, ownerVars, Busy
<1>3. /\ \A v \in Index : worker'[v] = IF v = w THEN "run" ELSE worker[v]
      /\ \A v \in Index : held'[v] = IF v = w THEN tasks[1] ELSE held[v]
  BY <1>1 DEF PopTask
<1>4. /\ Len(tasks') = Len(tasks) - 1
      /\ \A i \in 1..Len(tasks') : tasks'[i] = tasks[i + 1]
  <2>1. tasks' = Tail(tasks) /\ tasks \in Seq(Task) /\ tasks # <<>>
    BY Zenon DEF PopTask, TypeOK
  <2> QED BY Zenon, <2>1, HeadTailProperties
<1>5. \A i \in 1..Len(tasks') : i + 1 \in 1..Len(tasks) /\ i + 1 # 1
  BY <1>1, <1>4
<1>6. 1 \in 1..Len(tasks)
  BY SMTT(40), <1>1
<1>7. Busy'
  BY Zenon, <1>1, <1>3, <1>6 DEF Busy
<1>8. Placed'
  <2>1. \A i \in 1..Len(tasks') : future[tasks'[i]] = "pending"
    BY SMTT(40), <1>4, <1>5 DEF Placed
  <2>2. \A v \in Index : worker'[v] = "run" => future[held'[v]] = "pending"
    BY SMTT(40), <1>3, <1>6 DEF Placed
  <2> QED BY ZenonT(40), <1>2, <1>3, <2>1, <2>2 DEF Placed
<1>9. Apart'
  <2>1. \A i, j \in 1..Len(tasks') : tasks'[i] = tasks'[j] => i = j
    <3> SUFFICES ASSUME NEW i \in 1..Len(tasks'), NEW j \in 1..Len(tasks'),
                        tasks'[i] = tasks'[j]
                 PROVE  i = j
      OBVIOUS
    <3>1. i + 1 = j + 1
      BY ZenonT(40), <1>4, <1>5 DEF Apart
    <3> QED BY <3>1
  <2>2. \A c \in Client, i \in 1..Len(tasks') : submitting[c] # tasks'[i]
    BY <1>4, <1>5 DEF Apart
  <2>3. \A i \in 1..Len(tasks'), v \in Index : tasks'[i] # held'[v]
    <3> SUFFICES ASSUME NEW i \in 1..Len(tasks'), NEW v \in Index
                 PROVE  tasks[i + 1] # held'[v]
      BY Zenon, <1>4
    <3>1. CASE v = w
      BY <3>1, <1>3, <1>5, <1>6 DEF Apart
    <3>2. CASE v # w
      BY SMTT(40), <3>2, <1>3, <1>5 DEF Apart
    <3> QED BY Zenon, <3>1, <3>2
  <2>4. \A u, v \in Index : held'[u] # NoTask /\ held'[u] = held'[v] => u = v
    BY SMTT(40), <1>3, <1>6 DEF Apart
  <2>5. \A c \in Client, v \in Index : submitting[c] # NoTask => submitting[c] # held'[v]
    BY <1>3, <1>6 DEF Apart
  <2> QED BY SMTT(40), <1>2, <2>1, <2>2, <2>3, <2>4, <2>5 DEF Apart
<1>10. Unfinished' = Unfinished
  <2>1. ASSUME NEW u \in Task
        PROVE  (\E i \in 1..Len(tasks') : tasks'[i] = u) \/ (\E v \in Index : held'[v] = u)
               <=> (\E i \in 1..Len(tasks) : tasks[i] = u) \/ (\E v \in Index : held[v] = u)
    <3>1. ASSUME NEW i \in 1..Len(tasks), tasks[i] = u
          PROVE  (\E j \in 1..Len(tasks') : tasks'[j] = u) \/ held'[w] = u
      <4>1. CASE i = 1
        BY Zenon, <4>1, <3>1, <1>3
      <4>2. CASE i # 1
        <5>1. i - 1 \in 1..Len(tasks') /\ (i - 1) + 1 = i
          BY SMTT(40), <4>2, <1>1, <1>4
        <5> QED BY Zenon, <5>1, <3>1, <1>4
      <4> QED BY Zenon, <4>1, <4>2
    <3>2. ASSUME NEW v \in Index, held[v] = u PROVE held'[v] = u
      BY Zenon, <3>2, <1>1, <1>2, <1>3
    <3>3. ASSUME NEW v \in Index, held'[v] = u
          PROVE  (\E i \in 1..Len(tasks) : tasks[i] = u) \/ held[v] = u
      BY Zenon, <3>3, <1>3, <1>6
    <3> QED BY Zenon, <1>4, <1>5, <3>1, <3>2, <3>3
  <2> QED BY Zenon, <1>2, <2>1, Members, MembersNext
<1>11. Found' /\ TasksTotalExact' /\ Drained'
  BY Zenon, <1>2, <1>10 DEF Found, TasksTotalExact, Drained
<1>12. Phase'
  <2>1. /\ \A v \in Index : worker[v] = "none" => worker'[v] = "none"
        /\ submitting' = submitting
    BY <1>2, <1>3
  <2> QED BY Zenon, <1>2, <2>1, PhaseStays
<1> QED BY Zenon, <1>7, <1>8, <1>9, <1>11, <1>12 DEF Rest

\* A task that runs sets its own promise and no other.
LEMMA RunInv ==
  ASSUME IInv, TypeOK', NEW w \in Index, RunTask(w)
  PROVE  Rest'
<1> USE DEF IInv
<1>1. /\ submitting \in [Client -> Task \cup {NoTask}]
      /\ held \in [Index -> Task \cup {NoTask}]
      /\ worker \in [Index -> WorkerPc]
      /\ future \in [Task -> {"none", "pending", "value", "exception", "broken"}]
      /\ \A i \in 1..Len(tasks) : tasks[i] \in Task
      /\ NoTask \notin Task
  BY Zenon, ElementOfSeq, PoolAssumption DEF TypeOK
<1>2. /\ worker[w] = "run" /\ held[w] \in Task
      /\ UNCHANGED <<tasks, held, submitting, paused, thread_count, owner, after, next>>
      /\ tasks_total' = tasks_total
  BY SMTT(40), <1>1 DEF RunTask, ownerVars, poolVars, Busy
<1>3. \A v \in Index : worker'[v] = IF v = w THEN "ran" ELSE worker[v]
  BY Zenon, <1>1 DEF RunTask
<1>4. PICK outcome \in {"value", "exception"} :
        \A u \in Task : future'[u] = IF u = held[w] THEN outcome ELSE future[u]
  BY Zenon, <1>1 DEF RunTask
<1>5. Busy'
  BY Zenon, <1>2, <1>3 DEF Busy
<1>6. Placed'
  <2>1. ASSUME NEW c \in Client, submitting[c] # NoTask
        PROVE  future'[submitting[c]] = "pending"
    <3>1. submitting[c] \in Task
      BY Zenon, <1>1, <2>1
    <3>2. submitting[c] # held[w] /\ future[submitting[c]] = "pending"
      BY Zenon, <2>1 DEF Placed, Apart
    <3> QED BY Zenon, <1>4, <3>1, <3>2
  <2>2. ASSUME NEW i \in 1..Len(tasks)
        PROVE  future'[tasks[i]] = "pending"
    <3>1. tasks[i] \in Task
      BY Zenon, <1>1
    <3>2. tasks[i] # held[w] /\ future[tasks[i]] = "pending"
      BY Zenon DEF Placed, Apart
    <3> QED BY Zenon, <1>4, <3>1, <3>2
  <2>3. \A v \in Index : worker'[v] = "run" => future'[held[v]] = "pending"
    BY SMTT(40), <1>1, <1>2, <1>3, <1>4 DEF Placed, Apart, Busy
  <2>4. \A v \in Index : worker'[v] = "ran" => future'[held[v]] \in {"value", "exception"}
    BY SMTT(40), <1>1, <1>2, <1>3, <1>4 DEF Placed, Apart, Busy
  <2>5. submitting' = submitting /\ tasks' = tasks /\ held' = held
    BY Zenon, <1>2
  <2> QED BY Zenon, <2>1, <2>2, <2>3, <2>4, <2>5 DEF Placed
<1>7. Apart'
  BY Zenon, <1>2 DEF Apart
<1>8. Unfinished' = Unfinished
  BY Zenon, <1>2 DEF Unfinished, Submitting, InWorkers, ToTask
<1>9. Found'
  BY Zenon, <1>4, <1>8 DEF Found
<1>10. TasksTotalExact' /\ Drained'
  BY Zenon, <1>2, <1>8 DEF TasksTotalExact, Drained
<1>11. Phase'
  <2>1. /\ \A v \in Index : worker[v] = "none" => worker'[v] = "none"
        /\ submitting' = submitting
    BY Zenon, <1>2, <1>3
  <2> QED BY Zenon, <1>2, <2>1, PhaseStays
<1> QED BY Zenon, <1>5, <1>6, <1>7, <1>9, <1>10, <1>11 DEF Rest

\* tasks_total-- goes with a task leaving its worker.
LEMMA CountDownInv ==
  ASSUME IInv, TypeOK', NEW w \in Index, CountDown(w)
  PROVE  Rest'
<1> USE DEF IInv
<1>1. /\ submitting \in [Client -> Task \cup {NoTask}]
      /\ held \in [Index -> Task \cup {NoTask}]
      /\ worker \in [Index -> WorkerPc]
      /\ \A i \in 1..Len(tasks) : tasks[i] \in Task
      /\ NoTask \notin Task
  BY Zenon, ElementOfSeq, PoolAssumption DEF TypeOK
<1>2. /\ worker[w] = "ran" /\ held[w] \in Task
      /\ UNCHANGED <<tasks, future, submitting, paused, thread_count, owner, after, next>>
  BY Zenon, <1>1 DEF CountDown, ownerVars, Busy
<1>3. /\ \A v \in Index : worker'[v] = IF v = w THEN "loop" ELSE worker[v]
      /\ \A v \in Index : held'[v] = IF v = w THEN NoTask ELSE held[v]
  BY Zenon, <1>1 DEF CountDown
<1>4. Busy'
  BY Zenon, <1>3 DEF Busy
<1>5. Placed'
  BY SMTT(40), <1>2, <1>3 DEF Placed
<1>6. Apart'
  BY SMTT(40), <1>1, <1>2, <1>3 DEF Apart
<1>7. /\ held[w] \in Unfinished
      /\ \A u : u \in Unfinished' <=> u \in Unfinished /\ u # held[w]
  BY SMTT(40), <1>1, <1>2, <1>3, Members, MembersNext DEF Apart
<1>8. Found'
  BY Zenon, <1>2, <1>7 DEF Found, Placed
<1>9. TasksTotalExact'
  <2>1. Unfinished' = Unfinished \ {held[w]}
    BY Zenon, <1>7
  <2>2. Cardinality(Unfinished') = Cardinality(Unfinished) - 1
    BY Zenon, <1>7, <2>1, UnfinishedFinite, FS_RemoveElement
  <2>3. owner # "gone"
    BY Zenon, <1>2 DEF Phase
  <2>4. tasks_total' = Wrap(Cardinality(Unfinished'))
    BY Zenon, <2>2, <2>3 DEF CountDown, TasksTotalExact
  <2>5. Wrap(Cardinality(Unfinished')) = Cardinality(Unfinished')
    BY Zenon, UnfinishedFiniteNext, WrapSmall
  <2> QED BY Zenon, <2>4, <2>5 DEF TasksTotalExact
<1>10. Phase'
  <2>1. /\ \A v \in Index : worker[v] = "none" => worker'[v] = "none"
        /\ submitting' = submitting
    BY Zenon, <1>2, <1>3
  <2> QED BY Zenon, <1>2, <2>1, PhaseStays
<1>11. Drained'
  BY Zenon, <1>2, <1>7 DEF Drained
<1> QED BY Zenon, <1>4, <1>5, <1>6, <1>8, <1>9, <1>10, <1>11 DEF Rest
-----------------------------------------------------------------------------
(* The actions that leave every task where it is.                          *)

\* The tasks, and what is said of them, do not depend on the owner's variables
\* nor on a worker that moves between its idle positions.
LEMMA TasksStay ==
  ASSUME IInv, TypeOK',
         UNCHANGED <<tasks, tasks_total, held, future, submitting>>,
         owner' # "gone" => owner # "gone",
         \A w \in Index : \/ worker'[w] = worker[w]
                          \/ /\ worker[w] \notin {"run", "ran"}
                             /\ worker'[w] \notin {"run", "ran"}
  PROVE  /\ Busy' /\ Placed' /\ Apart' /\ Found' /\ TasksTotalExact'
         /\ Unfinished' = Unfinished
<1> USE DEF IInv
<1>1. Unfinished' = Unfinished
  BY Zenon DEF Unfinished, Submitting, InWorkers, ToTask
<1>2. Busy'
  BY Zenon DEF Busy
<1>3. Placed'
  BY Zenon DEF Placed
<1>4. Apart'
  BY DEF Apart
<1>5. Found' /\ TasksTotalExact'
  BY Zenon, <1>1 DEF Found, TasksTotalExact
<1> QED BY Zenon, <1>1, <1>2, <1>3, <1>4, <1>5

\* A worker that finds nothing to do.
LEMMA IdleInv ==
  ASSUME IInv, TypeOK', NEW w \in Index, NEW pos \in {"loop", "check", "pop", "exit"},
         worker[w] \in {"loop", "check", "pop"},
         worker' = [worker EXCEPT ![w] = pos],
         UNCHANGED <<tasks, tasks_total, paused, thread_count, held, future, submitting,
                     owner, after, next>>
  PROVE  Rest'
<1> USE DEF IInv
<1>1. \A v \in Index : worker'[v] = IF v = w THEN pos ELSE worker[v]
  BY Zenon DEF TypeOK
<1>2. owner # "gone"
  BY Zenon DEF Phase
<1>3. Phase'
  BY SMTT(40), <1>1 DEF Phase
<1>4. /\ Busy' /\ Placed' /\ Apart' /\ Found' /\ TasksTotalExact'
      /\ Unfinished' = Unfinished
  BY Zenon, <1>1, <1>2, TasksStay
<1>5. Drained'
  BY SMTT(40), <1>4 DEF Drained
<1> QED BY Zenon, <1>3, <1>4, <1>5 DEF Rest

\* create_threads and destroy_threads.
LEMMA ThreadsInv ==
  ASSUME IInv, TypeOK', CreateThread \/ JoinThread
  PROVE  Rest'
<1> USE DEF IInv
<1>1. /\ next \in Nat /\ thread_count \in 1..MaxThreads /\ MaxThreads \in Nat
      /\ worker \in [Index -> WorkerPc]
  BY SMTT(40), PoolAssumption DEF TypeOK
<1>2. /\ UNCHANGED <<tasks, tasks_total, paused, thread_count, held, future, submitting, after>>
      /\ owner # "gone" /\ owner' # "gone"
  BY Zenon DEF CreateThread, JoinThread, poolVars
<1>3. /\ Phase'
      /\ \A w \in Index : \/ worker'[w] = worker[w]
                          \/ /\ worker[w] \notin {"run", "ran"}
                             /\ worker'[w] \notin {"run", "ran"}
  <2>1. CASE CreateThread /\ next < thread_count
    <3>1. /\ next \in Index /\ next' = next + 1 /\ owner' = owner /\ owner = "create"
          /\ worker[next] = "none"
      BY SMTT(40), <1>1, <2>1 DEF CreateThread, Index, Phase
    <3>2. \A w \in Index : worker'[w] = IF w = next THEN "loop" ELSE worker[w]
      BY Zenon, <1>1, <2>1 DEF CreateThread
    <3>3. \A w \in Index : w \in Nat
      BY SMTT(40), <1>1 DEF Index
    <3> QED BY SMTT(40), <1>1, <1>2, <2>1, <3>1, <3>2, <3>3 DEF Phase
  <2>2. CASE CreateThread /\ ~ (next < thread_count)
    <3>1. worker' = worker /\ next' = next /\ owner' = "idle" /\ owner = "create"
      BY Zenon, <2>2 DEF CreateThread
    <3> QED BY Zenon, <1>2, <3>1 DEF Phase
  <2>3. CASE JoinThread
    <3>1. /\ next \in Index /\ next' = next + 1 /\ owner' = owner /\ owner = "join"
          /\ next < thread_count /\ worker[next] = "exit"
      BY SMTT(40), <1>1, <2>3 DEF JoinThread, Index
    <3>2. \A w \in Index : worker'[w] = IF w = next THEN "none" ELSE worker[w]
      BY Zenon, <1>1, <2>3 DEF JoinThread
    <3>3. \A w \in Index : w \in Nat
      BY <1>1 DEF Index
    <3> QED BY SMTT(40), <1>1, <1>2, <3>1, <3>2, <3>3 DEF Phase
  <2> QED BY Zenon, <2>1, <2>2, <2>3
<1>4. /\ Busy' /\ Placed' /\ Apart' /\ Found' /\ TasksTotalExact'
      /\ Unfinished' = Unfinished
  BY Zenon, <1>2, <1>3, TasksStay
<1>5. Drained'
  <2>1. owner' \in {"waited", "join", "gone"} => owner' = owner
    BY SMTT(40) DEF CreateThread, JoinThread
  <2> QED BY Zenon, <1>2, <1>4, <2>1 DEF Drained
<1> QED BY SMTT(40), <1>3, <1>4, <1>5 DEF Rest

\* The owner's calls, and its steps in wait_for_tasks and reset.
LEMMA OwnerInv ==
  ASSUME IInv, TypeOK',
         \/ \E b \in BOOLEAN : SetPaused(b)
         \/ CallWait \/ CallReset \/ CallDestroy \/ WaitReadPaused \/ WaitReadTotal
         \/ RunningReadFirst \/ RunningReadSecond \/ Waited
         \/ \E n \in 1..MaxThreads : Restart(n)
  PROVE  Rest'
<1> USE DEF IInv
<1>1. /\ UNCHANGED <<tasks, tasks_total, worker, held, future, submitting>>
      /\ owner # "gone" /\ owner' # "gone"
  <2>1. CASE \/ \E b \in BOOLEAN : SetPaused(b)
             \/ CallWait \/ CallReset \/ CallDestroy
    BY Zenon, <2>1 DEF SetPaused, CallWait, CallReset, CallDestroy, poolVars, workerVars, ownerVars
  <2>2. CASE WaitReadPaused \/ WaitReadTotal \/ RunningReadFirst \/ RunningReadSecond
    BY Zenon, <2>2 DEF WaitReadPaused, WaitReadTotal, RunningReadFirst, RunningReadSecond, poolVars,
       workerVars
  <2>3. CASE Waited \/ \E n \in 1..MaxThreads : Restart(n)
    BY Zenon, <2>3 DEF Waited, Restart, workerVars
  <2> QED BY Zenon, <2>1, <2>2, <2>3
<1>2. /\ Busy' /\ Placed' /\ Apart' /\ Found' /\ TasksTotalExact'
      /\ Unfinished' = Unfinished
  BY Zenon, <1>1, TasksStay
<1>3. /\ \A w \in Index : w \in Nat
      /\ next \in Nat /\ thread_count \in Nat /\ paused \in BOOLEAN
  BY PoolAssumption DEF Index, TypeOK
<1>4. SUFFICES Phase' /\ Drained'
  BY Zenon, <1>2 DEF Rest
<1>5. ASSUME thread_count' = thread_count, owner' \notin {"create", "join", "gone"},
             after' = "destroy" => \A c \in Client : submitting[c] = NoTask,
             owner' = "idle" => after' = "idle",
             owner' \in {"waitRunning", "haveTotal", "haveQueued"} => paused' = TRUE
      PROVE  Phase'
  BY Zenon, <1>1, <1>5 DEF Phase
<1>6. ASSUME owner' \notin {"waited", "join", "gone"} \/ after' # "destroy" \/ paused' = TRUE
      PROVE  Drained'
  BY Zenon, <1>6 DEF Drained
<1>7. CASE \E b \in BOOLEAN : SetPaused(b)
  <2>1. owner' = "idle" /\ after' = "idle" /\ thread_count' = thread_count
    BY Zenon, <1>7 DEF SetPaused, ownerVars, Phase
  <2> QED BY Zenon, <2>1, <1>5, <1>6
<1>8. CASE CallWait \/ CallReset
  <2>1. owner' = "wait" /\ after' # "destroy" /\ thread_count' = thread_count
    BY <1>8 DEF CallWait, CallReset, poolVars
  <2> QED BY Zenon, <2>1, <1>5, <1>6
<1>9. CASE CallDestroy
  <2>1. /\ owner' = "wait" /\ thread_count' = thread_count
        /\ \A c \in Client : submitting[c] = NoTask
    BY <1>9 DEF CallDestroy, poolVars
  <2> QED BY Zenon, <2>1, <1>5, <1>6
<1>10. CASE WaitReadPaused
  <2>1. /\ \/ paused = TRUE /\ owner' = "waitRunning"
           \/ paused = FALSE /\ owner' = "waitTotal"
        /\ after' = after /\ paused' = paused /\ thread_count' = thread_count
    <3>1. paused = TRUE \/ paused = FALSE
      BY Zenon, <1>3
    <3> QED BY Zenon, <3>1, <1>10 DEF WaitReadPaused, poolVars
  <2>2. after = "destroy" => \A c \in Client : submitting[c] = NoTask
    BY DEF Phase
  <2> QED BY Zenon, <2>1, <2>2, <1>5, <1>6
<1>11. CASE RunningReadFirst
  <2>1. /\ owner = "waitRunning" /\ owner' \in {"haveTotal", "haveQueued"}
        /\ after' = after /\ paused' = paused /\ thread_count' = thread_count
    BY <1>11 DEF RunningReadFirst, poolVars
  <2>2. /\ paused = TRUE
        /\ after = "destroy" => \A c \in Client : submitting[c] = NoTask
    BY Zenon, <2>1 DEF Phase
  <2> QED BY SMTT(40), <2>1, <2>2, <1>5, <1>6
<1>12. CASE RunningReadSecond
  <2>1. /\ owner \in {"haveTotal", "haveQueued"} /\ owner' \in {"waited", "wait"}
        /\ after' = after /\ paused' = paused /\ thread_count' = thread_count
    BY <1>12 DEF RunningReadSecond, poolVars
  <2>2. /\ paused = TRUE
        /\ after = "destroy" => \A c \in Client : submitting[c] = NoTask
    BY <2>1 DEF Phase
  <2> QED BY SMTT(40), <2>1, <2>2, <1>5, <1>6
<1>13. CASE WaitReadTotal
  <2>1. /\ (tasks_total = 0 /\ owner' = "waited") \/ owner' = "wait"
        /\ after' = after /\ paused' = paused /\ thread_count' = thread_count
    BY <1>13 DEF WaitReadTotal, poolVars
  <2>2. after = "destroy" => \A c \in Client : submitting[c] = NoTask
    BY DEF Phase
  <2>3. Phase'
    BY Zenon, <2>1, <2>2, <1>5
  <2>4. tasks_total = 0 => Unfinished = {}
    <3>1. IsFiniteSet(Unfinished)
      BY UnfinishedFinite
    <3>2. Cardinality(Unfinished) = 0 => Unfinished = {}
      BY <3>1, FS_EmptySet
    <3>3. tasks_total = Cardinality(Unfinished)
      BY Zenon, <1>1 DEF TasksTotalExact
    <3> QED BY Zenon, <3>2, <3>3
  <2>5. Drained'
    BY SMTT(40), <1>2, <2>1, <2>4 DEF Drained
  <2> QED BY Zenon, <2>3, <2>5
<1>14. CASE Waited
  <2>1. /\ owner = "waited" /\ after' = after /\ paused' = paused
        /\ thread_count' = thread_count
        /\ \/ after = "idle" /\ owner' = "idle"
           \/ after # "idle" /\ owner' = "join" /\ next' = 0
    BY SMTT(40), <1>14 DEF Waited
  <2>2. Phase'
    BY SMTT(40), <1>1, <1>3, <2>1 DEF Phase
  <2>3. Drained'
    BY Zenon, <1>2, <2>1 DEF Drained
  <2> QED BY <2>2, <2>3
<1>15. CASE \E n \in 1..MaxThreads : Restart(n)
  <2>1. PICK n \in 1..MaxThreads : Restart(n)
    BY SMTT(40), <1>15
  <2>2. /\ owner = "join" /\ next = thread_count /\ thread_count' = n
        /\ owner' = "create" /\ after' = "idle" /\ next' = 0
    BY Zenon, <2>1 DEF Restart
  <2>3. \A w \in Index : worker[w] = "none"
    BY <1>3, <2>2 DEF Phase
  <2>4. 0 <= n
    BY SMTT(40), PoolAssumption
  <2>5. Phase'
    BY Zenon, <1>1, <2>2, <2>3, <2>4 DEF Phase
  <2> QED BY Zenon, <2>2, <2>5, <1>6
<1> QED
  BY SMTT(40), <1>7, <1>8, <1>9, <1>10, <1>11, <1>12, <1>13, <1>14, <1>15

\* The end of the destructor breaks the promises of the tasks in the queue,
\* which are all that is pending: nobody submits and no thread is left.
LEMMA DestroyedInv ==
  ASSUME IInv, TypeOK', Destroyed
  PROVE  /\ Rest'
         /\ \A t \in Task : future[t] = "pending" <=> t \in ToTask(tasks)
<1> USE DEF IInv
<1>1. /\ owner = "join" /\ owner' = "gone" /\ after = "destroy" /\ next = thread_count
      /\ tasks' = <<>>
      /\ UNCHANGED <<tasks_total, paused, thread_count, worker, held, submitting, after, next>>
  BY Zenon DEF Destroyed
<1>2. \A w \in Index : worker[w] = "none"
  <2>1. \A w \in Index : w \in Nat
    BY SMTT(40), PoolAssumption DEF Index
  <2> QED BY SMTT(40), <1>1, <2>1 DEF Phase, TypeOK
<1>3. /\ \A w \in Index : held[w] = NoTask
      /\ \A c \in Client : submitting[c] = NoTask
  BY Zenon, <1>1, <1>2 DEF Busy, Phase
<1>4. NoTask \notin Task
  BY Zenon, PoolAssumption
<1>5. \A t \in Task : future[t] = "pending" <=> t \in ToTask(tasks)
  BY SMTT(40), <1>3, <1>4, Members DEF Found, Placed, ToTask
<1>6. \A t \in Task : future'[t] # "pending"
  BY Zenon, <1>5 DEF Destroyed
<1>7. Len(tasks') = 0
  BY Zenon, <1>1
<1>8. Busy' /\ Placed' /\ Apart'
  <2>1. /\ \A w \in Index : worker'[w] = "none" /\ held'[w] = NoTask
        /\ \A c \in Client : submitting'[c] = NoTask
    BY Zenon, <1>1, <1>2, <1>3
  <2>2. Busy'
    BY Zenon, <2>1 DEF Busy
  <2>3. 1..Len(tasks') = {}
    BY SMTT(40), <1>7
  <2>4. Placed' /\ Apart'
    BY Zenon, <2>1, <2>3 DEF Placed, Apart
  <2> QED BY Zenon, <2>2, <2>4
<1>9. Found' /\ TasksTotalExact'
  BY Zenon, <1>1, <1>6 DEF Found, TasksTotalExact
<1>10. Phase'
  BY Zenon, <1>1, <1>2, <1>3 DEF Phase
<1>11. Drained'
  <2>1. \A t : t \notin Unfinished'
    BY SMTT(40), <1>1, <1>3, <1>4, <1>7, MembersNext
  <2> QED BY Zenon, <2>1 DEF Drained
<1> QED BY SMTT(40), <1>5, <1>8, <1>9, <1>10, <1>11 DEF Rest

-----------------------------------------------------------------------------
(* The invariant holds.                                                    *)

\* The invariant holds in the initial state.
LEMMA InitInv == Init => IInv
<1> SUFFICES ASSUME Init PROVE IInv
  OBVIOUS
<1>1. TypeOK
  BY Zenon, InitType
<1>2. Len(tasks) = 0
  BY Zenon DEF Init
<1>3. Busy /\ Placed /\ Apart
  BY <1>2 DEF Init, Busy, Placed, Apart
<1>4. Found
  BY Zenon DEF Init, Found
<1>5. Unfinished = {}
  BY SMTT(40), <1>1, <1>2, Members, PoolAssumption DEF Init
<1>6. TasksTotalExact
  BY Zenon, <1>5, FS_EmptySet DEF Init, TasksTotalExact
<1>7. Phase
  BY PoolAssumption DEF Init, Phase
<1>8. Drained
  BY Zenon, <1>5 DEF Drained
<1> QED BY Zenon, <1>1, <1>3, <1>4, <1>6, <1>7, <1>8 DEF IInv

\* Every step keeps the invariant.
LEMMA NextInv == IInv /\ [Next]_vars => IInv'
<1> SUFFICES ASSUME IInv, [Next]_vars PROVE IInv'
  OBVIOUS
<1>1. TypeOK'
  BY Zenon, NextType DEF IInv
<1> SUFFICES Rest'
  BY Zenon, <1>1 DEF IInv, Rest
<1>2. ASSUME NEW c \in Client, NEW t \in Task, Submit(c, t) PROVE Rest'
  BY <1>1, <1>2, SubmitInv
<1>3. ASSUME NEW c \in Client, Push(c) PROVE Rest'
  BY <1>1, <1>3, PushInv
<1>4. ASSUME NEW w \in Index, ReadRunning(w) \/ ReadPaused(w) PROVE Rest'
  <2>1. PICK pos \in {"loop", "check", "pop", "exit"} : worker' = [worker EXCEPT ![w] = pos]
    BY SMTT(40), <1>4 DEF ReadRunning, ReadPaused
  <2>2. /\ worker[w] \in {"loop", "check", "pop"}
        /\ UNCHANGED <<tasks, tasks_total, paused, thread_count, held, future, submitting,
                       owner, after, next>>
    BY Zenon, <1>4 DEF ReadRunning, ReadPaused, poolVars, ownerVars
  <2> QED BY Zenon, <1>1, <2>1, <2>2, IdleInv
<1>5. ASSUME NEW w \in Index, PopTask(w) PROVE Rest'
  <2>1. CASE tasks = <<>>
    <3>1. worker' = [worker EXCEPT ![w] = "loop"] /\ worker[w] = "pop"
      BY Zenon, <1>5, <2>1 DEF PopTask
    <3>2. UNCHANGED <<tasks, tasks_total, paused, thread_count, held, future, submitting,
                      owner, after, next>>
      BY Zenon, <1>5, <2>1 DEF PopTask, ownerVars
    <3> QED BY Zenon, <1>1, <3>1, <3>2, IdleInv
  <2>2. CASE tasks # <<>>
    BY SMTT(40), <1>1, <1>5, <2>2, PopInv
  <2> QED BY Zenon, <2>1, <2>2
<1>6. ASSUME NEW w \in Index, RunTask(w) PROVE Rest'
  BY SMTT(40), <1>1, <1>6, RunInv
<1>7. ASSUME NEW w \in Index, CountDown(w) PROVE Rest'
  BY Zenon, <1>1, <1>7, CountDownInv
<1>8. CASE \/ \E b \in BOOLEAN : SetPaused(b)
           \/ CallWait \/ CallReset \/ CallDestroy \/ WaitReadPaused \/ WaitReadTotal
           \/ RunningReadFirst \/ RunningReadSecond \/ Waited
           \/ \E n \in 1..MaxThreads : Restart(n)
  BY SMTT(40), <1>1, <1>8, OwnerInv
<1>9. CASE CreateThread \/ JoinThread
  BY Zenon, <1>1, <1>9, ThreadsInv
<1>10. CASE Destroyed
  BY Zenon, <1>1, <1>10, DestroyedInv
<1>11. CASE UNCHANGED vars
  <2>1. /\ UNCHANGED <<tasks, tasks_total, held, future, submitting>>
        /\ UNCHANGED <<worker, paused, thread_count, owner, after, next>>
    BY Zenon, <1>11 DEF vars, poolVars, workerVars, ownerVars
  <2>2. /\ Busy' /\ Placed' /\ Apart' /\ Found' /\ TasksTotalExact'
        /\ Unfinished' = Unfinished
    BY Zenon, <1>1, <2>1, TasksStay
  <2>3. Phase'
    BY SMTT(40), <2>1 DEF IInv, Phase
  <2>4. Drained'
    BY <2>1, <2>2 DEF IInv, Drained
  <2> QED BY SMTT(40), <2>2, <2>3, <2>4 DEF Rest
<1> QED
  BY SMTT(40), <1>2, <1>3, <1>4, <1>5, <1>6, <1>7, <1>8, <1>9, <1>10, <1>11
  DEF Next, WorkerStep, OwnerStep

\* The invariant always holds.
THEOREM ThreadPoolInv == Spec => []IInv
BY InitInv, NextInv, PTL DEF Spec

-----------------------------------------------------------------------------
(* What follows from it.                                                   *)

\* Every variable of the pool keeps its type.
THEOREM ThreadPoolType == Spec => []TypeOK
<1>1. IInv => TypeOK
  BY Zenon DEF IInv
<1> QED BY <1>1, ThreadPoolInv, PTL

\* tasks_total is exactly the number of unfinished tasks, at every moment, for
\* any number of tasks, clients and threads.
THEOREM TasksTotalExactThm == Spec => []TasksTotalExact
<1>1. IInv => TasksTotalExact
  BY SMTT(40) DEF IInv
<1> QED BY <1>1, ThreadPoolInv, PTL

\* reset creates no thread before it has joined all old ones, and a destroyed
\* pool leaves no thread behind.
THEOREM OldThreadsJoinedThm == Spec => []OldThreadsJoined
<1>1. IInv => OldThreadsJoined
  BY Zenon DEF IInv, Phase, OldThreadsJoined
<1> QED BY <1>1, ThreadPoolInv, PTL

\* When wait_for_tasks returns on a pool that is not paused, the promise of every
\* task submitted so far has been set.
THEOREM WaitReturnsDrainedThm == Spec => WaitReturnsDrained
<1>1. IInv /\ [Next]_vars =>
        [owner = "waitTotal" /\ owner' = "waited"
           => \A t \in Task : future[t] # "pending"]_vars
  <2> SUFFICES ASSUME IInv, Next, owner = "waitTotal", owner' = "waited"
               PROVE  \A t \in Task : future[t] # "pending"
    OBVIOUS
  <2>1. WaitReadTotal
    BY Zenon DEF Next, Submit, Push, WorkerStep, ReadRunning, ReadPaused, PopTask, RunTask,
       CountDown, SetPaused, CallWait, CallReset, CallDestroy, OwnerStep, CreateThread,
       WaitReadPaused, RunningReadFirst, RunningReadSecond, Waited, JoinThread, Destroyed,
       Restart, ownerVars
  <2>2. tasks_total = 0
    BY <2>1 DEF WaitReadTotal
  <2>3. Unfinished = {}
    BY SMTT(40), <2>2, UnfinishedFinite, FS_EmptySet DEF IInv, TasksTotalExact
  <2> QED BY <2>3 DEF IInv, Found
<1> QED BY <1>1, ThreadPoolInv, PTL DEF Spec, WaitReturnsDrained
-----------------------------------------------------------------------------
(* The order of the queue.                                                 *)

\* Appending to the second of two sequences appends to both.
LEMMA AppendConcat ==
  ASSUME NEW s \in Seq(Task), NEW q \in Seq(Task), NEW x \in Task
  PROVE  Append(s \o q, x) = s \o Append(q, x)
<1>1. /\ s \o q \in Seq(Task) /\ <<x>> \in Seq(Task)
      /\ Append(s \o q, x) = (s \o q) \o <<x>>
      /\ Append(q, x) = q \o <<x>>
  BY SMTT(40), ConcatProperties, AppendIsConcat
<1> QED BY SMTT(40), <1>1, ConcatAssociative

\* Moving the head of the second of two sequences to the end of the first.
LEMMA MoveHead ==
  ASSUME NEW s \in Seq(Task), NEW q \in Seq(Task), q # <<>>
  PROVE  Append(s, Head(q)) \o Tail(q) = s \o q
<1>1. /\ Head(q) \in Task /\ Tail(q) \in Seq(Task) /\ <<Head(q)>> \in Seq(Task)
      /\ Append(s, Head(q)) = s \o <<Head(q)>>
  BY HeadTailProperties, AppendIsConcat
<1>2. <<Head(q)>> \o Tail(q) = q
  <2> DEFINE r == <<Head(q)>> \o Tail(q)
  <2>1. /\ Len(q) \in Nat /\ Len(q) > 0
        /\ Len(Tail(q)) = Len(q) - 1
        /\ \A i \in 1..Len(Tail(q)) : Tail(q)[i] = q[i + 1]
    BY HeadTailProperties, LenProperties, EmptySeq
  <2>2. Len(<<Head(q)>>) = 1 /\ <<Head(q)>>[1] = q[1]
    OBVIOUS
  <2>3. /\ r \in Seq(Task) /\ Len(r) = 1 + Len(Tail(q))
        /\ \A i \in 1..1 + Len(Tail(q)) :
             r[i] = IF i <= 1 THEN <<Head(q)>>[i] ELSE Tail(q)[i - 1]
    BY SMTT(40), <1>1, <2>2, ConcatProperties
  <2> HIDE DEF r
  <2>4. ASSUME NEW i \in 1..Len(r) PROVE r[i] = q[i]
    <3>1. CASE i = 1
      BY SMTT(40), <3>1, <2>1, <2>2, <2>3
    <3>2. CASE i # 1
      <4>1. i - 1 \in 1..Len(Tail(q)) /\ (i - 1) + 1 = i
        BY SMTT(40), <3>2, <2>1, <2>3
      <4>2. r[i] = Tail(q)[i - 1]
        BY SMTT(40), <3>2, <2>1, <2>3
      <4> QED BY Zenon, <4>1, <4>2, <2>1
    <3> QED BY Zenon, <3>1, <3>2
  <2>5. r = q
    BY SMTT(40), <2>1, <2>3, <2>4, SeqEqual
  <2> QED BY Zenon, <2>5 DEF r
<1> QED BY <1>1, <1>2, ConcatAssociative

\* The log of the queue, and why a task is pushed only once: its promise has been
\* made, and no client is about to push it again.
Logged ==
  /\ EachPushedOnceInOrder
  /\ \A i \in 1..Len(pushed) : future[pushed[i]] # "none"
  /\ \A i \in 1..Len(pushed), c \in Client : submitting[c] # pushed[i]

\* Every step keeps the log.
LEMMA NextLogged == IInv /\ Logged /\ [Next]_vars => Logged'
<1> SUFFICES ASSUME IInv, Logged, [Next]_vars PROVE Logged'
  OBVIOUS
<1>1. /\ submitting \in [Client -> Task \cup {NoTask}]
      /\ future \in [Task -> {"none", "pending", "value", "exception", "broken"}]
      /\ held \in [Index -> Task \cup {NoTask}]
      /\ tasks \in Seq(Task) /\ pushed \in Seq(Task) /\ popped \in Seq(Task)
      /\ \A i \in 1..Len(pushed) : pushed[i] \in Task
      /\ Len(pushed) \in Nat
      /\ NoTask \notin Task
  <2>1. TypeOK
    BY Zenon DEF IInv
  <2>2. pushed \in Seq(Task)
    BY <2>1 DEF TypeOK
  <2>3. /\ \A i \in 1..Len(pushed) : pushed[i] \in Task
        /\ Len(pushed) \in Nat
    BY Zenon, <2>2, ElementOfSeq, LenProperties
  <2> QED BY SMTT(40), <2>1, <2>3, PoolAssumption DEF TypeOK
<1>2. ASSUME UNCHANGED <<pushed, popped, submitting>>,
             owner' = "gone" \/ (owner # "gone" /\ tasks' = tasks),
             \A t \in Task : future'[t] = "none" => future[t] = "none"
      PROVE  Logged'
  <2>1. pushed' = pushed /\ popped' = popped /\ submitting' = submitting
    BY Zenon, <1>2
  <2>2. EachPushedOnceInOrder'
    BY Zenon, <1>2, <2>1 DEF Logged, EachPushedOnceInOrder
  <2>3. \A i \in 1..Len(pushed) : future'[pushed[i]] # "none"
    BY Zenon, <1>1, <1>2 DEF Logged
  <2>4. \A i \in 1..Len(pushed), c \in Client : submitting[c] # pushed[i]
    BY Zenon DEF Logged
  <2> QED BY Zenon, <2>1, <2>2, <2>3, <2>4 DEF Logged
<1>3. ASSUME NEW c \in Client, NEW t \in Task, Submit(c, t) PROVE Logged'
  <2>1. /\ future[t] = "none" /\ UNCHANGED <<tasks, pushed, popped, owner>>
        /\ \A u \in Task : future'[u] = IF u = t THEN "pending" ELSE future[u]
        /\ \A d \in Client : submitting'[d] = IF d = c THEN t ELSE submitting[d]
    BY Zenon, <1>1, <1>3 DEF Submit, ownerVars, history
  <2>2. pushed' = pushed /\ EachPushedOnceInOrder'
    BY Zenon, <2>1 DEF Logged, EachPushedOnceInOrder
  <2>3. \A i \in 1..Len(pushed) : pushed[i] # t /\ future'[pushed[i]] # "none"
    BY Zenon, <1>1, <2>1 DEF Logged
  <2>4. \A i \in 1..Len(pushed), d \in Client : submitting'[d] # pushed[i]
    BY Zenon, <2>1, <2>3 DEF Logged
  <2> QED BY Zenon, <2>2, <2>3, <2>4 DEF Logged
<1>4. ASSUME NEW c \in Client, Push(c) PROVE Logged'
  <2>1. /\ submitting[c] \in Task /\ UNCHANGED <<popped, owner, future>>
        /\ tasks' = Append(tasks, submitting[c]) /\ pushed' = Append(pushed, submitting[c])
        /\ \A d \in Client : submitting'[d] = IF d = c THEN NoTask ELSE submitting[d]
    <3>1. /\ submitting[c] # NoTask /\ submitting' = [submitting EXCEPT ![c] = NoTask]
          /\ UNCHANGED <<popped, owner, future>>
          /\ tasks' = Append(tasks, submitting[c]) /\ pushed' = Append(pushed, submitting[c])
      BY Zenon, <1>4 DEF Push, ownerVars, workerVars
    <3>2. /\ submitting[c] \in Task
          /\ \A d \in Client : submitting'[d] = IF d = c THEN NoTask ELSE submitting[d]
      BY Zenon, <1>1, <3>1
    <3> QED BY Zenon, <3>1, <3>2
  <2>2. /\ Len(pushed') = Len(pushed) + 1
        /\ \A i \in 1..Len(pushed) : pushed'[i] = pushed[i]
        /\ pushed'[Len(pushed) + 1] = submitting[c]
    BY SMTT(40), <1>1, <2>1, AppendProperties
  <2>3. \A i \in 1..Len(pushed') :
          \/ i \in 1..Len(pushed) /\ pushed'[i] = pushed[i]
          \/ i = Len(pushed) + 1 /\ pushed'[i] = submitting[c]
    BY <1>1, <2>2
  <2>4. owner # "gone" => pushed' = popped \o tasks'
    <3>1. Append(popped \o tasks, submitting[c]) = popped \o Append(tasks, submitting[c])
      BY Zenon, <1>1, <2>1, AppendConcat
    <3>2. owner # "gone" => pushed = popped \o tasks
      BY Zenon DEF Logged, EachPushedOnceInOrder
    <3> QED BY <2>1, <3>1, <3>2, Zenon
  <2>5. \A i, j \in 1..Len(pushed') : pushed'[i] = pushed'[j] => i = j
    BY Zenon, <2>3 DEF Logged, EachPushedOnceInOrder
  <2>6. \A i \in 1..Len(pushed') : future[pushed'[i]] # "none"
    BY ZenonT(40), <1>1, <2>1, <2>3 DEF Logged, IInv, Placed
  <2>7. \A i \in 1..Len(pushed'), d \in Client : submitting'[d] # pushed'[i]
    BY SMTT(40), <1>1, <2>1, <2>3 DEF Logged, IInv, Apart
  <2> QED BY Zenon, <2>1, <2>4, <2>5, <2>6, <2>7 DEF Logged, EachPushedOnceInOrder
<1>5. ASSUME NEW w \in Index, PopTask(w) PROVE Logged'
  <2>1. CASE tasks = <<>>
    BY Zenon, <1>2, <1>5, <2>1 DEF PopTask, ownerVars, Logged, EachPushedOnceInOrder
  <2>2. CASE tasks # <<>>
    <3>1. /\ UNCHANGED <<pushed, future, submitting, owner>>
          /\ tasks' = Tail(tasks) /\ popped' = Append(popped, Head(tasks))
      BY SMTT(40), <1>5, <2>2 DEF PopTask, ownerVars
    <3>2. popped' \o tasks' = popped \o tasks
      <4>1. Append(popped, Head(tasks)) \o Tail(tasks) = popped \o tasks
        BY Zenon, <1>1, <2>2, MoveHead
      <4> QED BY Zenon, <3>1, <4>1
    <3> QED BY Zenon, <3>1, <3>2 DEF Logged, EachPushedOnceInOrder
  <2> QED BY Zenon, <2>1, <2>2
<1>6. ASSUME NEW w \in Index, RunTask(w) PROVE Logged'
  <2>1. /\ UNCHANGED <<tasks, pushed, popped, submitting, owner>>
        /\ \A t \in Task : future'[t] = "none" => future[t] = "none"
    BY Zenon, <1>1, <1>6 DEF RunTask, poolVars, ownerVars, history
  <2> QED BY Zenon, <1>2, <2>1
<1>7. CASE Destroyed
  <2>1. /\ UNCHANGED <<pushed, popped, submitting>> /\ owner' = "gone"
        /\ \A t \in Task : future'[t] = "none" => future[t] = "none"
    BY Zenon, <1>7 DEF Destroyed, history
  <2> QED BY Zenon, <1>2, <2>1
<1>8. CASE UNCHANGED <<tasks, pushed, popped, submitting, future>> /\ (owner = "gone" => owner' = "gone")
  BY Zenon, <1>2, <1>8
<1>9. ASSUME NEW w \in Index, ReadRunning(w) \/ ReadPaused(w) \/ CountDown(w) PROVE Logged'
  BY Zenon, <1>8, <1>9 DEF ReadRunning, ReadPaused, CountDown, poolVars, ownerVars, history
<1>10. CASE \/ \E b \in BOOLEAN : SetPaused(b)
            \/ CallWait \/ CallReset \/ CallDestroy
            \/ CreateThread \/ WaitReadPaused \/ WaitReadTotal \/ RunningReadFirst
            \/ RunningReadSecond \/ Waited \/ JoinThread
            \/ \E n \in 1..MaxThreads : Restart(n)
  BY Zenon, <1>8, <1>10 DEF SetPaused, CallWait, CallReset, CallDestroy, CreateThread,
     WaitReadPaused, WaitReadTotal, RunningReadFirst, RunningReadSecond, Waited, JoinThread,
     Restart, poolVars, workerVars, ownerVars, history, queueLog
<1>11. CASE UNCHANGED vars
  BY <1>8, <1>11 DEF vars, poolVars, workerVars, ownerVars, history
<1> QED
  BY SMTT(40), <1>3, <1>4, <1>5, <1>6, <1>7, <1>9, <1>10, <1>11 DEF Next, WorkerStep, OwnerStep

\* The queue hands out every task that was pushed, once, in the order of the
\* pushes, whatever resets and pauses happen in between.
THEOREM EachPushedOnceInOrderThm == Spec => []EachPushedOnceInOrder
<1>1. Init => Logged
  <2> SUFFICES ASSUME Init PROVE Logged
    OBVIOUS
  <2>1. Len(pushed) = 0 /\ popped \o tasks = <<>>
    BY Zenon, EmptySeq, ConcatEmptySeq DEF Init
  <2> QED BY SMTT(40), <2>1 DEF Init, Logged, EachPushedOnceInOrder
<1>2. Logged => EachPushedOnceInOrder
  BY Zenon DEF Logged
<1> QED BY <1>1, <1>2, NextLogged, ThreadPoolInv, PTL DEF Spec

-----------------------------------------------------------------------------
(* Promises and the contract.                                              *)

\* A promise is broken only by the destructor of a paused pool.
Kept == \A t \in Task : future[t] = "broken" => owner = "gone" /\ paused = TRUE

\* Every step keeps the promises.
LEMMA NextKept == IInv /\ Kept /\ [Next]_vars => Kept'
<1> SUFFICES ASSUME IInv, Kept, [Next]_vars PROVE Kept'
  OBVIOUS
<1>1. /\ future \in [Task -> {"none", "pending", "value", "exception", "broken"}]
      /\ paused \in BOOLEAN
  BY Zenon DEF IInv, TypeOK
<1>2. ASSUME NEW c \in Client, NEW t \in Task, Submit(c, t) PROVE Kept'
  BY SMTT(40), <1>1, <1>2 DEF Submit, ownerVars, Kept
<1>3. ASSUME NEW w \in Index, RunTask(w) PROVE Kept'
  BY SMTT(40), <1>1, <1>3 DEF RunTask, poolVars, ownerVars, Kept
<1>4. CASE Destroyed
  <2>1. /\ owner = "join" /\ owner' = "gone" /\ after = "destroy" /\ paused' = paused
        /\ \A t \in Task : future'[t] = "broken" => t \in ToTask(tasks) \/ future[t] = "broken"
    BY SMTT(40), <1>4 DEF Destroyed
  <2>2. paused = FALSE => ToTask(tasks) = {}
    BY Zenon, <2>1 DEF IInv, Drained, Unfinished
  <2> QED BY Zenon, <1>1, <2>1, <2>2 DEF Kept
<1>5. CASE UNCHANGED future /\ (owner = "gone" => owner' = "gone" /\ paused' = paused)
  BY Zenon, <1>5 DEF Kept
<1>6. ASSUME NEW c \in Client, Push(c) PROVE Kept'
  BY SMTT(40), <1>5, <1>6 DEF Push, workerVars, ownerVars
<1>7. ASSUME NEW w \in Index, ReadRunning(w) \/ ReadPaused(w) \/ PopTask(w) \/ CountDown(w)
      PROVE  Kept'
  BY SMTT(40), <1>5, <1>7 DEF ReadRunning, ReadPaused, PopTask, CountDown, poolVars, ownerVars
<1>8. CASE \/ \E b \in BOOLEAN : SetPaused(b)
           \/ CallWait \/ CallReset \/ CallDestroy
           \/ CreateThread \/ WaitReadPaused \/ WaitReadTotal \/ RunningReadFirst
           \/ RunningReadSecond \/ Waited \/ JoinThread
           \/ \E n \in 1..MaxThreads : Restart(n)
  BY Zenon, <1>5, <1>8 DEF SetPaused, CallWait, CallReset, CallDestroy, CreateThread,
     WaitReadPaused, WaitReadTotal, RunningReadFirst, RunningReadSecond, Waited, JoinThread,
     Restart, poolVars, workerVars, ownerVars
<1>9. CASE UNCHANGED vars
  BY <1>5, <1>9 DEF vars, poolVars, workerVars, ownerVars
<1> QED BY SMTT(40), <1>2, <1>3, <1>4, <1>6, <1>7, <1>8, <1>9 DEF Next, WorkerStep, OwnerStep

\* The destructor of a pool that is not paused breaks no promise: all tasks
\* submitted before it have run.
THEOREM DestructorRunsAllThm == Spec => []DestructorRunsAll
<1>1. Init => Kept
  BY Zenon DEF Init, Kept
<1>2. IInv /\ Kept => DestructorRunsAll
  <2> SUFFICES ASSUME IInv, Kept, owner = "gone", ~paused, NEW t \in Task
               PROVE  future[t] \in {"none", "value", "exception"}
    BY Zenon DEF DestructorRunsAll
  <2>1. paused = FALSE /\ future \in [Task -> {"none", "pending", "value", "exception", "broken"}]
    BY Zenon DEF IInv, TypeOK
  <2>2. Unfinished = {}
    BY Zenon, <2>1 DEF IInv, Drained, Phase
  <2>3. future[t] # "pending"
    BY Zenon, <2>2 DEF IInv, Found
  <2>4. future[t] # "broken"
    BY Zenon, <2>1 DEF Kept
  <2> QED BY <2>1, <2>3, <2>4
<1> QED BY <1>1, <1>2, NextKept, ThreadPoolInv, PTL DEF Spec

\* To those who submit tasks the pool is a PoolContract: each future is made
\* ready exactly once, and the destructor leaves none pending.
THEOREM ImplementsContractThm == Spec => ImplementsContract
<1>1. Init => Contract!ContractInit
  BY SMTT(40) DEF Init, Contract!ContractInit
<1>2. IInv /\ [Next]_vars => [Contract!ContractNext]_(Contract!contractVars)
  <2> SUFFICES ASSUME IInv, [Next]_vars
               PROVE  \/ Contract!ContractNext
                      \/ UNCHANGED future /\ (owner = "gone")' = (owner = "gone")
    BY Zenon DEF Contract!contractVars
  <2>1. ASSUME NEW c \in Client, NEW t \in Task, Submit(c, t) PROVE Contract!ContractNext
    <3>1. Contract!SubmitTask(t)
      BY Zenon, <2>1 DEF Submit, ownerVars, Contract!SubmitTask
    <3> QED BY Zenon, <3>1 DEF Contract!ContractNext
  <2>2. ASSUME NEW w \in Index, RunTask(w) PROVE Contract!ContractNext
    <3>1. PICK outcome \in {"value", "exception"} :
            future' = [future EXCEPT ![held[w]] = outcome]
      BY Zenon, <2>2 DEF RunTask
    <3>2. worker[w] = "run" /\ owner' = owner /\ held[w] \in Task
      BY Zenon, <2>2 DEF RunTask, ownerVars, IInv, Busy, TypeOK
    <3>3. owner # "gone" /\ future[held[w]] = "pending"
      <4>1. owner # "gone"
        BY Zenon, <3>2 DEF IInv, Phase
      <4>2. future[held[w]] = "pending"
        BY Zenon, <3>2 DEF IInv, Placed
      <4> QED BY Zenon, <4>1, <4>2
    <3>4. Contract!FinishTask(held[w], outcome)
      BY <3>1, <3>2, <3>3 DEF Contract!FinishTask
    <3> QED BY Zenon, <3>2, <3>4 DEF Contract!ContractNext, Contract!Outcome
  <2>3. CASE Destroyed
    <3>1. TypeOK'
      BY NextType DEF IInv
    <3>2. \A t \in Task : future[t] = "pending" <=> t \in ToTask(tasks)
      BY SMTT(40), <2>3, <3>1, DestroyedInv
    <3>3. Contract!ClosePool
      BY Zenon, <2>3, <3>2 DEF Destroyed, Contract!ClosePool
    <3> QED BY Zenon, <3>3 DEF Contract!ContractNext
  <2>4. ASSUME NEW c \in Client, Push(c)
        PROVE  UNCHANGED future /\ (owner = "gone")' = (owner = "gone")
    BY Zenon, <2>4 DEF Push, workerVars, ownerVars
  <2>5. ASSUME NEW w \in Index, ReadRunning(w) \/ ReadPaused(w) \/ PopTask(w) \/ CountDown(w)
        PROVE  UNCHANGED future /\ (owner = "gone")' = (owner = "gone")
    BY <2>5 DEF ReadRunning, ReadPaused, PopTask, CountDown, poolVars, ownerVars
  <2>6. ASSUME \/ \E b \in BOOLEAN : SetPaused(b)
               \/ CallWait \/ CallReset \/ CallDestroy
               \/ CreateThread \/ WaitReadPaused \/ WaitReadTotal \/ RunningReadFirst
               \/ RunningReadSecond \/ Waited \/ JoinThread
               \/ \E n \in 1..MaxThreads : Restart(n)
        PROVE  UNCHANGED future /\ (owner = "gone")' = (owner = "gone")
    <3>1. UNCHANGED future /\ owner # "gone" /\ owner' # "gone"
      BY Zenon, <2>6 DEF SetPaused, CallWait, CallReset, CallDestroy, CreateThread,
         WaitReadPaused, WaitReadTotal, RunningReadFirst, RunningReadSecond, Waited,
         JoinThread, Restart, workerVars, ownerVars
    <3> QED BY SMTT(40), <3>1
  <2>7. CASE UNCHANGED vars
    BY Zenon, <2>7 DEF vars, workerVars, ownerVars
  <2> QED BY SMTT(40), <2>1, <2>2, <2>3, <2>4, <2>5, <2>6, <2>7 DEF Next, WorkerStep, OwnerStep
<1> QED BY <1>1, <1>2, ThreadPoolInv, PTL
        DEF Spec, ImplementsContract, Contract!ContractSpec
=============================================================================
