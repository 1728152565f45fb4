----------------------------- MODULE ThreadPool -----------------------------
(***************************************************************************)
(* class thread_pool (src/bloom_hierarchy/threadPool.hpp): worker threads  *)
(* that pop tasks from one queue, clients that submit tasks, and the       *)
(* thread that owns the pool and may wait for the tasks, pause, reset the  *)
(* number of threads and destroy the pool.                                 *)
(*                                                                         *)
(* A step is one access to shared state: an atomic variable, or the queue  *)
(* under queue_mutex.  A task is submitted once, through submit(), so it   *)
(* carries a promise: future[t] is what the submitter sees of it.          *)
(***************************************************************************)
EXTENDS Integers, Sequences, FiniteSets

CONSTANTS
  Task,        \* the tasks that may be submitted
  NoTask,      \* no task
  Client,      \* threads that submit tasks
  MaxThreads,  \* bound on the number of worker threads
  Modulus      \* tasks_total is an unsigned integer modulo Modulus

Index == 0..MaxThreads-1

ASSUME PoolAssumption ==
  /\ NoTask \notin Task
  /\ IsFiniteSet(Task)
  /\ MaxThreads \in Nat \ {0}
  /\ Modulus \in Nat /\ Cardinality(Task) < Modulus

VARIABLES
  tasks,        \* std::queue<std::function<void()>> tasks
  tasks_total,  \* std::atomic<ui32> tasks_total
  paused,       \* std::atomic<bool> paused
  running,      \* std::atomic<bool> running
  thread_count, \* ui32 thread_count
  worker,       \* where each worker thread is; "none" when there is no thread
  held,         \* the local variable task of each worker
  future,       \* "none" before submit, then the state of the shared promise
  submitting,   \* per client: the task between tasks_total++ and tasks.push
  owner,        \* where the owner is
  after,        \* what the owner's wait_for_tasks is part of
  next,         \* the loop index i of create_threads and destroy_threads
  was_paused,   \* reset's local variable
  seen,         \* the first operand read by get_tasks_running
  pushed,       \* history: the tasks in the order they entered the queue
  popped,       \* history: the tasks in the order they left it
  atCall        \* history: the tasks running when the owner called wait_for_tasks

poolVars   == <<tasks, tasks_total, paused, running, thread_count>>
workerVars == <<worker, held, future>>
ownerVars  == <<owner, after, next, was_paused, seen>>
queueLog   == <<pushed, popped>>
history    == <<pushed, popped, atCall>>
vars == <<poolVars, workerVars, submitting, ownerVars, history>>

Wrap(n) == n % Modulus

ToTask(s) == {s[i] : i \in 1..Len(s)}

-----------------------------------------------------------------------------
(* Clients.                                                                *)

\* Mutant: push_task does not count the task.
SubmitUncounted(c, t) ==
  /\ submitting[c] = NoTask
  /\ future[t] = "none"
  /\ owner # "gone" /\ after # "destroy"
  /\ future' = [future EXCEPT ![t] = "pending"]
  /\ submitting' = [submitting EXCEPT ![c] = t]
  /\ UNCHANGED <<poolVars, worker, held, ownerVars, history>>

\* submit: the promise is made, and push_task increments tasks_total first.
Submit(c, t) ==
  /\ submitting[c] = NoTask
  /\ future[t] = "none"
  /\ owner # "gone" /\ after # "destroy"
  /\ future' = [future EXCEPT ![t] = "pending"]
  /\ tasks_total' = Wrap(tasks_total + 1)
  /\ submitting' = [submitting EXCEPT ![c] = t]
  /\ UNCHANGED <<tasks, paused, running, thread_count, worker, held, ownerVars,
                 history>>

\* push_task: the task enters the queue under queue_mutex.
Push(c) ==
  /\ submitting[c] # NoTask
  /\ tasks' = Append(tasks, submitting[c])
  /\ pushed' = Append(pushed, submitting[c])
  /\ submitting' = [submitting EXCEPT ![c] = NoTask]
  /\ UNCHANGED <<tasks_total, paused, running, thread_count, workerVars,
                 ownerVars, popped, atCall>>

-----------------------------------------------------------------------------
(* Workers.                                                                *)

\* while (running)
ReadRunning(w) ==
  /\ worker[w] = "loop"
  /\ worker' = [worker EXCEPT ![w] = IF running THEN "check" ELSE "exit"]
  /\ UNCHANGED <<poolVars, held, future, submitting, ownerVars, history>>

\* if (!paused && ...; sleep_or_yield only delays the thread.
ReadPaused(w) ==
  /\ worker[w] = "check"
  /\ worker' = [worker EXCEPT ![w] = IF paused THEN "loop" ELSE "pop"]
  /\ UNCHANGED <<poolVars, held, future, submitting, ownerVars, history>>

\* Mutant: pop_task copies the front of the queue and forgets tasks.pop().
PopTaskKeeps(w) ==
  /\ worker[w] = "pop"
  /\ IF tasks = <<>>
     THEN /\ worker' = [worker EXCEPT ![w] = "loop"]
          /\ UNCHANGED <<held, popped>>
     ELSE /\ worker' = [worker EXCEPT ![w] = "run"]
          /\ held' = [held EXCEPT ![w] = Head(tasks)]
          /\ popped' = Append(popped, Head(tasks))
  /\ UNCHANGED <<poolVars, future, submitting, ownerVars, pushed, atCall>>

\* pop_task, under queue_mutex.
PopTask(w) ==
  /\ worker[w] = "pop"
  /\ IF tasks = <<>>
     THEN /\ worker' = [worker EXCEPT ![w] = "loop"]
          /\ UNCHANGED <<tasks, held, popped>>
     ELSE /\ worker' = [worker EXCEPT ![w] = "run"]
          /\ held' = [held EXCEPT ![w] = Head(tasks)]
          /\ tasks' = Tail(tasks)
          /\ popped' = Append(popped, Head(tasks))
  /\ UNCHANGED <<tasks_total, paused, running, thread_count, future, submitting,
                 ownerVars, pushed, atCall>>

\* Mutant: the wrapper catches what the task throws and sets no exception, so
\* that the promise is broken when the wrapper is destroyed.
RunTaskSwallows(w) ==
  /\ worker[w] = "run"
  /\ \E outcome \in {"value", "broken"} :
       future' = [future EXCEPT ![held[w]] = outcome]
  /\ worker' = [worker EXCEPT ![w] = "ran"]
  /\ UNCHANGED <<poolVars, held, submitting, ownerVars, history>>

\* task(): the wrapper made by submit sets the promise to the task's value or
\* to the exception it threw, and throws nothing itself.
RunTask(w) ==
  /\ worker[w] = "run"
  /\ \E outcome \in {"value", "exception"} :
       future' = [future EXCEPT ![held[w]] = outcome]
  /\ worker' = [worker EXCEPT ![w] = "ran"]
  /\ UNCHANGED <<poolVars, held, submitting, ownerVars, history>>

\* Mutant: a task that throws is not counted down.
CountDownValuesOnly(w) ==
  /\ worker[w] = "ran"
  /\ tasks_total' = IF future[held[w]] = "value" THEN Wrap(tasks_total - 1)
                                                ELSE tasks_total
  /\ worker' = [worker EXCEPT ![w] = "loop"]
  /\ held' = [held EXCEPT ![w] = NoTask]
  /\ UNCHANGED <<tasks, paused, running, thread_count, future, submitting,
                 ownerVars, history>>

\* tasks_total--
CountDown(w) ==
  /\ worker[w] = "ran"
  /\ tasks_total' = Wrap(tasks_total - 1)
  /\ worker' = [worker EXCEPT ![w] = "loop"]
  /\ held' = [held EXCEPT ![w] = NoTask]
  /\ UNCHANGED <<tasks, paused, running, thread_count, future, submitting,
                 ownerVars, history>>

WorkerStep(w) ==
  ReadRunning(w) \/ ReadPaused(w) \/ PopTask(w) \/ RunTask(w) \/ CountDown(w)

-----------------------------------------------------------------------------
(* The owner.                                                              *)

\* One iteration of create_threads: threads[i] = std::thread(worker).
CreateThread ==
  /\ owner = "create"
  /\ IF next < thread_count
     THEN /\ worker' = [worker EXCEPT ![next] = "loop"]
          /\ next' = next + 1
          /\ UNCHANGED owner
     ELSE /\ owner' = "idle"
          /\ UNCHANGED <<worker, next>>
  /\ UNCHANGED <<poolVars, held, future, submitting, after, was_paused,
                 seen, history>>

\* The public variable paused.
SetPaused(b) ==
  /\ owner = "idle"
  /\ paused' = b
  /\ UNCHANGED <<tasks, tasks_total, running, thread_count, workerVars,
                 submitting, ownerVars, history>>

\* wait_for_tasks called by the owner.
CallWait ==
  /\ owner = "idle"
  /\ owner' = "wait" /\ after' = "idle"
  /\ atCall' = {held[w] : w \in {x \in Index : worker[x] = "run"}}
  /\ UNCHANGED <<poolVars, workerVars, submitting, next, was_paused, seen,
                 queueLog>>

\* reset: remember paused, pause, and wait.
CallReset ==
  /\ owner = "idle"
  /\ was_paused' = paused
  /\ paused' = TRUE
  /\ owner' = "wait" /\ after' = "reset"
  /\ UNCHANGED <<tasks, tasks_total, running, thread_count, workerVars,
                 submitting, next, seen, history>>

\* Mutant: the destructor does not call wait_for_tasks.
CallDestroyNoWait ==
  /\ owner = "idle"
  /\ \A c \in Client : submitting[c] = NoTask
  /\ owner' = "waited" /\ after' = "destroy"
  /\ UNCHANGED <<poolVars, workerVars, submitting, next, was_paused, seen,
                 history>>

\* ~thread_pool; nobody may be using the pool any more.
CallDestroy ==
  /\ owner = "idle"
  /\ \A c \in Client : submitting[c] = NoTask
  /\ owner' = "wait" /\ after' = "destroy"
  /\ UNCHANGED <<poolVars, workerVars, submitting, next, was_paused, seen,
                 history>>

\* wait_for_tasks: if (!paused)
WaitReadPaused ==
  /\ owner = "wait"
  /\ owner' = IF paused THEN "waitRunning" ELSE "waitTotal"
  /\ UNCHANGED <<poolVars, workerVars, submitting, after, next, was_paused,
                 seen, history>>

\* wait_for_tasks: if (tasks_total == 0) break;
WaitReadTotal ==
  /\ owner = "waitTotal"
  /\ owner' = IF tasks_total = 0 THEN "waited" ELSE "wait"
  /\ UNCHANGED <<poolVars, workerVars, submitting, after, next, was_paused,
                 seen, history>>

\* get_tasks_running reads tasks_total and the size of the queue, one after the
\* other: C++ leaves the order of the operands of the subtraction open.
RunningReadFirst ==
  /\ owner = "waitRunning"
  /\ \/ owner' = "haveTotal" /\ seen' = tasks_total
     \/ owner' = "haveQueued" /\ seen' = Len(tasks)
  /\ UNCHANGED <<poolVars, workerVars, submitting, after, next, was_paused,
                 history>>

\* wait_for_tasks: if (get_tasks_running() == 0) break;
RunningReadSecond ==
  /\ owner \in {"haveTotal", "haveQueued"}
  /\ LET tasks_running == IF owner = "haveTotal" THEN Wrap(seen - Len(tasks))
                                                 ELSE Wrap(tasks_total - seen)
     IN  owner' = IF tasks_running = 0 THEN "waited" ELSE "wait"
  /\ seen' = 0
  /\ UNCHANGED <<poolVars, workerVars, submitting, after, next, was_paused,
                 history>>

\* Mutant: destroy_threads joins no thread.
WaitedNoJoin ==
  /\ owner = "waited"
  /\ IF after = "idle"
     THEN owner' = "idle" /\ UNCHANGED <<running, next>>
     ELSE owner' = "join" /\ running' = FALSE /\ next' = thread_count
  /\ atCall' = {}
  /\ UNCHANGED <<tasks, tasks_total, paused, thread_count, workerVars, submitting,
                 after, was_paused, seen, queueLog>>

\* wait_for_tasks returns; reset and the destructor go on with running = false.
Waited ==
  /\ owner = "waited"
  /\ IF after = "idle"
     THEN owner' = "idle" /\ UNCHANGED <<running, next>>
     ELSE owner' = "join" /\ running' = FALSE /\ next' = 0
  /\ atCall' = {}
  /\ UNCHANGED <<tasks, tasks_total, paused, thread_count, workerVars, submitting,
                 after, was_paused, seen, queueLog>>

\* One iteration of destroy_threads: threads[i].join().
JoinThread ==
  /\ owner = "join" /\ next < thread_count
  /\ worker[next] = "exit"
  /\ worker' = [worker EXCEPT ![next] = "none"]
  /\ next' = next + 1
  /\ UNCHANGED <<poolVars, held, future, submitting, owner, after, was_paused,
                 seen, history>>

\* Mutant: reset forgets running = true.
RestartNotRunning(n) ==
  /\ owner = "join" /\ next = thread_count /\ after = "reset"
  /\ thread_count' = n
  /\ paused' = was_paused /\ was_paused' = FALSE
  /\ owner' = "create" /\ after' = "idle" /\ next' = 0
  /\ UNCHANGED <<tasks, tasks_total, running, workerVars, submitting, seen, history>>

\* reset(n) after destroy_threads: n threads are created with the old paused.
Restart(n) ==
  /\ owner = "join" /\ next = thread_count /\ after = "reset"
  /\ thread_count' = n
  /\ paused' = was_paused /\ was_paused' = FALSE
  /\ running' = TRUE
  /\ owner' = "create" /\ after' = "idle" /\ next' = 0
  /\ UNCHANGED <<tasks, tasks_total, workerVars, submitting, seen, history>>

\* The end of the destructor: the queue is destroyed, and with it the promises
\* of the tasks in it.
Destroyed ==
  /\ owner = "join" /\ next = thread_count /\ after = "destroy"
  /\ owner' = "gone"
  /\ future' = [t \in Task |-> IF t \in ToTask(tasks) THEN "broken" ELSE future[t]]
  /\ tasks' = <<>>
  /\ UNCHANGED <<tasks_total, paused, running, thread_count, worker, held,
                 submitting, after, next, was_paused, seen, history>>

\* The steps that the owner takes by itself, inside a call.
OwnerStep ==
  \/ CreateThread \/ WaitReadPaused \/ WaitReadTotal \/ RunningReadFirst
  \/ RunningReadSecond \/ Waited \/ JoinThread \/ Destroyed
  \/ \E n \in 1..MaxThreads : Restart(n)

-----------------------------------------------------------------------------
Init ==
  /\ tasks = <<>> /\ tasks_total = 0
  /\ paused = FALSE /\ running = TRUE
  /\ thread_count \in 1..MaxThreads
  /\ worker = [w \in Index |-> "none"]
  /\ held = [w \in Index |-> NoTask]
  /\ future = [t \in Task |-> "none"]
  /\ submitting = [c \in Client |-> NoTask]
  /\ owner = "create" /\ after = "idle" /\ next = 0
  /\ was_paused = FALSE /\ seen = 0 /\ atCall = {}
  /\ pushed = <<>> /\ popped = <<>>

Next ==
  \/ \E c \in Client, t \in Task : Submit(c, t)
  \/ \E c \in Client : Push(c)
  \/ \E w \in Index : WorkerStep(w)
  \/ \E b \in BOOLEAN : SetPaused(b)
  \/ CallWait \/ CallReset \/ CallDestroy
  \/ OwnerStep

Spec == Init /\ [][Next]_vars

\* Threads that can take a step are scheduled, and tasks return.
FairSpec == /\ Spec
            /\ \A w \in Index : WF_vars(WorkerStep(w))
            /\ \A c \in Client : WF_vars(Push(c))
            /\ WF_vars(OwnerStep)

-----------------------------------------------------------------------------
(* Properties.                                                             *)

WorkerPc == {"none", "loop", "check", "pop", "run", "ran", "exit"}
OwnerPc  == {"create", "idle", "wait", "waitTotal", "waitRunning", "haveTotal",
             "haveQueued", "waited", "join", "gone"}

\* Every variable keeps its type; in particular the index of create_threads and
\* destroy_threads never passes the end of the array of threads.
TypeOK ==
  /\ tasks \in Seq(Task) /\ tasks_total \in 0..Modulus-1
  /\ paused \in BOOLEAN /\ running \in BOOLEAN
  /\ thread_count \in 1..MaxThreads
  /\ worker \in [Index -> WorkerPc]
  /\ held \in [Index -> Task \cup {NoTask}]
  /\ future \in [Task -> {"none", "pending", "value", "exception", "broken"}]
  /\ submitting \in [Client -> Task \cup {NoTask}]
  /\ owner \in OwnerPc /\ after \in {"idle", "reset", "destroy"}
  /\ next \in 0..MaxThreads /\ was_paused \in BOOLEAN /\ seen \in Nat
  /\ pushed \in Seq(Task) /\ popped \in Seq(Task) /\ atCall \subseteq Task

\* The tasks that submit has counted and no worker has counted down.
Submitting == {submitting[c] : c \in Client} \ {NoTask}
InWorkers  == {held[w] : w \in Index} \ {NoTask}
Unfinished == Submitting \cup ToTask(tasks) \cup InWorkers

\* tasks_total, which is changed apart from the queue (push_task, line 175, and
\* worker, line 391), is at every moment exactly the number of tasks on their
\* way into the queue, in it, or in a worker: it never wraps below zero and
\* wait_for_tasks never reads 0 too early.
TasksTotalExact == owner # "gone" => tasks_total = Cardinality(Unfinished)

\* The queue hands out every task that was pushed, once, in the order of the
\* pushes, whatever resets and pauses happen in between.
EachPushedOnceInOrder ==
  /\ owner # "gone" => pushed = popped \o tasks
  /\ \A i, j \in 1..Len(pushed) : pushed[i] = pushed[j] => i = j

\* When wait_for_tasks returns on a pool that is not paused, the promise of
\* every task submitted so far has been set.
WaitReturnsDrained ==
  [][owner = "waitTotal" /\ owner' = "waited"
       => \A t \in Task : future[t] # "pending"]_vars

\* reset creates no thread before it has joined all old ones, and a destroyed
\* pool leaves no thread behind.
OldThreadsJoined ==
  /\ owner = "create" => \A w \in Index : w >= next => worker[w] = "none"
  /\ owner = "gone" => \A w \in Index : worker[w] = "none"

\* The destructor of a pool that is not paused breaks no promise: all tasks
\* submitted before it have run.
DestructorRunsAll ==
  owner = "gone" /\ ~paused =>
    \A t \in Task : future[t] \in {"none", "value", "exception"}

\* "When set to true, the workers temporarily stop popping new tasks out of the
\* queue" (line 313): no task is popped while paused is true.
PausedStopsPopping == [][paused => popped' = popped]_vars

\* "if the variable paused is set to true, this function only waits for the
\* currently running tasks" (line 288): when it returns, no task that was
\* running at the call still runs.
PausedWaitWaitsForRunning ==
  [][owner' = "waited" /\ owner \in {"haveTotal", "haveQueued"}
       => \A w \in Index : ~ (worker[w] = "run" /\ held[w] \in atCall)]_vars

\* If from some time on nobody pauses the pool, every submitted task gets its
\* promise set.
FuturesGetReady ==
  <>[](~paused) =>
    \A t \in Task : future[t] = "pending" ~> future[t] \in {"value", "exception"}

\* wait_for_tasks, reset and the destructor return, paused or not.
CallsReturn == owner \notin {"idle", "gone"} ~> owner \in {"idle", "gone"}

\* To those who submit tasks the pool is a PoolContract: each future is made
\* ready exactly once, and the destructor leaves none pending.
Contract == INSTANCE PoolContract WITH status <- future, closed <- owner = "gone"
ImplementsContract == Contract!ContractSpec
=============================================================================
