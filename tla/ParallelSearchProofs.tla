------------------------ MODULE ParallelSearchProofs ------------------------
(***************************************************************************)
(* The rounds of the parallel search, for every list of thread numbers,    *)
(* every number of processors and every number of values.                  *)
(***************************************************************************)
EXTENDS ParallelSearch, TLAPS

-----------------------------------------------------------------------------
(* The chunks are intervals of the list of values.                         *)

(* A product grows with its first factor. *)
LEMMA TimesGrows ==
  ASSUME NEW a \in Nat, NEW b \in Nat, NEW n \in Nat, a =< b
  PROVE  a * n =< b * n /\ a * n \in Nat /\ b * n \in Nat
<1>1. PICK d \in Nat : b = a + d
  BY SMT
<1>2. b * n = a * n + d * n /\ a * n \in Nat /\ d * n \in Nat
  BY <1>1, Z3
<1> QED
  BY <1>2, SMT

(* Chunks of equal size do not reach beyond the list. *)
LEMMA SizeFits ==
  ASSUME DataSize \in Nat, threadNmb \in Nat \ {0}
  PROVE  ChunkSize \in Nat /\ threadNmb * ChunkSize =< DataSize
BY Z3 DEF ChunkSize

(* Each chunk lies within the list. *)
LEMMA ChunkBounds ==
  ASSUME DataSize \in Nat, threadNmb \in Nat \ {0}, NEW c \in 0..threadNmb-1
  PROVE  /\ ChunkStart(c) \in Nat /\ ChunkEnd(c) \in Nat
         /\ ChunkStart(c) =< ChunkEnd(c) /\ ChunkEnd(c) =< DataSize
<1>1. ChunkSize \in Nat /\ threadNmb * ChunkSize =< DataSize
  BY SizeFits
<1>2. c * ChunkSize \in Nat /\ (c + 1) * ChunkSize =< threadNmb * ChunkSize
  BY <1>1, TimesGrows, c \in Nat, c + 1 \in Nat, c + 1 =< threadNmb
<1>3. (c + 1) * ChunkSize = c * ChunkSize + ChunkSize
  BY <1>1, Z3
<1> QED
  BY <1>1, <1>2, <1>3, SMT DEF ChunkStart, ChunkEnd

(* A chunk ends before a later one starts. *)
LEMMA ChunksOrdered ==
  ASSUME DataSize \in Nat, threadNmb \in Nat \ {0},
         NEW c \in 0..threadNmb-1, NEW d \in 0..threadNmb-1, c < d
  PROVE  ChunkEnd(c) =< ChunkStart(d)
<1>1. ChunkSize \in Nat
  BY SizeFits
<1>2. (c + 1) * ChunkSize =< d * ChunkSize
  BY <1>1, TimesGrows, c + 1 \in Nat, d \in Nat, c + 1 =< d
<1>3. (c + 1) * ChunkSize = c * ChunkSize + ChunkSize
  BY <1>1, Z3
<1> QED
  BY <1>2, <1>3, SMT DEF ChunkStart, ChunkEnd

(* Every value is in a chunk. *)
LEMMA ChunksCover ==
  ASSUME DataSize \in Nat, threadNmb \in Nat \ {0}, NEW p \in Position
  PROVE  \E c \in 0..threadNmb-1 : ChunkStart(c) =< p /\ p < ChunkEnd(c)
<1>1. ChunkSize \in Nat /\ threadNmb * ChunkSize =< DataSize
  BY SizeFits
<1>2. CASE ChunkStart(threadNmb - 1) =< p
  BY <1>2, threadNmb - 1 \in 0..threadNmb-1 DEF ChunkEnd, Position
<1>3. CASE ~(ChunkStart(threadNmb - 1) =< p)
  <2> DEFINE q == p \div ChunkSize
  <2>1. ChunkSize > 0
    BY <1>1, <1>3, Z3 DEF ChunkStart, Position
  <2>2. q \in Nat /\ q * ChunkSize =< p /\ p < q * ChunkSize + ChunkSize
    BY <1>1, <2>1, Z3 DEF Position
  <2> HIDE DEF q
  <2>3. q < threadNmb - 1
    <3> SUFFICES ASSUME threadNmb - 1 =< q PROVE FALSE
      BY <2>2, SMT
    <3>1. (threadNmb - 1) * ChunkSize =< q * ChunkSize /\ (threadNmb - 1) * ChunkSize \in Nat
      BY <1>1, <2>2, TimesGrows, threadNmb - 1 \in Nat
    <3> QED
      BY <3>1, <2>2, <1>3, <1>1, SMT DEF ChunkStart, Position
  <2>4. ChunkStart(q) =< p /\ p < ChunkEnd(q)
    BY <2>2, <2>3, SMT DEF ChunkStart, ChunkEnd
  <2> QED
    BY <2>2, <2>3, <2>4
<1> QED
  BY <1>2, <1>3
-----------------------------------------------------------------------------
(* The inductive invariant.                                                *)

(* The chunks of this round that have been submitted. *)
Submitted(c) == c < (IF searchPc = "submit" THEN i ELSE threadNmb)

(* Task c has been at value p. *)
Passed(c, p) == status[c] # "none" /\ ChunkStart(c) =< p /\ p < position[c]

(* The position of a task is in its chunk, and at its end once the task has *)
(* a value; no promise is broken.                                          *)
TaskInv ==
  \A c \in Chunk :
    /\ status[c] # "none" <=> Submitted(c)
    /\ status[c] # "none" =>
         ChunkStart(c) =< position[c] /\ position[c] =< ChunkEnd(c)
    /\ status[c] = "value" => position[c] = ChunkEnd(c)
    /\ status[c] # "broken"

(* A value has been searched once when some task has passed it. *)
SearchedOnce ==
  \A p \in Position :
    searches[p] = IF \E c \in Chunk : Passed(c, p) THEN 1 ELSE 0

(* The futures the main thread has waited for are ready. *)
MainInv ==
  /\ searchPc = "wait" => \A c \in Chunk : c < i => status[c] # "pending"
  /\ searchPc \in {"rounds", "end"} => \A c \in Chunk : status[c] # "pending"
  /\ searchPc \in {"submit", "wait"} => threadNmb > 0 /\ round =< Len(Threads)
  /\ treeDeleted => searchPc = "end"

SearchInv == SearchTypeOK /\ TaskInv /\ SearchedOnce /\ MainInv

LEMMA SearchStarts ==
  ASSUME SearchAssumption, SearchInit
  PROVE  SearchInv
<1>1. SearchTypeOK
  <2>1. closed \in BOOLEAN /\ treeDeleted \in BOOLEAN
    BY Zenon DEF SearchInit
  <2> QED
    BY <2>1 DEF SearchAssumption, SearchInit, SearchTypeOK, Chunk, Position
<1>2. TaskInv /\ SearchedOnce /\ MainInv
  BY DEF SearchAssumption, SearchInit, TaskInv, SearchedOnce, MainInv, Submitted, Passed, Chunk, Position
<1> QED
  BY <1>1, <1>2 DEF SearchInv

(* Steps of the main thread inside a round: no task moves but the one that  *)
(* is submitted, and it has passed nothing.                                 *)
LEMMA MainKeeps ==
  ASSUME SearchAssumption, SearchInv,
         SubmitChunk \/ EndSubmit \/ WaitFuture \/ EndRound \/ DeleteTree
  PROVE  SearchInv'
<1> USE DEF SearchAssumption, SearchInv
<1>1. CASE SubmitChunk
  <2> USE <1>1
  <2>1. /\ i \in 0..threadNmb-1 /\ i \in Chunk /\ threadNmb \in Nat \ {0}
        /\ searchPc = "submit" /\ searchPc' = searchPc /\ i' = i + 1
        /\ status[i] = "none"
        /\ status' = [status EXCEPT ![i] = "pending"]
        /\ position' = [position EXCEPT ![i] = ChunkStart(i)]
        /\ UNCHANGED <<round, threadNmb, searches, treeDeleted, closed>>
    BY DEF SubmitChunk, Futures!SubmitTask, SearchTypeOK, MainInv, Chunk
  <2>2. \A c \in Chunk : ChunkStart(c)' = ChunkStart(c) /\ ChunkEnd(c)' = ChunkEnd(c)
    BY <2>1 DEF ChunkStart, ChunkEnd, ChunkSize
  <2>3. /\ ChunkStart(i) \in Nat /\ ChunkEnd(i) \in Nat
        /\ ChunkStart(i) =< ChunkEnd(i) /\ ChunkEnd(i) =< DataSize
    BY <2>1, ChunkBounds
  <2>4. SearchTypeOK'
    BY SMTT(30), <2>1, <2>3 DEF SearchTypeOK
  <2>5. TaskInv'
    BY SMTT(30), <2>1, <2>2, <2>3 DEF SearchTypeOK, TaskInv, Submitted, Chunk
  <2>6. \A p \in Position, c \in Chunk : Passed(c, p)' <=> Passed(c, p)
    BY SMTT(30), <2>1, <2>2, <2>3 DEF SearchTypeOK, Passed, Position
  <2>7. SearchedOnce'
    BY <2>1, <2>6 DEF SearchedOnce
  <2>8. MainInv'
    BY <2>1 DEF MainInv
  <2> QED
    BY <2>4, <2>5, <2>7, <2>8
<1>2. CASE EndSubmit \/ WaitFuture \/ EndRound \/ DeleteTree
  <2>1. UNCHANGED <<threadNmb, status, closed, position, searches>>
    BY <1>2 DEF EndSubmit, WaitFuture, EndRound, DeleteTree, futureVars
  <2>2. (IF searchPc' = "submit" THEN i' ELSE threadNmb') = (IF searchPc = "submit" THEN i ELSE threadNmb)
    BY <1>2, <2>1 DEF EndSubmit, WaitFuture, EndRound, DeleteTree
  <2>3. SearchTypeOK'
    <3>1. closed' \in BOOLEAN /\ treeDeleted' \in BOOLEAN
      BY <1>2, <2>1, Zenon DEF EndSubmit, WaitFuture, EndRound, DeleteTree, SearchTypeOK
    <3> QED
      BY SMTT(30), <1>2, <2>1, <3>1 DEF EndSubmit, WaitFuture, EndRound, DeleteTree, SearchTypeOK, MainInv
  <2>4. TaskInv'
    BY <2>1, <2>2 DEF TaskInv, Submitted, ChunkStart, ChunkEnd, ChunkSize
  <2>5. SearchedOnce'
    BY <2>1 DEF SearchedOnce, Passed, ChunkStart, ChunkSize
  <2>6. MainInv'
    <3>1. CASE EndSubmit
      BY <3>1, <2>1 DEF EndSubmit, MainInv, Chunk
    <3>2. CASE WaitFuture
      <4>1. \A c \in Chunk : c < i + 1 => c < i \/ c = i
        BY DEF Chunk, SearchTypeOK
      <4> QED
        BY <3>2, <2>1, <4>1 DEF WaitFuture, MainInv
    <3>3. CASE EndRound
      <4>1. \A c \in Chunk : status[c] # "pending"
        BY <3>3 DEF EndRound, MainInv, TaskInv, Submitted
      <4> QED
        BY <3>3, <2>1, <4>1 DEF EndRound, MainInv
    <3>4. CASE DeleteTree
      BY <3>4, <2>1 DEF DeleteTree, MainInv
    <3> QED
      BY <1>2, <3>1, <3>2, <3>3, <3>4
  <2> QED
    BY <2>3, <2>4, <2>5, <2>6
<1> QED
  BY <1>1, <1>2

(* A new round starts with every task and every count fresh. *)
LEMMA RoundStarts ==
  ASSUME SearchAssumption, SearchInv, StartRound
  PROVE  SearchInv'
<1> USE DEF SearchAssumption, SearchInv
<1>1. CASE Threads[round] =< HardwareConcurrency
  <2>1. /\ threadNmb' \in 1..HardwareConcurrency /\ round' = round
        /\ status' = [c \in Chunk |-> "none"] /\ closed' = FALSE
        /\ position' = [c \in Chunk |-> 0] /\ searches' = [p \in Position |-> 0]
        /\ searchPc = "rounds" /\ searchPc' = "submit" /\ i' = 0 /\ round =< Len(Threads)
        /\ treeDeleted' = treeDeleted
    BY <1>1 DEF StartRound, SearchTypeOK
  <2>2. SearchTypeOK'
    <3>1. closed' \in BOOLEAN /\ treeDeleted' \in BOOLEAN
      BY <2>1, Zenon DEF SearchTypeOK
    <3> QED
      BY <2>1, <3>1 DEF SearchTypeOK
  <2>3. TaskInv' /\ SearchedOnce' /\ MainInv'
    BY <2>1 DEF SearchTypeOK, TaskInv, SearchedOnce, MainInv, Submitted, Passed, Chunk, Position
  <2> QED
    BY <2>2, <2>3
<1>2. CASE ~(Threads[round] =< HardwareConcurrency)
  <2>1. /\ UNCHANGED <<threadNmb, searchPc, i, status, closed, position, searches, treeDeleted>>
        /\ round' = round + 1 /\ searchPc = "rounds" /\ round =< Len(Threads)
    BY <1>2 DEF StartRound, futureVars
  <2>2. SearchTypeOK'
    <3>1. closed' \in BOOLEAN /\ treeDeleted' \in BOOLEAN
      BY <2>1, Zenon DEF SearchTypeOK
    <3> QED
      BY <2>1, <3>1 DEF SearchTypeOK
  <2>3. TaskInv' /\ SearchedOnce'
    BY <2>1 DEF TaskInv, SearchedOnce, Submitted, Passed, ChunkStart, ChunkEnd, ChunkSize
  <2>4. MainInv'
    BY <2>1 DEF MainInv
  <2> QED
    BY <2>2, <2>3, <2>4
<1> QED
  BY <1>1, <1>2

(* A task has been submitted, so it has a chunk of the round. *)
LEMMA PendingInRound ==
  ASSUME SearchAssumption, SearchInv, NEW c \in Chunk, status[c] # "none"
  PROVE  c \in 0..threadNmb-1 /\ threadNmb \in Nat \ {0}
BY DEF SearchAssumption, SearchInv, SearchTypeOK, TaskInv, Submitted, Chunk

(* One value: no other task has passed it, since the chunks are apart. *)
LEMMA SearchValueKeeps ==
  ASSUME SearchAssumption, SearchInv, NEW c \in Chunk, SearchValue(c)
  PROVE  SearchInv'
<1> USE DEF SearchAssumption, SearchInv
<1>1. /\ status[c] = "pending" /\ position[c] < ChunkEnd(c)
      /\ searches' = [searches EXCEPT ![position[c]] = searches[position[c]] + 1]
      /\ position' = [position EXCEPT ![c] = position[c] + 1]
      /\ UNCHANGED <<round, threadNmb, searchPc, i, status, closed, treeDeleted>>
  BY DEF SearchValue, mainVars, futureVars
<1>2. c \in 0..threadNmb-1 /\ threadNmb \in Nat \ {0}
  BY <1>1, PendingInRound
<1>3. /\ ChunkStart(c) \in Nat /\ ChunkEnd(c) \in Nat
      /\ ChunkStart(c) =< ChunkEnd(c) /\ ChunkEnd(c) =< DataSize
  BY <1>2, ChunkBounds
<1>4. /\ ChunkStart(c) =< position[c] /\ position[c] \in Position
      /\ position[c] \in Nat /\ position[c] + 1 =< ChunkEnd(c)
  BY SMTT(30), <1>1, <1>3 DEF SearchTypeOK, TaskInv, Position
<1>5. SearchTypeOK'
  <2>1. closed' \in BOOLEAN /\ treeDeleted' \in BOOLEAN
    BY <1>1, Zenon DEF SearchTypeOK
  <2> QED
    BY SMTT(30), <1>1, <1>3, <1>4, <2>1 DEF SearchTypeOK
<1>6. TaskInv'
  <2>1. /\ position'[c] = position[c] + 1
        /\ \A d \in Chunk : d # c => position'[d] = position[d]
    BY <1>1 DEF SearchTypeOK
  <2>2. \A d \in Chunk : /\ ChunkStart(d)' = ChunkStart(d) /\ ChunkEnd(d)' = ChunkEnd(d)
                         /\ Submitted(d)' <=> Submitted(d)
    BY <1>1 DEF ChunkStart, ChunkEnd, ChunkSize, Submitted
  <2>3. ChunkStart(c) =< position'[c] /\ position'[c] =< ChunkEnd(c)
    BY <1>3, <1>4, <2>1
  <2> QED
    BY <1>1, <2>1, <2>2, <2>3 DEF TaskInv
<1>7. SearchedOnce'
  <2>0. PICK q \in Position : q = position[c]
    BY <1>4
  <2>1. ASSUME NEW d \in Chunk PROVE ~Passed(d, q)
    <3>1. CASE d = c
      BY <3>1, <1>4, <2>0 DEF Passed
    <3>2. CASE d # c /\ status[d] # "none"
      <4>1. d \in 0..threadNmb-1 /\ position[d] =< ChunkEnd(d) /\ position[d] \in Nat
        BY <3>2, PendingInRound DEF TaskInv, SearchTypeOK
      <4>2. /\ ChunkStart(d) \in Nat /\ ChunkEnd(d) \in Nat
        BY <4>1, <1>2, ChunkBounds
      <4>3. CASE c < d
        BY <4>3, <4>1, <4>2, <1>1, <1>2, <1>3, <1>4, <2>0, ChunksOrdered DEF Passed
      <4>4. CASE d < c
        <5>1. ChunkEnd(d) =< ChunkStart(c)
          BY <4>4, <4>1, <1>2, ChunksOrdered
        <5> QED
          BY SMTT(30), <5>1, <4>1, <4>2, <1>3, <1>4, <2>0 DEF Passed
      <4> QED
        BY <4>3, <4>4, <4>1, <1>2, <3>2
    <3>3. CASE status[d] = "none"
      BY <3>3 DEF Passed
    <3> QED
      BY <3>1, <3>2, <3>3
  <2>2. searches[q] = 0
    BY <2>1, <1>4, <2>0 DEF SearchedOnce
  <2>3. Passed(c, q)'
    BY <1>1, <1>3, <1>4, <2>0 DEF Passed, ChunkStart, ChunkSize, SearchTypeOK
  <2>4. ASSUME NEW p \in Position, p # q, NEW d \in Chunk
        PROVE  Passed(d, p)' <=> Passed(d, p)
    BY SMTT(30), <2>4, <1>1, <1>4, <2>0 DEF Passed, ChunkStart, ChunkSize, SearchTypeOK, Position
  <2>5. searches'[q] = 1
    BY <1>1, <1>4, <2>0, <2>2 DEF SearchTypeOK
  <2>6. ASSUME NEW p \in Position
        PROVE  searches'[p] = IF \E d \in Chunk : Passed(d, p)' THEN 1 ELSE 0
    <3>1. CASE p = q
      BY <3>1, <2>3, <2>5
    <3>2. CASE p # q
      <4>1. searches'[p] = searches[p]
        BY <3>2, <2>0, <1>1 DEF SearchTypeOK
      <4>2. (\E d \in Chunk : Passed(d, p)') <=> (\E d \in Chunk : Passed(d, p))
        BY <3>2, <2>4
      <4> QED
        BY <4>1, <4>2 DEF SearchedOnce
    <3> QED
      BY <3>1, <3>2
  <2> QED
    BY <2>6 DEF SearchedOnce
<1>8. MainInv'
  BY <1>1 DEF MainInv
<1> QED
  BY <1>5, <1>6, <1>7, <1>8

(* A task that ends stays where it is; with a value it is at the end. *)
LEMMA TaskEnds ==
  ASSUME SearchAssumption, SearchInv, NEW c \in Chunk, SearchThrows(c) \/ EndChunk(c)
  PROVE  SearchInv'
<1> USE DEF SearchAssumption, SearchInv
<1>1. /\ status[c] = "pending"
      /\ UNCHANGED <<round, threadNmb, searchPc, i, position, searches, closed, treeDeleted>>
      /\ \/ status' = [status EXCEPT ![c] = "exception"]
         \/ status' = [status EXCEPT ![c] = "value"] /\ position[c] >= ChunkEnd(c)
  BY DEF SearchThrows, EndChunk, Futures!FinishTask, mainVars
<1>2. c \in 0..threadNmb-1 /\ threadNmb \in Nat \ {0}
  BY <1>1, PendingInRound
<1>3. ChunkEnd(c) \in Nat /\ position[c] \in Nat
  BY <1>2, ChunkBounds DEF SearchTypeOK
<1>4. SearchTypeOK'
  <2>1. closed' \in BOOLEAN /\ treeDeleted' \in BOOLEAN
    BY <1>1, Zenon DEF SearchTypeOK
  <2> QED
    BY Zenon, <1>1, <2>1 DEF SearchTypeOK
<1>5. TaskInv'
  BY <1>1, <1>3 DEF TaskInv, Submitted, ChunkStart, ChunkEnd, ChunkSize, SearchTypeOK
<1>6. SearchedOnce'
  <2>1. ASSUME NEW p \in Position, NEW d \in Chunk
        PROVE  Passed(d, p)' <=> Passed(d, p)
    BY <1>1 DEF Passed, ChunkStart, ChunkSize, SearchTypeOK
  <2> QED
    BY <1>1, <2>1 DEF SearchedOnce
<1>7. MainInv'
  BY <1>1 DEF MainInv, SearchTypeOK
<1> QED
  BY <1>4, <1>5, <1>6, <1>7

LEMMA SearchInductive ==
  ASSUME SearchAssumption, SearchInv, [SearchNext]_parallelVars
  PROVE  SearchInv'
<1>1. CASE UNCHANGED parallelVars
  BY <1>1 DEF parallelVars, mainVars, futureVars, SearchInv, SearchTypeOK, TaskInv, SearchedOnce, MainInv,
     Submitted, Passed, ChunkStart, ChunkEnd, ChunkSize
<1>2. CASE MainStep
  BY <1>2, RoundStarts, MainKeeps DEF MainStep
<1>3. ASSUME NEW c \in Chunk, TaskStep(c) PROVE SearchInv'
  BY <1>3, SearchValueKeeps, TaskEnds DEF TaskStep
<1> QED
  BY <1>1, <1>2, <1>3 DEF SearchNext

-----------------------------------------------------------------------------
(* The properties.                                                         *)

(* Every variable keeps its type; no task leaves the list of values. *)
THEOREM SearchType ==
  ASSUME SearchAssumption
  PROVE  SearchSpec => []SearchTypeOK
<1>1. SearchInv => SearchTypeOK
  BY DEF SearchInv
<1> QED
  BY <1>1, SearchStarts, SearchInductive, PTL DEF SearchSpec

(* No value is searched by two tasks of a round, whatever the numbers of    *)
(* threads and values (the loop of CheckInHierarchyMultiplyValueForOneThread *)
(* that makes the chunks).                                                  *)
THEOREM ChunksApartThm ==
  ASSUME SearchAssumption
  PROVE  SearchSpec => []ChunksApart
<1>1. SearchInv => ChunksApart
  BY DEF SearchInv, SearchedOnce, ChunksApart
<1> QED
  BY <1>1, SearchStarts, SearchInductive, PTL DEF SearchSpec

(* When a round is over each value has been searched exactly once, unless  *)
(* the task of its chunk threw.                                            *)
THEOREM RoundCoversValuesThm ==
  ASSUME SearchAssumption
  PROVE  SearchSpec => []RoundCoversValues
<1>1. ASSUME SearchInv PROVE RoundCoversValues
  <2> SUFFICES ASSUME searchPc = "rounds", threadNmb > 0, NEW p \in Position
               PROVE  searches[p] = 1 \/ (searches[p] = 0 /\ ChunkFailed(p))
    BY DEF RoundCoversValues
  <2>1. threadNmb \in Nat \ {0} /\ DataSize \in Nat
    BY <1>1 DEF SearchInv, SearchTypeOK, SearchAssumption
  <2>2. PICK c \in 0..threadNmb-1 : ChunkStart(c) =< p /\ p < ChunkEnd(c)
    BY <2>1, ChunksCover
  <2>3. c \in Chunk /\ status[c] \in {"value", "exception"}
    BY <1>1, <2>1 DEF SearchInv, SearchTypeOK, TaskInv, MainInv, Submitted, Chunk, SearchAssumption
  <2>4. CASE status[c] = "value"
    BY <2>2, <2>3, <2>4, <1>1 DEF SearchInv, TaskInv, SearchedOnce, Passed
  <2>5. CASE status[c] = "exception"
    BY <2>2, <2>5, <1>1 DEF SearchInv, SearchedOnce, ChunkFailed
  <2> QED
    BY <2>3, <2>4, <2>5
<1> QED
  BY <1>1, SearchStarts, SearchInductive, PTL DEF SearchSpec

(* No task outlives its round, the pool of the round or the tree it reads. *)
THEOREM NoTaskOutlivesRoundThm ==
  ASSUME SearchAssumption
  PROVE  SearchSpec => []NoTaskOutlivesRound
<1>1. SearchInv => NoTaskOutlivesRound
  BY DEF SearchInv, MainInv, NoTaskOutlivesRound
<1> QED
  BY <1>1, SearchStarts, SearchInductive, PTL DEF SearchSpec

(* A round of CheckInHierarchyMultiplyValueForOneThread searches every      *)
(* value once, but for the chunks that threw, and leaves no task behind, for *)
(* any numbers of threads and values.                                       *)
THEOREM RoundsAreExact ==
  ASSUME SearchAssumption
  PROVE  SearchSpec => []RoundsExact
BY SearchType, RoundCoversValuesThm, ChunksApartThm, NoTaskOutlivesRoundThm, PTL DEF RoundsExact
=============================================================================
