--------------------------- MODULE PosixEnvProofs ---------------------------
(***************************************************************************)
(* What the threads of the POSIX environment share: its limiters for any   *)
(* number of threads and any limits; its file lock and background queue    *)
(* for any threads, processes and number of work items.                    *)
(***************************************************************************)
EXTENDS Limiter, PosixEnv, FiniteSetTheorems, TLAPS

-----------------------------------------------------------------------------
(* The limiters.                                                           *)

(* With the types LimiterExact is inductive as it stands; that the limits   *)
(* hold then follows from it at each Acquire.                               *)
LimiterInv == LimiterTypeOK /\ LimiterExact

(* The sets whose cardinalities the invariant speaks of are finite. *)
LEMMA ChargingFinite ==
  ASSUME NEW l \in Resource
  PROVE  /\ IsFiniteSet(Charging(l)) /\ Cardinality(Charging(l)) \in Nat
         /\ IsFiniteSet(Holding(l)) /\ Cardinality(Holding(l)) \in Nat
         /\ Cardinality(Holding(l)) =< Cardinality(Charging(l))
<1>1. Charging(l) \subseteq Opener /\ Holding(l) \subseteq Charging(l)
  BY DEF Charging, Holding
<1>2. IsFiniteSet(Charging(l)) /\ IsFiniteSet(Holding(l))
  BY <1>1, OpenersFinite, FS_Subset
<1> QED
  BY <1>1, <1>2, FS_CardinalityType, FS_Subset

(* A thread that Acquire has just served is charged with one slot more, and *)
(* no other limiter notices.                                                *)
LEMMA AcquireCharges ==
  ASSUME LimiterInv, NEW l \in Resource, NEW o \in Opener,
         NEW granted \in Granted(l), Acquire(l, o, granted),
         \A k \in Resource : o \notin Charging(k)
  PROVE  LimiterInv'
<1>1. granted \in AccessState /\ Undoing(l) \in AccessState
  BY DEF Granted, Undoing, AccessState, Resource
<1>2. LimiterTypeOK'
  BY <1>1 DEF LimiterInv, LimiterTypeOK, Acquire
<1>3. access'[o] \in Granted(l) \cup {Undoing(l)}
  BY DEF Acquire, LimiterInv, LimiterTypeOK
<1>4. \A p \in Opener \ {o} : access'[p] = access[p]
  BY DEF Acquire, LimiterInv, LimiterTypeOK
<1>5. ASSUME NEW k \in Resource
      PROVE  allowed'[k] = Limit[k] - Cardinality(Charging(k)')
  <2>0. /\ allowed[k] = Limit[k] - Cardinality(Charging(k))
        /\ allowed \in [Resource -> Int]
    BY DEF LimiterInv, LimiterExact, LimiterTypeOK
  <2>1. IsFiniteSet(Charging(k)) /\ Cardinality(Charging(k)) \in Nat
    BY ChargingFinite
  <2>2. Limit[k] \in Int
    BY LimitsAreNat DEF Limit
  <2>3. CASE k = l
    <3>1. Charging(k)' = Charging(k) \cup {o}
      BY <1>3, <1>4, <2>3 DEF Charging
    <3>2. Cardinality(Charging(k)') = Cardinality(Charging(k)) + 1
      BY <3>1, <2>1, FS_AddElement, Zenon
    <3>3. allowed'[k] = allowed[k] - 1
      BY <2>0, <2>3 DEF Acquire
    <3> QED  BY <2>0, <2>1, <2>2, <3>2, <3>3
  <2>4. CASE k # l
    <3>1. access'[o] \notin Granted(k) \cup {Undoing(k)}
      BY <1>3, <2>4 DEF Granted, Undoing, Resource
    <3>2. Charging(k)' = Charging(k)
      BY <1>4, <3>1 DEF Charging
    <3>3. allowed'[k] = allowed[k]
      BY <2>0, <2>4 DEF Acquire
    <3> QED  BY <2>0, <3>2, <3>3
  <2> QED  BY <2>3, <2>4
<1> QED
  BY <1>2, <1>5 DEF LimiterInv, LimiterExact

(* Giving a slot back takes exactly the charge away. *)
LEMMA ReleaseDischarges ==
  ASSUME LimiterInv, NEW l \in Resource, NEW o \in Charging(l),
         NEW goal \in {"none", "wantFd", "temporary"}, Release(l, o, goal)
  PROVE  LimiterInv'
<1>0. o \in Opener
  BY DEF Charging
<1>1. goal \in AccessState
  BY DEF AccessState
<1>2. LimiterTypeOK'
  BY <1>0, <1>1 DEF LimiterInv, LimiterTypeOK, Release
<1>3. access'[o] = goal
  BY <1>0 DEF Release, LimiterInv, LimiterTypeOK
<1>4. \A p \in Opener \ {o} : access'[p] = access[p]
  BY DEF Release, LimiterInv, LimiterTypeOK
<1>5. ASSUME NEW k \in Resource
      PROVE  allowed'[k] = Limit[k] - Cardinality(Charging(k)')
  <2>0. /\ allowed[k] = Limit[k] - Cardinality(Charging(k))
        /\ allowed \in [Resource -> Int]
    BY DEF LimiterInv, LimiterExact, LimiterTypeOK
  <2>1. IsFiniteSet(Charging(k)) /\ Cardinality(Charging(k)) \in Nat
    BY ChargingFinite
  <2>2. Limit[k] \in Int
    BY LimitsAreNat DEF Limit
  <2>3. access'[o] \notin Granted(k) \cup {Undoing(k)}
    BY <1>3 DEF Granted, Undoing, Resource
  <2>4. Charging(k)' = Charging(k) \ {o}
    BY <1>4, <2>3 DEF Charging
  <2>5. CASE k = l
    <3>1. Cardinality(Charging(k)') = Cardinality(Charging(k)) - 1
      BY <2>1, <2>4, <2>5, FS_RemoveElement, Zenon
    <3>2. allowed'[k] = allowed[k] + 1
      BY <2>0, <2>5 DEF Release
    <3> QED  BY <2>0, <2>1, <2>2, <3>1, <3>2
  <2>6. CASE k # l
    <3>1. o \notin Charging(k)
      BY <2>6 DEF Charging, Granted, Undoing, Resource
    <3>2. Charging(k)' = Charging(k)
      BY <2>4, <3>1
    <3>3. allowed'[k] = allowed[k]
      BY <2>0, <2>6 DEF Release
    <3> QED  BY <2>0, <3>2, <3>3
  <2> QED  BY <2>5, <2>6
<1> QED
  BY <1>2, <1>5 DEF LimiterInv, LimiterExact

(* A step that moves no slot: the thread's charge is the same before and    *)
(* after it.                                                                *)
LEMMA MoveKeepsCharges ==
  ASSUME LimiterInv, NEW o \in Opener, NEW goal \in AccessState,
         access' = [access EXCEPT ![o] = goal], UNCHANGED allowed,
         \A k \in Resource : goal \in Granted(k) \cup {Undoing(k)} <=> o \in Charging(k)
  PROVE  LimiterInv'
<1>1. LimiterTypeOK'
  BY DEF LimiterInv, LimiterTypeOK
<1>2. access'[o] = goal /\ \A p \in Opener \ {o} : access'[p] = access[p]
  BY DEF LimiterInv, LimiterTypeOK
<1>3. \A k \in Resource : Charging(k)' = Charging(k)
  BY <1>2 DEF Charging
<1> QED
  BY <1>1, <1>3 DEF LimiterInv, LimiterExact

(* Every step of a thread preserves the invariant. *)
LEMMA LimiterInductive ==
  ASSUME LimiterInv, [LimiterNext]_limiterVars
  PROVE  LimiterInv'
<1>1. CASE UNCHANGED limiterVars
  BY <1>1 DEF limiterVars, LimiterInv, LimiterTypeOK, LimiterExact, Charging
<1>2. ASSUME NEW o \in Opener, LimiterStep(o)
      PROVE  LimiterInv'
  <2>0. "mmap" \in Resource /\ "fd" \in Resource /\ "mapping" \in Granted("mmap")
        /\ "permanent" \in Granted("fd")
    BY DEF Resource, Granted
  <2>1. CASE NewRandomAccessFile(o)
    <3>1. \A k \in Resource : o \notin Charging(k)
      BY <2>1 DEF NewRandomAccessFile, Charging, Granted, Undoing, Resource
    <3> QED  BY <2>0, <2>1, <3>1, AcquireCharges DEF NewRandomAccessFile
  <2>2. CASE PosixRandomAccessFile(o)
    <3>1. \A k \in Resource : o \notin Charging(k)
      BY <2>2 DEF PosixRandomAccessFile, Charging, Granted, Undoing, Resource
    <3> QED  BY <2>0, <2>2, <3>1, AcquireCharges DEF PosixRandomAccessFile
  <2>3. CASE NoMapping(o)
    <3>1. o \in Charging("mmap")
      BY <2>3 DEF NoMapping, Charging, Undoing
    <3> QED  BY <2>0, <2>3, <3>1, ReleaseDischarges DEF NoMapping
  <2>4. CASE MmapFails(o)
    <3>1. o \in Charging("mmap")
      BY <2>4 DEF MmapFails, Charging, Granted
    <3> QED  BY <2>0, <2>4, <3>1, ReleaseDischarges DEF MmapFails
  <2>5. CASE NoFreeDescriptor(o)
    <3>1. o \in Charging("fd")
      BY <2>5 DEF NoFreeDescriptor, Charging, Undoing
    <3> QED  BY <2>0, <2>5, <3>1, ReleaseDischarges DEF NoFreeDescriptor
  <2>6. CASE DeleteMapped(o)
    <3>1. o \in Charging("mmap")
      BY <2>6 DEF DeleteMapped, Charging, Granted
    <3> QED  BY <2>0, <2>6, <3>1, ReleaseDischarges DEF DeleteMapped
  <2>7. CASE DeletePermanent(o)
    <3>1. o \in Charging("fd")
      BY <2>7 DEF DeletePermanent, Charging, Granted
    <3> QED  BY <2>0, <2>7, <3>1, ReleaseDischarges DEF DeletePermanent
  <2>8. CASE Mmap(o)
    <3>1. \A k \in Resource : "mapped" \in Granted(k) \cup {Undoing(k)} <=> o \in Charging(k)
      BY <2>8 DEF Mmap, Charging, Granted, Undoing, Resource
    <3>2. "mapped" \in AccessState
      BY DEF AccessState
    <3> QED  BY <2>8, <3>1, <3>2, MoveKeepsCharges, Zenon DEF Mmap
  <2>9. CASE DeleteTemporary(o)
    <3>1. \A k \in Resource : "none" \in Granted(k) \cup {Undoing(k)} <=> o \in Charging(k)
      BY <2>9 DEF DeleteTemporary, Charging, Granted, Undoing, Resource
    <3>2. "none" \in AccessState
      BY DEF AccessState
    <3> QED  BY <2>9, <3>1, <3>2, MoveKeepsCharges, Zenon DEF DeleteTemporary
  <2> QED
    BY <1>2, <2>1, <2>2, <2>3, <2>4, <2>5, <2>6, <2>7, <2>8, <2>9 DEF LimiterStep
<1> QED
  BY <1>1, <1>2 DEF LimiterNext

(* All slots are in the limiter before the first file is opened. *)
LEMMA LimiterStarts == LimiterInit => LimiterInv
<1> SUFFICES ASSUME LimiterInit PROVE LimiterInv
  OBVIOUS
<1>1. Limit \in [Resource -> Int]
  BY LimitsAreNat DEF Limit
<1>2. LimiterTypeOK
  BY <1>1 DEF LimiterInit, LimiterTypeOK, AccessState
<1>3. ASSUME NEW l \in Resource
      PROVE  allowed[l] = Limit[l] - Cardinality(Charging(l))
  <2>1. Charging(l) = {}
    BY DEF LimiterInit, Charging, Granted, Undoing
  <2>2. Cardinality(Charging(l)) = 0
    BY <2>1, FS_EmptySet
  <2> QED  BY <1>1, <1>3, <2>2 DEF LimiterInit
<1> QED
  BY <1>2, <1>3 DEF LimiterInv, LimiterExact

(* The counter of each limiter equals its limit less the slots in use, for  *)
(* any number of threads, whatever the interleaving of the fetch_sub and    *)
(* fetch_add of Acquire.                                                    *)
THEOREM LimiterAccounting == LimiterSpec => [](LimiterTypeOK /\ LimiterExact)
<1>1. LimiterInit => LimiterInv
  BY LimiterStarts
<1>2. LimiterInv /\ [LimiterNext]_limiterVars => LimiterInv'
  BY LimiterInductive
<1>3. LimiterInv => LimiterTypeOK /\ LimiterExact
  BY DEF LimiterInv
<1> QED
  BY <1>1, <1>2, <1>3, PTL DEF LimiterSpec

(* The slots handed out never exceed the limits.  At the Acquire that hands *)
(* one out the counter was positive, so fewer were charged than the limit.  *)
THEOREM LimitsHold == LimiterSpec => []WithinLimits
<1> DEFINE I == LimiterInv /\ WithinLimits
<1>1. LimiterInit => I
  <2> SUFFICES ASSUME LimiterInit PROVE I
    OBVIOUS
  <2>1. ASSUME NEW l \in Resource PROVE Cardinality(Holding(l)) =< Limit[l]
    <3>1. Holding(l) = {}
      BY DEF LimiterInit, Holding, Granted
    <3> QED  BY <3>1, FS_EmptySet, LimitsAreNat DEF Limit
  <2> QED  BY <2>1, LimiterStarts DEF WithinLimits
<1>2. I /\ [LimiterNext]_limiterVars => I'
  <2> SUFFICES ASSUME I, [LimiterNext]_limiterVars PROVE I'
    OBVIOUS
  <2>1. LimiterInv'
    BY LimiterInductive
  <2>2. ASSUME NEW l \in Resource PROVE Cardinality(Holding(l)') =< Limit[l]
    <3>0. /\ allowed[l] = Limit[l] - Cardinality(Charging(l))
          /\ Cardinality(Holding(l)) =< Limit[l] /\ Limit[l] \in Nat
      BY LimitsAreNat DEF LimiterInv, LimiterExact, WithinLimits, Limit
    <3>1. /\ IsFiniteSet(Holding(l)) /\ Cardinality(Holding(l)) \in Nat
          /\ Cardinality(Charging(l)) \in Nat
          /\ Cardinality(Holding(l)) =< Cardinality(Charging(l))
      BY ChargingFinite
    <3>2. CASE Holding(l)' \subseteq Holding(l)
      <4>1. Cardinality(Holding(l)') \in Nat /\ Cardinality(Holding(l)') =< Cardinality(Holding(l))
        BY <3>1, <3>2, FS_Subset, FS_CardinalityType
      <4> QED  BY <3>0, <3>1, <4>1
    <3>3. ASSUME NEW o \in Opener, allowed[l] > 0, Holding(l)' = Holding(l) \cup {o}
          PROVE  Cardinality(Holding(l)') =< Limit[l]
      <4>1. Cardinality(Holding(l)') =< Cardinality(Holding(l)) + 1
        <5>1. CASE o \in Holding(l)
          <6>1. Holding(l)' = Holding(l)
            BY <3>3, <5>1
          <6> QED  BY <3>1, <6>1
        <5>2. CASE o \notin Holding(l)
          <6>1. Cardinality(Holding(l)') = Cardinality(Holding(l)) + 1
            BY <3>1, <3>3, <5>2, FS_AddElement, Zenon
          <6> QED  BY <3>1, <6>1
        <5> QED  BY <5>1, <5>2
      <4>2. Cardinality(Holding(l)') \in Nat
        BY <3>1, <3>3, FS_AddElement, FS_CardinalityType
      <4> QED  BY <3>0, <3>1, <3>3, <4>1, <4>2
    <3>4. \/ Holding(l)' \subseteq Holding(l)
          \/ \E o \in Opener : allowed[l] > 0 /\ Holding(l)' = Holding(l) \cup {o}
      <4>0. access \in [Opener -> AccessState]
        BY DEF LimiterInv, LimiterTypeOK
      <4>1. CASE UNCHANGED limiterVars
        BY <4>1 DEF limiterVars, Holding
      <4>2. ASSUME NEW o \in Opener, LimiterStep(o)
            PROVE  \/ Holding(l)' \subseteq Holding(l)
                   \/ allowed[l] > 0 /\ Holding(l)' = Holding(l) \cup {o}
        <5>1. /\ \A p \in Opener \ {o} : access'[p] = access[p]
              /\ access'[o] \in Granted(l) => access[o] \in Granted(l) \/ allowed[l] > 0
          BY <4>0, <4>2 DEF LimiterStep, NewRandomAccessFile, NoMapping, Mmap,
             MmapFails, PosixRandomAccessFile, NoFreeDescriptor, DeleteMapped,
             DeletePermanent, DeleteTemporary, Acquire, Release, Granted,
             Undoing, Resource
        <5> QED  BY <5>1 DEF Holding
      <4> QED  BY <4>1, <4>2 DEF LimiterNext
    <3> QED  BY <3>2, <3>3, <3>4
  <2> QED  BY <2>1, <2>2 DEF WithinLimits
<1>3. I => WithinLimits
  OBVIOUS
<1> QED
  BY <1>1, <1>2, <1>3, PTL DEF LimiterSpec

-----------------------------------------------------------------------------
(* The file lock and the background queue.                                 *)

(* The threads between Insert and Remove, and what the table knows of them. *)
InSection(t) == lockPc[t] \in {"inserted", "refused", "locked", "unlocked"}

SectionInv ==
  /\ lockPc \in [LockThread -> LockState]
  /\ \A t \in LockThread : InSection(t) => ProcessOf(t) \in locks
  /\ LockedOncePerProcess

(* A thread enters the section only when its process is not in the table,   *)
(* and the entry is removed by the thread that made it.                     *)
LEMMA SectionInductive ==
  ASSUME SectionInv, [LockNext]_lockVars
  PROVE  SectionInv'
<1>1. CASE UNCHANGED lockVars
  BY <1>1 DEF lockVars, SectionInv, InSection, LockedOncePerProcess
<1>2. ASSUME NEW t \in LockThread,
             \/ OpenLockFile(t) \/ CloseAlreadyHeld(t) \/ SetLock(t)
             \/ Unlock(t) \/ CloseUnlocked(t)
      PROVE  SectionInv'
  <2>1. /\ lockPc' \in [LockThread -> LockState]
        /\ \A u \in LockThread \ {t} : lockPc'[u] = lockPc[u]
        /\ InSection(t)' <=> InSection(t)
        /\ locks' = locks
    BY <1>2 DEF SectionInv, OpenLockFile, CloseAlreadyHeld, SetLock, Unlock,
       CloseUnlocked, At, InSection, LockState
  <2>2. \A u \in LockThread : InSection(u)' <=> InSection(u)
    BY <2>1 DEF InSection
  <2> QED
    BY <2>1, <2>2 DEF SectionInv, InSection, LockedOncePerProcess
<1>3. ASSUME NEW t \in LockThread, InsertLock(t)
      PROVE  SectionInv'
  <2>1. /\ lockPc' \in [LockThread -> LockState]
        /\ \A u \in LockThread \ {t} : lockPc'[u] = lockPc[u]
        /\ InSection(t)' => ProcessOf(t) \notin locks
        /\ locks' = locks \cup {ProcessOf(t)}
    BY <1>3 DEF SectionInv, InsertLock, At, InSection, LockState
  <2>2. \A u \in LockThread : InSection(u)' => ProcessOf(u) \in locks'
    BY <2>1 DEF SectionInv, InSection
  <2>3. \A u, v \in LockThread :
          u # v /\ ProcessOf(u) = ProcessOf(v) /\ InSection(u)' => ~InSection(v)'
    BY <2>1 DEF SectionInv, InSection, LockedOncePerProcess
  <2> QED
    BY <2>1, <2>2, <2>3 DEF SectionInv, InSection, LockedOncePerProcess
<1>4. ASSUME NEW t \in LockThread, GiveUp(t) \/ RemoveLock(t)
      PROVE  SectionInv'
  <2>1. /\ lockPc' \in [LockThread -> LockState]
        /\ \A u \in LockThread \ {t} : lockPc'[u] = lockPc[u]
        /\ InSection(t) /\ ~InSection(t)'
        /\ locks' = locks \ {ProcessOf(t)}
    BY <1>4 DEF SectionInv, GiveUp, RemoveLock, At, InSection, LockState
  <2>2. \A u \in LockThread \ {t} : InSection(u) => ProcessOf(u) # ProcessOf(t)
    BY <2>1 DEF SectionInv, LockedOncePerProcess, InSection
  <2>3. \A u \in LockThread : InSection(u)' => InSection(u) /\ u # t
    BY <2>1 DEF InSection
  <2>4. \A u \in LockThread : InSection(u)' => ProcessOf(u) \in locks'
    BY <2>1, <2>2, <2>3 DEF SectionInv
  <2> QED
    BY <2>1, <2>3, <2>4 DEF SectionInv, InSection, LockedOncePerProcess
<1> QED
  BY <1>1, <1>2, <1>3, <1>4 DEF LockNext

(* One thread at a time of each process is between Insert and Remove, for   *)
(* any number of threads and processes.                                     *)
THEOREM LockedOnce == LockSpec => []LockedOncePerProcess
<1>1. LockInit => SectionInv
  BY DEF LockInit, SectionInv, LockState, InSection, LockedOncePerProcess
<1>2. SectionInv /\ [LockNext]_lockVars => SectionInv'
  BY SectionInductive
<1>3. SectionInv => LockedOncePerProcess
  BY DEF SectionInv
<1> QED
  BY <1>1, <1>2, <1>3, PTL DEF LockSpec

-----------------------------------------------------------------------------
OneThreadPerProcess ==
  \A t, u \in LockThread : ProcessOf(t) = ProcessOf(u) => t = u

(* A thread that has the file locked owns the fcntl lock. *)
LockOwnerInv ==
  /\ lockPc \in [LockThread -> LockState]
  /\ \A t \in LockThread : ProcessOf(t) # NoProcess
  /\ \A t \in LockThread : lockPc[t] = "locked" => fcntlOwner = ProcessOf(t)

(* Where each process opens the database from one thread only, no           *)
(* descriptor of the LOCK file is closed behind the back of the thread that *)
(* locked it, and the lock excludes all other processes.                    *)
THEOREM ExclusiveBetweenProcesses ==
  ASSUME OneThreadPerProcess, \A t \in LockThread : ProcessOf(t) # NoProcess
  PROVE  LockSpec => []LockExclusive
<1>1. LockInit => LockOwnerInv
  BY DEF LockInit, LockOwnerInv, LockState
<1>2. LockOwnerInv /\ [LockNext]_lockVars => LockOwnerInv'
  <2> SUFFICES ASSUME LockOwnerInv, [LockNext]_lockVars PROVE LockOwnerInv'
    OBVIOUS
  <2>1. CASE UNCHANGED lockVars
    BY <2>1 DEF lockVars, LockOwnerInv
  <2>2. ASSUME NEW t \in LockThread,
               OpenLockFile(t) \/ InsertLock(t) \/ RemoveLock(t)
        PROVE  LockOwnerInv'
    BY <2>2 DEF OpenLockFile, InsertLock, RemoveLock, At, LockOwnerInv, LockState
  <2>3. ASSUME NEW t \in LockThread,
               \/ CloseAlreadyHeld(t) \/ GiveUp(t) \/ Unlock(t)
               \/ CloseUnlocked(t)
        PROVE  LockOwnerInv'
    <3>1. /\ lockPc' \in [LockThread -> LockState]
          /\ lockPc'[t] # "locked" /\ CloseDescriptor(t)
          /\ \A u \in LockThread \ {t} : lockPc'[u] = lockPc[u]
      BY <2>3 DEF CloseAlreadyHeld, GiveUp, Unlock, CloseUnlocked, At,
         LockOwnerInv, LockState
    <3>2. \A u \in LockThread \ {t} : ProcessOf(u) # ProcessOf(t)
      BY DEF OneThreadPerProcess
    <3> QED
      BY <3>1, <3>2 DEF CloseDescriptor, LockOwnerInv
  <2>4. ASSUME NEW t \in LockThread, SetLock(t)
        PROVE  LockOwnerInv'
    <3>1. /\ lockPc' \in [LockThread -> LockState]
          /\ \A u \in LockThread \ {t} : lockPc'[u] = lockPc[u]
          /\ lockPc'[t] = "locked" => fcntlOwner' = ProcessOf(t)
          /\ fcntlOwner \notin {NoProcess, ProcessOf(t)} => fcntlOwner' = fcntlOwner
      BY <2>4 DEF SetLock, At, LockOwnerInv, LockState
    <3>2. \A u \in LockThread \ {t} : ProcessOf(u) # ProcessOf(t)
      BY DEF OneThreadPerProcess
    <3> QED
      BY <3>1, <3>2 DEF LockOwnerInv
  <2> QED
    BY <2>1, <2>2, <2>3, <2>4 DEF LockNext
<1>3. LockOwnerInv => LockExclusive
  BY DEF LockOwnerInv, LockExclusive, OneThreadPerProcess
<1> QED
  BY <1>1, <1>2, <1>3, PTL DEF LockSpec

-----------------------------------------------------------------------------
(* A signal is pending only for a thread that waits, and work that arrives  *)
(* while it waits finds the queue empty or the signal already sent.         *)
THEOREM WorkIsNoticed == BgSpec => []NoLostWakeup
<1>1. BgInit => NoLostWakeup
  BY DEF BgInit, NoLostWakeup
<1>2. NoLostWakeup /\ [BgNext]_bgVars => NoLostWakeup'
  <2> SUFFICES ASSUME NoLostWakeup, [BgNext]_bgVars PROVE NoLostWakeup'
    OBVIOUS
  <2>1. CASE UNCHANGED bgVars
    BY <2>1 DEF bgVars, NoLostWakeup
  <2>2. CASE Schedule
    BY <2>2, Zenon DEF Schedule, SignalIfEmpty, NoLostWakeup
  <2>3. CASE BackgroundWait
    BY <2>3 DEF BackgroundWait, NoLostWakeup
  <2>4. CASE BackgroundWake \/ BackgroundTake \/ BackgroundRun
    BY <2>4 DEF BackgroundWake, BackgroundTake, BackgroundRun, NoLostWakeup
  <2> QED
    BY <2>1, <2>2, <2>3, <2>4 DEF BgNext
<1> QED
  BY <1>1, <1>2, PTL DEF BgSpec

-----------------------------------------------------------------------------
(* The work queue: items are run once and in order. *)

(* Three sequences one after the other, position by position. *)
LEMMA ThreeParts ==
  ASSUME NEW r \in Seq(Nat), NEW h \in Seq(Nat), NEW q \in Seq(Nat)
  PROVE  /\ r \o h \o q \in Seq(Nat)
         /\ Len(r \o h \o q) = Len(r) + Len(h) + Len(q)
         /\ \A k \in 1..(Len(r) + Len(h) + Len(q)) :
              (r \o h \o q)[k] = IF k <= Len(r) THEN r[k]
                                 ELSE IF k <= Len(r) + Len(h) THEN h[k - Len(r)]
                                 ELSE q[k - Len(r) - Len(h)]
<1>1. /\ r \o h \in Seq(Nat) /\ Len(r \o h) = Len(r) + Len(h)
      /\ \A k \in 1..(Len(r) + Len(h)) :
           (r \o h)[k] = IF k <= Len(r) THEN r[k] ELSE h[k - Len(r)]
  OBVIOUS
<1>2. \A s \in Seq(Nat) :
        /\ s \o q \in Seq(Nat) /\ Len(s \o q) = Len(s) + Len(q)
        /\ \A k \in 1..(Len(s) + Len(q)) :
             (s \o q)[k] = IF k <= Len(s) THEN s[k] ELSE q[k - Len(s)]
  OBVIOUS
<1>3. Len(r) \in Nat /\ Len(h) \in Nat /\ Len(q) \in Nat
  OBVIOUS
<1> DEFINE s == r \o h
<1>4. s \in Seq(Nat) /\ Len(s) = Len(r) + Len(h)
  BY <1>1
<1>5. /\ s \o q \in Seq(Nat) /\ Len(s \o q) = Len(s) + Len(q)
      /\ \A k \in 1..(Len(s) + Len(q)) :
             (s \o q)[k] = IF k <= Len(s) THEN s[k] ELSE q[k - Len(s)]
  BY <1>2, <1>4
<1>6. \A k \in 1..Len(s) : s[k] = IF k <= Len(r) THEN r[k] ELSE h[k - Len(r)]
  BY <1>1, <1>4
<1> HIDE DEF s
<1>7. /\ s \o q \in Seq(Nat)
         /\ Len(s \o q) = Len(r) + Len(h) + Len(q)
         /\ \A k \in 1..(Len(r) + Len(h) + Len(q)) :
              (s \o q)[k] = IF k <= Len(r) THEN r[k]
                                 ELSE IF k <= Len(r) + Len(h) THEN h[k - Len(r)]
                                 ELSE q[k - Len(r) - Len(h)]
  <2>1. s \o q \in Seq(Nat) /\ Len(s \o q) = Len(r) + Len(h) + Len(q)
    BY <1>4, <1>5
  <2> SUFFICES ASSUME NEW k \in 1..(Len(r) + Len(h) + Len(q))
               PROVE  (s \o q)[k] = IF k <= Len(r) THEN r[k]
                                    ELSE IF k <= Len(r) + Len(h) THEN h[k - Len(r)]
                                    ELSE q[k - Len(r) - Len(h)]
    BY Zenon, <2>1
  <2>2. (s \o q)[k] = IF k <= Len(r) + Len(h) THEN s[k] ELSE q[k - (Len(r) + Len(h))]
    BY Zenon, <1>4, <1>5
  <2>3. CASE k <= Len(r) + Len(h)
    <3>1. k \in 1..Len(s)
      BY <1>3, <1>4, <2>3
    <3>2. s[k] = IF k <= Len(r) THEN r[k] ELSE h[k - Len(r)]
      BY Zenon, <1>6, <3>1
    <3> QED BY <1>3, <2>2, <2>3, <3>2
  <2>4. CASE ~ (k <= Len(r) + Len(h))
    <3>1. ~ (k <= Len(r)) /\ k - (Len(r) + Len(h)) = k - Len(r) - Len(h)
      BY <1>3, <2>4
    <3> QED BY Zenon, <2>2, <2>4, <3>1
  <2> QED BY Zenon, <2>3, <2>4
<1> QED
  BY <1>7 DEF s

(* How many items the thread has in hand. *)
Taken == IF bgItem = 0 THEN 0 ELSE 1

(* The items that ran, the one that runs and the queue go on from each     *)
(* other.                                                                  *)
ServeInv ==
  /\ bgRan \in Seq(Nat) /\ bgQueue \in Seq(Nat) /\ bgItem \in Nat
  /\ bgThread \in {"none", "looking", "waiting", "running"}
  /\ bgThread = "running" <=> bgItem # 0
  /\ \A k \in 1..Len(bgRan) : bgRan[k] = k
  /\ bgItem # 0 => bgItem = Len(bgRan) + 1
  /\ \A k \in 1..Len(bgQueue) : bgQueue[k] = Len(bgRan) + Taken + k

LEMMA HandTaken ==
  ASSUME ServeInv
  PROVE  /\ InHand \in Seq(Nat) /\ Len(InHand) = Taken /\ Taken \in Nat
         /\ Taken = 1 => InHand[1] = bgItem
         /\ Scheduled = Len(bgRan) + Taken + Len(bgQueue)
<1>1. /\ InHand \in Seq(Nat) /\ Len(InHand) = Taken /\ Taken \in Nat
      /\ Taken = 1 => InHand[1] = bgItem
  BY DEF ServeInv, InHand, Taken
<1> QED
  BY ZenonT(40), <1>1, ThreeParts DEF Scheduled, ServeInv

LEMMA ServeInductive == ServeInv /\ [BgNext]_bgVars => ServeInv'
<1> SUFFICES ASSUME ServeInv, [BgNext]_bgVars PROVE ServeInv'
  OBVIOUS
<1>1. CASE UNCHANGED bgVars
  BY <1>1 DEF bgVars, ServeInv, Taken
<1>2. CASE Schedule
  <2>1. /\ bgQueue' = Append(bgQueue, Len(bgRan) + Taken + Len(bgQueue) + 1)
        /\ bgItem' = bgItem /\ bgRan' = bgRan
        /\ bgThread' = IF bgThread = "none" THEN "looking" ELSE bgThread
    BY <1>2, HandTaken DEF Schedule, PushWork
  <2>2. Len(bgRan) \in Nat /\ Taken \in Nat /\ Taken' = Taken
    BY <2>1 DEF ServeInv, Taken
  <2>3. /\ bgQueue' \in Seq(Nat) /\ Len(bgQueue') = Len(bgQueue) + 1
        /\ \A k \in 1..Len(bgQueue) : bgQueue'[k] = bgQueue[k]
        /\ bgQueue'[Len(bgQueue) + 1] = Len(bgRan) + Taken + Len(bgQueue) + 1
    BY <2>1, <2>2 DEF ServeInv
  <2>4. \A k \in 1..Len(bgQueue') : bgQueue'[k] = Len(bgRan) + Taken + k
    <3> SUFFICES ASSUME NEW k \in 1..Len(bgQueue')
                 PROVE  bgQueue'[k] = Len(bgRan) + Taken + k
      OBVIOUS
    <3>1. Len(bgQueue) \in Nat /\ (k \in 1..Len(bgQueue) \/ k = Len(bgQueue) + 1)
      BY <2>3 DEF ServeInv
    <3>2. CASE k \in 1..Len(bgQueue)
      BY <2>3, <3>2 DEF ServeInv
    <3>3. CASE k = Len(bgQueue) + 1
      <4>1. Len(bgRan) \in Nat /\ Taken \in Nat
        BY DEF ServeInv, Taken
      <4> QED
        BY <2>3, <3>1, <3>3, <4>1
    <3> QED
      BY <3>1, <3>2, <3>3
  <2> QED
    BY <2>1, <2>2, <2>3, <2>4 DEF ServeInv
<1>3. CASE BackgroundWait \/ BackgroundWake
  BY <1>3, Zenon DEF BackgroundWait, BackgroundWake, ServeInv, Taken
<1>4. CASE BackgroundTake
  <2>1. /\ bgThread = "looking" /\ bgThread' = "running" /\ bgQueue # <<>>
        /\ bgItem' = Head(bgQueue) /\ bgQueue' = Tail(bgQueue) /\ bgRan' = bgRan
    BY <1>4 DEF BackgroundTake
  <2>2. /\ bgItem = 0 /\ Taken = 0 /\ Len(bgRan) \in Nat
        /\ Head(bgQueue) = Len(bgRan) + 1
    BY <2>1 DEF ServeInv, Taken
  <2>3. /\ Tail(bgQueue) \in Seq(Nat) /\ Len(Tail(bgQueue)) = Len(bgQueue) - 1
        /\ \A k \in 1..(Len(bgQueue) - 1) : Tail(bgQueue)[k] = Len(bgRan) + 1 + k
    BY <2>1, <2>2 DEF ServeInv
  <2>4. Taken' = 1 /\ bgItem' # 0
    BY <2>1, <2>2 DEF Taken
  <2> QED
    BY <2>1, <2>2, <2>3, <2>4 DEF ServeInv
<1>5. CASE BackgroundRun
  <2>1. /\ bgThread = "running" /\ bgThread' = "looking" /\ bgItem' = 0
        /\ bgRan' = Append(bgRan, bgItem) /\ bgQueue' = bgQueue
    BY <1>5 DEF BackgroundRun
  <2>2. bgItem = Len(bgRan) + 1 /\ Taken = 1 /\ Taken' = 0
    BY <2>1 DEF ServeInv, Taken
  <2> QED
    BY <2>1, <2>2 DEF ServeInv
<1> QED
  BY <1>1, <1>2, <1>3, <1>4, <1>5 DEF BgNext

(* Schedule and BackgroundThreadMain: scheduled work is noticed, and run   *)
(* once and in order.                                                      *)
THEOREM WorkIsServed == BgSpec => []WorkServed
<1>1. BgInit => ServeInv
  BY DEF BgInit, ServeInv, Taken
<1>2. ServeInv => RunOnceInOrder
  <2> SUFFICES ASSUME ServeInv PROVE RunOnceInOrder
    OBVIOUS
  <2> DEFINE W == bgRan \o InHand \o bgQueue
  <2>1. /\ W \in Seq(Nat) /\ Len(W) = Scheduled /\ Scheduled \in Nat
    BY HandTaken, ThreeParts DEF ServeInv, Scheduled
  <2>2. ASSUME NEW k \in 1..Scheduled PROVE W[k] = k
    <3>1. W[k] = IF k <= Len(bgRan) THEN bgRan[k]
                 ELSE IF k <= Len(bgRan) + Taken THEN InHand[k - Len(bgRan)]
                 ELSE bgQueue[k - Len(bgRan) - Taken]
      <4>1. /\ k \in 1..(Len(bgRan) + Len(InHand) + Len(bgQueue))
            /\ bgRan \in Seq(Nat) /\ InHand \in Seq(Nat) /\ bgQueue \in Seq(Nat)
        BY HandTaken DEF ServeInv
      <4>2. W[k] = IF k <= Len(bgRan) THEN bgRan[k]
                   ELSE IF k <= Len(bgRan) + Len(InHand) THEN InHand[k - Len(bgRan)]
                   ELSE bgQueue[k - Len(bgRan) - Len(InHand)]
        BY SMTT(30), <4>1, ThreeParts
      <4> QED
        BY SMTT(30), <4>2, HandTaken
    <3>2. Len(bgRan) \in Nat /\ Len(bgQueue) \in Nat /\ Taken \in {0, 1}
      BY DEF ServeInv, Taken
    <3> HIDE DEF W
    <3>3. CASE k <= Len(bgRan)
      BY <3>1, <3>2, <3>3 DEF ServeInv
    <3>4. CASE k > Len(bgRan) /\ k <= Len(bgRan) + Taken
      <4>1. Taken = 1 /\ k - Len(bgRan) = 1 /\ bgItem # 0
        BY <3>2, <3>4 DEF Taken
      <4> QED
        BY <3>1, <3>2, <3>4, <4>1, HandTaken DEF ServeInv
    <3>5. CASE k > Len(bgRan) + Taken
      <4>1. k - Len(bgRan) - Taken \in 1..Len(bgQueue)
        BY <3>2, <3>5, HandTaken
      <4>2. W[k] = bgQueue[k - Len(bgRan) - Taken]
        BY <3>1, <3>2, <3>5
      <4>3. bgQueue[k - Len(bgRan) - Taken] = Len(bgRan) + Taken + (k - Len(bgRan) - Taken)
        BY <4>1 DEF ServeInv
      <4> QED
        BY <3>2, <4>2, <4>3
    <3> QED
      BY <3>2, <3>3, <3>4, <3>5
  <2> HIDE DEF W
  <2>3. W = [k \in 1..Scheduled |-> k]
    BY <2>1, <2>2
  <2> QED
    BY <2>3 DEF W, RunOnceInOrder
<1> QED
  BY <1>1, <1>2, ServeInductive, WorkIsNoticed, PTL DEF BgSpec, WorkServed
=============================================================================
