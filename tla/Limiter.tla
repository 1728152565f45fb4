------------------------------ MODULE Limiter ------------------------------
(***************************************************************************)
(* The two resource limiters of the POSIX environment and the random-access *)
(* files that draw on them (leveldb/util/env_posix.cc).  A file is mapped   *)
(* into memory while mappings remain, else it keeps its descriptor while    *)
(* descriptors remain, else it is reopened on every read.  Acquire is a     *)
(* fetch_sub followed, when nothing was left, by a fetch_add: two atomic    *)
(* operations with other threads in between.                                *)
(***************************************************************************)
EXTENDS Integers, FiniteSets

CONSTANTS Opener,      \* the threads; each has at most one file at a time
          MaxMmaps,    \* MaxMmaps() and MaxOpenFiles()
          MaxOpenFiles

ASSUME LimitsAreNat == MaxMmaps \in Nat /\ MaxOpenFiles \in Nat
ASSUME OpenersFinite == IsFiniteSet(Opener)

VARIABLES allowed,     \* acquires_allowed_ of each limiter
          access       \* where each thread's file is

limiterVars == <<allowed, access>>

Resource == {"mmap", "fd"}

Limit == [l \in Resource |-> IF l = "mmap" THEN MaxMmaps ELSE MaxOpenFiles]

(* The states of a file: those after a successful Acquire, and the one     *)
(* between a failed fetch_sub and its fetch_add.                            *)
Granted(l) == IF l = "mmap" THEN {"mapping", "mapped"} ELSE {"permanent"}
Undoing(l) == IF l = "mmap" THEN "undoMmap" ELSE "undoFd"

AccessState ==
  {"none", "mapping", "mapped", "undoMmap", "wantFd", "permanent", "undoFd",
   "temporary"}

LimiterTypeOK ==
  /\ allowed \in [Resource -> Int]
  /\ access \in [Opener -> AccessState]

LimiterInit == allowed = Limit /\ access = [o \in Opener |-> "none"]

(* Mutant: the old count may be zero. *)
AcquireAtZero(l, o, granted) ==
  /\ allowed' = [allowed EXCEPT ![l] = @ - 1]
  /\ access' = [access EXCEPT ![o] =
                  IF allowed[l] >= 0 THEN granted ELSE Undoing(l)]

Acquire(l, o, granted) ==
  /\ allowed' = [allowed EXCEPT ![l] = @ - 1]
  /\ access' = [access EXCEPT ![o] =
                  IF allowed[l] > 0 THEN granted ELSE Undoing(l)]

Release(l, o, next) ==
  /\ allowed' = [allowed EXCEPT ![l] = @ + 1]
  /\ access' = [access EXCEPT ![o] = next]

NewRandomAccessFile(o) == access[o] = "none" /\ Acquire("mmap", o, "mapping")

NoMapping(o) == access[o] = "undoMmap" /\ Release("mmap", o, "wantFd")

Mmap(o) ==
  /\ access[o] = "mapping"
  /\ access' = [access EXCEPT ![o] = "mapped"]
  /\ UNCHANGED allowed

(* GetFileSize or mmap fails: the constructor's slot is given back. *)
MmapFails(o) == access[o] = "mapping" /\ Release("mmap", o, "none")

PosixRandomAccessFile(o) == access[o] = "wantFd" /\ Acquire("fd", o, "permanent")

NoFreeDescriptor(o) == access[o] = "undoFd" /\ Release("fd", o, "temporary")

DeleteMapped(o) == access[o] = "mapped" /\ Release("mmap", o, "none")

DeletePermanent(o) == access[o] = "permanent" /\ Release("fd", o, "none")

DeleteTemporary(o) ==
  /\ access[o] = "temporary"
  /\ access' = [access EXCEPT ![o] = "none"]
  /\ UNCHANGED allowed

LimiterStep(o) ==
  \/ NewRandomAccessFile(o) \/ NoMapping(o) \/ Mmap(o) \/ MmapFails(o)
  \/ PosixRandomAccessFile(o) \/ NoFreeDescriptor(o)
  \/ DeleteMapped(o) \/ DeletePermanent(o) \/ DeleteTemporary(o)

LimiterNext == \E o \in Opener : LimiterStep(o)

LimiterSpec == LimiterInit /\ [][LimiterNext]_limiterVars

-----------------------------------------------------------------------------
Holding(l)  == {o \in Opener : access[o] \in Granted(l)}
Charging(l) == {o \in Opener : access[o] \in Granted(l) \cup {Undoing(l)}}

(* The counter of a limiter is its limit less the files that hold a slot    *)
(* and the threads that are about to give theirs back, however the two      *)
(* halves of Acquire interleave.  Hence a slot is never lost or returned    *)
(* twice, and the asserts of Acquire and Release (old value below the       *)
(* maximum) never fire.                                                     *)
LimiterExact == \A l \in Resource : allowed[l] = Limit[l] - Cardinality(Charging(l))

(* At most MaxMmaps files are mapped and at most MaxOpenFiles keep a        *)
(* descriptor open, although the counter is decremented before it is known  *)
(* whether anything was left.                                               *)
WithinLimits == \A l \in Resource : Cardinality(Holding(l)) =< Limit[l]
=============================================================================
