------------------------------ MODULE PosixEnv ------------------------------
(***************************************************************************)
(* Two services of the POSIX environment (leveldb/util/env_posix.cc): the   *)
(* lock on a database's LOCK file, taken by threads of several processes    *)
(* through a per-process table and an fcntl lock, and the background queue  *)
(* with the thread that drains it.                                          *)
(***************************************************************************)
EXTENDS Integers, Sequences

CONSTANTS LockThread,  \* the threads, as pairs <<process, number>>
          NoProcess,   \* the fcntl lock is free
          MaxItems     \* bound on the work items scheduled

VARIABLES locks,       \* the processes whose PosixLockTable holds the file
          fcntlOwner,  \* the process that owns the fcntl lock
          lockPc,      \* what each thread has done of LockFile or UnlockFile
          bgThread,    \* the background thread
          bgItem,      \* the item it is running, or 0
          bgWoken,     \* background_work_cv_ has been signalled
          bgQueue,     \* background_work_queue_
          bgRan        \* the items run so far

lockVars == <<locks, fcntlOwner, lockPc>>
bgVars   == <<bgThread, bgItem, bgWoken, bgQueue, bgRan>>
envVars  == <<lockVars, bgVars>>

ProcessOf(t) == t[1]

LockState ==
  {"idle", "opened", "present", "inserted", "refused", "locked", "unlocked",
   "removed"}

LockInit ==
  /\ locks = {} /\ fcntlOwner = NoProcess
  /\ lockPc = [t \in LockThread |-> "idle"]

-----------------------------------------------------------------------------
(* LockFile and UnlockFile.                                                 *)

At(t, here, there) == lockPc[t] = here /\ lockPc' = [lockPc EXCEPT ![t] = there]

(* Closing any descriptor of the file gives up the process's fcntl lock. *)
CloseDescriptor(t) ==
  fcntlOwner' = IF fcntlOwner = ProcessOf(t) THEN NoProcess ELSE fcntlOwner

OpenLockFile(t) == At(t, "idle", "opened") /\ UNCHANGED <<locks, fcntlOwner>>

(* Mutant: the table is not asked. *)
InsertAnyway(t) ==
  /\ At(t, "opened", "inserted")
  /\ locks' = locks \cup {ProcessOf(t)}
  /\ UNCHANGED fcntlOwner

InsertLock(t) ==
  /\ At(t, "opened", IF ProcessOf(t) \in locks THEN "present" ELSE "inserted")
  /\ locks' = locks \cup {ProcessOf(t)}
  /\ UNCHANGED fcntlOwner

CloseAlreadyHeld(t) ==
  /\ At(t, "present", "idle")
  /\ CloseDescriptor(t) /\ UNCHANGED locks

SetLock(t) ==
  LET free == fcntlOwner \in {NoProcess, ProcessOf(t)}
  IN  /\ At(t, "inserted", IF free THEN "locked" ELSE "refused")
      /\ fcntlOwner' = IF free THEN ProcessOf(t) ELSE fcntlOwner
      /\ UNCHANGED locks

(* close(fd), then the entry is removed; the order cannot be seen here, as  *)
(* the process does not own the lock.                                       *)
GiveUp(t) ==
  /\ At(t, "refused", "idle")
  /\ CloseDescriptor(t)
  /\ locks' = locks \ {ProcessOf(t)}

Unlock(t) == At(t, "locked", "unlocked") /\ CloseDescriptor(t) /\ UNCHANGED locks

RemoveLock(t) ==
  /\ At(t, "unlocked", "removed")
  /\ locks' = locks \ {ProcessOf(t)}
  /\ UNCHANGED fcntlOwner

CloseUnlocked(t) ==
  /\ At(t, "removed", "idle")
  /\ CloseDescriptor(t) /\ UNCHANGED locks

LockNext ==
  \E t \in LockThread :
    \/ OpenLockFile(t) \/ InsertLock(t) \/ CloseAlreadyHeld(t) \/ SetLock(t)
    \/ GiveUp(t) \/ Unlock(t) \/ RemoveLock(t) \/ CloseUnlocked(t)

LockSpec == LockInit /\ [][LockNext]_lockVars

-----------------------------------------------------------------------------
(* Schedule and BackgroundThreadMain.  Items are numbered in the order they *)
(* are scheduled.                                                           *)

BgInit ==
  /\ bgThread = "none" /\ bgItem = 0 /\ bgWoken = FALSE
  /\ bgQueue = <<>> /\ bgRan = <<>>

InHand == IF bgItem = 0 THEN <<>> ELSE <<bgItem>>

Scheduled == Len(bgRan \o InHand \o bgQueue)

(* Mutant: the signal is sent only when there was work before. *)
SignalLate == bgWoken' = (bgWoken \/ (bgThread = "waiting" /\ bgQueue # <<>>))

(* If the queue is empty the background thread may be waiting for work; a   *)
(* signal sent while it does not wait has no effect.                        *)
SignalIfEmpty == bgWoken' = (bgWoken \/ (bgThread = "waiting" /\ bgQueue = <<>>))

PushWork == bgQueue' = Append(bgQueue, Scheduled + 1)

Schedule ==
  /\ Scheduled < MaxItems
  /\ bgThread' = IF bgThread = "none" THEN "looking" ELSE bgThread
  /\ SignalIfEmpty /\ PushWork
  /\ UNCHANGED <<bgItem, bgRan>>

(* With the mutex held the thread starts to wait, or takes the first item. *)
BackgroundWait ==
  /\ bgThread = "looking" /\ bgQueue = <<>>
  /\ bgThread' = "waiting"
  /\ UNCHANGED <<bgItem, bgWoken, bgQueue, bgRan>>

BackgroundWake ==
  /\ bgThread = "waiting" /\ bgWoken
  /\ bgThread' = "looking" /\ bgWoken' = FALSE
  /\ UNCHANGED <<bgItem, bgQueue, bgRan>>

BackgroundTake ==
  /\ bgThread = "looking" /\ bgQueue # <<>>
  /\ bgThread' = "running" /\ bgItem' = Head(bgQueue)
  /\ bgQueue' = Tail(bgQueue)
  /\ UNCHANGED <<bgWoken, bgRan>>

BackgroundRun ==
  /\ bgThread = "running"
  /\ bgRan' = Append(bgRan, bgItem)
  /\ bgThread' = "looking" /\ bgItem' = 0
  /\ UNCHANGED <<bgWoken, bgQueue>>

BgNext ==
  \/ Schedule \/ BackgroundWait \/ BackgroundWake \/ BackgroundTake
  \/ BackgroundRun

BgSpec == BgInit /\ [][BgNext]_bgVars

-----------------------------------------------------------------------------
(* Within a process the lock table lets one thread at a time into the       *)
(* section between Insert and Remove, so that two databases of one process  *)
(* never share a LOCK file (fcntl alone would grant the second request).    *)
LockedOncePerProcess ==
  \A t, u \in LockThread :
    /\ t # u /\ ProcessOf(t) = ProcessOf(u)
    /\ lockPc[t] \in {"inserted", "refused", "locked", "unlocked"}
    => lockPc[u] \notin {"inserted", "refused", "locked", "unlocked"}

(* Only one thread of all the processes has the file locked at a time, what *)
(* the documentation promises of an open database.                          *)
LockExclusive ==
  \A t, u \in LockThread :
    t # u /\ lockPc[t] = "locked" => lockPc[u] # "locked"

(* Work is never left behind: when the background thread waits and the      *)
(* queue holds work it has been signalled, so that the next thing it does   *)
(* is take that work.  Schedule signals only an empty queue, so this rests  *)
(* on the thread emptying it before it waits again.                         *)
NoLostWakeup == bgThread = "waiting" /\ bgQueue # <<>> => bgWoken

(* Every item scheduled is run at most once and in the order scheduled: the *)
(* items run, the one running and the ones queued are all of them in order. *)
RunOnceInOrder == bgRan \o InHand \o bgQueue = [i \in 1 .. Scheduled |-> i]

(* Scheduled work is neither left behind nor lost, doubled or reordered:    *)
(* env_posix.cc, Schedule and BackgroundThreadMain.                         *)
WorkServed == NoLostWakeup /\ RunOnceInOrder
=============================================================================
