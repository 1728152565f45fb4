----------------------------- MODULE StoreCalls -----------------------------
(***************************************************************************)
(* What threads do with an open database: Write with its queue of writers, *)
(* whose first writes for a group of them, Get and iterators, and the call *)
(* of the destructor.                                                      *)
(***************************************************************************)
EXTENDS StoreState

First(w) == queue # <<>> /\ Head(queue) = w

(* A thread calls Write; without a batch it only makes room, and force is  *)
(* its argument.                                                           *)
Write(w, sync, batch) ==
  /\ phase = "open" /\ wr[w].pc = "idle" /\ Spend("writes")
  /\ wr' = [wr EXCEPT ![w] = [pc |-> "queued", sync |-> sync, force |-> ~batch,
                              id |-> IF batch THEN budget.writes ELSE 0]]
  /\ queue' = Append(queue, w)
  /\ UNCHANGED <<disk, phase, vs, memVars, pending, bg_error, group, bg, otherVars, ghostVars>>

(* What these writers write; a call without a batch writes nothing. *)
WritesOf(who) == {wr[w].id : w \in who} \ {0}

(* The first n writers leave the queue. *)
Return(n, ok) ==
  LET who == {queue[i] : i \in 1..n}
  IN  /\ queue' = SubSeq(queue, n + 1, Len(queue))
      /\ wr' = [w \in Writer |-> IF w \in who THEN Idle ELSE wr[w]]
      /\ group' = NoGroup
      /\ acked' = IF ok THEN acked \cup WritesOf(who) ELSE acked
      /\ safe' = IF ok THEN safe \cup WritesOf({v \in who : wr[v].sync}) ELSE safe
      /\ UNCHANGED atRisk

(* MakeRoomForWrite: an earlier error. *)
Refused(w) ==
  /\ First(w) /\ wr[w].pc = "queued" /\ bg_error
  /\ Return(1, FALSE)
  /\ UNCHANGED <<disk, phase, vs, memVars, pending, bg_error, bg, otherVars, budget>>

Full == Cardinality(memdata[mem]) > BufferSize

(* Mutant: the memtable is switched while the last one is not flushed. *)
MaySwitchAnyway == TRUE

(* The previous memtable is flushed and level 0 is not full. *)
MaySwitch == imm = 0 /\ Cardinality(vs.tables) < StopWrites

(* MakeRoomForWrite: a new log and memtable. *)
SwitchMemTable(w) ==
  /\ First(w) /\ wr[w].pc = "queued" /\ ~bg_error /\ (wr[w].force \/ Full) /\ MaySwitch
  /\ \/ /\ Works
        /\ disk' = [disk EXCEPT !.logs = Put(@, vs.next, EmptyLog)]
        /\ vs' = [vs EXCEPT !.next = @ + 1]
        /\ imm' = mem /\ mem' = vs.next /\ memdata' = Put(memdata, vs.next, {})
        /\ wr' = [wr EXCEPT ![w].force = FALSE]
        /\ bg' = Scheduled(bg, mem, vs.tables, bg_error)
        /\ UNCHANGED <<queue, group, ghostVars>>
     \/ Fails /\ Return(1, FALSE) /\ UNCHANGED <<disk, vs, memVars, bg>>
  /\ UNCHANGED <<phase, pending, bg_error, otherVars>>

Fits(n) ==
  /\ \A i \in 2..n : Joins(queue[1], queue[i])
  /\ Cardinality(Batches(n)) <= MaxGroup

(* BuildBatchGroup: how many writers of the queue are in the group. *)
GroupSize == CHOOSE n \in 1..Len(queue) : Fits(n) /\ (n < Len(queue) => ~Fits(n + 1))

(* There is room: the group gets its sequence numbers.  A call without a   *)
(* batch is done.                                                          *)
StartGroup(w) ==
  /\ First(w) /\ wr[w].pc = "queued" /\ ~bg_error /\ ~wr[w].force /\ ~Full
  /\ IF wr[w].id = 0
     THEN Return(1, TRUE)
     ELSE /\ group' = [NoGroup EXCEPT !.size = GroupSize, !.rec = Numbered(GroupSize)]
          /\ wr' = [wr EXCEPT ![w].pc = "log"]
          /\ UNCHANGED <<queue, ghostVars>>
  /\ UNCHANGED <<disk, phase, vs, memVars, pending, bg_error, bg, otherVars, budget>>

(* What log::Reader finds of a record that is appended to this log.  After *)
(* a failed append the file ends in part of a record, or the writer is     *)
(* ahead of the file in its block: the reader drops the rest of a block in *)
(* which a length or a checksum is wrong, and where the blocks end decides *)
(* whether this record is in it.                                           *)
Readable(log, rec) == {rec} \cup IF log.torn THEN {{}} ELSE {}

(* log::Writer::AddRecord, without the mutex.  An append that fails leaves *)
(* the log torn, and is no background error: the log stays in use.         *)
AddRecord(w) ==
  /\ wr[w].pc = "log"
  /\ \/ /\ Works
        /\ \E found \in Readable(disk.logs[mem], group.rec) :
             disk' = [disk EXCEPT !.logs[mem].recs = Append(@, found)]
        /\ atRisk' = IF disk.logs[mem].torn THEN atRisk \cup Ids(group.rec) ELSE atRisk
        /\ wr' = [wr EXCEPT ![w].pc = IF wr[w].sync THEN "sync" ELSE "insert"]
        /\ UNCHANGED group
     \/ /\ Fails
        /\ disk' = [disk EXCEPT !.logs[mem].torn = TRUE]
        /\ wr' = [wr EXCEPT ![w].pc = "commit"]
        /\ group' = [group EXCEPT !.ok = FALSE]
        /\ UNCHANGED atRisk
  /\ UNCHANGED <<phase, vs, memVars, pending, bg_error, queue, bg, otherVars, acked, safe>>

(* Mutant: the log is flushed, not synced. *)
FlushOnly(log) == log.synced

(* The records of a log that are synced after WritableFile::Sync. *)
SyncAll(log) == Len(log.recs)

SyncLog(w) ==
  /\ wr[w].pc = "sync"
  /\ \/ /\ Works
        /\ disk' = [disk EXCEPT !.logs[mem].synced = SyncAll(disk.logs[mem])]
        /\ wr' = [wr EXCEPT ![w].pc = "insert"]
        /\ UNCHANGED group
     \/ /\ Fails
        /\ wr' = [wr EXCEPT ![w].pc = "commit"]
        /\ group' = [group EXCEPT !.ok = FALSE, !.syncError = TRUE]
        /\ UNCHANGED disk
  /\ UNCHANGED <<phase, vs, memVars, pending, bg_error, queue, bg, otherVars, ghostVars>>

InsertInto(w) ==
  /\ wr[w].pc = "insert"
  /\ memdata' = [memdata EXCEPT ![mem] = @ \cup group.rec]
  /\ wr' = [wr EXCEPT ![w].pc = "commit"]
  /\ UNCHANGED <<disk, phase, vs, mem, imm, pending, bg_error, queue, group, bg, otherVars,
                 ghostVars, budget>>

(* With the mutex again; the sequence numbers are used up, also when the   *)
(* group failed.                                                           *)
Commit(w) ==
  /\ wr[w].pc = "commit"
  /\ bg_error' = (bg_error \/ group.syncError)
  /\ vs' = [vs EXCEPT !.last = @ + Cardinality(group.rec)]
  /\ Return(group.size, group.ok)
  /\ UNCHANGED <<disk, phase, memVars, pending, bg, otherVars, budget>>

WriterStep(w) ==
  \/ Refused(w) \/ SwitchMemTable(w) \/ StartGroup(w) \/ AddRecord(w)
  \/ SyncLog(w) \/ InsertInto(w) \/ Commit(w)

-----------------------------------------------------------------------------
(* Reading: Get, or an iterator from NewInternalIterator to its cleanup,   *)
(* holds memtables and a version and sees the writes up to a sequence      *)
(* number.                                                                 *)

ReadStart ==
  /\ phase = "open" /\ ~reader.reading /\ Spend("reads")
  /\ reader' = [reading |-> TRUE, tables |-> vs.tables, mems |-> {mem, imm} \ {0},
                seq |-> vs.last]
  /\ UNCHANGED <<disk, phase, vs, memVars, pending, bg_error, writerVars, bg, garbage,
                 opening, ghostVars>>

ReadEnd ==
  /\ reader.reading /\ reader' = NoReader
  /\ UNCHANGED <<disk, phase, vs, memVars, pending, bg_error, writerVars, bg, garbage,
                 opening, ghostVars, budget>>

(* The destructor; no thread may be in a call. *)
Close ==
  /\ phase = "open" /\ queue = <<>> /\ ~reader.reading
  /\ phase' = "closing"
  /\ UNCHANGED <<disk, vs, memVars, pending, bg_error, writerVars, bg, otherVars, ghostVars,
                 budget>>
=============================================================================
