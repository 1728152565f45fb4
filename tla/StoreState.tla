----------------------------- MODULE StoreState -----------------------------
(***************************************************************************)
(* The state of DBImpl (src/leveldb/db/db_impl.cc) with its VersionSet: the *)
(* files of a database and what opening it makes of them, the variables, and *)
(* what several of the actions use.                                        *)
(*                                                                         *)
(* A write is its identity and its sequence number.  A log is a sequence   *)
(* of records, each the set of the writes that log::Reader finds in it; a  *)
(* manifest is a sequence of version edits; both know how many of their    *)
(* records are synced.  A log is torn when an append to it failed.  A      *)
(* table is the set of its writes, and whether the file is complete and    *)
(* synced.  A log, manifest or table is named by its number.  Creating,    *)
(* renaming and removing a file takes effect in order, as on a journaling  *)
(* file system.                                                            *)
(***************************************************************************)
EXTENDS Integers, FiniteSets, Sequences

Max(S) == CHOOSE n \in S : \A m \in S : m <= n
Min(S) == CHOOSE n \in S : \A m \in S : n <= m

(* No file: CURRENT is 0. *)
EmptyDisk == [logs |-> <<>>, manifests |-> <<>>, tables |-> <<>>, current |-> 0]

EmptyLog == [recs |-> <<>>, synced |-> 0, torn |-> FALSE]

Put(f, n, x) == [m \in DOMAIN f \cup {n} |-> IF m = n THEN x ELSE f[m]]
Drop(f, n)   == [m \in DOMAIN f \ {n} |-> f[m]]

(* VersionEdit, without the levels of the files. *)
Edit(log, next, last, del, add) ==
  [log |-> log, next |-> next, last |-> last, del |-> del, add |-> add]

(* VersionSet::Recover and its Builder, what the records of a manifest add *)
(* up to: the numbers of the last one, and the tables that no record       *)
(* deletes after one that adds them.                                       *)
Replay(edits) ==
  IF edits = <<>> THEN Edit(0, 0, 0, {}, {})
  ELSE [edits[Len(edits)] EXCEPT
          !.del = {},
          !.add = UNION {{t \in edits[i].add :
                             \A j \in (i + 1)..Len(edits) : t \notin edits[j].del} :
                           i \in 1..Len(edits)}]

Manifest(d) == Replay(d.manifests[d.current].edits)

TableData(d, S) == UNION {d.tables[n].data : n \in S}
LogData(log)    == UNION {log.recs[i] : i \in 1..Len(log.recs)}

(* DBImpl::Recover: the logs that are not in a table yet. *)
LogsToReplay(d) == {n \in DOMAIN d.logs : n >= Manifest(d).log}

(* The writes an open of these files brings back. *)
Recovered(d) ==
  IF d.current = 0 THEN {}
  ELSE TableData(d, Manifest(d).add)
         \cup UNION {LogData(d.logs[n]) : n \in LogsToReplay(d)}

-----------------------------------------------------------------------------
(* The variables.                                                          *)

CONSTANTS
  Writer,     \* the threads that call Write
  BufferSize, \* Options::write_buffer_size, in writes
  Trigger,    \* the number of tables that makes NeedsCompaction true
  StopWrites, \* config::kL0_StopWritesTrigger
  MaxGroup,   \* the batches that BuildBatchGroup puts together at most
  Budgets     \* how many writes, opens, reads, crashes and failed calls of the
              \* file system there may be: a set of combinations

ASSUME StoreAssumption ==
  /\ BufferSize \in Nat /\ Trigger \in Nat \ {0, 1} /\ StopWrites >= Trigger
  /\ MaxGroup \in Nat \ {0}
  /\ IsFiniteSet(Budgets) /\ Budgets # {}
  /\ Budgets \subseteq [writes : Nat, opens : Nat, reads : Nat, crashes : Nat, errors : Nat]

VARIABLES
  disk,      \* the files
  phase,     \* "closed", the steps of DB::Open, "open", or "closing"
  vs,        \* VersionSet: current_, next file, last sequence, log, manifest
  mem, imm,  \* mem_ (also logfile_number_) and imm_, by the number of their log; 0: null
  memdata,   \* the contents of the memtables
  pending,   \* pending_outputs_
  bg_error,  \* bg_error_ is not ok
  queue,     \* writers_
  wr,        \* the writers' batch, options and progress
  group,     \* the group the first writer is writing
  bg,        \* the background thread
  garbage,   \* files_to_delete of RemoveObsoleteFiles
  opening,   \* DB::Open: the logs to replay, the tables made of them, the last sequence
  reader,    \* a thread in Get or with an iterator: what it holds
  acked,     \* the writes that returned ok and did not get lost in a crash
  safe,      \* the writes with sync that returned ok
  atRisk,    \* the writes whose log was torn before or could not be read, not in a table
  budget     \* writes, opens, reads, crashes and errors that may still come

memVars    == <<mem, imm, memdata>>
writerVars == <<queue, wr, group>>
ghostVars  == <<acked, safe, atRisk>>
otherVars  == <<garbage, opening, reader>>

NoVersion == [tables |-> {}, next |-> 0, last |-> 0, log |-> 0, manifest |-> 0]
Idle      == [pc |-> "idle", sync |-> FALSE, id |-> 0, force |-> FALSE]
NoGroup   == [size |-> 0, rec |-> {}, ok |-> TRUE, syncError |-> FALSE]
NoReader  == [reading |-> FALSE, tables |-> {}, mems |-> {}, seq |-> 0]
NoFiles   == [logs |-> {}, manifests |-> {}, tables |-> {}]
NoOpening == [logs |-> {}, add |-> {}, max |-> 0]
BgIdle    == [pc |-> "idle", flush |-> 0, out |-> 0, inputs |-> {},
              edit |-> Edit(0, 0, 0, {}, {})]

Ids(S) == {w.id : w \in S}

Spend(what) == budget[what] > 0 /\ budget' = [budget EXCEPT ![what] = @ - 1]

(* A call of the file system fails, or does not. *)
Fails == Spend("errors")
Works == UNCHANGED budget

(* MaybeScheduleCompaction: what the background thread is after it. *)
Scheduled(b, immutable, tables, error) ==
  IF b.pc = "idle" /\ phase = "open" /\ ~error
       /\ (immutable # 0 \/ Cardinality(tables) >= Trigger)
  THEN [b EXCEPT !.pc = "call"] ELSE b

(* A writer with sync is not put into the group of one without. *)
Joins(first, w) == wr[w].sync => wr[first].sync

(* Which of the first n writers of the queue have a batch. *)
Batches(n) == {i \in 1..n : wr[queue[i]].id # 0}

(* Mutant: the sequence number of the group is last_sequence. *)
NumberedFromLast(n) ==
  {[id |-> wr[queue[i]].id, seq |-> vs.last + Cardinality(Batches(i)) - 1] : i \in Batches(n)}

(* The batches of the first n writers, with their sequence numbers. *)
Numbered(n) ==
  {[id |-> wr[queue[i]].id, seq |-> vs.last + Cardinality(Batches(i))] : i \in Batches(n)}

(* Mutant: the files a reader still uses are not live. *)
IgnoreReaders(tables, outputs, inputs) == tables \cup outputs \cup inputs

(* AddLiveFiles and pending_outputs_: the current version, the version the *)
(* compaction works on and the one the reader holds.                       *)
Live(tables, outputs, inputs) == tables \cup outputs \cup inputs \cup reader.tables

(* RemoveObsoleteFiles: what there is to delete, nothing after an error. *)
Obsolete(d, v, live) ==
  IF bg_error THEN NoFiles
  ELSE [logs      |-> {n \in DOMAIN d.logs : n < v.log},
        manifests |-> {n \in DOMAIN d.manifests : n < v.manifest},
        tables    |-> DOMAIN d.tables \ live]

MaxWrites == Max({b.writes : b \in Budgets})
WriteRec  == [id : 1..MaxWrites, seq : 1..MaxWrites]

(* What a reader sees. *)
Visible == TableData(disk, vs.tables) \cup UNION {memdata[n] : n \in {mem, imm} \ {0}}
=============================================================================
