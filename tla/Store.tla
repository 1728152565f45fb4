------------------------------- MODULE Store --------------------------------
(***************************************************************************)
(* DBImpl (src/leveldb/db/db_impl.cc) with its VersionSet, from DB::Open   *)
(* to the destructor: threads that write, one that reads, the background   *)
(* thread that flushes and compacts, I/O errors, and crashes of the        *)
(* machine at any point.  What a step does while it holds mutex_ is one    *)
(* action; where the code gives the mutex up, another action begins.       *)
(*                                                                         *)
(* StoreState has the state, StoreCalls, StoreBackground and StoreOpen have *)
(* the actions.  Module Levels has what this module leaves out: the levels, *)
(* which files a compaction picks, and what it drops.  Here a compaction   *)
(* takes the tables of the version and makes one table of them.            *)
(***************************************************************************)
EXTENDS StoreCalls, StoreBackground, StoreOpen

vars == <<disk, phase, vs, mem, imm, memdata, pending, bg_error, queue, wr, group,
          bg, garbage, opening, reader, acked, safe, atRisk, budget>>

Init ==
  /\ disk = EmptyDisk /\ phase = "closed"
  /\ vs = NoVersion /\ mem = 0 /\ imm = 0 /\ memdata = <<>>
  /\ pending = {} /\ bg_error = FALSE
  /\ queue = <<>> /\ wr = [w \in Writer |-> Idle] /\ group = NoGroup
  /\ bg = BgIdle /\ garbage = NoFiles /\ opening = NoOpening /\ reader = NoReader
  /\ acked = {} /\ safe = {} /\ atRisk = {}
  /\ budget \in Budgets

Next ==
  \/ \E w \in Writer, sync, batch \in BOOLEAN : Write(w, sync, batch)
  \/ \E w \in Writer : WriterStep(w)
  \/ BackgroundStep \/ RemoveFile
  \/ ReadStart \/ ReadEnd
  \/ OpenStep \/ Close \/ Closed \/ Destroy \/ Crash

Spec == Init /\ [][Next]_vars

(* Every thread that can go on does (the mutex and the condition variables *)
(* wake the threads that may); a user who closes the database has no calls *)
(* in progress and ends its reads.                                         *)
FairSpec ==
  /\ Spec
  /\ \A w \in Writer : WF_vars(WriterStep(w))
  /\ WF_vars(BackgroundStep) /\ WF_vars(RemoveFile) /\ WF_vars(Closed)

-----------------------------------------------------------------------------
(* Properties.                                                             *)

(* Every variable has the type its declaration in the code says. *)
TypeOK ==
  /\ phase \in {"closed", "newdb", "newcurrent", "versions", "logs", "manifest", "current",
                "remove", "open", "closing"}
  /\ \A n \in DOMAIN disk.logs : LogData(disk.logs[n]) \subseteq WriteRec
  /\ \A n \in DOMAIN disk.tables : disk.tables[n].data \subseteq WriteRec
  /\ \A n \in DOMAIN memdata : memdata[n] \subseteq WriteRec
  /\ imm \in {0} \cup DOMAIN memdata /\ mem \in {0} \cup DOMAIN memdata
  /\ bg.pc \in {"idle", "call", "build", "work", "append", "sync", "install", "remove", "end"}
  /\ \A w \in Writer : wr[w].pc \in {"idle", "queued", "log", "sync", "insert", "commit"}
  /\ acked \cup safe \cup atRisk \subseteq 1..MaxWrites

(* The crash that loses all it can. *)
WorstCrash(d) ==
  [logs      |-> [n \in DOMAIN d.logs |->
                    [d.logs[n] EXCEPT !.recs = SubSeq(@, 1, d.logs[n].synced)]],
   manifests |-> [n \in DOMAIN d.manifests |->
                    [edits  |-> SubSeq(d.manifests[n].edits, 1, d.manifests[n].synced),
                     synced |-> d.manifests[n].synced]],
   tables    |-> d.tables,
   current   |-> d.current]

(* A write with sync that returned ok comes back after a crash at any      *)
(* point, also while the database is opened again after one.  Not promised *)
(* are the writes DBImpl::Write puts behind a failed append in the same    *)
(* log, until they are in a table, and those of a log that RecoverLogFile  *)
(* could not read; every other error loses none.                           *)
SyncedSurvives == safe \ atRisk \subseteq Ids(Recovered(WorstCrash(disk)))

(* A write that returned ok is on its way to the disk: a crash of the      *)
(* process alone, or closing the database with entries in the memtable,    *)
(* does not lose it, with the same two exceptions.                         *)
AckedOnDisk == acked \ atRisk \subseteq Ids(Recovered(disk))

(* The same without the exceptions, as the comment on WriteOptions::sync   *)
(* says it (options.h): a crash of the process loses no write, and DBImpl  *)
(* loses the one that follows a failed append.                             *)
NoWriteLost == acked \subseteq Ids(Recovered(disk))

(* Whatever a crash leaves, the files the manifest names are there, so     *)
(* that DB::Open does not report missing files.                            *)
AlwaysOpenable == Openable(disk) /\ Openable(WorstCrash(disk))

(* What a reader holds does not change under it: its tables are not        *)
(* removed, and its memtables and tables have every acknowledged write up  *)
(* to its sequence number, however far flushes and compactions got.        *)
ReaderHolds ==
  reader.reading =>
    /\ \A n \in reader.tables : n \in DOMAIN disk.tables /\ disk.tables[n].ok
    /\ LET held == TableData(disk, reader.tables) \cup UNION {memdata[n] : n \in reader.mems}
       IN  \A w \in Visible : w.seq <= reader.seq => w \in held

(* No two writes that can be read, now or after a restart, have the same   *)
(* sequence number, and none has one that is still to be given out.        *)
SequencesUnique ==
  /\ \A v, w \in Recovered(disk) : v.seq = w.seq => v = w
  /\ phase = "open" /\ group = NoGroup => \A w \in Visible : w.seq <= vs.last

(* A call of Write returns, unless the machine crashes: the memtable it    *)
(* waits for is flushed, and level 0 is compacted.                         *)
WriteReturns == \A w \in Writer : wr[w].pc # "idle" ~> wr[w].pc = "idle"

(* The destructor returns. *)
CloseReturns == phase = "closing" ~> phase = "closed"

Contract == INSTANCE StoreContract WITH
  Id      <- 1..MaxWrites,
  content <- Ids(IF phase \in {"open", "closing"} THEN Visible ELSE Recovered(disk)),
  sure    <- safe,
  risk    <- atRisk,
  crashes <- budget.crashes

(* DBImpl keeps the contract: flushing, compacting, closing, opening and   *)
(* failing calls lose nothing a reader could see, and a crash nothing that *)
(* was synced, but for the writes of a log that an I/O error damaged or    *)
(* hid and that are in no table.                                           *)
ImplementsContract == Contract!CSpec
=============================================================================
