------------------------------- MODULE Repair -------------------------------
(***************************************************************************)
(* RepairDB (leveldb/db/repair.cc): logs are turned into tables, tables are *)
(* scanned and the damaged ones copied, and a new descriptor lists them all *)
(* at level 0.  Files move to lost/ as they are replaced.  The process may  *)
(* stop between any two operations on the directory and repair be run again,*)
(* and operations may fail, a read only once.  A file is the set of the     *)
(* entries that can be read from it; an entry is its sequence number, and   *)
(* the entries are in the order of their keys.                              *)
(***************************************************************************)
EXTENDS Integers, SequencesExt, FiniteSetsExt

CONSTANTS Directories, \* the directories repair starts from
          MaxRuns,     \* bound on the runs of RepairDB
          MaxFailures  \* bound on the operations that fail

VARIABLES dir,         \* number -> a log or a table
          lost,        \* number -> what is readable in lost/
          descriptor,  \* MANIFEST-000001, when repair has written it
          manifests,   \* the manifests there are: "old" and "new"
          pointsTo,    \* the manifest CURRENT names
          rep,         \* the Repairer
          runs, failures,
          readable     \* what could be read at first

dirVars == <<dir, lost, descriptor, manifests, pointsTo>>
repairVars == <<dirVars, rep, runs, failures, readable>>

LogOf(s)      == [kind |-> "log", has |-> s, ok |-> TRUE]
TableOf(s)    == [kind |-> "table", has |-> s, ok |-> TRUE]
DamagedOf(s)  == [kind |-> "table", has |-> s, ok |-> FALSE]

Repairer(pc) ==
  [pc |-> pc, next |-> 1, logs |-> <<>>, table_numbers |-> <<>>, tables |-> {},
   manifests |-> {}, table |-> {}, seen |-> {}, copy |-> 0, copied |-> {},
   misread |-> {}]

NotWritten == [tables |-> {}, next |-> 0, last |-> 0]

Entries(files) == UNION {files[n].has : n \in DOMAIN files}

RepairInit ==
  /\ dir \in Directories /\ lost = <<>>
  /\ descriptor = NotWritten /\ manifests = {"old"} /\ pointsTo = "old"
  /\ rep = Repairer("find") /\ runs = 1 /\ failures = 0
  /\ readable = Entries(dir)

Without(files, n) == Restrict(files, DOMAIN files \ {n})

(* The Repairer goes on; the arguments are its next state. *)
Goes(r) == rep' = r /\ UNCHANGED <<runs, readable>>

Succeeds == UNCHANGED failures

OperationFails == failures < MaxFailures /\ failures' = failures + 1

(* ArchiveFile: the result of the rename is ignored. *)
Archive(n) ==
  \/ /\ Succeeds
     /\ lost' = (n :> dir[n]) @@ lost
     /\ dir' = Without(dir, n)
  \/ OperationFails /\ UNCHANGED <<lost, dir>>

-----------------------------------------------------------------------------
(* Mutant: next_file_number_ = number. *)
NumberReused(numbers) == Max(numbers \cup {1})

NextFileNumber(numbers) == Max({n + 1 : n \in numbers} \cup {1})

(* FindFiles: the directory is listed in any order. *)
FindFiles ==
  LET logs   == {n \in DOMAIN dir : dir[n].kind = "log"}
      tables == {n \in DOMAIN dir : dir[n].kind = "table"}
  IN  /\ rep.pc = "find" /\ Succeeds
      /\ \E l \in SetToAllKPermutations(logs) :
           /\ Len(l) = Cardinality(logs)
           /\ Goes([rep EXCEPT !.pc = "logs", !.logs = l,
                               !.table_numbers = SetToSortSeq(tables, <),
                               !.next = NextFileNumber(DOMAIN dir),
                               !.manifests = manifests])
      /\ UNCHANGED dirVars

(* What is read from a file in one pass: all that is readable, or, when a   *)
(* read fails on the way, less.                                             *)
Read(has, got) ==
  \/ Succeeds /\ got = has
  \/ OperationFails /\ got # has

(* ConvertLogToTable: a log that cannot be opened takes no number.  Else    *)
(* its entries go to a table, which is begun here; a log with nothing in it *)
(* makes no table.                                                          *)
ConvertLogToTable ==
  LET log == Head(rep.logs)
  IN  /\ rep.pc = "logs" /\ rep.logs # <<>>
      /\ \/ /\ OperationFails /\ Goes([rep EXCEPT !.pc = "archiveLog"])
            /\ UNCHANGED dir
         \/ \E got \in SUBSET dir[log].has :
              /\ Read(dir[log].has, got)
              /\ IF got = {}
                 THEN /\ Goes([rep EXCEPT !.pc = "archiveLog", !.next = @ + 1])
                      /\ UNCHANGED dir
                 ELSE /\ Goes([rep EXCEPT !.pc = "build", !.next = @ + 1, !.table = got])
                      /\ dir' = (rep.next :> DamagedOf({})) @@ dir
      /\ UNCHANGED <<lost, descriptor, manifests, pointsTo>>

(* The end of BuildTable: the table is whole, or removed. *)
LogTableBuilt ==
  LET n == rep.next - 1
      r == [rep EXCEPT !.pc = "archiveLog", !.table = {}]
  IN  /\ rep.pc = "build"
      /\ \/ /\ Succeeds /\ dir' = (n :> TableOf(rep.table)) @@ dir
            /\ Goes([r EXCEPT !.table_numbers = Append(@, n)])
         \/ OperationFails /\ dir' = Without(dir, n) /\ Goes(r)
      /\ UNCHANGED <<lost, descriptor, manifests, pointsTo>>

ArchiveLog ==
  /\ rep.pc = "archiveLog"
  /\ Archive(Head(rep.logs))
  /\ Goes([rep EXCEPT !.pc = "logs", !.logs = Tail(@)])
  /\ UNCHANGED <<descriptor, manifests, pointsTo>>

LogsDone ==
  /\ rep.pc = "logs" /\ rep.logs = <<>> /\ Succeeds
  /\ Goes([rep EXCEPT !.pc = "scan"])
  /\ UNCHANGED dirVars

Scanned == Head(rep.table_numbers)

(* TableInfo: the smallest and the largest key and the largest sequence     *)
(* number, as the scan saw them; a key is 0 when it saw nothing.            *)
TableInfo(n, seen) ==
  [number |-> n, max_sequence |-> Max({0} \cup seen),
   smallest |-> IF seen = {} THEN 0 ELSE Min(seen), largest |-> Max({0} \cup seen)]

(* The table is done with, and the next one is scanned. *)
Dropped(r) ==
  [r EXCEPT !.pc = "scan", !.table_numbers = Tail(@), !.seen = {}, !.copy = 0, !.copied = {}]

(* The table joins tables_, with what its scan saw. *)
Recovered(r, seen) ==
  [Dropped(r) EXCEPT !.tables = @ \cup {TableInfo(Scanned, seen)}]

(* ScanTable: the scan ends with the iterator's status.  A block that       *)
(* cannot be read is left out, and the table is copied.                     *)
ScanTable ==
  /\ rep.pc = "scan" /\ rep.table_numbers # <<>>
  /\ LET table == dir[Scanned]
     IN  \E seen \in SUBSET table.has :
           /\ Read(table.has, seen)
           /\ Goes(IF table.ok /\ seen = table.has THEN Recovered(rep, seen)
                   ELSE [rep EXCEPT !.pc = "copy", !.seen = seen,
                           !.misread = IF seen = table.has THEN @ ELSE @ \cup {Scanned}])
  /\ UNCHANGED dirVars

(* The file's size cannot be had: the file is archived. *)
ScanFails ==
  /\ rep.pc = "scan" /\ rep.table_numbers # <<>> /\ OperationFails
  /\ Goes([rep EXCEPT !.pc = "archiveBad"])
  /\ UNCHANGED dirVars

ArchiveBad ==
  /\ rep.pc = "archiveBad"
  /\ Archive(Scanned)
  /\ Goes(Dropped(rep))
  /\ UNCHANGED <<descriptor, manifests, pointsTo>>

(* RepairTable: the copy is begun, the source read and archived, the copy   *)
(* finished and renamed to the source's name.  The iterator's status is not *)
(* looked at.  An unfinished table cannot be opened.                        *)
CopyTable ==
  /\ rep.pc = "copy"
  /\ \/ \E got \in SUBSET dir[Scanned].has :
          /\ Read(dir[Scanned].has, got)
          /\ dir' = (rep.next :> DamagedOf({})) @@ dir
          /\ Goes([rep EXCEPT !.pc = "archiveSrc", !.copy = rep.next, !.next = @ + 1,
                              !.copied = got])
     \/ /\ OperationFails
        /\ Goes(Dropped([rep EXCEPT !.next = @ + 1])) /\ UNCHANGED dir
  /\ UNCHANGED <<lost, descriptor, manifests, pointsTo>>

ArchiveSource ==
  /\ rep.pc = "archiveSrc"
  /\ Archive(Scanned)
  /\ Goes([rep EXCEPT !.pc = "finish"])
  /\ UNCHANGED <<descriptor, manifests, pointsTo>>

(* With nothing copied the builder is abandoned, and the empty file stays. *)
FinishCopy ==
  /\ rep.pc = "finish"
  /\ \/ /\ Succeeds /\ rep.copied # {}
        /\ dir' = (rep.copy :> TableOf(rep.copied)) @@ dir
        /\ Goes([rep EXCEPT !.pc = "rename"])
     \/ /\ Succeeds /\ rep.copied = {}
        /\ Goes(Dropped(rep)) /\ UNCHANGED dir
     \/ /\ OperationFails
        /\ dir' = Without(dir, rep.copy) /\ Goes(Dropped(rep))
  /\ UNCHANGED <<lost, descriptor, manifests, pointsTo>>

RenameCopy ==
  /\ rep.pc = "rename"
  /\ \/ /\ Succeeds
        /\ dir' = (Scanned :> dir[rep.copy]) @@ Without(dir, rep.copy)
        /\ Goes(Recovered(rep, rep.seen))
     \/ /\ OperationFails
        /\ dir' = Without(dir, rep.copy) /\ Goes(Dropped(rep))
  /\ UNCHANGED <<lost, descriptor, manifests, pointsTo>>

TablesDone ==
  /\ rep.pc = "scan" /\ rep.table_numbers = <<>>
  /\ \/ Succeeds /\ Goes([rep EXCEPT !.pc = "archiveManifests"])
     \/ OperationFails /\ Goes([rep EXCEPT !.pc = "failed"])
  /\ UNCHANGED dirVars

(* WriteDescriptor, once the temporary file is written. *)
ArchiveManifests ==
  /\ rep.pc = "archiveManifests"
  /\ \/ Succeeds /\ manifests' = manifests \ rep.manifests
     \/ OperationFails /\ UNCHANGED manifests
  /\ Goes([rep EXCEPT !.pc = "install"])
  /\ UNCHANGED <<dir, lost, descriptor, pointsTo>>

InstallManifest ==
  /\ rep.pc = "install"
  /\ \/ /\ Succeeds /\ manifests' = manifests \cup {"new"}
        /\ descriptor' =
             [tables |-> rep.tables, next |-> rep.next,
              last |-> Max({0} \cup {t.max_sequence : t \in rep.tables})]
        /\ Goes([rep EXCEPT !.pc = "current"])
     \/ /\ OperationFails /\ Goes([rep EXCEPT !.pc = "failed"])
        /\ UNCHANGED <<manifests, descriptor>>
  /\ UNCHANGED <<dir, lost, pointsTo>>

SetCurrent ==
  /\ rep.pc = "current"
  /\ \/ Succeeds /\ pointsTo' = "new" /\ Goes([rep EXCEPT !.pc = "done"])
     \/ /\ OperationFails /\ Goes([rep EXCEPT !.pc = "failed"])
        /\ UNCHANGED pointsTo
  /\ UNCHANGED <<dir, lost, descriptor, manifests>>

(* The process stops, or a failed run returns, and repair is run again. *)
RepairAgain ==
  /\ runs < MaxRuns /\ runs' = runs + 1
  /\ rep' = Repairer("find")
  /\ UNCHANGED <<dirVars, failures, readable>>

RepairNext ==
  \/ FindFiles \/ ConvertLogToTable \/ LogTableBuilt \/ ArchiveLog \/ LogsDone
  \/ ScanTable \/ ScanFails \/ ArchiveBad
  \/ CopyTable \/ ArchiveSource \/ FinishCopy \/ RenameCopy \/ TablesDone
  \/ ArchiveManifests \/ InstallManifest \/ SetCurrent \/ RepairAgain

-----------------------------------------------------------------------------
(* Wherever repair stops and is run again, and whichever one operation      *)
(* fails, everything that could be read at first can still be read in the   *)
(* directory or in lost/: no file that repair writes, removes or archives   *)
(* replaces the only copy of an entry.  (When both a read and an archive    *)
(* fail, the short copy does.)                                              *)
NothingVanishes == failures <= 1 => readable \subseteq Entries(dir) \cup Entries(lost)

(* A run that is neither interrupted nor meets an error leaves a descriptor *)
(* with every entry that could be read, those of logs and of damaged tables *)
(* included.                                                                *)
RepairComplete ==
  rep.pc = "done" /\ runs = 1 /\ failures = 0 =>
    readable \subseteq UNION {dir[t.number].has : t \in descriptor.tables}

(* When repair reports success CURRENT names a descriptor whose tables all  *)
(* exist and are whole, and whose next file number is above every file of   *)
(* the directory, so that opening the database overwrites none, also after  *)
(* failures and earlier runs.  The keys it gives for a table cover the      *)
(* entries of the table, and its last sequence is not below them, unless    *)
(* the scan of that table missed a part that its copy then has: RepairTable *)
(* puts the scan's keys and sequence number into tables_ unchanged.         *)
RepairedOpens ==
  rep.pc = "done" =>
    /\ pointsTo = "new" /\ "new" \in manifests
    /\ \A t \in descriptor.tables :
         /\ t.number \in DOMAIN dir /\ dir[t.number].ok
         /\ \A s \in dir[t.number].has :
              \/ t.smallest <= s /\ s <= t.largest /\ s <= descriptor.last
              \/ t.number \in rep.misread
    /\ \A n \in DOMAIN dir : n < descriptor.next

(* Repair loses nothing and leaves a database that opens: repair.cc, Run.   *)
RepairSound == NothingVanishes /\ RepairComplete /\ RepairedOpens
=============================================================================
