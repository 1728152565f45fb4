-------------------------- MODULE StoreBackground ---------------------------
(***************************************************************************)
(* The background thread of DBImpl, which flushes the memtable and compacts *)
(* tables, and RemoveObsoleteFiles.                                        *)
(***************************************************************************)
EXTENDS StoreState

RemoveFile ==
  /\ \/ \E n \in garbage.logs :
          /\ disk' = [disk EXCEPT !.logs = Drop(@, n)]
          /\ garbage' = [garbage EXCEPT !.logs = @ \ {n}]
     \/ \E n \in garbage.manifests :
          /\ disk' = [disk EXCEPT !.manifests = Drop(@, n)]
          /\ garbage' = [garbage EXCEPT !.manifests = @ \ {n}]
     \/ \E n \in garbage.tables :
          /\ disk' = [disk EXCEPT !.tables = Drop(@, n)]
          /\ garbage' = [garbage EXCEPT !.tables = @ \ {n}]
  /\ UNCHANGED <<phase, vs, memVars, pending, bg_error, writerVars, bg, opening, reader,
                 ghostVars, budget>>

bgOther == <<phase, writerVars, opening, reader, acked, safe>>

(* The thread takes number vs.next for a table and starts to write it. *)
NewTable ==
  /\ disk' = [disk EXCEPT !.tables = Put(@, vs.next, [data |-> {}, ok |-> FALSE])]
  /\ vs' = [vs EXCEPT !.next = @ + 1]
  /\ pending' = pending \cup {vs.next}

(* BackgroundCall and BackgroundCompaction, up to where the mutex is given *)
(* up.                                                                     *)
BackgroundCall ==
  /\ bg.pc = "call"
  /\ \/ /\ phase = "open" /\ ~bg_error /\ imm # 0
        /\ NewTable /\ bg' = [bg EXCEPT !.pc = "build", !.flush = vs.next]
     \/ /\ phase = "open" /\ ~bg_error /\ imm = 0 /\ Cardinality(vs.tables) >= Trigger
        /\ NewTable
        /\ bg' = [bg EXCEPT !.pc = "work", !.out = vs.next, !.inputs = vs.tables]
     \/ /\ phase # "open" \/ bg_error \/ (imm = 0 /\ Cardinality(vs.tables) < Trigger)
        /\ bg' = [bg EXCEPT !.pc = "end"]
        /\ UNCHANGED <<disk, vs, pending>>
  /\ UNCHANGED <<bgOther, atRisk, memVars, bg_error, garbage, budget>>

(* The flush is over: back to the compaction it interrupted, if any.  The  *)
(* compaction is over when it is not a flush that ends.                    *)
Over(b) ==
  IF b.flush # 0 THEN [b EXCEPT !.flush = 0, !.pc = IF b.out # 0 THEN "work" ELSE "end"]
  ELSE [b EXCEPT !.out = 0, !.inputs = {}, !.pc = "end"]

(* RecordBackgroundError.  CleanupCompaction forgets the output; its file  *)
(* stays.                                                                  *)
BackgroundError ==
  /\ bg_error' = TRUE
  /\ bg' = Over(bg)
  /\ pending' = pending \ {IF bg.flush # 0 THEN bg.flush ELSE bg.out}

(* WriteLevel0Table from BuildTable on, and CompactMemTable up to the      *)
(* write of the manifest; a memtable without entries makes no file.        *)
BuildTable ==
  /\ bg.pc = "build"
  /\ LET n     == bg.flush
         empty == memdata[imm] = {}
     IN  \/ /\ Works
            /\ disk' = [disk EXCEPT !.tables =
                          IF empty THEN Drop(@, n)
                          ELSE Put(@, n, [data |-> memdata[imm], ok |-> TRUE])]
            /\ IF phase = "open"
               THEN /\ pending' = pending \ {n}
                    /\ bg' = [bg EXCEPT !.pc = "append", !.edit =
                               Edit(mem, vs.next, vs.last, {}, IF empty THEN {} ELSE {n})]
                    /\ UNCHANGED bg_error
               ELSE BackgroundError
         \/ Fails /\ disk' = [disk EXCEPT !.tables = Drop(@, n)] /\ BackgroundError
  /\ UNCHANGED <<bgOther, atRisk, vs, memVars, garbage>>

(* The loop of DoCompactionWork: it stops to flush a memtable and when the *)
(* database is closed.  At its end the output is synced, and               *)
(* InstallCompactionResults has its edit.                                  *)
DoCompactionWork ==
  /\ bg.pc = "work"
  /\ \/ /\ phase = "open" /\ imm # 0 /\ NewTable /\ Works
        /\ bg' = [bg EXCEPT !.pc = "build", !.flush = vs.next]
        /\ UNCHANGED bg_error
     \/ /\ phase = "open" /\ Works
        /\ disk' = [disk EXCEPT !.tables =
                      Put(@, bg.out, [data |-> TableData(disk, bg.inputs), ok |-> TRUE])]
        /\ bg' = [bg EXCEPT !.pc = "append", !.edit =
                    Edit(vs.log, vs.next, vs.last, bg.inputs, {bg.out})]
        /\ UNCHANGED <<vs, pending, bg_error>>
     \/ /\ IF phase = "open" THEN Fails ELSE Works
        /\ BackgroundError
        /\ UNCHANGED <<disk, vs>>
  /\ UNCHANGED <<bgOther, atRisk, memVars, garbage>>

(* LogAndApply without the mutex: the record is written.  When that fails  *)
(* it may be in the file all the same.                                     *)
WriteManifest ==
  /\ bg.pc = "append"
  /\ LET written == [disk EXCEPT !.manifests[vs.manifest].edits = Append(@, bg.edit)]
     IN  \/ Works /\ disk' = written /\ bg' = [bg EXCEPT !.pc = "sync"]
            /\ UNCHANGED <<bg_error, pending>>
         \/ Fails /\ disk' \in {disk, written} /\ BackgroundError
  /\ UNCHANGED <<bgOther, atRisk, vs, memVars, garbage>>

SyncManifest ==
  /\ bg.pc = "sync"
  /\ \/ /\ Works
        /\ disk' = [disk EXCEPT !.manifests[vs.manifest].synced =
                      Len(disk.manifests[vs.manifest].edits)]
        /\ bg' = [bg EXCEPT !.pc = "install"]
        /\ UNCHANGED <<bg_error, pending>>
     \/ Fails /\ BackgroundError /\ UNCHANGED disk
  /\ UNCHANGED <<bgOther, atRisk, vs, memVars, garbage>>

(* The rest of LogAndApply; the memtable or the inputs are let go; and     *)
(* RemoveObsoleteFiles.  What is in a table of the version needs no log.   *)
InstallVersion ==
  /\ bg.pc = "install"
  /\ vs' = [vs EXCEPT !.tables = (@ \ bg.edit.del) \cup bg.edit.add, !.log = bg.edit.log]
  /\ imm' = IF bg.flush # 0 THEN 0 ELSE imm
  /\ pending' = IF bg.flush # 0 THEN pending ELSE pending \ {bg.out}
  /\ garbage' = Obsolete(disk, vs', Live(vs'.tables, pending',
                                         IF bg.flush # 0 THEN bg.inputs ELSE {}))
  /\ bg' = [Over(bg) EXCEPT !.pc = "remove"]
  /\ atRisk' = atRisk \ Ids(TableData(disk, vs'.tables))
  /\ UNCHANGED <<bgOther, disk, mem, memdata, bg_error, budget>>

(* The files are deleted; a flush inside a compaction goes back to it. *)
Removed ==
  /\ bg.pc = "remove" /\ garbage = NoFiles
  /\ bg' = [bg EXCEPT !.pc = IF bg.out # 0 THEN "work" ELSE "end"]
  /\ UNCHANGED <<bgOther, atRisk, disk, vs, memVars, pending, bg_error, garbage, budget>>

(* Mutant: the thread does not look whether there is more to do. *)
NotRescheduled ==
  /\ bg.pc = "end"
  /\ bg' = BgIdle
  /\ UNCHANGED <<bgOther, atRisk, disk, vs, memVars, pending, bg_error, garbage, budget>>

BackgroundEnd ==
  /\ bg.pc = "end"
  /\ bg' = Scheduled(BgIdle, imm, vs.tables, bg_error)
  /\ UNCHANGED <<bgOther, atRisk, disk, vs, memVars, pending, bg_error, garbage, budget>>

BackgroundStep ==
  \/ BackgroundCall \/ BuildTable \/ DoCompactionWork \/ WriteManifest
  \/ SyncManifest \/ InstallVersion \/ Removed \/ BackgroundEnd
=============================================================================
