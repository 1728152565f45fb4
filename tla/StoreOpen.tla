----------------------------- MODULE StoreOpen ------------------------------
(***************************************************************************)
(* DB::Open, which recovers what the files have, the end of the destructor, *)
(* DestroyDB, and crashes of the machine.                                  *)
(***************************************************************************)
EXTENDS StoreState

(* Every file an open needs is there and whole. *)
Openable(d) ==
  d.current # 0 =>
    /\ d.current \in DOMAIN d.manifests /\ Manifest(d).next > 0
    /\ \A n \in Manifest(d).add : n \in DOMAIN d.tables /\ d.tables[n].ok

(* What is left of a log or a manifest when the machine crashes: the       *)
(* synced records and some that follow them.                               *)
LogLeft(log) ==
  {[log EXCEPT !.recs = SubSeq(@, 1, n), !.synced = n] : n \in log.synced..Len(log.recs)}
ManifestLeft(m) ==
  {[edits |-> SubSeq(m.edits, 1, n), synced |-> n] : n \in m.synced..Len(m.edits)}

LogsLeft(logs) ==
  {f \in [DOMAIN logs -> UNION {LogLeft(logs[n]) : n \in DOMAIN logs}] :
     \A n \in DOMAIN logs : f[n] \in LogLeft(logs[n])}
ManifestsLeft(manifests) ==
  {f \in [DOMAIN manifests -> UNION {ManifestLeft(manifests[n]) : n \in DOMAIN manifests}] :
     \A n \in DOMAIN manifests : f[n] \in ManifestLeft(manifests[n])}

AfterCrash(d) ==
  {[logs |-> ls, manifests |-> ms, tables |-> d.tables, current |-> d.current] :
     ls \in LogsLeft(d.logs), ms \in ManifestsLeft(d.manifests)}

-----------------------------------------------------------------------------

(* All that is not on disk is gone. *)
Forget ==
  /\ phase' = "closed" /\ vs' = NoVersion
  /\ mem' = 0 /\ imm' = 0 /\ memdata' = <<>> /\ pending' = {} /\ bg_error' = FALSE
  /\ queue' = <<>> /\ wr' = [w \in Writer |-> Idle] /\ group' = NoGroup
  /\ bg' = BgIdle /\ garbage' = NoFiles /\ opening' = NoOpening /\ reader' = NoReader

OpenFails == Fails /\ Forget /\ UNCHANGED ghostVars

openVars == <<imm, mem, memdata, pending, bg_error, writerVars, bg, garbage, reader,
              acked, safe>>

(* DBImpl::Recover: there is a CURRENT, or there is none. *)
Open ==
  /\ phase = "closed" /\ Spend("opens")
  /\ phase' = IF disk.current = 0 THEN "newdb" ELSE "versions"
  /\ UNCHANGED <<openVars, disk, vs, opening, atRisk>>

(* NewDB: the first manifest, which is removed when it cannot be written   *)
(* and synced.                                                             *)
NewDB ==
  /\ phase = "newdb"
  /\ \/ /\ Works
        /\ disk' = [disk EXCEPT !.manifests =
                      Put(@, 1, [edits |-> <<Edit(0, 2, 0, {}, {})>>, synced |-> 1])]
        /\ phase' = "newcurrent"
        /\ UNCHANGED <<openVars, vs, opening, atRisk>>
     \/ OpenFails /\ disk' = [disk EXCEPT !.manifests = Drop(@, 1)]

(* The rest of NewDB: CURRENT names it; it stays when that fails. *)
NewCurrent ==
  /\ phase = "newcurrent"
  /\ \/ /\ Works
        /\ disk' = [disk EXCEPT !.current = 1] /\ phase' = "versions"
        /\ UNCHANGED <<openVars, vs, opening, atRisk>>
     \/ OpenFails /\ UNCHANGED disk

(* VersionSet::Recover, which reports every error, and the list of logs. *)
RecoverVersions ==
  /\ phase = "versions" /\ Openable(disk)
  /\ \/ /\ Works
        /\ LET v == Manifest(disk)
           IN  vs' = [tables |-> v.add, next |-> v.next + 1, last |-> v.last,
                      log |-> v.log, manifest |-> v.next]
        /\ opening' = [logs |-> LogsToReplay(disk), add |-> {}, max |-> 0]
        /\ phase' = "logs"
        /\ UNCHANGED <<openVars, disk, atRisk>>
     \/ OpenFails /\ UNCHANGED disk

(* Mutant: only one log is replayed. *)
NoLogAfter(n) == {}

(* The loop of Recover: the logs that are replayed after log n. *)
LogsAfter(n) == opening.logs \ {n}

(* The records of log n, as far as they were read, go to a table at level  *)
(* 0, when there are any.                                                  *)
Replayed(n, recs) ==
  LET data == UNION {recs[i] : i \in 1..Len(recs)}
      made == IF data = {} THEN {} ELSE {vs.next}
  IN  /\ disk' = [disk EXCEPT !.tables =
                    IF data = {} THEN @ ELSE Put(@, vs.next, [data |-> data, ok |-> TRUE])]
      /\ opening' = [logs |-> LogsAfter(n), add |-> opening.add \cup made,
                     max  |-> Max({opening.max} \cup {w.seq : w \in data})]
      /\ vs' = [vs EXCEPT !.next = Max({@ + Cardinality(made), n + 1})]
      /\ atRisk' = atRisk \cup (Ids(LogData(disk.logs[n])) \ Ids(data))
      /\ UNCHANGED <<openVars, phase>>

(* RecoverLogFile, oldest log first.  When the log cannot be opened, or a  *)
(* read from it fails, what was not read is left out and the open goes on: *)
(* without paranoid_checks the error is ignored.  When the table cannot be *)
(* written the open fails.                                                 *)
RecoverLogFile ==
  /\ phase = "logs" /\ opening.logs # {}
  /\ LET n    == Min(opening.logs)
         recs == disk.logs[n].recs
     IN  \/ Works /\ Replayed(n, recs)
         \/ Fails /\ \E k \in 0..(Len(recs) - 1) : Replayed(n, SubSeq(recs, 1, k))
         \/ LogData(disk.logs[n]) # {} /\ OpenFails /\ UNCHANGED disk

(* Mutant: the sequence numbers in the logs are not looked at. *)
SequenceOfManifest == vs.last

(* The last sequence number of the manifest and of the logs. *)
SequenceRecovered == Max({vs.last, opening.max})

(* The rest of Recover, and the new log of DB::Open. *)
NewLog ==
  /\ phase = "logs" /\ opening.logs = {}
  /\ \/ /\ Works
        /\ disk' = [disk EXCEPT !.logs = Put(@, vs.next, EmptyLog)]
        /\ mem' = vs.next /\ memdata' = Put(memdata, vs.next, {})
        /\ vs' = [vs EXCEPT !.next = @ + 1, !.last = SequenceRecovered]
        /\ phase' = "manifest"
        /\ UNCHANGED <<imm, pending, bg_error, writerVars, bg, garbage, reader, opening,
                       ghostVars>>
     \/ OpenFails /\ UNCHANGED disk

(* LogAndApply on a new manifest: a snapshot of the version, then the edit *)
NewManifest ==
  /\ phase = "manifest"
  /\ \/ /\ Works
        /\ disk' = [disk EXCEPT !.manifests = Put(@, vs.manifest,
                      [edits  |-> <<Edit(0, 0, 0, {}, vs.tables),
                                    Edit(mem, vs.next, vs.last, {}, opening.add)>>,
                       synced |-> 0])]
        /\ phase' = "current"
        /\ UNCHANGED <<openVars, vs, opening, atRisk>>
     \/ OpenFails /\ UNCHANGED disk

(* Mutant: CURRENT names the new manifest before it is synced. *)
CurrentFirst == 0

(* The records of the new manifest, all of them synced. *)
RecordsSynced == 2

(* The manifest is synced, CURRENT set, the version installed; when that   *)
(* fails the new manifest is removed.  Then RemoveObsoleteFiles.           *)
SetCurrentFile ==
  /\ phase = "current"
  /\ \/ /\ Works
        /\ disk' = [disk EXCEPT !.manifests[vs.manifest].synced = RecordsSynced,
                                !.current = vs.manifest]
        /\ vs' = [vs EXCEPT !.tables = @ \cup opening.add, !.log = mem]
        /\ garbage' = Obsolete(disk, vs', Live(vs'.tables, {}, {}))
        /\ phase' = "remove"
        /\ atRisk' = atRisk \ Ids(TableData(disk, vs'.tables))
        /\ UNCHANGED <<memVars, pending, bg_error, writerVars, bg, reader, opening,
                       acked, safe>>
     \/ OpenFails /\ disk' = [disk EXCEPT !.manifests = Drop(@, vs.manifest)]

OpenReturns ==
  /\ phase = "remove" /\ garbage = NoFiles
  /\ phase' = "open" /\ opening' = NoOpening
  /\ bg' = IF Cardinality(vs.tables) >= Trigger THEN [bg EXCEPT !.pc = "call"] ELSE bg
  /\ UNCHANGED <<disk, vs, memVars, pending, bg_error, writerVars, garbage, reader,
                 ghostVars, budget>>

OpenStep ==
  \/ Open \/ NewDB \/ NewCurrent \/ RecoverVersions \/ RecoverLogFile \/ NewLog
  \/ NewManifest \/ SetCurrentFile \/ OpenReturns

Closed ==
  /\ phase = "closing" /\ bg.pc = "idle"
  /\ Forget
  /\ UNCHANGED <<disk, ghostVars, budget>>

(* DestroyDB. *)
Destroy ==
  /\ phase = "closed" /\ disk # EmptyDisk
  /\ disk' = EmptyDisk /\ acked' = {} /\ safe' = {} /\ atRisk' = {}
  /\ UNCHANGED <<phase, vs, memVars, pending, bg_error, writerVars, bg, otherVars, budget>>

Crash ==
  /\ Spend("crashes") /\ disk # EmptyDisk
  /\ disk' \in AfterCrash(disk)
  /\ Forget
  /\ acked' = acked \cap Ids(Recovered(disk'))
  /\ UNCHANGED <<safe, atRisk>>
=============================================================================
