------------------------------ MODULE PosixFile ------------------------------
(***************************************************************************)
(* A PosixWritableFile (leveldb/util/env_posix.cc): bytes are buffered in   *)
(* user space, written to the kernel when the buffer is full or flushed,    *)
(* and made durable by Sync, which for a MANIFEST also syncs the directory. *)
(* write() may fail after writing a part.  The n-th byte appended is the    *)
(* number n.  Below it, SetCurrentFile: a file written, synced and renamed  *)
(* over CURRENT.                                                            *)
(***************************************************************************)
EXTENDS Integers, Sequences, FiniteSetsExt, Functions

CONSTANTS FileBufferSize,  \* kWritableFileBufferSize
          MaxBytes,    \* bound on the bytes appended
          MaxFileNames \* bound on the names created in the directory

ASSUME FileAssumption ==
  FileBufferSize \in Nat /\ MaxBytes \in Nat /\ MaxFileNames \in Nat

VARIABLES wfile,       \* the file: see FileInit
          dirNames,    \* names created in the directory, and how many of them
                       \* a directory sync has made durable
          appended,    \* for each byte appended, the names there were then
          errorAt,     \* the bytes appended when an error was last returned
          syncedAt,    \* the bytes appended when Sync last succeeded
          currentFile  \* the state of CURRENT: see CurrentInit

fileVars == <<wfile, dirNames, appended, errorAt, syncedAt>>

FileInit ==
  /\ \E m \in BOOLEAN :
       wfile = [buf |-> <<>>, kernel |-> <<>>, durable |-> 0, open |-> TRUE,
                is_manifest |-> m]
  /\ dirNames = [created |-> 0, durable |-> 0]
  /\ appended = <<>> /\ errorAt = 0 /\ syncedAt = 0

Outcome(f, ok) == [file |-> f, ok |-> ok]

(* The loop over write(): EINTR and short writes are retried, so that it    *)
(* ends with everything written or with an error after any prefix.          *)
WriteUnbuffered(f, data) ==
  {Outcome([f EXCEPT !.kernel = @ \o data], TRUE)}
  \cup {Outcome([f EXCEPT !.kernel = @ \o SubSeq(data, 1, n)], FALSE) :
          n \in 0 .. Len(data) - 1}

FlushBuffer(f) ==
  {Outcome([o.file EXCEPT !.buf = <<>>], o.ok) : o \in WriteUnbuffered(f, f.buf)}

AppendTo(f, data) ==
  LET copy == Min({Len(data), FileBufferSize - Len(f.buf)})
      rest == SubSeq(data, copy + 1, Len(data))
      full == [f EXCEPT !.buf = @ \o SubSeq(data, 1, copy)]
  IN  IF rest = <<>>
      THEN {Outcome(full, TRUE)}
      ELSE UNION {IF ~o.ok THEN {o}
                  ELSE IF Len(rest) < FileBufferSize
                  THEN {Outcome([o.file EXCEPT !.buf = rest], TRUE)}
                  ELSE WriteUnbuffered(o.file, rest) : o \in FlushBuffer(full)}

(* A call returns: the file changes, an error is noted. *)
Returns(o) ==
  /\ wfile' = o.file
  /\ errorAt' = IF o.ok THEN errorAt ELSE Len(appended')

AppendBytes(n) ==
  /\ wfile.open /\ Len(appended) + n =< MaxBytes
  /\ appended' = appended \o [i \in 1 .. n |-> dirNames.created]
  /\ \E o \in AppendTo(wfile, [i \in 1 .. n |-> Len(appended) + i]) : Returns(o)
  /\ UNCHANGED <<dirNames, syncedAt>>

Flush ==
  /\ wfile.open /\ UNCHANGED appended
  /\ \E o \in FlushBuffer(wfile) : Returns(o)
  /\ UNCHANGED <<dirNames, syncedAt>>

(* SyncDirIfManifest: a set of the resulting directory states and status. *)
SyncDirIfManifest ==
  IF wfile.is_manifest
  THEN {[dir |-> [dirNames EXCEPT !.durable = dirNames.created], ok |-> TRUE],
        [dir |-> dirNames, ok |-> FALSE]}
  ELSE {[dir |-> dirNames, ok |-> TRUE]}

SyncFd(f) == {Outcome([f EXCEPT !.durable = Len(f.kernel)], TRUE), Outcome(f, FALSE)}

(* Mutant: the buffer is not written out first. *)
SyncUnflushed ==
  /\ wfile.open /\ UNCHANGED appended
  /\ \E d \in SyncDirIfManifest : \E s \in SyncFd(wfile) :
       /\ Returns([s EXCEPT !.ok = s.ok /\ d.ok])
       /\ dirNames' = d.dir
       /\ syncedAt' = IF s.ok /\ d.ok THEN Len(appended) ELSE syncedAt

(* New files referred to by the manifest must be in the file system before  *)
(* the manifest that refers to them.                                        *)
Sync ==
  /\ wfile.open /\ UNCHANGED appended
  /\ \E d \in SyncDirIfManifest :
       /\ dirNames' = d.dir
       /\ IF ~d.ok
          THEN Returns(Outcome(wfile, FALSE)) /\ UNCHANGED syncedAt
          ELSE \E b \in FlushBuffer(wfile) :
                 IF ~b.ok
                 THEN Returns(b) /\ UNCHANGED syncedAt
                 ELSE \E s \in SyncFd(b.file) :
                        /\ Returns(s)
                        /\ syncedAt' = IF s.ok THEN Len(appended) ELSE syncedAt

(* close() may fail too, after the buffer was written; the destructor calls *)
(* Close and ignores what it returns.                                       *)
Close ==
  /\ wfile.open /\ UNCHANGED appended
  /\ \E o \in FlushBuffer(wfile), closed \in BOOLEAN :
       Returns(Outcome([o.file EXCEPT !.open = FALSE], o.ok /\ closed))
  /\ UNCHANGED <<dirNames, syncedAt>>

(* Another file appears in the directory, a table the manifest will name. *)
CreateName ==
  /\ dirNames.created < MaxFileNames
  /\ dirNames' = [dirNames EXCEPT !.created = @ + 1]
  /\ UNCHANGED <<wfile, appended, errorAt, syncedAt>>

FileNext ==
  \/ \E n \in 1 .. MaxBytes : AppendBytes(n)
  \/ Flush \/ Sync \/ Close \/ CreateName

-----------------------------------------------------------------------------
(* SetCurrentFile with DoWriteStringToFile.  CURRENT and the temporary file *)
(* each hold a text, "old", "new" or "part" of a name, that is synced or    *)
(* may still be cut when the machine stops.                                 *)

Text(t, synced) == [text |-> t, synced |-> synced]

CurrentInit ==
  currentFile = [pc |-> "idle", name |-> Text("old", TRUE), tmp |-> Text("part", FALSE)]

NewTemp ==
  /\ currentFile.pc = "idle"
  /\ currentFile' = [currentFile EXCEPT !.pc = "append", !.tmp = Text("part", FALSE)]

(* Append, Sync and Close; after an error the file is removed. *)
Fails == currentFile' = [currentFile EXCEPT !.pc = "idle", !.tmp = Text("part", FALSE)]

AppendTemp ==
  /\ currentFile.pc = "append"
  /\ \/ currentFile' = [currentFile EXCEPT !.pc = "sync", !.tmp.text = "new"]
     \/ Fails

SyncTemp ==
  /\ currentFile.pc = "sync"
  /\ \/ currentFile' = [currentFile EXCEPT !.pc = "rename", !.tmp.synced = TRUE]
     \/ Fails

(* rename() replaces CURRENT in one step; when it fails the temporary file  *)
(* is removed.                                                              *)
RenameTemp ==
  /\ currentFile.pc = "rename"
  /\ \/ currentFile' = [currentFile EXCEPT !.pc = "idle", !.name = currentFile.tmp,
                                   !.tmp = Text("part", FALSE)]
     \/ Fails

(* The machine stops: what was not synced may be cut. *)
MachineStops ==
  \E text \in {currentFile.name.text, "part"} :
    /\ currentFile.name.synced => text = currentFile.name.text
    /\ currentFile' = [pc |-> "idle", name |-> Text(text, TRUE), tmp |-> Text("part", FALSE)]

CurrentNext == NewTemp \/ AppendTemp \/ SyncTemp \/ RenameTemp \/ MachineStops

FilesNext == (FileNext /\ UNCHANGED currentFile) \/ (CurrentNext /\ UNCHANGED fileVars)

FilesSpec == FileInit /\ CurrentInit /\ [][FilesNext]_<<fileVars, currentFile>>

-----------------------------------------------------------------------------
(* Bytes reach the kernel in the order they were appended, none twice, and  *)
(* none is missing after the last error that was returned: the buffer is    *)
(* dropped when it could not be written, and its loss is reported.          *)
WrittenInOrder ==
  LET out == wfile.kernel \o wfile.buf
  IN  /\ \A i, j \in DOMAIN out : i < j => out[i] < out[j]
      /\ errorAt + 1 .. Len(appended) \subseteq Range(out)

(* When Sync returns OK every byte appended since the last error is on      *)
(* stable storage, whatever was in the buffer and in the kernel before.     *)
SyncIsDurable ==
  errorAt + 1 .. syncedAt \subseteq Range(SubSeq(wfile.kernel, 1, wfile.durable))

(* Sync makes no byte of a MANIFEST durable before the directory entries of *)
(* the files it may name, those created before the byte was appended.  (The *)
(* kernel may write bytes back before the sync; nobody relies on those.)    *)
NamesBeforeManifest ==
  wfile.is_manifest =>
    \A i \in 1 .. wfile.durable : appended[wfile.kernel[i]] =< dirNames.durable

(* CURRENT names a whole manifest at all times, also after a stop between   *)
(* any two of the steps that replace it and after any failure.              *)
CurrentIsWhole == currentFile.name.text \in {"old", "new"}

(* What env_posix.cc and SetCurrentFile report as durable is durable, whole *)
(* and in order, whatever fails and wherever the machine stops.             *)
FilesDurable ==
  WrittenInOrder /\ SyncIsDurable /\ NamesBeforeManifest /\ CurrentIsWhole
=============================================================================
