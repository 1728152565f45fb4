------------------------------- MODULE MemEnv -------------------------------
(***************************************************************************)
(* The in-memory environment (leveldb/helpers/memenv/memenv.cc): names map  *)
(* to reference-counted FileStates that hold their bytes in fixed-size      *)
(* blocks.  A file lives on under its open handles after its name is        *)
(* removed, renamed over or opened again.  NewAppendableFile of a new name  *)
(* leaves a null entry for the name, and its FileState is never freed.      *)
(***************************************************************************)
EXTENDS Integers, SequencesExt, FiniteSetsExt

CONSTANTS MemName,     \* file names
          MemHandle,   \* the handles that may be open at a time
          MemFile,     \* the FileStates that may be allocated
          MemBlock,    \* kBlockSize
          MaxMemBytes, \* bound on the bytes appended in all
          NoFile,      \* the name is not in the map
          NullFile     \* the name is in the map, with a null pointer

VARIABLES file_map,    \* name -> FileState, NoFile or NullFile
          state,       \* FileState -> refs_, blocks_, size_
          handle,      \* handle -> the file it refers to, kind and position
          flat,        \* FileState -> the bytes it should hold
          orphans,     \* the FileStates that NewAppendableFile gave no name
          memBytes     \* how many bytes were appended so far; no two of them are equal

memVars == <<file_map, state, handle, flat, orphans, memBytes>>

Fresh == [refs |-> 0, blocks |-> <<>>, size |-> 0]

NoHandle == [file |-> NoFile, kind |-> "none", pos |-> 0]

MemInit ==
  /\ file_map = [n \in MemName |-> NoFile]
  /\ state = [f \in MemFile |-> Fresh]
  /\ handle = [h \in MemHandle |-> NoHandle]
  /\ flat = [f \in MemFile |-> <<>>]
  /\ orphans = {} /\ memBytes = 0

-----------------------------------------------------------------------------
(* FileState.                                                               *)

Refs(f, by) == IF f \notin MemFile THEN state ELSE [state EXCEPT ![f].refs = @ + by]

Truncate(s) == [s EXCEPT !.blocks = <<>>, !.size = 0]

FileStates == [refs : Nat, blocks : Seq(Seq(Nat)), size : Nat]

(* Append, block by block: room in the last block is filled first. *)
AppendBlocks[s \in FileStates, data \in Seq(Nat)] ==
  IF data = <<>> THEN s
  ELSE LET offset == s.size % MemBlock
           fit    == Min({MemBlock - offset, Len(data)})
           part   == SubSeq(data, 1, fit)
           blocks == IF offset = 0 THEN Append(s.blocks, part)
                     ELSE [s.blocks EXCEPT ![Len(s.blocks)] = @ \o part]
       IN  AppendBlocks[[s EXCEPT !.blocks = blocks, !.size = @ + fit],
                        SubSeq(data, fit + 1, Len(data))]

(* Mutant: every block is read from its start. *)
CopyFromStart(s, offset, n) ==
  LET first == offset \div MemBlock
      last  == (offset + n - 1) \div MemBlock
  IN  SubSeq(FlattenSeq(SubSeq(s.blocks, first + 1, last + 1)), 1, n)

(* The copy loop of Read: n bytes from block offset / kBlockSize on. *)
CopyBlocks(s, offset, n) ==
  LET first == offset \div MemBlock
      last  == (offset + n - 1) \div MemBlock
      from  == offset % MemBlock
  IN  SubSeq(FlattenSeq(SubSeq(s.blocks, first + 1, last + 1)), from + 1, from + n)

ReadError == <<-1>>

ReadState(s, offset, n) ==
  IF offset > s.size THEN ReadError
  ELSE LET m == Min({n, s.size - offset})
       IN  IF m = 0 THEN <<>> ELSE CopyBlocks(s, offset, m)

-----------------------------------------------------------------------------
(* InMemoryEnv.                                                             *)

(* The handle's constructor takes a reference. *)
OpenHandle(h, f, kind) ==
  handle' = [handle EXCEPT ![h] = [file |-> f, kind |-> kind, pos |-> 0]]

(* NewSequentialFile, NewRandomAccessFile and NewAppendableFile of a name   *)
(* that has a file.                                                         *)
OpenExisting(n, h, kind) ==
  /\ handle[h] = NoHandle /\ file_map[n] \in MemFile
  /\ OpenHandle(h, file_map[n], kind)
  /\ state' = Refs(file_map[n], 1)
  /\ UNCHANGED <<file_map, flat, orphans, memBytes>>

(* NewAppendableFile of a name without a file: file_map_[fname] makes an    *)
(* entry with a null pointer, and the new FileState, with the reference the *)
(* map should hold, is not put there.                                       *)
NewAppendableFile(n, h) ==
  /\ handle[h] = NoHandle /\ file_map[n] \notin MemFile
  /\ file_map' = [file_map EXCEPT ![n] = NullFile]
  /\ \E f \in MemFile :
       /\ state[f].refs = 0
       /\ state' = [state EXCEPT ![f] = [Fresh EXCEPT !.refs = 2]]
       /\ OpenHandle(h, f, "writable")
       /\ flat' = [flat EXCEPT ![f] = <<>>]
       /\ orphans' = orphans \cup {f}
  /\ UNCHANGED memBytes

(* Opening, sizing or removing a name with a null entry, or renaming to it, *)
(* calls a member of a null FileState: the process ends, and the files with *)
(* it.                                                                      *)
UseNull(n) ==
  /\ file_map[n] = NullFile
  /\ file_map' = [m \in MemName |-> NoFile]
  /\ state' = [f \in MemFile |-> Fresh]
  /\ handle' = [h \in MemHandle |-> NoHandle]
  /\ flat' = [f \in MemFile |-> <<>>]
  /\ orphans' = {} /\ UNCHANGED memBytes

NewWritableFile(n, h) ==
  /\ handle[h] = NoHandle /\ file_map[n] # NullFile
  /\ LET old == file_map[n]
     IN  IF old # NoFile
         THEN /\ OpenHandle(h, old, "writable")
              /\ state' = [state EXCEPT ![old] = Truncate([@ EXCEPT !.refs = @ + 1])]
              /\ flat' = [flat EXCEPT ![old] = <<>>]
              /\ UNCHANGED file_map
         ELSE \E f \in MemFile :
                /\ state[f].refs = 0
                /\ state' = [state EXCEPT ![f] = [Fresh EXCEPT !.refs = 2]]
                /\ file_map' = [file_map EXCEPT ![n] = f]
                /\ OpenHandle(h, f, "writable")
                /\ flat' = [flat EXCEPT ![f] = <<>>]
  /\ UNCHANGED <<orphans, memBytes>>

CloseHandle(h) ==
  /\ handle[h] # NoHandle
  /\ state' = Refs(handle[h].file, -1)
  /\ handle' = [handle EXCEPT ![h] = NoHandle]
  /\ UNCHANGED <<file_map, flat, orphans, memBytes>>

AppendMem(h, n) ==
  LET f    == handle[h].file
      data == [i \in 1 .. n |-> memBytes + i]
  IN  /\ handle[h].kind = "writable" /\ memBytes + n =< MaxMemBytes
      /\ state' = [state EXCEPT ![f] = AppendBlocks[@, data]]
      /\ flat' = [flat EXCEPT ![f] = @ \o data]
      /\ memBytes' = memBytes + n
      /\ UNCHANGED <<file_map, handle, orphans>>

ReadSequential(h, n) ==
  LET got == ReadState(state[handle[h].file], handle[h].pos, n)
  IN  /\ handle[h].kind = "sequential"
      /\ got # ReadError
      /\ handle' = [handle EXCEPT ![h].pos = @ + Len(got)]
      /\ UNCHANGED <<file_map, state, flat, orphans, memBytes>>

Skip(h, n) ==
  LET size == state[handle[h].file].size
  IN  /\ handle[h].kind = "sequential" /\ handle[h].pos =< size
      /\ handle' = [handle EXCEPT ![h].pos = @ + Min({n, size - @})]
      /\ UNCHANGED <<file_map, state, flat, orphans, memBytes>>

RemoveMem(n) ==
  /\ file_map[n] \in MemFile
  /\ state' = Refs(file_map[n], -1)
  /\ file_map' = [file_map EXCEPT ![n] = NoFile]
  /\ UNCHANGED <<handle, flat, orphans, memBytes>>

(* A name renamed to itself is removed first, and its file is gone. *)
RenameMem(src, target) ==
  /\ file_map[src] # NoFile /\ file_map[target] # NullFile
  /\ state' = Refs(file_map[target], -1)
  /\ file_map' = [file_map EXCEPT ![target] = file_map[src], ![src] = NoFile]
  /\ UNCHANGED <<handle, flat, orphans, memBytes>>

MemNext ==
  \/ \E n \in MemName :
       \/ RemoveMem(n) \/ UseNull(n)
       \/ \E m \in MemName : RenameMem(n, m)
       \/ \E h \in MemHandle :
            \/ NewWritableFile(n, h) \/ NewAppendableFile(n, h)
            \/ \E k \in {"sequential", "random", "writable"} : OpenExisting(n, h, k)
  \/ \E h \in MemHandle :
       \/ CloseHandle(h)
       \/ \E n \in 1 .. 3 : AppendMem(h, n) \/ ReadSequential(h, n) \/ Skip(h, n)

-----------------------------------------------------------------------------
(* A FileState is referenced by the names and the handles that lead to it   *)
(* and by nothing else: it is freed neither while one of them is left, nor  *)
(* later than that.  Only a file that NewAppendableFile gave no name has    *)
(* one reference more, which nobody gives up, and no name leads to it.      *)
MemRefsExact ==
  \A f \in MemFile :
    LET names == Quantify(MemName, LAMBDA n : file_map[n] = f)
        kept  == IF f \in orphans THEN 1 ELSE 0
    IN  /\ state[f].refs = names + kept + Quantify(MemHandle, LAMBDA h : handle[h].file = f)
        /\ f \in orphans => names = 0

(* A read at any offset and of any length returns the bytes appended there, *)
(* however the appends fell on the blocks and whatever was truncated before *)
(* under the same or another name; past the end it fails.                   *)
MemReadsBack ==
  \A f \in MemFile : state[f].refs > 0 =>
    \A offset \in 0 .. Len(flat[f]) + 1, n \in 0 .. Len(flat[f]) + 1 :
      ReadState(state[f], offset, n) =
        IF offset > Len(flat[f]) THEN ReadError
        ELSE SubSeq(flat[f], offset + 1, Min({offset + n, Len(flat[f])}))

(* The in-memory Env frees no file in use, leaks none but those that        *)
(* NewAppendableFile makes for a new name, and a handle gives back what was *)
(* appended, whatever is removed, renamed or truncated: memenv.cc.          *)
MemEnvExact == MemRefsExact /\ MemReadsBack
=============================================================================
