----------------------------- MODULE LogFormat -----------------------------
(***************************************************************************)
(* The record format of LevelDB's logs and manifests: log::Writer, and     *)
(* log::Reader over what a crash or a damaged byte leaves of the file.     *)
(*                                                                         *)
(* A file is a sequence of cells.  A header is three cells (checksum,      *)
(* length, type) where the code has 4 + 2 + 1 bytes, a payload byte is a   *)
(* cell that names its record and place, and a checksum is the type and    *)
(* the payload it was computed from.  The reader verifies checksums.       *)
(***************************************************************************)
EXTENDS Integers, FiniteSets, Sequences, SequencesExt

CONSTANTS BlockSize,    \* kBlockSize, in cells
          RecordSizes,  \* payload sizes AddRecord is called with
          MaxRecords    \* bound: records written to the file

kHeaderSize == 3
kZeroType == 0
kFullType == 1
kFirstType == 2
kMiddleType == 3
kLastType == 4
kEof == 5
kBadRecord == 6

ASSUME LogAssumption == /\ BlockSize \in Nat /\ BlockSize > kHeaderSize
                        /\ RecordSizes \subseteq Nat /\ MaxRecords \in Nat

VARIABLES file,         \* the cells of the file
          blockOffset,  \* Writer::block_offset_
          written,      \* the records written: payload, first and past-the-end offset
          damaged,      \* index of the damaged cell, 0: none
          reader,       \* the fields of log::Reader and ReadRecord's locals
          readOut       \* the records returned: payload and LastRecordOffset

logVars == <<file, blockOffset, written, damaged, reader, readOut>>

Num(n) == <<"num", n>>

(* EmitPhysicalRecord: the header and the payload of a fragment. *)
EmitPhysicalRecord(type, frag) ==
  <<<<"crc", type, frag>>, Num(Len(frag)), Num(type)>> \o frag

FragmentType(begin, end) ==
  IF begin /\ end THEN kFullType ELSE IF begin THEN kFirstType
  ELSE IF end THEN kLastType ELSE kMiddleType

(* AddRecord's loop: the cells it appends for the payload after index i    *)
(* from block offset "at" on, and the block offset it ends with.           *)
Fragments(payload, offset) ==
  LET step[i \in 0..Len(payload), at \in 0..BlockSize, begin \in BOOLEAN] ==
        LET fits  == BlockSize - at >= kHeaderSize
            start == IF fits THEN at ELSE 0
            avail == BlockSize - start - kHeaderSize
            j     == IF Len(payload) - i < avail THEN Len(payload) ELSE i + avail
            end   == j = Len(payload)
            here  == [z \in 1..(IF fits THEN 0 ELSE BlockSize - at) |-> Num(0)] \o
                     EmitPhysicalRecord(FragmentType(begin, end), SubSeq(payload, i + 1, j))
            next  == start + kHeaderSize + j - i
            rest  == step[j, next, FALSE]
        IN  IF end THEN [cells |-> here, at |-> next]
            ELSE [cells |-> here \o rest.cells, at |-> rest.at]
  IN  step[0, offset, TRUE]

(* Writer::AddRecord of n bytes. *)
AddRecord(n) ==
  LET payload == [i \in 1..n |-> <<"data", Len(written) + 1, i>>]
      f       == Fragments(payload, blockOffset)
      start   == Len(file) + (IF BlockSize - blockOffset < kHeaderSize
                              THEN BlockSize - blockOffset ELSE 0)
  IN  /\ reader.phase = "none" /\ damaged = 0 /\ Len(written) < MaxRecords
      /\ file' = file \o f.cells
      /\ blockOffset' = f.at
      /\ written' = Append(written, [payload |-> payload, from |-> start, to |-> Len(file')])
      /\ UNCHANGED <<damaged, reader, readOut>>

(* A new Writer on the file, at its length (DB::Open with reuse_logs, and  *)
(* VersionSet::ReuseManifest).                                             *)
ReopenWriter ==
  /\ reader.phase = "none" /\ damaged = 0
  /\ blockOffset' = Len(file) % BlockSize
  /\ UNCHANGED <<file, written, damaged, reader, readOut>>

(* One cell of the file is read back with another value. *)
Damage(p) ==
  /\ reader.phase = "none" /\ damaged = 0
  /\ \E c \in IF file[p][1] = "num" THEN {Num(k) : k \in 0..BlockSize} \ {file[p]}
              ELSE {<<"junk">>} :
       file' = [file EXCEPT ![p] = c]
  /\ damaged' = p
  /\ UNCHANGED <<blockOffset, written, reader, readOut>>

NoReader == [phase |-> "none", buffer |-> <<>>, eof |-> FALSE, end |-> 0, initial |-> 0,
             resyncing |-> FALSE, fragmented |-> FALSE, scratch |-> <<>>, from |-> 0,
             reports |-> 0]

(* SkipToInitialBlock: the start of the first block that is read. *)
InitialBlock(initial) ==
  LET in == initial % BlockSize
  IN  initial - in + (IF in > BlockSize - (kHeaderSize - 1) THEN BlockSize ELSE 0)

(* A log::Reader on the first "size" cells, what a crash left of the file; *)
(* the first ReadRecord skips to the block of the initial offset.          *)
OpenReader(size, initial) ==
  /\ reader.phase = "none"
  /\ size = Len(file) \/ (damaged = 0 /\ initial = 0)
  /\ damaged # 0 => initial = 0
  /\ file' = SubSeq(file, 1, size)
  /\ reader' = [NoReader EXCEPT !.phase = "read", !.initial = initial,
                                !.end = IF initial > 0 THEN InitialBlock(initial) ELSE 0,
                                !.resyncing = initial > 0]
  /\ UNCHANGED <<blockOffset, written, damaged, readOut>>

(* ReportDrop: what lies before the initial offset is not reported. *)
Report(r, bytes) ==
  IF r.end - Len(r.buffer) - bytes >= r.initial THEN [r EXCEPT !.reports = @ + 1] ELSE r

(* file_->Read(kBlockSize): the rest of the buffer is a trailer. *)
ReadBlock(r) ==
  LET b == SubSeq(file, r.end + 1, Min({r.end + BlockSize, Len(file)}))
  IN  [r EXCEPT !.buffer = b, !.end = @ + Len(b), !.eof = Len(b) < BlockSize]

Clear(r) == [r EXCEPT !.buffer = <<>>]

(* Mutant: the checksum leaves the type out. *)
ChecksumOfData(header, type, frag) == header[1] = "crc" /\ header[3] = frag

(* The crc of the header is the one of this type and payload. *)
ChecksumGood(header, type, frag) == header = <<"crc", type, frag>>

(* "assume the writer died in the middle of writing the record" *)
WriterDied(r) == r.eof

(* ReadPhysicalRecord: the type it returns, the payload, the reader after. *)
ReadPhysicalRecord(reader0) ==
  LET Result(t, f, s) == [type |-> t, frag |-> f, r |-> s]
      Parse(r) ==
        LET length == r.buffer[2][2]
            type   == r.buffer[3][2]
            frag   == SubSeq(r.buffer, kHeaderSize + 1, kHeaderSize + length)
            rest   == [r EXCEPT !.buffer = SubSeq(@, kHeaderSize + length + 1, Len(@))]
        IN  IF Len(r.buffer) < kHeaderSize THEN Result(kEof, <<>>, Clear(r))
            ELSE IF kHeaderSize + length > Len(r.buffer)
            THEN IF WriterDied(r) THEN Result(kEof, <<>>, Clear(r))
                 ELSE Result(kBadRecord, <<>>, Report(Clear(r), Len(r.buffer)))
            ELSE IF type = kZeroType /\ length = 0 THEN Result(kBadRecord, <<>>, Clear(r))
            ELSE IF ~ ChecksumGood(r.buffer[1], type, frag)
            THEN Result(kBadRecord, <<>>, Report(Clear(r), Len(r.buffer)))
            ELSE IF rest.end - Len(rest.buffer) - kHeaderSize - length < r.initial
            THEN Result(kBadRecord, <<>>, rest)
            ELSE Result(type, frag, rest)
  IN  Parse(IF Len(reader0.buffer) < kHeaderSize /\ ~ reader0.eof THEN ReadBlock(reader0)
            ELSE reader0)

(* ReadRecord's answer: the record, which began at offset "from". *)
RecordRead(r, payload, from) ==
  /\ readOut' = Append(readOut, [payload |-> payload, from |-> from])
  /\ reader' = [r EXCEPT !.fragmented = FALSE, !.scratch = <<>>, !.from = 0]

(* One turn of ReadRecord's loop.  A call that returned a record is        *)
(* followed by the next one, as in RecoverLogFile and Recover.             *)
ReadRecordStep(got) ==
  LET skip == reader.resyncing /\ got.type \in {kMiddleType, kLastType}
      r    == [got.r EXCEPT !.resyncing = @ /\ got.type = kMiddleType]
      at   == r.end - Len(r.buffer) - kHeaderSize - Len(got.frag)
      cut  == IF r.fragmented /\ r.scratch # <<>> THEN Report(r, Len(r.scratch)) ELSE r
  IN  /\ reader.phase = "read"
      /\ UNCHANGED <<file, blockOffset, written, damaged>>
      /\ \/ skip /\ reader' = r /\ UNCHANGED readOut
         \/ ~ skip /\ got.type = kFullType /\ RecordRead(cut, got.frag, at)
         \/ /\ ~ skip /\ got.type = kFirstType /\ UNCHANGED readOut
            /\ reader' = [cut EXCEPT !.fragmented = TRUE, !.scratch = got.frag, !.from = at]
         \/ /\ ~ skip /\ got.type \in {kMiddleType, kLastType} /\ ~ r.fragmented
            /\ reader' = Report(r, Len(got.frag)) /\ UNCHANGED readOut
         \/ /\ ~ skip /\ got.type = kMiddleType /\ r.fragmented
            /\ reader' = [r EXCEPT !.scratch = @ \o got.frag] /\ UNCHANGED readOut
         \/ ~ skip /\ got.type = kLastType /\ r.fragmented /\ RecordRead(r, r.scratch \o got.frag, r.from)
         \/ got.type = kEof /\ reader' = [r EXCEPT !.phase = "done"] /\ UNCHANGED readOut
         \/ /\ got.type = kBadRecord /\ UNCHANGED readOut
            /\ reader' = [(IF r.fragmented THEN Report(r, Len(r.scratch)) ELSE r)
                            EXCEPT !.fragmented = FALSE, !.scratch = <<>>]

ReadRecord == ReadRecordStep(ReadPhysicalRecord(reader))

LogInit ==
  /\ file = <<>> /\ blockOffset = 0 /\ written = <<>> /\ damaged = 0
  /\ reader = NoReader /\ readOut = <<>>

LogNext ==
  \/ \E n \in RecordSizes : AddRecord(n)
  \/ ReopenWriter
  \/ \E p \in DOMAIN file : Damage(p)
  \/ \E size \in 0..Len(file), initial \in 0..Len(file) : OpenReader(size, initial)
  \/ ReadRecord

----------------------------------------------------------------------------

Record(w) == [payload |-> w.payload, from |-> w.from]

(* Undamaged, the reader returns exactly the records that begin at or      *)
(* after the initial offset and end before the place where a crash cut the *)
(* file, each with its own offset: log_reader.cc, ReadRecord, over every   *)
(* way log_writer.cc, AddRecord, splits records into blocks.               *)
ReadsBack ==
  (reader.phase = "done" /\ damaged = 0) =>
    LET Kept(w) == w.from >= reader.initial /\ w.to <= Len(file)
        kept    == SelectSeq(written, Kept)
    IN  readOut = [i \in DOMAIN kept |-> Record(kept[i])]

(* A file that was only cut short is no corruption: the reader reports     *)
(* none, as the comments of ReadPhysicalRecord on a writer that died say.  *)
CutIsSilent ==
  (damaged = 0 /\ reader.initial = 0) => reader.reports = 0

(* A damaged cell never makes the reader return a record nobody wrote or   *)
(* change their order, and costs only records with bytes in its block, at  *)
(* or after the damaged one: ReadPhysicalRecord drops the rest of a block. *)
DamageIsLocal ==
  (damaged # 0 /\ reader.phase # "none") =>
    LET block == (damaged - 1) \div BlockSize
        Far(w) == w.to <= block * BlockSize \/ w.from >= (block + 1) * BlockSize
                    \/ w.to < damaged
    IN  /\ \A i, j \in DOMAIN readOut : i < j => readOut[i].from < readOut[j].from
        /\ \A i \in DOMAIN readOut : \E w \in ToSet(written) : readOut[i] = Record(w)
        /\ reader.phase = "done" =>
             \A w \in ToSet(written) : Far(w) => Record(w) \in ToSet(readOut)

(* The reader returns what the writer wrote, as far as a cut or damage     *)
(* leaves it: log_reader.cc against log_writer.cc.                         *)
LogReaderExact == ReadsBack /\ CutIsSilent /\ DamageIsLocal
=============================================================================
