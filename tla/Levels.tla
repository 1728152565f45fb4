------------------------------- MODULE Levels -------------------------------
(***************************************************************************)
(* The levels of a LevelDB database while it runs: writes go to the        *)
(* memtable, the memtable is flushed to a table file, the background       *)
(* thread compacts files from level to level, reads charge seeks, and a    *)
(* user takes snapshots and calls CompactRange (db_impl.cc, version_set.cc)*)
(*                                                                         *)
(* The work of a compaction takes a while, during which the mutex is free: *)
(* it starts with StartX and ends with FinishCompaction, and the memtable  *)
(* may be flushed in between.  So does a read of the files: Get leaves the *)
(* mutex with a reference to the current version, and EndGet charges the   *)
(* seek, by then perhaps to a file of an outdated version.  history, a     *)
(* history variable, has all entries that were ever written.               *)
(***************************************************************************)
EXTENDS Compactions

CONSTANTS
  WriteOp,      \* the keys and types that are written
  MaxWrites,    \* bound on the number of writes
  MaxMem,       \* bound on the entries of the memtable
  ManualRange,  \* the ranges <<lo, hi>> of CompactRange
  MaxCalls,     \* bound on snapshots taken, seeks charged and calls of CompactRange
  NoJob, NoManual

VARIABLES
  mem,             \* the entries of the memtable
  version,         \* VersionSet::current_
  compact_pointer, \* per level, the set with the key or the empty set
  file_to_compact, \* the set with the level and number, or the empty set
  next_file,       \* VersionSet::next_file_number_
  last_sequence,   \* VersionSet::last_sequence_
  snapshots,       \* the sequence numbers of snapshots_, oldest first
  stats,           \* the seek a read has to charge and whether its version is current
  job,             \* the compaction the background thread works on
  manual,          \* the call of CompactRange in progress
  calls,           \* snapshots taken, seeks charged and calls of CompactRange so far
  history          \* all entries written

vars == <<mem, version, compact_pointer, file_to_compact, next_file, last_sequence,
          snapshots, stats, job, manual, calls, history>>

fileVars == <<version, compact_pointer, file_to_compact, next_file, stats, job, manual>>

Init ==
  /\ mem = {} /\ history = {} /\ last_sequence = 0
  /\ version = EmptyVersion
  /\ compact_pointer = [l \in Level |-> {}]
  /\ file_to_compact = {}
  /\ next_file = 1
  /\ snapshots = <<>> /\ stats = {}
  /\ job = NoJob /\ manual = NoManual /\ calls = 0

(* DBImpl::Write, as far as the levels see it. *)
Write(k, t) ==
  /\ last_sequence < MaxWrites /\ Cardinality(mem) < MaxMem
  /\ LET e == IKey(k, last_sequence + 1, t)
     IN  mem' = mem \cup {e} /\ history' = history \cup {e}
  /\ last_sequence' = last_sequence + 1
  /\ UNCHANGED <<fileVars, snapshots, calls>>

Call == calls < MaxCalls /\ calls' = calls + 1

GetSnapshot ==
  /\ Call
  /\ snapshots' = Append(snapshots, last_sequence)
  /\ UNCHANGED <<fileVars, mem, last_sequence, history>>

ReleaseSnapshot(i) ==
  /\ snapshots' = RemoveAt(snapshots, i)
  /\ UNCHANGED <<fileVars, mem, last_sequence, history, calls>>

-----------------------------------------------------------------------------
(* Reads.                                                                  *)

(* Version::UpdateStats: the files belong to all versions that have them,  *)
(* the file to compact to the version that was read.  An allowance that    *)
(* ran out stays at 0.                                                     *)
UpdateStats(charge) ==
  LET l == charge.level
      Charged(f) == f.num = charge.num
      Spend(f)   == IF Charged(f) /\ f.seeks > 0 THEN [f EXCEPT !.seeks = @ - 1] ELSE f
  IN  /\ version' = [version EXCEPT ![l] = [i \in DOMAIN @ |-> Spend(@[i])]]
      /\ file_to_compact' =
           IF /\ charge.current /\ file_to_compact = {}
              /\ \E f \in ToSet(version[l]) : Charged(f) /\ f.seeks <= 1
           THEN {[level |-> l, num |-> charge.num]} ELSE file_to_compact
      /\ UNCHANGED <<mem, compact_pointer, next_file, last_sequence, snapshots,
                     job, manual, history>>

Stats(charge) == [level |-> charge.level, num |-> charge.file.num, current |-> TRUE]

(* DBImpl::Get: the memtable, then the files. *)
Lookup(k, s) ==
  LET inMem == Newest(mem, k, s)
  IN  IF inMem # {} THEN inMem ELSE VersionGet(version, LookupKey(k, s)).found

(* The reads that change something: those with a seek to charge.  One of   *)
(* them at a time is outside the mutex.                                    *)
Get(k, s) ==
  /\ Call /\ stats = {}
  /\ Newest(mem, k, s) = {}
  /\ \E charge \in VersionGet(version, LookupKey(k, s)).charge : stats' = {Stats(charge)}
  /\ UNCHANGED <<mem, version, compact_pointer, file_to_compact, next_file,
                 last_sequence, snapshots, job, manual, history>>

EndGet ==
  /\ \E charge \in stats : UpdateStats(charge)
  /\ stats' = {}
  /\ UNCHANGED calls

(* DBImpl::RecordReadSample, called by an iterator that passes the entry:  *)
(* the mutex is held and the version is the current one.                   *)
RecordReadSample(e) ==
  /\ Call
  /\ \E charge \in ReadSample(version, e) : UpdateStats(Stats(charge))
  /\ UNCHANGED stats

-----------------------------------------------------------------------------
(* The background thread.  LogAndApply makes a new current version, which  *)
(* has no file_to_compact_ yet.                                            *)

(* Mutant: the new version keeps the file to compact of the old one. *)
KeepFileToCompact(deleted, added) ==
  /\ version' = ApplyEdit(version, deleted, added)
  /\ stats' = {[s EXCEPT !.current = FALSE] : s \in stats}
  /\ UNCHANGED file_to_compact

LogAndApply(deleted, added) ==
  /\ version' = ApplyEdit(version, deleted, added)
  /\ stats' = {[s EXCEPT !.current = FALSE] : s \in stats}
  /\ file_to_compact' = {}

(* CompactMemTable and WriteLevel0Table; a memtable without entries gives  *)
(* no file.                                                                *)
CompactMemTable ==
  /\ mem # {} \/ (manual # NoManual /\ manual.phase = "flush")
  /\ LET es    == Sorted(mem)
         level == PickLevelForMemTableOutput(version, Head(es).key, Last(es).key)
     IN  LogAndApply({}, IF mem = {} THEN {} ELSE {<<level, NewFile(next_file, es)>>})
  /\ mem' = {}
  /\ next_file' = next_file + 1
  /\ manual' = IF manual = NoManual THEN manual ELSE [manual EXCEPT !.phase = "levels"]
  /\ UNCHANGED <<compact_pointer, last_sequence, snapshots, job, calls, history>>

SmallestSnapshot == IF snapshots = <<>> THEN last_sequence ELSE Head(snapshots)

StartWork(c, isManual) ==
  /\ job' = [c |-> c, snapshot |-> SmallestSnapshot, manual |-> isManual]
  /\ UNCHANGED <<version, file_to_compact, stats>>

NeedsCompaction == SizeCompaction(version) \/ file_to_compact # {}

(* BackgroundCompaction without a manual compaction: a trivial move is     *)
(* done at once, everything else by DoCompactionWork.                      *)
Begin(c) ==
  /\ compact_pointer' = [compact_pointer EXCEPT ![c.level] = {c.pointer}]
  /\ IF IsTrivialMove(c)
     THEN /\ LogAndApply({<<c.level, c.in0[1].num>>}, {<<c.level + 1, c.in0[1]>>})
          /\ UNCHANGED job
     ELSE StartWork(c, FALSE)

StartCompaction ==
  /\ job = NoJob /\ NeedsCompaction
  /\ Begin(PickCompaction(version, compact_pointer, file_to_compact))
  /\ UNCHANGED <<mem, next_file, last_sequence, snapshots, manual, calls, history>>

(* The inputs go, the outputs come to the level. *)
InstallCompactionResults(c, level, outs) ==
  /\ LogAndApply({<<c.level, f.num>> : f \in ToSet(c.in0)}
                    \cup {<<c.level + 1, f.num>> : f \in ToSet(c.in1)},
                  {<<level, NewFile(next_file + i - 1, outs[i])>> : i \in DOMAIN outs})
  /\ next_file' = next_file + Len(outs)

(* Mutant: the output stays at the level it came from. *)
OutputStays ==
  /\ job # NoJob
  /\ InstallCompactionResults(job.c, job.c.level, CompactionOutputs(job.c, job.snapshot))
  /\ job' = NoJob
  /\ UNCHANGED <<mem, compact_pointer, last_sequence, snapshots, manual, calls, history>>

(* The rest of DoCompactionWork with InstallCompactionResults, the end of  *)
(* BackgroundCompaction, where a manual compaction notes how far it got.   *)
FinishCompaction ==
  /\ job # NoJob
  /\ InstallCompactionResults(job.c, job.c.level + 1,
                              CompactionOutputs(job.c, job.snapshot))
  /\ manual' = IF job.manual THEN [manual EXCEPT !.begin = Largest(Last(job.c.in0)).key]
               ELSE manual
  /\ job' = NoJob
  /\ UNCHANGED <<mem, compact_pointer, last_sequence, snapshots, calls, history>>

(* DBImpl::CompactRange: how far down the range has files, then the        *)
(* memtable, then level by level.                                          *)
CompactRange(lo, hi) ==
  /\ manual = NoManual /\ Call
  /\ manual' = [phase |-> "flush", level |-> 0, lo |-> lo, hi |-> hi, begin |-> lo,
                top |-> Max({1} \cup {l \in 1..(NumLevels - 1) :
                                       OverlapInLevel(version, l, lo, hi)})]
  /\ UNCHANGED <<mem, version, compact_pointer, file_to_compact, next_file,
                 last_sequence, snapshots, stats, job, history>>

(* BackgroundCompaction for TEST_CompactRange: the next part of the range, *)
(* or, when nothing is left of it, the next level.                         *)
BeginManual(c) ==
  /\ compact_pointer' = [compact_pointer EXCEPT ![c.level] = {c.pointer}]
  /\ StartWork(c, TRUE)
  /\ UNCHANGED manual

NextLevel ==
  /\ manual' = IF manual.level + 1 < manual.top
               THEN [manual EXCEPT !.level = @ + 1, !.begin = manual.lo]
               ELSE NoManual
  /\ UNCHANGED <<version, compact_pointer, file_to_compact, stats, job>>

StartManual ==
  /\ job = NoJob /\ manual # NoManual /\ manual.phase = "levels"
  /\ \E picked \in {RangeInputs(version, manual.level, manual.begin, manual.hi)} :
       IF picked = <<>> THEN NextLevel
       ELSE BeginManual(SetupOtherInputs(version, manual.level, picked))
  /\ UNCHANGED <<mem, next_file, last_sequence, snapshots, calls, history>>

Next ==
  \/ \E w \in WriteOp : Write(w[1], w[2])
  \/ GetSnapshot
  \/ \E i \in DOMAIN snapshots : ReleaseSnapshot(i)
  \/ \E k \in Key, s \in ToSet(snapshots) \cup {last_sequence} : Get(k, s)
  \/ EndGet
  \/ \E e \in history : RecordReadSample(e)
  \/ CompactMemTable
  \/ StartCompaction
  \/ FinishCompaction
  \/ \E r \in ManualRange : CompactRange(r[1], r[2])
  \/ StartManual

Spec == Init /\ [][Next]_vars

-----------------------------------------------------------------------------
(* Properties.                                                             *)

IKeys == [key : Key, seq : 1..MaxWrites, type : {kTypeDeletion, kTypeValue}]

(* Every variable has the type its declaration in the code says; files are *)
(* never empty.                                                            *)
TypeOK ==
  /\ mem \subseteq IKeys /\ history \subseteq IKeys
  /\ \A l \in Level : \A f \in ToSet(version[l]) :
       /\ f.num \in 1..next_file /\ f.seeks \in 0..AllowedSeeks
       /\ Len(f.entries) > 0 /\ ToSet(f.entries) \subseteq IKeys
  /\ \A l \in Level : compact_pointer[l] \subseteq IKeys
  /\ last_sequence \in 0..MaxWrites /\ calls \in 0..MaxCalls
  /\ \A i \in DOMAIN snapshots : snapshots[i] \in 0..last_sequence

(* Below level 0 the files of a level follow each other without overlap:   *)
(* what the assertions in Builder::SaveTo and MaybeAddFile say.            *)
LevelsDisjoint ==
  \A l \in 1..(NumLevels - 1) : \A i \in 1..(Len(version[l]) - 1) :
    ILess(Largest(version[l][i]), Smallest(version[l][i + 1]))

(* A read at a snapshot, or at the newest state, gets what was last        *)
(* written before it, whatever was flushed, moved, merged or dropped since *)
(* (DBImpl::Get).                                                          *)
ReadsNewest ==
  \A k \in Key, s \in ToSet(snapshots) \cup {last_sequence} :
    Answer(Lookup(k, s)) = Answer(Newest(history, k, s))

(* Of two entries of a user key, the newer one is in the memtable or the   *)
(* upper level, or at level 0 in the file with the higher number: the      *)
(* order in which Version::Get searches is the order of age.               *)
NewerAbove ==
  LET At(l, k) == {e \in UNION {ToSet(f.entries) : f \in ToSet(version[l])} : e.key = k}
  IN  \A k \in Key :
        /\ \A l \in Level : \A e \in At(l, k) :
             /\ \A d \in mem : d.key = k => d.seq > e.seq
             /\ \A m \in (l + 1)..(NumLevels - 1) : \A d \in At(m, k) : e.seq > d.seq
        /\ \A f, g \in ToSet(version[0]) : f.num > g.num =>
             \A e \in ToSet(f.entries), d \in ToSet(g.entries) :
               e.key = k /\ d.key = k => e.seq > d.seq

(* A file that is to be compacted for its seeks is a file of the current   *)
(* version and has a level below it to go to.                              *)
SeekFileLive ==
  \A s \in file_to_compact :
    /\ s.level + 1 < NumLevels
    /\ \E f \in ToSet(version[s.level]) : f.num = s.num

(* The rough sizes of DBImpl::GetApproximateSizes never shrink when the    *)
(* range grows.                                                            *)
OffsetsMonotone ==
  \A j, k \in Key : j <= k =>
    ApproximateOffsetOf(version, LookupKey(j, MaxSequence))
      <= ApproximateOffsetOf(version, LookupKey(k, MaxSequence))

FileNumbers(v) == [l \in Level |-> {f.num : f \in ToSet(v[l])}]
Height(v) == MapThenSumSet(LAMBDA l : (NumLevels - l) * TotalFileSize(v[l]), Level)

(* Every compaction brings entries closer to the last level or drops them, *)
(* so that without new writes the background thread, and a call of         *)
(* CompactRange, run out of work (MaybeScheduleCompaction).                *)
CompactionsDescend ==
  [][mem' = mem /\ FileNumbers(version') # FileNumbers(version)
       => Height(version') < Height(version)]_vars

(* The version is one that Version::Get can search from top to bottom.      *)
VersionWellFormed == TypeOK /\ LevelsDisjoint /\ NewerAbove

(* What DBImpl::Get and GetApproximateSizes answer.                          *)
AnswersExact == ReadsNewest /\ OffsetsMonotone
=============================================================================
