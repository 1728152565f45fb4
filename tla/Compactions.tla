---------------------------- MODULE Compactions ----------------------------
(***************************************************************************)
(* A Version (src/leveldb/db/version_set.cc): the table files of every     *)
(* level, and what is computed from them: which files a read visits, which *)
(* files overlap a range.  A version is a function from levels to          *)
(* sequences of files, a file is its number, its entries in the order of   *)
(* their keys and allowed_seeks.  The size of a file is its number of      *)
(* entries.                                                                *)
(*                                                                         *)
(* Then how LevelDB rearranges these files (version_set.cc and the loop of *)
(* DBImpl::DoCompactionWork): where a flushed memtable goes, which         *)
(* compaction comes next, which files it takes, which entries it drops and *)
(* where it cuts its output.                                               *)
(***************************************************************************)
EXTENDS InternalKeys, FiniteSets, FiniteSetsExt

CONSTANTS
  NumLevels,          \* config::kNumLevels
  MaxMemCompactLevel, \* config::kMaxMemCompactLevel
  L0Trigger,          \* config::kL0_CompactionTrigger
  TargetFileSize,     \* Options::max_file_size
  GrandParentLimit,   \* MaxGrandParentOverlapBytes
  ExpandLimit,        \* ExpandedCompactionByteSizeLimit
  LevelLimit,         \* MaxBytesForLevel, a function of the level
  AllowedSeeks,       \* the least number of seeks of Builder::Apply
  NoKey               \* a null pointer to a user key

ASSUME VersionAssumption ==
  /\ Key \subseteq Int
  /\ NumLevels \in Nat /\ MaxMemCompactLevel \in 0..(NumLevels - 1)
  /\ L0Trigger \in Nat \ {0} /\ TargetFileSize \in Nat \ {0}
  /\ LevelLimit \in [1..(NumLevels - 1) -> Nat \ {0}]
  /\ NoKey \notin Key

Level == 0..(NumLevels - 1)

NewFile(n, es) == [num |-> n, entries |-> es, seeks |-> AllowedSeeks]
Smallest(f)    == Head(f.entries)
Largest(f)     == Last(f.entries)

EmptyVersion == [l \in Level |-> <<>>]

TotalFileSize(fs) == FoldLeft(LAMBDA n, f : n + Len(f.entries), 0, fs)

(* The first file whose largest key is at or after the target, by binary   *)
(* search; one more than the number of files if there is none.             *)
FindFile(fs, target) ==
  LET find[left \in 0..Len(fs), right \in 0..Len(fs)] ==
        LET mid == (left + right) \div 2
        IN  IF left >= right THEN right
            ELSE IF ILess(Largest(fs[mid + 1]), target)
                 THEN find[mid + 1, right]
                 ELSE find[left, mid]
  IN  find[0, Len(fs)] + 1

AfterFile(k, f)  == k # NoKey /\ k > Largest(f).key
BeforeFile(k, f) == k # NoKey /\ k < Smallest(f).key

SomeFileOverlapsRange(disjoint, fs, lo, hi) ==
  IF ~disjoint
  THEN \E i \in DOMAIN fs : ~AfterFile(lo, fs[i]) /\ ~BeforeFile(hi, fs[i])
  ELSE LET index == IF lo = NoKey THEN 1
                    ELSE FindFile(fs, LookupKey(lo, MaxSequence))
       IN  index <= Len(fs) /\ ~BeforeFile(hi, fs[index])

OverlapInLevel(v, l, lo, hi) == SomeFileOverlapsRange(l > 0, v[l], lo, hi)

(* The files of a level that overlap [lo, hi].  At level 0 the range grows *)
(* with every file that is found: the least set that has the files which   *)
(* overlap the range, or another file of the set.                          *)
GetOverlappingInputs(v, l, lo, hi) ==
  LET Meets(f, b, e) == ~AfterFile(b, f) /\ ~BeforeFile(e, f)
      Joins(f, C) == \/ Meets(f, lo, hi)
                     \/ \E g \in C : Meets(f, Smallest(g).key, Largest(g).key)
      Closed(C) == \A f \in ToSet(v[l]) : Joins(f, C) => f \in C
  IN  SelectSeq(v[l], LAMBDA f :
        IF l > 0 THEN Meets(f, lo, hi)
        ELSE \A C \in SUBSET ToSet(v[l]) : Closed(C) => f \in C)

-----------------------------------------------------------------------------
(* Reading.                                                                *)

(* Version::ForEachOverlapping: the files a read of the key visits, the    *)
(* newest file of level 0 first, then at most one file per level.          *)
ForEachOverlapping(v, ik) ==
  LET hits(l)  == {i \in DOMAIN v[l] : /\ ik.key >= Smallest(v[l][i]).key
                                       /\ ik.key <= Largest(v[l][i]).key}
      level0   == SetToSortSeq({v[0][i] : i \in hits(0)},
                               LAMBDA a, b : a.num > b.num)
      at(l)    == FindFile(v[l], ik)
      level(l) == IF at(l) <= Len(v[l]) /\ ik.key >= Smallest(v[l][at(l)]).key
                  THEN <<[level |-> l, file |-> v[l][at(l)]]>>
                  ELSE <<>>
  IN  [i \in DOMAIN level0 |-> [level |-> 0, file |-> level0[i]]]
        \o FlattenSeq([l \in 1..(NumLevels - 1) |-> level(l)])

(* Table::InternalGet and SaveValue: the first entry at or after the key,  *)
(* if it is one of this user key.                                          *)
TableGet(f, ik) ==
  LET at == SelectInSeq(f.entries, LAMBDA e : ILeq(ik, e))
  IN  IF at = 0 \/ f.entries[at].key # ik.key THEN {} ELSE {f.entries[at]}

(* Version::Get: the entry found, and the file that is charged a seek: the *)
(* first one visited, when a second one was.                               *)
VersionGet(v, ik) ==
  LET Hit(visit) == SelectInSeq(visit, LAMBDA p : TableGet(p.file, ik) # {})
      Result(visit, hit) ==
        [found  |-> IF hit = 0 THEN {} ELSE TableGet(visit[hit].file, ik),
         charge |-> IF (IF hit = 0 THEN Len(visit) ELSE hit) >= 2 THEN {visit[1]} ELSE {}]
      Search(visit) == Result(visit, Hit(visit))
  IN  Search(ForEachOverlapping(v, ik))

(* Version::RecordReadSample: the first file, when two may have the key. *)
ReadSample(v, ik) ==
  LET visit == ForEachOverlapping(v, ik)
  IN  IF Len(visit) >= 2 THEN {visit[1]} ELSE {}

(* VersionSet::ApproximateOffsetOf: entries in files before the key, and   *)
(* before the key in files around it.                                      *)
ApproximateOffsetOf(v, ik) ==
  LET InFile(f) == IF ILeq(Largest(f), ik) THEN Len(f.entries)
                   ELSE Cardinality({i \in DOMAIN f.entries : ILess(f.entries[i], ik)})
      At(l) == FoldLeft(LAMBDA n, f : n + InFile(f), 0, v[l])
  IN  MapThenSumSet(At, Level)

-----------------------------------------------------------------------------
(* Compactions.                                                            *)

PickLevelForMemTableOutput(v, lo, hi) ==
  LET Free(l)   == ~OverlapInLevel(v, l, lo, hi)
      Grand(l)  == TotalFileSize(GetOverlappingInputs(v, l, lo, hi))
      Pass(l)   == /\ Free(l + 1)
                   /\ l + 2 < NumLevels => Grand(l + 2) <= GrandParentLimit
  IN  IF ~Free(0) THEN 0
      ELSE Max({l \in 0..MaxMemCompactLevel : \A m \in 0..(l - 1) : Pass(m)})

-----------------------------------------------------------------------------
(* VersionSet::Builder: the version after an edit that deletes the files   *)
(* <<level, number>> and adds the files <<level, file>>.                   *)

BySmallestKey(f, g) ==
  \/ ILess(Smallest(f), Smallest(g))
  \/ Smallest(f) = Smallest(g) /\ f.num < g.num

ApplyEdit(v, deleted, added) ==
  [l \in Level |->
     LET new  == {[a[2] EXCEPT !.seeks = AllowedSeeks] : a \in {b \in added : b[1] = l}}
         kept == {f \in ToSet(v[l]) : <<l, f.num>> \notin deleted}
     IN  SetToSortSeq(kept \cup new, BySmallestKey)]

(* VersionSet::Finalize: the level with the highest score, the upper one   *)
(* of two; scores are compared as fractions.                               *)
ScoreOf(v, l) == IF l = 0 THEN Len(v[0]) ELSE TotalFileSize(v[l])
ScoreUnit(l)  == IF l = 0 THEN L0Trigger ELSE LevelLimit[l]

CompactionLevel(v) ==
  LET Above(a, b) == ScoreOf(v, a) * ScoreUnit(b) > ScoreOf(v, b) * ScoreUnit(a)
  IN  CHOOSE l \in 0..(NumLevels - 2) :
        \A m \in 0..(NumLevels - 2) : IF m < l THEN Above(l, m) ELSE ~Above(m, l)

SizeCompaction(v) ==
  LET l == CompactionLevel(v) IN ScoreOf(v, l) >= ScoreUnit(l)

-----------------------------------------------------------------------------
(* The inputs of a compaction.                                             *)

GetRange(fs) ==
  LET ends == {Smallest(f) : f \in ToSet(fs)} \cup {Largest(f) : f \in ToSet(fs)}
  IN  [smallest |-> CHOOSE e \in ends : \A d \in ends : ILeq(e, d),
       largest  |-> CHOOSE e \in ends : \A d \in ends : ILeq(d, e)]

(* Mutant: a user key may be split between two levels. *)
NoBoundaryInputs(fs, inputs) == inputs

(* The files that go on with the user key the inputs end with, found in    *)
(* the order of their smallest keys, are inputs too.                       *)
AddBoundaryInputs(fs, inputs) ==
  LET Goes(w, f) == ILess(w.largest, Smallest(f)) /\ Smallest(f).key = w.largest.key
      Take(w, f) == IF Goes(w, f)
                    THEN [files |-> Append(w.files, f), largest |-> Largest(f)] ELSE w
  IN  IF inputs = <<>> THEN <<>>
      ELSE FoldLeft(Take, [files |-> inputs, largest |-> GetRange(inputs).largest], fs).files

OverlapOf(v, l, r) ==
  GetOverlappingInputs(v, l, r.smallest.key, r.largest.key)

(* VersionSet::SetupOtherInputs: the inputs of both levels, wider ones at  *)
(* the upper level where that adds nothing at the lower one.  pointer is   *)
(* the new compact_pointer_.                                               *)
SetupOtherInputs(v, level, picked) ==
  LET Both(fs) == [in0 |-> fs,
                   in1 |-> AddBoundaryInputs(v[level + 1],
                                             OverlapOf(v, level + 1, GetRange(fs)))]
      Wide(i) == Both(AddBoundaryInputs(v[level],
                                        OverlapOf(v, level, GetRange(i.in0 \o i.in1))))
      Better(i, w) == /\ i.in1 # <<>>
                      /\ Len(w.in0) > Len(i.in0)
                      /\ TotalFileSize(i.in1) + TotalFileSize(w.in0) < ExpandLimit
                      /\ Len(w.in1) = Len(i.in1)
      Widest(i, w) == IF Better(i, w) THEN w ELSE i
      Expand(i) == Widest(i, Wide(i))
      Compaction(i) ==
        [level        |-> level,
         in0          |-> i.in0,
         in1          |-> i.in1,
         grandparents |-> IF level + 2 >= NumLevels THEN <<>>
                          ELSE OverlapOf(v, level + 2, GetRange(i.in0 \o i.in1)),
         pointer      |-> GetRange(i.in0).largest,
         base         |-> v]
  IN  Compaction(Expand(Both(AddBoundaryInputs(v[level], picked))))

(* VersionSet::PickCompaction: a level that is too large first, from the   *)
(* file after compact_pointer_ on, then a file with too many seeks.        *)
PickCompaction(v, pointer, seek) ==
  LET After(fs, l) == SelectInSeq(fs, LAMBDA f : \A p \in pointer[l] : ILess(p, Largest(f)))
      From(fs, i) == fs[IF i = 0 THEN 1 ELSE i]
      Start(l, f) == SetupOtherInputs(v, l, IF l = 0 THEN OverlapOf(v, 0, GetRange(<<f>>))
                                            ELSE <<f>>)
      Sized(l) == <<l, From(v[l], After(v[l], l))>>
      Sought(s) == <<s.level, v[s.level][SelectInSeq(v[s.level], LAMBDA f : f.num = s.num)]>>
      Pick(p) == Start(p[1], p[2])
  IN  Pick(IF SizeCompaction(v) THEN Sized(CompactionLevel(v))
           ELSE Sought(CHOOSE s \in seek : TRUE))

(* VersionSet::CompactRange; below level 0 not more than a file's worth. *)
RangeInputs(v, level, lo, hi) ==
  LET all  == GetOverlappingInputs(v, level, lo, hi)
      full == SelectInSeq([i \in DOMAIN all |-> TotalFileSize(SubSeq(all, 1, i))],
                          LAMBDA n : n >= TargetFileSize)
  IN  IF level = 0 \/ full = 0 THEN all ELSE SubSeq(all, 1, full)

IsTrivialMove(c) ==
  /\ Len(c.in0) = 1 /\ c.in1 = <<>>
  /\ TotalFileSize(c.grandparents) <= GrandParentLimit
-----------------------------------------------------------------------------
(* The work of a compaction (DBImpl::DoCompactionWork).                    *)

(* Compaction::IsBaseLevelForKey: no file below the output level may have  *)
(* the key, in the version the compaction was picked from.                 *)
IsBaseLevelForKey(c, k) ==
  \A l \in (c.level + 2)..(NumLevels - 1) : \A f \in ToSet(c.base[l]) :
    k < Smallest(f).key \/ k > Largest(f).key

(* Mutant: a deletion marker is dropped above older entries of the key. *)
DropEveryDeletion(c, snapshot, last, e) ==
  \/ last <= snapshot
  \/ e.type = kTypeDeletion /\ e.seq <= snapshot

(* An entry is dropped when a newer one of its key, at sequence number     *)
(* last, is enough for the oldest snapshot, or when it is a deletion       *)
(* marker with nothing left to delete.                                     *)
Drop(c, snapshot, last, e) ==
  \/ last <= snapshot
  \/ /\ e.type = kTypeDeletion
     /\ e.seq <= snapshot
     /\ IsBaseLevelForKey(c, e.key)

(* Compaction::ShouldStopBefore: the grandparent files the output has      *)
(* passed since it was started are too many bytes.                         *)
ShouldStopBefore(c, w, e) ==
  LET ahead  == SelectInSeq(c.grandparents, LAMBDA g : ILeq(e, Largest(g)))
      index  == IF ahead = 0 THEN Len(c.grandparents) ELSE ahead - 1
      passed == IF w.seen THEN TotalFileSize(SubSeq(c.grandparents, w.index + 1, index))
                ELSE 0
      stop   == w.overlapped + passed > GrandParentLimit
  IN  [stop       |-> stop,
       index      |-> Max({index, w.index}),
       overlapped |-> IF stop THEN 0 ELSE w.overlapped + passed]

Finish(w) ==
  IF w.open = <<>> THEN w
  ELSE [w EXCEPT !.out = Append(@, w.open), !.open = <<>>]

(* One turn of the loop: the entry e is dropped or added to the output. *)
CompactEntry(c, snapshot, w, e) ==
  LET last   == IF e.key = w.key THEN w.last ELSE MaxSequence
      Cut(s) == [(IF s.stop THEN Finish(w) ELSE w) EXCEPT
                   !.seen = TRUE, !.index = s.index, !.overlapped = s.overlapped,
                   !.key = e.key, !.last = e.seq]
      Add(x) == IF Drop(c, snapshot, last, e) THEN x
                ELSE [x EXCEPT !.open = Append(@, e)]
      Close(x) == IF Len(x.open) >= TargetFileSize THEN Finish(x) ELSE x
  IN  Close(Add(Cut(ShouldStopBefore(c, w, e))))

(* The entries of the output files, in the order the files are made. *)
CompactionOutputs(c, snapshot) ==
  LET input == Sorted(UNION {ToSet(f.entries) : f \in ToSet(c.in0 \o c.in1)})
      start == [key |-> NoKey, last |-> MaxSequence, seen |-> FALSE, index |-> 0,
                overlapped |-> 0, open |-> <<>>, out |-> <<>>]
  IN  Finish(FoldLeft(LAMBDA w, e : CompactEntry(c, snapshot, w, e), start, input)).out
=============================================================================
