------------------------------ MODULE Encoding ------------------------------
(***************************************************************************)
(* The byte encodings of what the store writes to its logs                  *)
(* (leveldb/util/coding.cc, db/write_batch.cc, db/version_edit.cc):         *)
(* variable-length integers, length-prefixed slices, write batches, and the *)
(* version edits of the manifest.  A byte carries VarintBase values and a   *)
(* continuation bit (128 in the code); integers have IntBits bits.          *)
(***************************************************************************)
EXTENDS Integers, SequencesExt, FiniteSetsExt

CONSTANTS VarintBase,  \* 128
          IntBits,     \* 32 or 64
          Slices,      \* the keys, values and names that are written
          Numbers,     \* the integers that are written
          NumLevels,   \* kNumLevels
          MaxOps,      \* bound on the operations put in a batch
          MaxSets      \* bound on the calls that fill an edit

VARIABLES batch,       \* two write batches: their rep_
          ops,         \* the operations each of them stands for
          edit,        \* a version edit
          sets         \* the calls made to fill it

encodingVars == <<batch, ops, edit, sets>>

-----------------------------------------------------------------------------
(* Integers and slices.  A parser returns what it read and what is left.    *)

Bad == [ok |-> FALSE, val |-> 0, rest |-> <<>>]

Good(val, rest) == [ok |-> TRUE, val |-> val, rest |-> rest]

From(in, n) == SubSeq(in, n, Len(in))

EncodeVarint[v \in Nat] ==
  IF v < VarintBase THEN <<v>>
  ELSE <<VarintBase + (v % VarintBase)>> \o EncodeVarint[v \div VarintBase]

(* The longest encoding: shift <= 28, or 63. *)
Groups == Len(EncodeVarint[2 ^ IntBits - 1])

GetVarint(in) ==
  LET Bits(n) == MapThenSumSet(LAMBDA i : (in[i] % VarintBase) * VarintBase ^ (i - 1), 1 .. n)
      UpTo(n) == Good(Bits(n) % 2 ^ IntBits, From(in, n + 1))
      First(ends) == IF ends = {} THEN Bad ELSE UpTo(Min(ends))
  IN  First({i \in 1 .. Min({Len(in), Groups}) : in[i] < VarintBase})

PutLengthPrefixedSlice(s) == EncodeVarint[Len(s)] \o s

GetLengthPrefixedSlice(in) ==
  LET Take(len) == IF len.ok /\ Len(len.rest) >= len.val
                   THEN Good(SubSeq(len.rest, 1, len.val), From(len.rest, len.val + 1))
                   ELSE Bad
  IN  Take(GetVarint(in))

GetLevel(in) ==
  LET Check(v) == IF v.ok /\ v.val < NumLevels THEN v ELSE Bad IN Check(GetVarint(in))

GetInternalKey(in) ==
  LET Check(s) == IF s.ok /\ s.val # <<>> THEN s ELSE Bad
  IN  Check(GetLengthPrefixedSlice(in))

(* The arguments that follow a tag are written and read one by one. *)
PutArg(kind, a) ==
  IF kind \in {"slice", "key"} THEN PutLengthPrefixedSlice(a) ELSE EncodeVarint[a]

GetArg(kind, in) ==
  CASE kind = "slice"  -> GetLengthPrefixedSlice(in)
    [] kind = "key"    -> GetInternalKey(in)
    [] kind = "level"  -> GetLevel(in)
    [] kind = "number" -> GetVarint(in)

PutArgs(kinds, args) == FlattenSeq([i \in DOMAIN kinds |-> PutArg(kinds[i], args[i])])

GetArgs[kinds \in Seq(STRING), in \in Seq(Nat)] ==
  IF kinds = <<>> THEN Good(<<>>, in)
  ELSE LET Join(a, b) == IF a.ok /\ b.ok THEN Good(<<a.val>> \o b.val, b.rest) ELSE Bad
           Then(a) == Join(a, GetArgs[Tail(kinds), a.rest])
       IN  Then(GetArg(Head(kinds), in))

-----------------------------------------------------------------------------
(* Write batches: a sequence number and a count of fixed size, then the     *)
(* operations, each <<type, key>> or <<type, key, value>>.                  *)

Fixed(v) == <<v % (2 * VarintBase), v \div (2 * VarintBase)>>

DecodeFixed(b) == b[1] + 2 * VarintBase * b[2]

Header == 4

Deletion == 0
Value    == 1

OpArgs == (Deletion :> <<"slice">>) @@ (Value :> <<"slice", "slice">>)

Count(rep)       == DecodeFixed(SubSeq(rep, 3, 4))
Sequence(rep)    == DecodeFixed(SubSeq(rep, 1, 2))
SetCount(rep, n) == SubSeq(rep, 1, 2) \o Fixed(n) \o From(rep, 5)

EmptyBatch == Fixed(0) \o Fixed(0)

AddOp(rep, type, args) ==
  SetCount(rep, Count(rep) + 1) \o <<type>> \o PutArgs(OpArgs[type], args)

(* Mutant: the count of the source is not added. *)
AppendUncounted(dst, src) == dst \o From(src, Header + 1)

AppendBatch(dst, src) ==
  SetCount(dst, Count(dst) + Count(src)) \o From(src, Header + 1)

(* What a loop over records was given before its end or the first error. *)
Corrupt == [ok |-> FALSE, given |-> <<>>]

Prepend(x, more) == [more EXCEPT !.given = <<x>> \o @]

(* Iterate: what the handler was given, and the status. *)
IterateFrom[in \in Seq(Nat)] ==
  IF in = <<>> THEN [ok |-> TRUE, given |-> <<>>]
  ELSE IF in[1] \notin DOMAIN OpArgs THEN Corrupt
  ELSE LET Give(args) == IF args.ok
                         THEN Prepend(<<in[1]>> \o args.val, IterateFrom[args.rest])
                         ELSE Corrupt
       IN  Give(GetArgs[OpArgs[in[1]], Tail(in)])

Iterate(rep) ==
  LET Counted(all) == [all EXCEPT !.ok = @ /\ Len(all.given) = Count(rep)]
  IN  IF Len(rep) < Header THEN Corrupt ELSE Counted(IterateFrom[From(rep, Header + 1)])

(* InsertInto: every operation given is added with the next number. *)
InsertInto(rep) ==
  LET Numbered(given) ==
        [i \in DOMAIN given |-> [seq |-> Sequence(rep) + i - 1, op |-> given[i]]]
  IN  Numbered(Iterate(rep).given)

BatchStep(b) ==
  \/ \E k, v \in Slices :
       /\ batch' = [batch EXCEPT ![b] = AddOp(@, Value, <<k, v>>)]
       /\ ops' = [ops EXCEPT ![b] = Append(@, <<Value, k, v>>)]
  \/ \E k \in Slices :
       /\ batch' = [batch EXCEPT ![b] = AddOp(@, Deletion, <<k>>)]
       /\ ops' = [ops EXCEPT ![b] = Append(@, <<Deletion, k>>)]
  \/ /\ batch' = [batch EXCEPT ![b] = EmptyBatch]
     /\ ops' = [ops EXCEPT ![b] = <<>>]
  \/ /\ batch' = [batch EXCEPT ![b] = AppendBatch(@, batch[3 - b])]
     /\ ops' = [ops EXCEPT ![b] = @ \o ops[3 - b]]
  \/ \E n \in Numbers :
       batch' = [batch EXCEPT ![b] = Fixed(n) \o From(@, 3)] /\ UNCHANGED ops

BatchNext ==
  /\ \E b \in 1 .. 2 : BatchStep(b)
  /\ Len(ops'[1]) + Len(ops'[2]) =< MaxOps
  /\ UNCHANGED <<edit, sets>>

-----------------------------------------------------------------------------
(* Version edits.  A tag has the number and the arguments the manifest      *)
(* gives it; an edit holds at most one value of the single tags.            *)

EditArgs ==
  (1 :> <<"slice">>) @@ (2 :> <<"number">>) @@ (3 :> <<"number">>)
  @@ (4 :> <<"number">>) @@ (9 :> <<"number">>)
  @@ (5 :> <<"level", "key">>) @@ (6 :> <<"level", "number">>)
  @@ (7 :> <<"level", "number", "number", "key", "key">>)

SingleTags == <<1, 2, 9, 3, 4>>

EmptyEdit ==
  [single |-> <<>>, compact_pointers |-> <<>>, deleted_files |-> {}, new_files |-> <<>>]

(* One Set, SetCompactPointer, RemoveFile or AddFile; DecodeFrom makes the  *)
(* same calls for the records it reads.                                     *)
AddToEdit(e, tag, args) ==
  CASE tag = 5 -> [e EXCEPT !.compact_pointers = Append(@, args)]
    [] tag = 6 -> [e EXCEPT !.deleted_files = @ \cup {args}]
    [] tag = 7 -> [e EXCEPT !.new_files = Append(@, args)]
    [] OTHER   -> [e EXCEPT !.single = (tag :> args) @@ @]

PutRecord(tag, args) == EncodeVarint[tag] \o PutArgs(EditArgs[tag], args)

(* The deleted files are a std::set: they come out in order. *)
EncodeEdit(e) ==
  LET singles == SelectSeq(SingleTags, LAMBDA t : t \in DOMAIN e.single)
      deleted == SetToSortSeq(e.deleted_files, LAMBDA a, b :
                   a[1] < b[1] \/ (a[1] = b[1] /\ a[2] < b[2]))
      records(tag, s) == FlattenSeq([i \in DOMAIN s |-> PutRecord(tag, s[i])])
  IN  FlattenSeq([i \in DOMAIN singles |-> PutRecord(singles[i], e.single[singles[i]])])
      \o records(5, e.compact_pointers)
      \o records(6, deleted)
      \o records(7, e.new_files)

DecodeRecords[in \in Seq(Nat)] ==
  LET Give(t, args) == IF args.ok
                       THEN Prepend([tag |-> t, args |-> args.val], DecodeRecords[args.rest])
                       ELSE Corrupt
      Tagged(tag) == IF tag.ok /\ tag.val \in DOMAIN EditArgs
                     THEN Give(tag.val, GetArgs[EditArgs[tag.val], tag.rest])
                     ELSE Corrupt
  IN  IF in = <<>> THEN [ok |-> TRUE, given |-> <<>>] ELSE Tagged(GetVarint(in))

DecodeEdit(in) ==
  FoldLeft(LAMBDA e, r : AddToEdit(e, r.tag, r.args), EmptyEdit, DecodeRecords[in].given)

(* The calls that fill an edit, with the arguments the code gives them. *)
Keys == Slices \ {<<>>}

EditNext ==
  /\ sets < MaxSets /\ sets' = sets + 1
  /\ \/ \E t \in {2, 3, 4, 9}, n \in Numbers : edit' = AddToEdit(edit, t, <<n>>)
     \/ \E s \in Slices : edit' = AddToEdit(edit, 1, <<s>>)
     \/ \E l \in 0 .. NumLevels - 1, k \in Keys : edit' = AddToEdit(edit, 5, <<l, k>>)
     \/ \E l \in 0 .. NumLevels - 1, n \in Numbers : edit' = AddToEdit(edit, 6, <<l, n>>)
     \/ \E l \in 0 .. NumLevels - 1, n, z \in Numbers, k \in Keys, more \in {<<>>, <<1>>} :
          edit' = AddToEdit(edit, 7, <<l, n, z, k, k \o more>>)
  /\ UNCHANGED <<batch, ops>>

EncodingInit ==
  /\ batch = <<EmptyBatch, EmptyBatch>> /\ ops = <<<<>>, <<>>>>
  /\ edit = EmptyEdit /\ sets = 0

-----------------------------------------------------------------------------
(* A batch replayed from the log gives the memtable the operations that     *)
(* were put in it, in order and numbered one by one from its sequence       *)
(* number, also after batches were appended to each other as a group of     *)
(* writers does; a batch cut anywhere is reported as corrupt.               *)
BatchReplays ==
  \A b \in 1 .. 2 :
    /\ Iterate(batch[b]).ok
    /\ InsertInto(batch[b]) =
         [i \in DOMAIN ops[b] |-> [seq |-> Sequence(batch[b]) + i - 1, op |-> ops[b][i]]]
    /\ \A n \in 0 .. Len(batch[b]) - 1 : ~Iterate(SubSeq(batch[b], 1, n)).ok

(* An edit read back from the manifest is the edit that was logged; of one  *)
(* cut anywhere, what is decoded without an error was in it as written.     *)
EditReadsBack ==
  \A bytes \in {EncodeEdit(edit)} :
    /\ DecodeRecords[bytes].ok /\ DecodeEdit(bytes) = edit
    /\ \A n \in 0 .. Len(bytes) :
         IsPrefix(DecodeRecords[SubSeq(bytes, 1, n)].given, DecodeRecords[bytes].given)
=============================================================================
