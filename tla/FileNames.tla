----------------------------- MODULE FileNames -----------------------------
(***************************************************************************)
(* The names of a database's files (leveldb/db/filename.cc) and the decimal *)
(* numbers in them (ConsumeDecimalNumber, leveldb/util/logging.cc).  A name *)
(* is a sequence of digits and of the words the code compares with.  The    *)
(* code decides by these names which files of the directory it owns and may *)
(* delete.                                                                  *)
(***************************************************************************)
EXTENDS Integers, SequencesExt, FiniteSetsExt

CONSTANTS DecimalBase, \* 10
          PadTo,       \* the 6 of %06llu
          MaxNumber,   \* 2^64 - 1
          MaxTokens    \* bound on the length of the names tried

VARIABLE fileName      \* a name found in the directory

Digit == 0 .. DecimalBase - 1

Word == {"CURRENT", "LOCK", "LOG", "LOG.old", "MANIFEST-", ".log", ".sst",
         ".ldb", ".dbtmp", "other"}

(* Digits and words in one set of values. *)
D(n) == [word |-> "digit", n |-> n]
W(w) == [word |-> w, n |-> 0]

Token == {D(n) : n \in Digit} \cup {W(w) : w \in Word}

-----------------------------------------------------------------------------
Decimal[n \in Nat] ==
  IF n < DecimalBase THEN <<D(n)>>
  ELSE Decimal[n \div DecimalBase] \o <<D(n % DecimalBase)>>

Padded(n) ==
  [i \in 1 .. Max({0, PadTo - Len(Decimal[n])}) |-> D(0)] \o Decimal[n]

MakeFileName(n, suffix) == Padded(n) \o <<W(suffix)>>

DescriptorFileName(n) == <<W("MANIFEST-")>> \o Padded(n)

Overflows(value, ch) ==
  \/ value > MaxNumber \div DecimalBase
  \/ value = MaxNumber \div DecimalBase /\ ch > MaxNumber % DecimalBase

(* The loop of ConsumeDecimalNumber from a value on. *)
Consume[value \in Int, in \in Seq(Token)] ==
  IF in = <<>> \/ Head(in).word # "digit"
  THEN [ok |-> TRUE, value |-> value, rest |-> in]
  ELSE IF Overflows(value, Head(in).n)
  THEN [ok |-> FALSE, value |-> 0, rest |-> in]
  ELSE Consume[(value * DecimalBase + Head(in).n) % (MaxNumber + 1), Tail(in)]

ConsumeDecimalNumber(in) ==
  LET c == Consume[0, in] IN [c EXCEPT !.ok = @ /\ c.rest # in]

NotOurs == [type |-> "none", number |-> 0]

ParseNumbered(rest, typeOf) ==
  LET c == ConsumeDecimalNumber(rest)
  IN  IF c.ok /\ c.rest \in DOMAIN typeOf
      THEN [type |-> typeOf[c.rest], number |-> c.value]
      ELSE NotOurs

SuffixType ==
  (<<W(".log")>> :> "log") @@ (<<W(".sst")>> :> "table")
  @@ (<<W(".ldb")>> :> "table") @@ (<<W(".dbtmp")>> :> "temp")

FixedName ==
  (<<W("CURRENT")>> :> "current") @@ (<<W("LOCK")>> :> "lock")
  @@ (<<W("LOG")>> :> "infolog") @@ (<<W("LOG.old")>> :> "infolog")

ParseFileName(name) ==
  IF name \in DOMAIN FixedName THEN [type |-> FixedName[name], number |-> 0]
  ELSE IF name # <<>> /\ Head(name) = W("MANIFEST-")
  THEN ParseNumbered(Tail(name), <<>> :> "descriptor")
  ELSE ParseNumbered(name, SuffixType)

(* The directory holds the names the code makes and names of any origin. *)
NamesInit ==
  \/ fileName = <<>>
  \/ \E n \in 1 .. MaxNumber :
       \/ fileName = DescriptorFileName(n)
       \/ \E s \in {".log", ".sst", ".ldb", ".dbtmp"} : fileName = MakeFileName(n, s)

NamesNext ==
  /\ Len(fileName) < MaxTokens
  /\ \E t \in Token : fileName' = Append(fileName, t)

-----------------------------------------------------------------------------
(* The number a sequence of digits stands for, without a limit. *)
NumberOf(digits) ==
  FoldLeft(LAMBDA n, d : n * DecimalBase + d.n, 0, digits)

(* A name, made by the code or not, is taken for a file of the database     *)
(* exactly when it is a fixed name or a number that fits 64 bits with a     *)
(* prefix or suffix of ours, and then with the right number: one too large  *)
(* is refused rather than wrapped into the number of another file, which    *)
(* RemoveObsoleteFiles would delete or keep by mistake.                     *)
ParsesExactly ==
  LET digits == SelectSeq(fileName, LAMBDA t : t.word = "digit")
      number == NumberOf(digits)
      fits   == digits # <<>> /\ number =< MaxNumber
      suffix == {s \in DOMAIN SuffixType : fileName = digits \o s}
  IN  ParseFileName(fileName) =
        CASE fileName \in DOMAIN FixedName ->
               [type |-> FixedName[fileName], number |-> 0]
          [] fits /\ fileName = <<W("MANIFEST-")>> \o digits ->
               [type |-> "descriptor", number |-> number]
          [] fits /\ suffix # {} ->
               [type |-> SuffixType[CHOOSE s \in suffix : TRUE], number |-> number]
          [] OTHER -> NotOurs
=============================================================================
