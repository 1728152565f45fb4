-------------------------- MODULE PosixFileProofs ---------------------------
(***************************************************************************)
(* The files of the POSIX environment and SetCurrentFile for any buffer    *)
(* size, whatever call fails and wherever the machine stops.               *)
(***************************************************************************)
EXTENDS PosixFile, TLAPS

-----------------------------------------------------------------------------
(* PosixFile: FilesDurable.  Bytes and Cat stand for the sequences and the  *)
(* concatenation of the module; the lemmas on them are all the provers need *)
(* to know.                                                                 *)

Bytes == Seq(Nat)
Cat(s, u) == s \o u
NoBytes == <<>>

\* A sequence of bytes has a length and a byte at every position up to it.
LEMMA BytesFacts ==
  ASSUME NEW s \in Bytes
  PROVE  Len(s) \in Nat /\ DOMAIN s = 1..Len(s) /\ \A k \in 1..Len(s) : s[k] \in Nat
  BY DEF Bytes

LEMMA EmptyFacts == NoBytes \in Bytes /\ Len(NoBytes) = 0
  BY DEF Bytes, NoBytes

\* Two sequences one after the other, position by position.
LEMMA CatType ==
  ASSUME NEW s \in Bytes, NEW u \in Bytes
  PROVE  Cat(s, u) \in Bytes /\ Len(Cat(s, u)) = Len(s) + Len(u)
  BY DEF Bytes, Cat

LEMMA CatLeft ==
  ASSUME NEW s \in Bytes, NEW u \in Bytes, NEW k \in 1..Len(s)
  PROVE  Cat(s, u)[k] = s[k]
  BY DEF Bytes, Cat

LEMMA CatRight ==
  ASSUME NEW s \in Bytes, NEW u \in Bytes, NEW k \in 1..Len(u)
  PROVE  Cat(s, u)[Len(s) + k] = u[k]
  BY DEF Bytes, Cat

\* Sequences that agree everywhere are the same.
LEMMA SameBytes ==
  ASSUME NEW s \in Bytes, NEW u \in Bytes, Len(s) = Len(u),
         \A k \in 1..Len(s) : s[k] = u[k]
  PROVE  s = u
  BY SMTT(30) DEF Bytes

(* s is the beginning of u. *)
Begins(s, u) == Len(s) <= Len(u) /\ \A k \in 1..Len(s) : s[k] = u[k]

\* Concatenation is associative: what is written piece by piece is one whole.
LEMMA CatAssoc ==
  ASSUME NEW s \in Bytes, NEW u \in Bytes, NEW v \in Bytes
  PROVE  Cat(Cat(s, u), v) = Cat(s, Cat(u, v))
<1>0. Len(s) \in Nat /\ Len(u) \in Nat /\ Len(v) \in Nat
  BY BytesFacts
<1>1. /\ Cat(s, u) \in Bytes /\ Cat(u, v) \in Bytes
      /\ Len(Cat(s, u)) = Len(s) + Len(u) /\ Len(Cat(u, v)) = Len(u) + Len(v)
  BY CatType
<1>2. /\ Cat(Cat(s, u), v) \in Bytes /\ Cat(s, Cat(u, v)) \in Bytes
      /\ Len(Cat(Cat(s, u), v)) = (Len(s) + Len(u)) + Len(v)
      /\ Len(Cat(s, Cat(u, v))) = Len(s) + (Len(u) + Len(v))
  <2>1. Cat(Cat(s, u), v) \in Bytes /\ Len(Cat(Cat(s, u), v)) = Len(Cat(s, u)) + Len(v)
    BY <1>1, CatType, Zenon
  <2>2. Cat(s, Cat(u, v)) \in Bytes /\ Len(Cat(s, Cat(u, v))) = Len(s) + Len(Cat(u, v))
    BY <1>1, CatType, Zenon
  <2> QED
    BY <1>1, <2>1, <2>2
<1>3. ASSUME NEW k \in 1..Len(s) PROVE Cat(Cat(s, u), v)[k] = Cat(s, Cat(u, v))[k]
  <2>1. k \in 1..Len(Cat(s, u))
    BY <1>0, <1>1
  <2>2. Cat(Cat(s, u), v)[k] = Cat(s, u)[k]
    BY <1>1, <2>1, CatLeft
  <2>3. Cat(s, u)[k] = s[k]
    BY CatLeft
  <2>4. Cat(s, Cat(u, v))[k] = s[k]
    BY <1>1, CatLeft
  <2> QED
    BY <2>2, <2>3, <2>4
<1>4. ASSUME NEW j \in 1..Len(u)
      PROVE  Cat(Cat(s, u), v)[Len(s) + j] = Cat(s, Cat(u, v))[Len(s) + j]
  <2>1. Len(s) + j \in 1..Len(Cat(s, u)) /\ j \in 1..Len(Cat(u, v))
    BY <1>0, <1>1
  <2>2. Cat(Cat(s, u), v)[Len(s) + j] = Cat(s, u)[Len(s) + j]
    BY SMTT(30), <1>1, <2>1, CatLeft
  <2>3. Cat(s, u)[Len(s) + j] = u[j]
    BY CatRight
  <2>4. Cat(s, Cat(u, v))[Len(s) + j] = Cat(u, v)[j]
    BY <1>1, <2>1, CatRight, Zenon
  <2>5. Cat(u, v)[j] = u[j]
    BY CatLeft
  <2> QED
    BY <2>2, <2>3, <2>4, <2>5
<1>5. ASSUME NEW j \in 1..Len(v)
      PROVE  Cat(Cat(s, u), v)[Len(s) + (Len(u) + j)] = Cat(s, Cat(u, v))[Len(s) + (Len(u) + j)]
  <2>1. Len(u) + j \in 1..Len(Cat(u, v)) /\ Len(s) + (Len(u) + j) = Len(Cat(s, u)) + j
    BY <1>0, <1>1
  <2>2. Cat(Cat(s, u), v)[Len(Cat(s, u)) + j] = v[j]
    BY <1>1, CatRight, Zenon
  <2>3. Cat(s, Cat(u, v))[Len(s) + (Len(u) + j)] = Cat(u, v)[Len(u) + j]
    BY SMTT(30), <1>1, <2>1, CatRight
  <2>4. Cat(u, v)[Len(u) + j] = v[j]
    BY CatRight
  <2> QED
    BY <2>1, <2>2, <2>3, <2>4
<1>6. ASSUME NEW k \in 1..Len(Cat(Cat(s, u), v))
      PROVE  Cat(Cat(s, u), v)[k] = Cat(s, Cat(u, v))[k]
  <2>1. CASE k <= Len(s)
    BY <1>0, <1>3, <2>1
  <2>2. CASE k > Len(s) /\ k <= Len(s) + Len(u)
    <3>1. k - Len(s) \in 1..Len(u) /\ Len(s) + (k - Len(s)) = k
      BY <1>0, <2>2
    <3> QED
      BY <1>4, <3>1, Zenon
  <2>3. CASE k > Len(s) + Len(u)
    <3>1. /\ k - (Len(s) + Len(u)) \in 1..Len(v)
          /\ Len(s) + (Len(u) + (k - (Len(s) + Len(u)))) = k
      BY <1>0, <1>2, <2>3
    <3> QED
      BY <1>5, <3>1, Zenon
  <2> QED
    BY <1>0, <2>1, <2>2, <2>3
<1>7. Len(Cat(Cat(s, u), v)) = Len(Cat(s, Cat(u, v)))
  BY <1>0, <1>2
<1> QED
  BY <1>2, <1>6, <1>7, SameBytes

\* Nothing is added by the empty sequence.
LEMMA CatEmpty ==
  ASSUME NEW s \in Bytes
  PROVE  Cat(s, NoBytes) = s
<1>1. Cat(s, NoBytes) \in Bytes /\ Len(Cat(s, NoBytes)) = Len(s)
  BY BytesFacts, EmptyFacts, CatType
<1>2. \A k \in 1..Len(s) : Cat(s, NoBytes)[k] = s[k]
  BY EmptyFacts, CatLeft
<1> QED
  BY <1>1, <1>2, SameBytes

\* A sequence begins itself and what is written after it.
LEMMA BeginsCat ==
  ASSUME NEW s \in Bytes, NEW u \in Bytes
  PROVE  Begins(s, s) /\ Begins(s, Cat(s, u))
<1>1. Len(s) \in Nat /\ Len(u) \in Nat /\ Len(Cat(s, u)) = Len(s) + Len(u)
  BY BytesFacts, CatType
<1>2. \A k \in 1..Len(s) : s[k] = Cat(s, u)[k]
  BY CatLeft
<1> QED
  BY <1>1, <1>2 DEF Begins

\* The beginning of a beginning is a beginning.
LEMMA BeginsTrans ==
  ASSUME NEW s \in Bytes, NEW u \in Bytes, NEW v \in Bytes, Begins(s, u), Begins(u, v)
  PROVE  Begins(s, v)
<1>1. Len(s) \in Nat /\ Len(u) \in Nat /\ Len(v) \in Nat
  BY BytesFacts
<1>2. ASSUME NEW k \in 1..Len(s) PROVE s[k] = v[k]
  <2>1. k \in 1..Len(u)
    BY <1>1 DEF Begins
  <2> QED
    BY <2>1 DEF Begins
<1>3. Len(s) <= Len(v)
  BY <1>1 DEF Begins
<1> QED
  BY <1>2, <1>3 DEF Begins

\* A beginning stays one after the same bytes.
LEMMA BeginsAfter ==
  ASSUME NEW s \in Bytes, NEW u \in Bytes, NEW v \in Bytes, Begins(u, v)
  PROVE  Begins(Cat(s, u), Cat(s, v))
<1>1. Len(s) \in Nat /\ Len(u) \in Nat /\ Len(v) \in Nat /\ Len(u) <= Len(v)
  BY BytesFacts DEF Begins
<1>2. Len(Cat(s, u)) = Len(s) + Len(u) /\ Len(Cat(s, v)) = Len(s) + Len(v)
  BY CatType
<1>3. ASSUME NEW k \in 1..Len(s) PROVE Cat(s, u)[k] = Cat(s, v)[k]
  BY CatLeft
<1>4. ASSUME NEW j \in 1..Len(u) PROVE Cat(s, u)[Len(s) + j] = Cat(s, v)[Len(s) + j]
  <2>1. j \in 1..Len(v) /\ u[j] = v[j]
    BY <1>1 DEF Begins
  <2>2. Cat(s, u)[Len(s) + j] = u[j] /\ Cat(s, v)[Len(s) + j] = v[j]
    BY <2>1, CatRight
  <2> QED
    BY <2>1, <2>2
<1>5. ASSUME NEW k \in 1..(Len(s) + Len(u)) PROVE Cat(s, u)[k] = Cat(s, v)[k]
  <2>1. CASE k <= Len(s)
    BY <1>1, <1>3, <2>1
  <2>2. CASE k > Len(s)
    <3>1. k - Len(s) \in 1..Len(u) /\ Len(s) + (k - Len(s)) = k
      BY <1>1, <2>2
    <3> QED
      BY <1>4, <3>1, Zenon
  <2> QED
    BY <1>1, <2>1, <2>2
<1> QED
  BY <1>1, <1>2, <1>5 DEF Begins

\* A sequence cut in two.
LEMMA CutFacts ==
  ASSUME NEW s \in Bytes, NEW c \in 0..Len(s)
  PROVE  /\ SubSeq(s, 1, c) \in Bytes /\ SubSeq(s, c + 1, Len(s)) \in Bytes
         /\ Len(SubSeq(s, 1, c)) = c /\ Begins(SubSeq(s, 1, c), s)
         /\ Cat(SubSeq(s, 1, c), SubSeq(s, c + 1, Len(s))) = s
<1> DEFINE p == SubSeq(s, 1, c)
           r == SubSeq(s, c + 1, Len(s))
<1>0. Len(s) \in Nat /\ c \in Nat /\ c <= Len(s)
  BY BytesFacts
<1>1. p \in Bytes /\ Len(p) = c /\ \A k \in 1..c : p[k] = s[k]
  BY SMTT(30), <1>0 DEF Bytes
<1>2. r \in Bytes /\ Len(r) = Len(s) - c
  BY <1>0 DEF Bytes
<1>3. \A k \in 1..(Len(s) - c) : r[k] = s[c + k]
  <2>1. \A k \in 1..(Len(s) - c) : r[k] = s[(c + 1) + k - 1]
    BY SMTT(30), <1>0 DEF Bytes
  <2>2. \A k \in 1..(Len(s) - c) : (c + 1) + k - 1 = c + k
    BY <1>0
  <2> QED
    BY <2>1, <2>2
<1> HIDE DEF p, r
<1>4. Cat(p, r) \in Bytes /\ Len(Cat(p, r)) = Len(s)
  <2>1. Cat(p, r) \in Bytes /\ Len(Cat(p, r)) = Len(p) + Len(r)
    BY <1>1, <1>2, CatType, Zenon
  <2> QED
    BY <1>0, <1>1, <1>2, <2>1
<1>5. ASSUME NEW k \in 1..Len(s) PROVE Cat(p, r)[k] = s[k]
  <2>1. CASE k <= c
    <3>1. k \in 1..Len(p) /\ k \in 1..c
      BY <1>0, <1>1, <2>1
    <3> QED
      BY <1>1, <1>2, <3>1, CatLeft
  <2>2. CASE k > c
    <3>1. k - c \in 1..(Len(s) - c) /\ c + (k - c) = k
      BY <1>0, <2>2
    <3>2. Cat(p, r)[Len(p) + (k - c)] = r[k - c]
      BY ZenonT(40), <1>1, <1>2, <3>1, CatRight
    <3> QED
      BY <1>1, <1>3, <3>1, <3>2
  <2> QED
    BY <1>0, <2>1, <2>2
<1>6. Cat(p, r) = s
  BY <1>4, <1>5, SameBytes
<1>7. Begins(p, s)
  BY <1>0, <1>1 DEF Begins
<1> QED
  BY <1>1, <1>2, <1>6, <1>7 DEF p, r

FileRec == [buf : Bytes, kernel : Bytes, durable : Nat, open : BOOLEAN, is_manifest : BOOLEAN]

(* A file with other bytes in the kernel and the buffer. *)
Keeping(f, kernel, buf) == [f EXCEPT !.kernel = kernel, !.buf = buf]

LEMMA RecFacts ==
  ASSUME NEW f \in FileRec
  PROVE  /\ f.buf \in Bytes /\ f.kernel \in Bytes /\ f.durable \in Nat
         /\ f.open \in BOOLEAN /\ f.is_manifest \in BOOLEAN
         /\ f = Keeping(f, f.kernel, f.buf)
  BY Zenon DEF FileRec, Keeping

LEMMA KeepingFacts ==
  ASSUME NEW f \in FileRec, NEW K \in Bytes, NEW B \in Bytes, NEW g, g = Keeping(f, K, B)
  PROVE  /\ g \in FileRec /\ g.kernel = K /\ g.buf = B
         /\ g.durable = f.durable /\ g.open = f.open /\ g.is_manifest = f.is_manifest
  BY Zenon DEF Keeping, FileRec

LEMMA KeepingTwice ==
  ASSUME NEW f \in FileRec, NEW K \in Bytes, NEW B \in Bytes, NEW g, g = Keeping(f, K, B),
         NEW L \in Bytes, NEW C \in Bytes
  PROVE  Keeping(g, L, C) = Keeping(f, L, C) /\ [g EXCEPT !.buf = C] = Keeping(f, K, C)
  BY Zenon DEF Keeping, FileRec

LEMMA KeepingMore ==
  ASSUME NEW f \in FileRec, NEW s \in Bytes
  PROVE  /\ [f EXCEPT !.kernel = @ \o s] = Keeping(f, Cat(f.kernel, s), f.buf)
         /\ [f EXCEPT !.buf = @ \o s] = Keeping(f, f.kernel, Cat(f.buf, s))
  BY Zenon DEF Keeping, FileRec, Cat

LEMMA MinOfTwo ==
  ASSUME NEW a \in Int, NEW b \in Int
  PROVE  Min({a, b}) \in {a, b} /\ Min({a, b}) <= a /\ Min({a, b}) <= b
  BY DEF Min

(* The loop over write() leaves a beginning of the data in the kernel, all  *)
(* of it when it returns OK.                                                *)
LEMMA WriteFacts ==
  ASSUME NEW f \in FileRec, NEW data \in Bytes, NEW o \in WriteUnbuffered(f, data)
  PROVE  \E p \in Bytes : /\ Begins(p, data) /\ o.file = Keeping(f, Cat(f.kernel, p), f.buf)
                          /\ o.ok \in BOOLEAN /\ (o.ok => p = data)
<1>1. CASE o = Outcome([f EXCEPT !.kernel = @ \o data], TRUE)
  <2>1. o.file = Keeping(f, Cat(f.kernel, data), f.buf) /\ o.ok = TRUE
    BY <1>1, KeepingMore, Zenon DEF Outcome
  <2>2. Begins(data, data)
    BY BeginsCat
  <2> QED
    BY <2>1, <2>2, Zenon
<1>2. ASSUME NEW n \in 0..(Len(data) - 1),
             o = Outcome([f EXCEPT !.kernel = @ \o SubSeq(data, 1, n)], FALSE)
      PROVE  \E p \in Bytes : /\ Begins(p, data) /\ o.file = Keeping(f, Cat(f.kernel, p), f.buf)
                              /\ o.ok \in BOOLEAN /\ (o.ok => p = data)
  <2>1. n \in 0..Len(data)
    BY BytesFacts
  <2>2. SubSeq(data, 1, n) \in Bytes /\ Begins(SubSeq(data, 1, n), data)
    BY <2>1, CutFacts
  <2>3. o.file = Keeping(f, Cat(f.kernel, SubSeq(data, 1, n)), f.buf) /\ o.ok = FALSE
    BY <1>2, <2>2, KeepingMore, Zenon DEF Outcome
  <2> QED
    BY <2>2, <2>3, Zenon
<1> QED
  BY <1>1, <1>2, Zenon DEF WriteUnbuffered

LEMMA FlushFacts ==
  ASSUME NEW f \in FileRec, NEW o \in FlushBuffer(f)
  PROVE  \E p \in Bytes : /\ Begins(p, f.buf) /\ o.file = Keeping(f, Cat(f.kernel, p), NoBytes)
                          /\ o.ok \in BOOLEAN /\ (o.ok => p = f.buf)
<1>1. PICK w \in WriteUnbuffered(f, f.buf) : o = Outcome([w.file EXCEPT !.buf = NoBytes], w.ok)
  BY Zenon DEF FlushBuffer, NoBytes
<1>2. f.buf \in Bytes /\ f.kernel \in Bytes
  BY RecFacts
<1>3. PICK p \in Bytes : /\ Begins(p, f.buf) /\ w.file = Keeping(f, Cat(f.kernel, p), f.buf)
                         /\ w.ok \in BOOLEAN /\ (w.ok => p = f.buf)
  BY <1>2, WriteFacts
<1>4. Cat(f.kernel, p) \in Bytes
  BY <1>2, CatType, Zenon
<1>5. [w.file EXCEPT !.buf = NoBytes] = Keeping(f, Cat(f.kernel, p), NoBytes)
  BY <1>2, <1>3, <1>4, EmptyFacts, KeepingTwice
<1>6. o.file = [w.file EXCEPT !.buf = NoBytes] /\ o.ok = w.ok
  BY <1>1 DEF Outcome
<1> QED
  BY <1>3, <1>5, <1>6

(* What a call leaves of a file: the bytes of all in order up to some byte, *)
(* to the last one when it returns OK, and none of the kernel's lost.       *)
Reaches(f, all, o) ==
  \E K, B \in Bytes :
    /\ o.ok \in BOOLEAN /\ o.file = Keeping(f, K, B)
    /\ Begins(f.kernel, K) /\ Len(B) <= FileBufferSize
    /\ Begins(Cat(K, B), all) /\ (o.ok => Cat(K, B) = all)

LEMMA FlushReaches ==
  ASSUME NEW f \in FileRec, NEW o \in FlushBuffer(f)
  PROVE  /\ Reaches(f, Cat(f.kernel, f.buf), o)
         /\ o.ok => o.file = Keeping(f, Cat(f.kernel, f.buf), NoBytes)
<1>1. PICK p \in Bytes : /\ Begins(p, f.buf) /\ o.file = Keeping(f, Cat(f.kernel, p), NoBytes)
                         /\ o.ok \in BOOLEAN /\ (o.ok => p = f.buf)
  BY FlushFacts
<1>2. f.kernel \in Bytes /\ f.buf \in Bytes
  BY RecFacts
<1>3. Cat(f.kernel, p) \in Bytes /\ Begins(f.kernel, Cat(f.kernel, p))
  BY <1>2, CatType, BeginsCat, Zenon
<1>4. Cat(Cat(f.kernel, p), NoBytes) = Cat(f.kernel, p)
  BY <1>3, CatEmpty
<1>5. Begins(Cat(f.kernel, p), Cat(f.kernel, f.buf))
  BY <1>1, <1>2, BeginsAfter
<1>6. Len(NoBytes) <= FileBufferSize
  BY EmptyFacts, FileAssumption
<1> QED
  BY <1>1, <1>3, <1>4, <1>5, <1>6, EmptyFacts, Zenon DEF Reaches

(* The ways AppendTo ends after it has put whole in the buffer. *)
LEMMA AppendCases ==
  ASSUME NEW f \in FileRec, NEW K \in Bytes, f.kernel = K, NEW whole \in Bytes, NEW rest \in Bytes,
         NEW full, full = Keeping(f, K, whole), Len(whole) <= FileBufferSize,
         NEW most \in Bytes, most = Cat(K, whole), NEW all \in Bytes, all = Cat(most, rest)
  PROVE  /\ rest = NoBytes => Reaches(f, all, Outcome(full, TRUE))
         /\ \A b \in FlushBuffer(full) :
              /\ ~b.ok => Reaches(f, all, b)
              /\ b.ok /\ Len(rest) < FileBufferSize =>
                   Reaches(f, all, Outcome([b.file EXCEPT !.buf = rest], TRUE))
              /\ b.ok => \A w \in WriteUnbuffered(b.file, rest) : Reaches(f, all, w)
<1>2. NoBytes \in Bytes /\ Len(NoBytes) <= FileBufferSize
  BY EmptyFacts, FileAssumption
<1>3. Begins(K, most) /\ Begins(most, all) /\ Begins(all, all) /\ Begins(K, K)
  BY BeginsCat
<1>4. ASSUME rest = NoBytes PROVE Reaches(f, all, Outcome(full, TRUE))
  <2>1. Outcome(full, TRUE).ok = TRUE /\ Outcome(full, TRUE).file = Keeping(f, K, whole)
    BY DEF Outcome
  <2>2. Cat(K, whole) = all
    BY <1>4, CatEmpty
  <2> QED
    BY <1>3, <2>1, <2>2, Zenon DEF Reaches
<1>5. full \in FileRec /\ full.buf = whole /\ full.kernel = K
  BY Zenon DEF Keeping, FileRec
<1>6. ASSUME NEW b \in FlushBuffer(full)
      PROVE  \E p \in Bytes : /\ Begins(p, whole) /\ b.file = Keeping(f, Cat(K, p), NoBytes)
                              /\ b.ok \in BOOLEAN /\ (b.ok => p = whole)
  <2>1. PICK p \in Bytes : /\ Begins(p, full.buf) /\ b.file = Keeping(full, Cat(full.kernel, p), NoBytes)
                           /\ b.ok \in BOOLEAN /\ (b.ok => p = full.buf)
    BY <1>5, FlushFacts
  <2>2. Cat(K, p) \in Bytes
    BY CatType
  <2>3. Keeping(full, Cat(K, p), NoBytes) = Keeping(f, Cat(K, p), NoBytes)
    BY <1>2, <2>2, KeepingTwice
  <2> QED
    BY <1>5, <2>1, <2>3, Zenon
<1>7. ASSUME NEW b \in FlushBuffer(full), ~b.ok PROVE Reaches(f, all, b)
  <2>1. PICK p \in Bytes : /\ Begins(p, whole) /\ b.file = Keeping(f, Cat(K, p), NoBytes)
                           /\ b.ok \in BOOLEAN
    BY <1>6, Zenon
  <2>2. Cat(K, p) \in Bytes /\ Begins(K, Cat(K, p)) /\ Begins(Cat(K, p), most)
    BY <2>1, CatType, BeginsCat, BeginsAfter
  <2>3. Cat(Cat(K, p), NoBytes) = Cat(K, p)
    BY <2>2, CatEmpty
  <2>4. Begins(Cat(K, p), all)
    BY <1>3, <2>2, BeginsTrans, Zenon
  <2> QED
    BY <1>2, <1>7, <2>1, <2>2, <2>3, <2>4, Zenon DEF Reaches
<1>8. ASSUME NEW b \in FlushBuffer(full), b.ok PROVE b.file = Keeping(f, most, NoBytes)
  BY <1>6, <1>8, Zenon
<1>9. ASSUME NEW b \in FlushBuffer(full), b.ok, Len(rest) < FileBufferSize
      PROVE  Reaches(f, all, Outcome([b.file EXCEPT !.buf = rest], TRUE))
  <2>1. [b.file EXCEPT !.buf = rest] = Keeping(f, most, rest)
    BY <1>2, <1>8, <1>9, KeepingTwice
  <2>2. /\ Outcome([b.file EXCEPT !.buf = rest], TRUE).file = Keeping(f, most, rest)
        /\ Outcome([b.file EXCEPT !.buf = rest], TRUE).ok = TRUE
    BY <2>1 DEF Outcome
  <2>3. Len(rest) <= FileBufferSize
    BY <1>9, BytesFacts, FileAssumption
  <2> QED
    BY <1>3, <2>2, <2>3, Zenon DEF Reaches
<1>10. ASSUME NEW b \in FlushBuffer(full), b.ok, NEW w \in WriteUnbuffered(b.file, rest)
       PROVE  Reaches(f, all, w)
  <2>1. b.file = Keeping(f, most, NoBytes)
    BY <1>8, <1>10
  <2>2. b.file \in FileRec /\ b.file.kernel = most /\ b.file.buf = NoBytes
    BY <1>2, <2>1, Zenon DEF Keeping, FileRec
  <2>3. PICK p \in Bytes : /\ Begins(p, rest)
                           /\ w.file = Keeping(b.file, Cat(b.file.kernel, p), b.file.buf)
                           /\ w.ok \in BOOLEAN /\ (w.ok => p = rest)
    BY <2>2, WriteFacts
  <2>4. Cat(most, p) \in Bytes /\ Begins(most, Cat(most, p)) /\ Begins(Cat(most, p), all)
    BY <2>3, CatType, BeginsCat, BeginsAfter
  <2>5. Cat(Cat(most, p), NoBytes) = Cat(most, p)
    BY <2>4, CatEmpty
  <2>6. w.file = Keeping(f, Cat(most, p), NoBytes)
    <3>1. Keeping(b.file, Cat(most, p), NoBytes) = Keeping(f, Cat(most, p), NoBytes)
      BY <1>2, <2>1, <2>4, KeepingTwice
    <3> QED
      BY <2>2, <2>3, <3>1
  <2>7. Begins(K, Cat(most, p))
    BY <1>3, <2>4, BeginsTrans, Zenon
  <2> QED
    BY <1>2, <2>3, <2>4, <2>5, <2>6, <2>7, Zenon DEF Reaches
<1> QED
  BY <1>4, <1>7, <1>9, <1>10, Zenon

LEMMA AppendFacts ==
  ASSUME NEW f \in FileRec, Len(f.buf) <= FileBufferSize, NEW data \in Bytes,
         NEW o \in AppendTo(f, data)
  PROVE  Reaches(f, Cat(Cat(f.kernel, f.buf), data), o)
<1> DEFINE copy == Min({Len(data), FileBufferSize - Len(f.buf)})
           part == SubSeq(data, 1, copy)
           rest == SubSeq(data, copy + 1, Len(data))
           full == [f EXCEPT !.buf = @ \o part]
           whole == Cat(f.buf, part)
           most == Cat(f.kernel, whole)
<1>0. f.buf \in Bytes /\ f.kernel \in Bytes /\ Len(f.buf) \in Nat /\ Len(data) \in Nat
  BY RecFacts, BytesFacts
<1>1. o \in IF rest = NoBytes THEN {Outcome(full, TRUE)}
            ELSE UNION {IF ~b.ok THEN {b}
                        ELSE IF Len(rest) < FileBufferSize
                        THEN {Outcome([b.file EXCEPT !.buf = rest], TRUE)}
                        ELSE WriteUnbuffered(b.file, rest) : b \in FlushBuffer(full)}
  BY Zenon DEF AppendTo, NoBytes
<1> HIDE DEF full, whole, most, part, rest
<1>2. copy \in 0..Len(data) /\ copy <= FileBufferSize - Len(f.buf)
  <2>1. Len(data) \in Int /\ FileBufferSize - Len(f.buf) \in Int
    BY <1>0, FileAssumption
  <2>2. /\ copy \in {Len(data), FileBufferSize - Len(f.buf)}
        /\ copy <= Len(data) /\ copy <= FileBufferSize - Len(f.buf)
    BY <2>1, MinOfTwo, Zenon
  <2> HIDE DEF copy
  <2> QED
    BY <1>0, <2>2, FileAssumption
<1> HIDE DEF copy
<1>3. part \in Bytes /\ Len(part) = copy /\ rest \in Bytes /\ Cat(part, rest) = data
  BY <1>2, CutFacts DEF part, rest
<1>4. whole \in Bytes /\ Len(whole) <= FileBufferSize
  <2>1. whole \in Bytes /\ Len(whole) = Len(f.buf) + Len(part)
    BY <1>0, <1>3, CatType, Zenon DEF whole
  <2> QED
    BY <1>0, <1>2, <1>3, <2>1, FileAssumption
<1>5. full = Keeping(f, f.kernel, whole)
  BY <1>3, KeepingMore, Zenon DEF full, whole
<1>6. most \in Bytes /\ Cat(most, rest) \in Bytes
  BY <1>0, <1>3, <1>4, CatType, Zenon DEF most
<1>7. Cat(Cat(f.kernel, f.buf), data) = Cat(most, rest)
  <2>1. Cat(f.kernel, f.buf) \in Bytes
    BY <1>0, CatType, Zenon
  <2>2. Cat(Cat(Cat(f.kernel, f.buf), part), rest) = Cat(Cat(f.kernel, f.buf), data)
    BY <1>3, <2>1, CatAssoc
  <2>3. Cat(Cat(f.kernel, f.buf), part) = most
    BY <1>0, <1>3, CatAssoc DEF most, whole
  <2> QED
    BY <2>2, <2>3
<1>8. PICK all \in Bytes : all = Cat(most, rest)
  BY <1>6
<1>9. /\ rest = NoBytes => Reaches(f, all, Outcome(full, TRUE))
      /\ \A b \in FlushBuffer(full) :
           /\ ~b.ok => Reaches(f, all, b)
           /\ b.ok /\ Len(rest) < FileBufferSize =>
                Reaches(f, all, Outcome([b.file EXCEPT !.buf = rest], TRUE))
           /\ b.ok => \A w \in WriteUnbuffered(b.file, rest) : Reaches(f, all, w)
  <2>1. most = Cat(f.kernel, whole)
    BY DEF most
  <2> QED
    BY <1>0, <1>3, <1>4, <1>5, <1>6, <1>8, <2>1, AppendCases, Zenon
<1>10. Reaches(f, all, o)
  <2>1. CASE rest = NoBytes
    BY <1>1, <1>9, <2>1, Zenon
  <2>2. CASE rest # NoBytes
    <3>1. PICK b \in FlushBuffer(full) :
            o \in IF ~b.ok THEN {b}
                  ELSE IF Len(rest) < FileBufferSize
                  THEN {Outcome([b.file EXCEPT !.buf = rest], TRUE)}
                  ELSE WriteUnbuffered(b.file, rest)
      BY <1>1, <2>2, Zenon
    <3> QED
      BY <1>9, <3>1, Zenon
  <2> QED
    BY <2>1, <2>2, Zenon
<1> QED
  BY <1>7, <1>8, <1>10

-----------------------------------------------------------------------------
(* The invariant.  Of the n bytes appended the file holds some in order, in *)
(* the kernel or in the buffer, and all of them after byte e.               *)
InOrder(out, e, n) ==
  /\ \A k \in 1..Len(out) : out[k] \in 1..n
  /\ \A k, l \in 1..Len(out) : k < l => out[k] < out[l]
  /\ \A m \in (e + 1)..n : \E k \in 1..Len(out) : out[k] = m

FileTypes ==
  /\ wfile \in FileRec /\ Len(wfile.buf) <= FileBufferSize /\ wfile.durable <= Len(wfile.kernel)
  /\ dirNames \in [created : Nat, durable : Nat] /\ dirNames.durable <= dirNames.created
  /\ appended \in Bytes /\ errorAt \in 0..Len(appended) /\ syncedAt \in 0..Len(appended)
  /\ \A k \in 1..Len(appended) : appended[k] <= dirNames.created

OutInv == InOrder(Cat(wfile.kernel, wfile.buf), errorAt, Len(appended))

SyncInv == \A m \in (errorAt + 1)..syncedAt : \E k \in 1..wfile.durable : wfile.kernel[k] = m

NameInv ==
  wfile.is_manifest =>
    \A k \in 1..wfile.durable : appended[wfile.kernel[k]] <= dirNames.durable

FileInv == FileTypes /\ OutInv /\ SyncInv /\ NameInv

(* What a call that fails leaves is in order up to where it failed. *)
LEMMA InOrderCut ==
  ASSUME NEW out \in Bytes, NEW all \in Bytes, Begins(out, all),
         NEW n \in Nat, NEW e \in 0..n, InOrder(all, e, n)
  PROVE  InOrder(out, n, n)
<1>1. Len(out) \in Nat /\ Len(all) \in Nat /\ Len(out) <= Len(all)
  BY BytesFacts DEF Begins
<1>2. ASSUME NEW k \in 1..Len(out) PROVE k \in 1..Len(all) /\ out[k] = all[k]
  BY <1>1 DEF Begins
<1>3. \A k \in 1..Len(out) : out[k] \in 1..n
  BY <1>2 DEF InOrder
<1>4. \A k, l \in 1..Len(out) : k < l => out[k] < out[l]
  BY <1>2 DEF InOrder
<1>5. \A m \in (n + 1)..n : FALSE
  OBVIOUS
<1> QED
  BY <1>3, <1>4, <1>5 DEF InOrder

(* New bytes come after all the others. *)
LEMMA InOrderMore ==
  ASSUME NEW out \in Bytes, NEW n \in Nat, NEW e \in 0..n, InOrder(out, e, n),
         NEW d \in Nat, NEW data \in Bytes, Len(data) = d, \A k \in 1..d : data[k] = n + k
  PROVE  InOrder(Cat(out, data), e, n + d)
<1> DEFINE all == Cat(out, data)
           size == Len(out)
<1>1. size \in Nat /\ all \in Bytes /\ Len(all) = size + d
  BY BytesFacts, CatType, Zenon
<1>2. \A k \in 1..size : all[k] = out[k]
  BY CatLeft
<1>3. \A k \in 1..d : all[size + k] = n + k
  BY CatRight, Zenon
<1>4. \A k \in 1..size : out[k] \in 1..n
  BY DEF InOrder
<1>5. \A k, l \in 1..size : k < l => out[k] < out[l]
  BY DEF InOrder
<1>6. \A m \in (e + 1)..n : \E k \in 1..size : out[k] = m
  BY SMTT(30) DEF InOrder
<1> HIDE DEF all, size
<1>7. ASSUME NEW k \in 1..(size + d)
      PROVE  \/ k \in 1..size
             \/ k - size \in 1..d /\ k = size + (k - size) /\ all[k] = n + (k - size)
  <2>1. CASE k <= size
    BY <1>1, <2>1
  <2>2. CASE k > size
    <3>1. k - size \in 1..d /\ k = size + (k - size)
      BY <1>1, <2>2
    <3> QED
      BY <1>3, <3>1
  <2> QED
    BY <1>1, <2>1, <2>2
<1>8. \A k \in 1..(size + d) : all[k] \in 1..(n + d)
  BY SMTT(30), <1>1, <1>2, <1>4, <1>7
<1>9. ASSUME NEW k \in 1..(size + d), NEW l \in 1..(size + d), k < l PROVE all[k] < all[l]
  <2>1. CASE k \in 1..size /\ l \in 1..size
    BY <1>2, <1>5, <1>9, <2>1
  <2>2. CASE k \in 1..size /\ l - size \in 1..d /\ all[l] = n + (l - size)
    BY SMTT(30), <1>1, <1>2, <1>4, <2>2
  <2>3. CASE /\ k - size \in 1..d /\ all[k] = n + (k - size)
             /\ l - size \in 1..d /\ all[l] = n + (l - size)
    BY <1>1, <1>9, <2>3
  <2>4. CASE k - size \in 1..d /\ l \in 1..size
    BY <1>1, <1>9, <2>4
  <2> QED
    BY <1>7, <2>1, <2>2, <2>3, <2>4
<1>10. ASSUME NEW m \in (e + 1)..(n + d) PROVE \E k \in 1..(size + d) : all[k] = m
  <2>1. CASE m <= n
    <3>1. PICK k \in 1..size : out[k] = m
      BY <1>6, <2>1
    <3> QED
      BY <1>1, <1>2, <3>1
  <2>2. CASE m > n
    <3>1. m - n \in 1..d /\ size + (m - n) \in 1..(size + d) /\ n + (m - n) = m
      BY <1>1, <2>2
    <3> QED
      BY <1>3, <3>1
  <2> QED
    BY <2>1, <2>2
<1>11. InOrder(all, e, n + d)
  BY <1>1, <1>8, <1>9, <1>10 DEF InOrder
<1> QED
  BY <1>11 DEF all

(* A call that syncs nothing: the kernel only grows, the bytes it leaves    *)
(* are a beginning of all, and an error is noted unless they are all of it. *)
Grows(all) ==
  /\ wfile' \in FileRec /\ Len(wfile'.buf) <= FileBufferSize
  /\ wfile'.durable = wfile.durable /\ wfile'.is_manifest = wfile.is_manifest
  /\ Begins(wfile.kernel, wfile'.kernel)
  /\ Begins(Cat(wfile'.kernel, wfile'.buf), all)
  /\ \/ errorAt' = errorAt /\ Cat(wfile'.kernel, wfile'.buf) = all
     \/ errorAt' = Len(appended')
  /\ syncedAt' = syncedAt

(* The directory and the record of what was appended may only grow too. *)
NamesGrow ==
  /\ dirNames' \in [created : Nat, durable : Nat] /\ dirNames'.durable <= dirNames'.created
  /\ dirNames.durable <= dirNames'.durable
  /\ appended' \in Bytes /\ Begins(appended, appended')
  /\ \A k \in 1..Len(appended') : appended'[k] <= dirNames'.created

\* The kernel holds bytes that were appended.
LEMMA KernelWithin ==
  ASSUME FileTypes, OutInv, NEW k \in 1..Len(wfile.kernel)
  PROVE  wfile.kernel[k] \in 1..Len(appended)
<1>0. Len(wfile.kernel) \in Nat /\ Len(wfile.buf) \in Nat
  BY SMTT(30), RecFacts, BytesFacts DEF FileTypes
<1>1. wfile.kernel \in Bytes /\ wfile.buf \in Bytes
  BY RecFacts DEF FileTypes
<1>2. Cat(wfile.kernel, wfile.buf)[k] = wfile.kernel[k]
  BY <1>1, CatLeft
<1>3. k \in 1..Len(Cat(wfile.kernel, wfile.buf))
  <2>1. Len(Cat(wfile.kernel, wfile.buf)) = Len(wfile.kernel) + Len(wfile.buf)
    BY <1>1, CatType, Zenon
  <2>2. k \in Nat /\ 1 <= k /\ k <= Len(wfile.kernel)
    BY <1>0
  <2>3. ASSUME NEW a \in Nat, NEW b \in Nat, NEW c, c = a + b, k <= a PROVE k \in 1..c
    BY <2>2, <2>3
  <2> QED
    BY <1>0, <2>1, <2>2, <2>3, Zenon
<1> QED
  BY <1>2, <1>3 DEF OutInv, InOrder

\* A call that syncs nothing keeps the invariant.
LEMMA GrowsKeeps ==
  ASSUME FileInv, NamesGrow, NEW all \in Bytes, InOrder(all, errorAt, Len(appended')), Grows(all)
  PROVE  FileInv'
<1>0. /\ wfile \in FileRec /\ wfile' \in FileRec /\ appended \in Bytes /\ appended' \in Bytes
      /\ errorAt \in 0..Len(appended) /\ syncedAt \in 0..Len(appended) /\ syncedAt' = syncedAt
      /\ dirNames \in [created : Nat, durable : Nat] /\ dirNames' \in [created : Nat, durable : Nat]
      /\ wfile.durable <= Len(wfile.kernel)
  BY DEF FileInv, FileTypes, NamesGrow, Grows
<1>1. /\ wfile.kernel \in Bytes /\ wfile'.kernel \in Bytes /\ wfile'.buf \in Bytes
      /\ wfile.durable \in Nat /\ Len(wfile.kernel) \in Nat /\ Len(wfile'.kernel) \in Nat
      /\ Len(appended) \in Nat /\ Len(appended') \in Nat
  BY <1>0, RecFacts, BytesFacts, Zenon
<1>2. /\ Len(appended) <= Len(appended') /\ \A k \in 1..Len(appended) : appended'[k] = appended[k]
      /\ Len(wfile.kernel) <= Len(wfile'.kernel)
      /\ \A k \in 1..Len(wfile.kernel) : wfile'.kernel[k] = wfile.kernel[k]
  BY SMTT(30) DEF NamesGrow, Grows, Begins
<1>3. /\ wfile'.durable = wfile.durable /\ wfile'.is_manifest = wfile.is_manifest
      /\ errorAt' = errorAt \/ errorAt' = Len(appended')
  BY DEF Grows
<1>4. FileTypes'
  <2>1. errorAt' \in 0..Len(appended') /\ syncedAt' \in 0..Len(appended')
    BY SMTT(30), <1>0, <1>1, <1>2, <1>3
  <2>2. wfile'.durable <= Len(wfile'.kernel)
    BY SMTT(30), <1>0, <1>1, <1>2, <1>3
  <2> QED
    BY <2>1, <2>2 DEF FileTypes, Grows, NamesGrow
<1>5. OutInv'
  <2>1. Cat(wfile'.kernel, wfile'.buf) \in Bytes
    BY <1>1, CatType, Zenon
  <2>2. errorAt \in 0..Len(appended')
    BY <1>0, <1>1, <1>2
  <2>3. CASE errorAt' = errorAt /\ Cat(wfile'.kernel, wfile'.buf) = all
    BY <2>3 DEF OutInv
  <2>4. CASE errorAt' = Len(appended')
    <3>1. Begins(Cat(wfile'.kernel, wfile'.buf), all)
      BY DEF Grows
    <3>2. InOrder(Cat(wfile'.kernel, wfile'.buf), Len(appended'), Len(appended'))
      BY <1>1, <2>1, <2>2, <3>1, InOrderCut
    <3> QED
      BY <2>4, <3>2 DEF OutInv
  <2> QED
    BY <2>3, <2>4 DEF Grows
<1>6. SyncInv'
  <2> SUFFICES ASSUME NEW m \in (errorAt' + 1)..syncedAt'
               PROVE  \E k \in 1..wfile'.durable : wfile'.kernel[k] = m
    BY DEF SyncInv
  <2>1. errorAt' = errorAt
    BY SMTT(30), <1>0, <1>1, <1>2, <1>3
  <2>2. PICK k \in 1..wfile.durable : wfile.kernel[k] = m
    BY SMTT(30), <1>0, <2>1 DEF FileInv, SyncInv
  <2>3. k \in 1..Len(wfile.kernel)
    BY SMTT(30), <1>0, <1>1
  <2> QED
    BY SMTT(30), <1>2, <1>3, <2>2, <2>3
<1>7. NameInv'
  <2> SUFFICES ASSUME wfile'.is_manifest, NEW k \in 1..wfile'.durable
               PROVE  appended'[wfile'.kernel[k]] <= dirNames'.durable
    BY DEF NameInv
  <2>1. k \in 1..wfile.durable /\ k \in 1..Len(wfile.kernel)
    BY SMTT(30), <1>0, <1>1, <1>3
  <2>2. appended[wfile.kernel[k]] <= dirNames.durable
    BY <1>3, <2>1 DEF FileInv, NameInv
  <2>3. wfile.kernel[k] \in 1..Len(appended)
    BY <1>0, <2>1, KernelWithin DEF FileInv
  <2>4. appended'[wfile'.kernel[k]] = appended[wfile.kernel[k]]
    BY <1>2, <2>1, <2>3
  <2>5. appended[wfile.kernel[k]] \in Nat
    BY <1>0, <2>3, BytesFacts, Zenon
  <2>6. dirNames.durable \in Nat /\ dirNames'.durable \in Nat /\ dirNames.durable <= dirNames'.durable
    BY <1>0 DEF NamesGrow
  <2> QED
    BY <2>2, <2>4, <2>5, <2>6
<1> QED
  BY <1>4, <1>5, <1>6, <1>7 DEF FileInv

(* What a sync makes durable: the directory first, for a manifest, then all *)
(* that was appended.                                                       *)
LEMMA SyncKeeps ==
  ASSUME FileInv, NamesGrow, appended' = appended, wfile' \in FileRec,
         wfile'.kernel = Cat(wfile.kernel, wfile.buf), wfile'.buf = NoBytes,
         wfile'.durable = Len(wfile'.kernel), wfile'.is_manifest = wfile.is_manifest,
         errorAt' = errorAt, syncedAt' = Len(appended),
         wfile.is_manifest => dirNames'.durable = dirNames'.created
  PROVE  FileInv'
<1>0. /\ wfile \in FileRec /\ appended \in Bytes /\ errorAt \in 0..Len(appended)
      /\ dirNames' \in [created : Nat, durable : Nat]
  BY DEF FileInv, FileTypes, NamesGrow
<1>1. wfile'.kernel \in Bytes /\ Len(wfile'.kernel) \in Nat /\ Len(appended) \in Nat
  BY <1>0, RecFacts, BytesFacts
<1>2. InOrder(wfile'.kernel, errorAt', Len(appended'))
  BY DEF FileInv, OutInv
<1>3. FileTypes'
  <2>1. syncedAt' \in 0..Len(appended') /\ errorAt' \in 0..Len(appended')
    BY <1>0, <1>1
  <2>2. Len(wfile'.buf) <= FileBufferSize
    BY EmptyFacts, FileAssumption
  <2>3. wfile'.durable <= Len(wfile'.kernel)
    BY <1>1
  <2> QED
    BY <2>1, <2>2, <2>3 DEF FileTypes, NamesGrow
<1>4. OutInv'
  <2>1. Cat(wfile'.kernel, wfile'.buf) = wfile'.kernel
    BY <1>1, CatEmpty
  <2> QED
    BY <1>2, <2>1 DEF OutInv
<1>5. SyncInv'
  BY <1>2 DEF SyncInv, InOrder
<1>6. NameInv'
  <2> SUFFICES ASSUME wfile'.is_manifest, NEW k \in 1..wfile'.durable
               PROVE  appended'[wfile'.kernel[k]] <= dirNames'.durable
    BY DEF NameInv
  <2>1. wfile'.kernel[k] \in 1..Len(appended')
    BY <1>2 DEF InOrder
  <2> QED
    BY <2>1 DEF NamesGrow
<1> QED
  BY <1>3, <1>4, <1>5, <1>6 DEF FileInv

(* A call whose outcome reaches all, with whatever it does to open. *)
LEMMA ReachesGrows ==
  ASSUME FileInv, NEW all, NEW o, Reaches(wfile, all, o), NEW ok \in BOOLEAN, ok => o.ok,
         \/ wfile' = o.file
         \/ wfile' = [o.file EXCEPT !.open = FALSE],
         errorAt' = IF ok THEN errorAt ELSE Len(appended'), syncedAt' = syncedAt
  PROVE  Grows(all)
<1>0. wfile \in FileRec
  BY DEF FileInv, FileTypes
<1>1. PICK K, B \in Bytes :
        /\ o.ok \in BOOLEAN /\ o.file = Keeping(wfile, K, B)
        /\ Begins(wfile.kernel, K) /\ Len(B) <= FileBufferSize
        /\ Begins(Cat(K, B), all) /\ (o.ok => Cat(K, B) = all)
  BY DEF Reaches
<1>2. /\ o.file \in FileRec /\ o.file.kernel = K /\ o.file.buf = B
      /\ o.file.durable = wfile.durable /\ o.file.is_manifest = wfile.is_manifest
  BY <1>0, <1>1, KeepingFacts
<1>3. /\ wfile' \in FileRec /\ wfile'.kernel = K /\ wfile'.buf = B
      /\ wfile'.durable = wfile.durable /\ wfile'.is_manifest = wfile.is_manifest
  BY <1>2, Zenon DEF FileRec
<1> QED
  BY <1>1, <1>3 DEF Grows

\* Nothing new in the directory and no byte appended.
LEMMA NamesRest ==
  ASSUME FileInv, UNCHANGED <<dirNames, appended>>
  PROVE  NamesGrow
<1>1. Begins(appended, appended)
  BY BeginsCat DEF FileInv, FileTypes
<1> QED
  BY <1>1 DEF FileInv, FileTypes, NamesGrow

\* Append keeps the invariant.
LEMMA AppendKeeps ==
  ASSUME FileInv, NEW n \in 1..MaxBytes, AppendBytes(n)
  PROVE  FileInv'
<1> DEFINE data == [k \in 1..n |-> Len(appended) + k]
           marks == [k \in 1..n |-> dirNames.created]
           out == Cat(wfile.kernel, wfile.buf)
<1>0. /\ wfile \in FileRec /\ Len(wfile.buf) <= FileBufferSize /\ appended \in Bytes
      /\ errorAt \in 0..Len(appended) /\ dirNames \in [created : Nat, durable : Nat]
      /\ InOrder(out, errorAt, Len(appended))
  BY DEF FileInv, FileTypes, OutInv
<1>1. Len(appended) \in Nat /\ n \in Nat /\ out \in Bytes
  <2>1. out \in Bytes
    BY <1>0, RecFacts, CatType, Zenon
  <2>2. Len(appended) \in Nat /\ n \in Nat
    BY <1>0, FileAssumption, BytesFacts
  <2> QED
    BY <2>1, <2>2
<1>2. data \in Bytes /\ Len(data) = n /\ \A k \in 1..n : data[k] = Len(appended) + k
  BY <1>1 DEF Bytes
<1>3. marks \in Bytes /\ Len(marks) = n /\ \A k \in 1..n : marks[k] = dirNames.created
  BY <1>0, <1>1 DEF Bytes
<1>4. PICK o \in AppendTo(wfile, data) :
        wfile' = o.file /\ errorAt' = IF o.ok THEN errorAt ELSE Len(appended')
  BY Zenon DEF AppendBytes, Returns
<1>5. appended' = Cat(appended, marks) /\ dirNames' = dirNames /\ syncedAt' = syncedAt
  BY DEF AppendBytes, Cat
<1> HIDE DEF data, marks, out
<1>6. Reaches(wfile, Cat(out, data), o)
  BY <1>0, <1>2, <1>4, AppendFacts DEF out
<1>7. o.ok \in BOOLEAN
  BY <1>6 DEF Reaches
<1>8. Grows(Cat(out, data))
  BY <1>4, <1>5, <1>6, <1>7, ReachesGrows, Zenon
<1>9. appended' \in Bytes /\ Len(appended') = Len(appended) + n /\ Begins(appended, appended')
  BY <1>0, <1>3, <1>5, CatType, BeginsCat, Zenon
<1>10. InOrder(Cat(out, data), errorAt, Len(appended'))
  BY <1>0, <1>1, <1>2, <1>9, InOrderMore
<1>11. ASSUME NEW k \in 1..Len(appended') PROVE appended'[k] <= dirNames'.created
  <2>1. CASE k <= Len(appended)
    <3>1. k \in 1..Len(appended)
      BY <1>1, <2>1
    <3>2. appended'[k] = appended[k]
      BY <1>9, <3>1 DEF Begins
    <3> QED
      BY <1>5, <3>1, <3>2 DEF FileInv, FileTypes
  <2>2. CASE k > Len(appended)
    <3>1. k - Len(appended) \in 1..n /\ Len(appended) + (k - Len(appended)) = k
      BY <1>1, <1>9, <2>2
    <3>2. Cat(appended, marks)[Len(appended) + (k - Len(appended))] = marks[k - Len(appended)]
      BY <1>0, <1>3, <3>1, CatRight, Zenon
    <3> QED
      BY SMTT(30), <1>0, <1>3, <1>5, <3>1, <3>2
  <2> QED
    BY <1>1, <2>1, <2>2
<1>12. NamesGrow
  BY <1>0, <1>5, <1>9, <1>11 DEF NamesGrow, FileInv, FileTypes
<1>13. Cat(out, data) \in Bytes
  BY <1>1, <1>2, CatType
<1> QED
  BY <1>8, <1>10, <1>12, <1>13, GrowsKeeps

\* Flush and Close, which leave what was appended as it is.
LEMMA FlushKeeps ==
  ASSUME FileInv, NamesGrow, appended' = appended, NEW o \in FlushBuffer(wfile),
         NEW ok \in BOOLEAN, ok => o.ok,
         wfile' = o.file \/ wfile' = [o.file EXCEPT !.open = FALSE],
         errorAt' = IF ok THEN errorAt ELSE Len(appended'), syncedAt' = syncedAt
  PROVE  FileInv'
<1>1. wfile \in FileRec /\ InOrder(Cat(wfile.kernel, wfile.buf), errorAt, Len(appended))
  BY DEF FileInv, FileTypes, OutInv
<1>2. Cat(wfile.kernel, wfile.buf) \in Bytes
  BY <1>1, RecFacts, CatType, Zenon
<1>3. Reaches(wfile, Cat(wfile.kernel, wfile.buf), o)
  BY <1>1, FlushReaches
<1>4. Grows(Cat(wfile.kernel, wfile.buf))
  BY <1>3, ReachesGrows
<1> QED
  BY <1>1, <1>2, <1>4, GrowsKeeps

LEMMA FlushBool ==
  ASSUME FileInv, NEW o \in FlushBuffer(wfile)
  PROVE  o.ok \in BOOLEAN
  BY FlushReaches DEF FileInv, FileTypes, Reaches

\* Sync keeps the invariant wherever it fails.
LEMMA SyncStep ==
  ASSUME FileInv, Sync
  PROVE  FileInv'
<1>0. /\ wfile \in FileRec /\ dirNames \in [created : Nat, durable : Nat]
      /\ dirNames.durable <= dirNames.created /\ appended' = appended
  BY DEF FileInv, FileTypes, Sync
<1>1. PICK d \in SyncDirIfManifest :
        /\ dirNames' = d.dir
        /\ IF ~d.ok
           THEN Returns(Outcome(wfile, FALSE)) /\ UNCHANGED syncedAt
           ELSE \E b \in FlushBuffer(wfile) :
                  IF ~b.ok
                  THEN Returns(b) /\ UNCHANGED syncedAt
                  ELSE \E s \in SyncFd(b.file) :
                         /\ Returns(s)
                         /\ syncedAt' = IF s.ok THEN Len(appended) ELSE syncedAt
  BY Zenon DEF Sync
<1>2. /\ dirNames' \in [created : Nat, durable : Nat] /\ dirNames'.created = dirNames.created
      /\ dirNames'.durable \in {dirNames.durable, dirNames.created}
      /\ d.ok /\ wfile.is_manifest => dirNames'.durable = dirNames'.created
  BY <1>0, <1>1 DEF SyncDirIfManifest
<1>3. NamesGrow
  <2>1. dirNames'.durable <= dirNames'.created /\ dirNames.durable <= dirNames'.durable
    BY <1>0, <1>2
  <2>2. Begins(appended, appended) /\ appended \in Bytes
    BY BeginsCat DEF FileInv, FileTypes
  <2>3. \A k \in 1..Len(appended) : appended[k] <= dirNames'.created
    BY <1>2 DEF FileInv, FileTypes
  <2> QED
    BY <1>0, <1>2, <2>1, <2>2, <2>3 DEF NamesGrow
<1>4. CASE ~d.ok
  <2>1. wfile' = wfile /\ errorAt' = Len(appended') /\ syncedAt' = syncedAt
    BY <1>1, <1>4 DEF Returns, Outcome
  <2>2. Cat(wfile.kernel, wfile.buf) \in Bytes /\ wfile.kernel \in Bytes
    BY <1>0, RecFacts, CatType, Zenon
  <2>3. Begins(wfile.kernel, wfile.kernel)
        /\ Begins(Cat(wfile.kernel, wfile.buf), Cat(wfile.kernel, wfile.buf))
    BY <2>2, BeginsCat
  <2>4. Grows(Cat(wfile.kernel, wfile.buf))
    BY <2>1, <2>3 DEF Grows, FileInv, FileTypes
  <2>5. InOrder(Cat(wfile.kernel, wfile.buf), errorAt, Len(appended'))
    BY <1>0 DEF FileInv, OutInv
  <2> QED
    BY <1>3, <2>2, <2>4, <2>5, GrowsKeeps
<1>5. CASE d.ok
  <2>1. PICK b \in FlushBuffer(wfile) :
          IF ~b.ok
          THEN Returns(b) /\ UNCHANGED syncedAt
          ELSE \E s \in SyncFd(b.file) :
                 /\ Returns(s)
                 /\ syncedAt' = IF s.ok THEN Len(appended) ELSE syncedAt
    BY <1>1, <1>5
  <2>2. CASE ~b.ok
    <3>1. wfile' = b.file /\ errorAt' = Len(appended') /\ syncedAt' = syncedAt
      BY <2>1, <2>2 DEF Returns
    <3> QED
      BY <1>0, <1>3, <3>1, FlushKeeps, Zenon
  <2>3. CASE b.ok
    <3>1. PICK s \in SyncFd(b.file) :
            /\ Returns(s)
            /\ syncedAt' = IF s.ok THEN Len(appended) ELSE syncedAt
      BY <2>1, <2>3
    <3>2. CASE s = Outcome(b.file, FALSE)
      <4>1. wfile' = b.file /\ errorAt' = Len(appended') /\ syncedAt' = syncedAt
        BY <3>1, <3>2 DEF Returns, Outcome
      <4> QED
        BY <1>0, <1>3, <4>1, FlushKeeps, Zenon
    <3>3. CASE s = Outcome([b.file EXCEPT !.durable = Len(b.file.kernel)], TRUE)
      <4>1. /\ wfile' = [b.file EXCEPT !.durable = Len(b.file.kernel)]
            /\ errorAt' = errorAt /\ syncedAt' = Len(appended)
        BY <3>1, <3>3 DEF Returns, Outcome
      <4>2. b.file = Keeping(wfile, Cat(wfile.kernel, wfile.buf), NoBytes)
        BY <1>0, <2>3, FlushReaches
      <4>3. Cat(wfile.kernel, wfile.buf) \in Bytes
        BY <1>0, RecFacts, CatType, Zenon
      <4>4. /\ b.file \in FileRec /\ b.file.kernel = Cat(wfile.kernel, wfile.buf)
            /\ b.file.buf = NoBytes /\ b.file.is_manifest = wfile.is_manifest
        BY SMTT(30), <1>0, <4>2, <4>3, EmptyFacts, KeepingFacts
      <4>5. /\ wfile' \in FileRec /\ wfile'.kernel = Cat(wfile.kernel, wfile.buf)
            /\ wfile'.buf = NoBytes /\ wfile'.is_manifest = wfile.is_manifest
            /\ wfile'.durable = Len(wfile'.kernel)
        <5>1. Len(b.file.kernel) \in Nat
          BY <4>3, <4>4, BytesFacts
        <5> QED
          BY <4>1, <4>4, <5>1 DEF FileRec
      <4> QED
        BY <1>0, <1>2, <1>3, <1>5, <4>1, <4>5, SyncKeeps
    <3> QED
      BY <3>2, <3>3, Zenon DEF SyncFd
  <2> QED
    BY <2>2, <2>3, FlushBool
<1> QED
  BY <1>1, <1>4, <1>5 DEF SyncDirIfManifest

\* Every step of the file keeps the invariant.
LEMMA FileInductive ==
  ASSUME FileInv, FileNext
  PROVE  FileInv'
<1>1. ASSUME NEW n \in 1..MaxBytes, AppendBytes(n) PROVE FileInv'
  BY <1>1, AppendKeeps
<1>2. CASE Flush
  <2>1. PICK o \in FlushBuffer(wfile) :
          wfile' = o.file /\ errorAt' = IF o.ok THEN errorAt ELSE Len(appended')
    BY <1>2 DEF Flush, Returns
  <2>2. UNCHANGED <<dirNames, appended>> /\ syncedAt' = syncedAt
    BY <1>2 DEF Flush
  <2>3. o.ok \in BOOLEAN
    BY FlushBool
  <2> QED
    BY <2>1, <2>2, <2>3, NamesRest, FlushKeeps, Zenon
<1>3. CASE Sync
  BY <1>3, SyncStep
<1>4. CASE Close
  <2>1. PICK o \in FlushBuffer(wfile), closed \in BOOLEAN :
          Returns(Outcome([o.file EXCEPT !.open = FALSE], o.ok /\ closed))
    BY <1>4, Zenon DEF Close
  <2>2. /\ wfile' = [o.file EXCEPT !.open = FALSE]
        /\ errorAt' = IF o.ok /\ closed THEN errorAt ELSE Len(appended')
    BY <2>1, Zenon DEF Returns, Outcome
  <2>3. UNCHANGED <<dirNames, appended>> /\ syncedAt' = syncedAt
    BY <1>4 DEF Close
  <2>4. (o.ok /\ closed) \in BOOLEAN
    BY FlushBool
  <2> QED
    BY <2>2, <2>3, <2>4, NamesRest, FlushKeeps, Zenon
<1>5. CASE CreateName
  <2>1. /\ dirNames' = [dirNames EXCEPT !.created = @ + 1]
        /\ UNCHANGED <<wfile, appended, errorAt, syncedAt>>
    BY <1>5 DEF CreateName
  <2>2. /\ dirNames \in [created : Nat, durable : Nat] /\ dirNames.durable <= dirNames.created
        /\ \A k \in 1..Len(appended) : appended[k] <= dirNames.created
        /\ appended \in Bytes
    BY DEF FileInv, FileTypes
  <2>3. /\ dirNames' \in [created : Nat, durable : Nat] /\ dirNames'.durable = dirNames.durable
        /\ dirNames'.created = dirNames.created + 1
    BY <2>1, <2>2
  <2>4. dirNames'.durable <= dirNames'.created
    BY <2>2, <2>3
  <2>5. \A k \in 1..Len(appended) : appended[k] <= dirNames'.created
    BY <2>2, <2>3, BytesFacts
  <2>6. FileTypes'
    BY <2>1, <2>3, <2>4, <2>5 DEF FileInv, FileTypes
  <2>7. OutInv' /\ SyncInv'
    BY <2>1 DEF FileInv, OutInv, SyncInv
  <2>8. NameInv'
    BY <2>1, <2>3 DEF FileInv, NameInv
  <2> QED
    BY <2>6, <2>7, <2>8 DEF FileInv
<1> QED
  BY <1>1, <1>2, <1>3, <1>4, <1>5 DEF FileNext

(* CURRENT holds a whole text that is synced; so does the temporary file    *)
(* before it is renamed.                                                    *)
Held(at, text, t, synced) ==
  [pc |-> at, name |-> Text(text, TRUE), tmp |-> Text(t, synced)]
Between(text) == Held("idle", text, "part", FALSE)
Created(text) == Held("append", text, "part", FALSE)
Filled(text)  == Held("sync", text, "new", FALSE)
Durable(text) == Held("rename", text, "new", TRUE)

CurrentInv ==
  \E text \in {"old", "new"} :
    currentFile \in {Between(text), Created(text), Filled(text), Durable(text)}

\* The program counter tells which of the four states it is.
LEMMA WhichState ==
  ASSUME NEW text \in {"old", "new"},
         currentFile \in {Between(text), Created(text), Filled(text), Durable(text)}
  PROVE  /\ currentFile.pc = "idle" => currentFile = Between(text)
         /\ currentFile.pc = "append" => currentFile = Created(text)
         /\ currentFile.pc = "sync" => currentFile = Filled(text)
         /\ currentFile.pc = "rename" => currentFile = Durable(text)
         /\ currentFile.name = Text(text, TRUE)
         /\ currentFile.pc \in {"idle", "append", "sync", "rename"}
<1>1. /\ Between(text).pc = "idle" /\ Created(text).pc = "append"
      /\ Filled(text).pc = "sync" /\ Durable(text).pc = "rename"
      /\ Between(text).name = Text(text, TRUE) /\ Created(text).name = Text(text, TRUE)
      /\ Filled(text).name = Text(text, TRUE) /\ Durable(text).name = Text(text, TRUE)
  BY DEF Between, Created, Filled, Durable, Held
<1> QED
  BY <1>1, Zenon

\* Every step of SetCurrentFile, and a stop of the machine, keeps the invariant.
LEMMA CurrentInductive ==
  ASSUME CurrentInv, CurrentNext
  PROVE  CurrentInv'
<1>0. PICK text \in {"old", "new"} :
        currentFile \in {Between(text), Created(text), Filled(text), Durable(text)}
  BY DEF CurrentInv
<1>1. ASSUME NEW x \in {"old", "new"},
             currentFile' \in {Between(x), Created(x), Filled(x), Durable(x)}
      PROVE  CurrentInv'
  BY <1>1, Zenon DEF CurrentInv
<1>2. CASE NewTemp
  <2>1. currentFile = Between(text)
    BY <1>0, <1>2, WhichState, Zenon DEF NewTemp
  <2>2. currentFile' = Created(text)
    BY <2>1, <1>2, Zenon DEF NewTemp, Between, Created, Held
  <2> QED
    BY <2>2, <1>1
<1>3. ASSUME Fails PROVE CurrentInv'
  <2>1. currentFile' = Between(text)
    <3>1. CASE currentFile = Between(text)
      BY <1>3, <3>1, Zenon DEF Fails, Between, Held
    <3>2. CASE currentFile = Created(text)
      BY <1>3, <3>2, Zenon DEF Fails, Between, Created, Held
    <3>3. CASE currentFile = Filled(text)
      BY <1>3, <3>3, Zenon DEF Fails, Between, Filled, Held
    <3>4. CASE currentFile = Durable(text)
      BY <1>3, <3>4, Zenon DEF Fails, Between, Durable, Held
    <3> QED
      BY <1>0, <3>1, <3>2, <3>3, <3>4
  <2> QED
    BY <2>1, <1>1
<1>4. CASE AppendTemp
  <2>1. CASE currentFile' = [currentFile EXCEPT !.pc = "sync", !.tmp.text = "new"]
    <3>1. currentFile = Created(text)
      BY <1>0, <1>4, WhichState, Zenon DEF AppendTemp
    <3>2. currentFile' = Filled(text)
      BY <3>1, <2>1, Zenon DEF Created, Filled, Held, Text
    <3> QED
      BY <3>2, <1>1
  <2> QED
    BY <1>3, <1>4, <2>1 DEF AppendTemp
<1>5. CASE SyncTemp
  <2>1. CASE currentFile' = [currentFile EXCEPT !.pc = "rename", !.tmp.synced = TRUE]
    <3>1. currentFile = Filled(text)
      BY <1>0, <1>5, WhichState, Zenon DEF SyncTemp
    <3>2. currentFile' = Durable(text)
      BY <3>1, <2>1, Zenon DEF Filled, Durable, Held, Text
    <3> QED
      BY <3>2, <1>1
  <2> QED
    BY <1>3, <1>5, <2>1 DEF SyncTemp
<1>6. CASE RenameTemp
  <2>1. CASE currentFile' = [currentFile EXCEPT !.pc = "idle", !.name = currentFile.tmp,
                                        !.tmp = Text("part", FALSE)]
    <3>1. currentFile = Durable(text)
      BY <1>0, <1>6, WhichState, Zenon DEF RenameTemp
    <3>2. currentFile' = Between("new")
      BY <3>1, <2>1, Zenon DEF Durable, Between, Held
    <3> QED
      BY <3>2, <1>1
  <2> QED
    BY <1>3, <1>6, <2>1 DEF RenameTemp
<1>7. CASE MachineStops
  <2>1. currentFile.name = Text(text, TRUE)
    BY <1>0, WhichState, Zenon
  <2>2. currentFile.name.text = text /\ currentFile.name.synced
    BY <2>1 DEF Text
  <2>3. currentFile' = Between(text)
    BY <2>2, <1>7 DEF MachineStops, Between, Held
  <2> QED
    BY <2>3, <1>1
<1> QED
  BY <1>2, <1>4, <1>5, <1>6, <1>7 DEF CurrentNext

\* The invariant says what the property does.
LEMMA FileInvImplies ==
  ASSUME FileInv, CurrentInv
  PROVE  FilesDurable
<1> DEFINE out == Cat(wfile.kernel, wfile.buf)
<1>0. /\ wfile.kernel \in Bytes /\ wfile.buf \in Bytes /\ wfile.durable \in Nat
      /\ wfile.durable <= Len(wfile.kernel)
  BY RecFacts DEF FileInv, FileTypes
<1>1. out \in Bytes
  BY <1>0, CatType, Zenon
<1>2. DOMAIN out = 1..Len(out)
  BY <1>1, BytesFacts
<1>3. WrittenInOrder
  <2>1. out = wfile.kernel \o wfile.buf
    BY DEF Cat
  <2>2. InOrder(out, errorAt, Len(appended))
    BY DEF FileInv, OutInv
  <2> HIDE DEF out
  <2>3. \A i, j \in DOMAIN out : i < j => out[i] < out[j]
    BY <1>2, <2>2 DEF InOrder
  <2>4. errorAt + 1 .. Len(appended) \subseteq Range(out)
    BY <1>2, <2>2 DEF InOrder, Range
  <2> QED
    BY <2>1, <2>3, <2>4, Zenon DEF WrittenInOrder
<1>4. SyncIsDurable
  <2>1. Len(wfile.kernel) \in Nat /\ wfile.durable \in 0..Len(wfile.kernel)
    BY <1>0, BytesFacts
  <2>2. PICK s : s = SubSeq(wfile.kernel, 1, wfile.durable)
    BY Zenon
  <2>3. s \in Bytes /\ Len(s) = wfile.durable /\ Begins(s, wfile.kernel)
    BY <1>0, <2>1, <2>2, CutFacts
  <2>4. DOMAIN s = 1..wfile.durable /\ \A k \in 1..wfile.durable : s[k] = wfile.kernel[k]
    BY <2>3, BytesFacts DEF Begins
  <2>5. errorAt + 1 .. syncedAt \subseteq Range(s)
    BY <2>4 DEF FileInv, SyncInv, Range
  <2> QED
    BY <2>2, <2>5 DEF SyncIsDurable
<1>5. NamesBeforeManifest
  BY DEF FileInv, NameInv, NamesBeforeManifest
<1>6. CurrentIsWhole
  BY WhichState DEF CurrentInv, Text, CurrentIsWhole
<1> QED
  BY <1>3, <1>4, <1>5, <1>6 DEF FilesDurable

\* The file and CURRENT start right.
LEMMA FileStarts ==
  ASSUME FileInit, CurrentInit
  PROVE  FileInv /\ CurrentInv
<1>1. PICK m \in BOOLEAN : wfile = [buf |-> NoBytes, kernel |-> NoBytes, durable |-> 0, open |-> TRUE,
                                    is_manifest |-> m]
  BY Zenon DEF FileInit, NoBytes
<1>2. /\ dirNames = [created |-> 0, durable |-> 0]
      /\ appended = NoBytes /\ errorAt = 0 /\ syncedAt = 0
  BY DEF FileInit, NoBytes
<1>3. FileTypes
  BY <1>1, <1>2, EmptyFacts, FileAssumption DEF FileTypes, FileRec
<1>4. OutInv
  <2>1. Cat(wfile.kernel, wfile.buf) = NoBytes
    BY <1>1, EmptyFacts, CatEmpty
  <2> QED
    BY <1>2, <2>1, EmptyFacts DEF OutInv, InOrder
<1>5. SyncInv /\ NameInv
  BY <1>1, <1>2 DEF SyncInv, NameInv
<1>6. CurrentInv
  <2>1. currentFile = Between("old")
    BY DEF CurrentInit, Between, Held
  <2> QED
    BY <2>1 DEF CurrentInv
<1> QED
  BY <1>3, <1>4, <1>5, <1>6 DEF FileInv

(* PosixWritableFile and SetCurrentFile: whatever write, fsync, close,      *)
(* rename or the machine does, bytes are written in order with none lost    *)
(* unreported, a Sync that returned OK made them durable, after the names a *)
(* manifest may mention, and CURRENT is whole; for any buffer size.         *)
THEOREM FilesAreDurable == FilesSpec => []FilesDurable
<1>1. FileInit /\ CurrentInit => FileInv /\ CurrentInv
  BY FileStarts
<1>2. FileInv /\ CurrentInv /\ [FilesNext]_<<fileVars, currentFile>> => FileInv' /\ CurrentInv'
  <2> SUFFICES ASSUME FileInv, CurrentInv, [FilesNext]_<<fileVars, currentFile>>
               PROVE  FileInv' /\ CurrentInv'
    OBVIOUS
  <2>1. ASSUME UNCHANGED fileVars PROVE FileInv'
    BY <2>1 DEF fileVars, FileInv, FileTypes, OutInv, SyncInv, NameInv
  <2>2. ASSUME UNCHANGED currentFile PROVE CurrentInv'
    BY <2>2 DEF CurrentInv
  <2> QED
    BY <2>1, <2>2, FileInductive, CurrentInductive DEF FilesNext
<1>3. FileInv /\ CurrentInv => FilesDurable
  BY FileInvImplies
<1> QED
  BY <1>1, <1>2, <1>3, PTL DEF FilesSpec
=============================================================================
