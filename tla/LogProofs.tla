------------------------------- MODULE LogProofs -------------------------------
(***************************************************************************)
(* What a reader of a log may return, for any size of blocks and records,  *)
(* any number of records, stops and failed writes, and a damaged cell.     *)
(***************************************************************************)
EXTENDS Log, SequenceTheorems, TLAPS

Types == {kFullType, kFirstType, kMiddleType, kLastType}
Cells == {Zero, Unreadable} \cup {Crc(Type(t), Payload(i, from, n)) : t \in Types, i, from, n \in Nat}
         \cup {Length(n) : n \in Nat} \cup {Type(t) : t \in Nat} \cup {Data(i, c) : i, c \in Nat}

\* The checksum of a fragment of record i, with the n cells behind the first from.
Fragment(c, t, i, from, n) ==
  /\ c = Crc(Type(t), Payload(i, from, n))
  /\ t \in {kFullType, kFirstType} => from = 0
  /\ t = kMiddleType => n > 0

\* Right in front of cell q ends the fragment of record i before position from, unless its
\* checksum is damaged.
Follows(f, q, i, from) ==
  \E q0 \in 1 .. Len(f), from0, n0 \in Nat, t0 \in {kFirstType, kMiddleType} :
    /\ q0 + kHeaderSize + n0 = q /\ from0 + n0 = from
    /\ f[q0].k = "garbage" \/ Fragment(f[q0], t0, i, from0, n0)
    /\ \A j \in 1 .. Len(f) : q0 < j /\ j < q => f[j].k # "crc"

\* Each checksum is of a fragment of a record that was written; a fragment that continues
\* a record comes right behind the one before it; and types stand behind lengths.
Genuine(f, ws, q) ==
  \E i \in 1 .. Len(ws), from, n \in Nat, t \in Types :
    /\ Fragment(f[q], t, i, from, n)
    /\ from + n <= ws[i].size
    /\ t \in {kFullType, kLastType} => from + n = ws[i].size
    /\ t \in {kMiddleType, kLastType} => Follows(f, q, i, from)
Layout(f, ws) ==
  /\ \A q \in 1 .. Len(f) : f[q].k = "crc" => Genuine(f, ws, q)
  /\ \A j \in 1 .. Len(f) : f[j].k = "type" => j > 2 /\ f[j - 1].k = "len"

\* The writer: in the middle of a record the file ends with its last fragment.
WriterInv ==
  /\ file \in Seq(Cells) /\ Layout(file, written)
  /\ block_offset_ \in 0 .. kBlockSize
  /\ left \in Nat \cup {-1} /\ begin \in BOOLEAN
  /\ written \in Seq([size : Nat, at : Nat, ok : BOOLEAN])
  /\ damaged # 0 => left = -1
  /\ left >= 0 => Len(written) >= 1 /\ left <= written[Record].size
  /\ left >= 0 /\ begin => left = written[Record].size
  /\ left >= 0 /\ ~begin => /\ left > 0 /\ block_offset_ = kBlockSize
                            /\ Follows(file, Len(file) + 1, Record, written[Record].size - left)

\* The reader has consumed the cells up to Consumed; the rest of the block is in its buffer.
Consumed == r.end - Len(r.buffer)
ReaderTypeOK ==
  /\ r \in [end : Nat, buffer : Seq(Cells), eof : BOOLEAN, initial : Nat, resyncing : BOOLEAN,
            scratch : Seq(Cells), in_fragment : BOOLEAN, at : Int]
  /\ Len(r.buffer) <= r.end
  /\ \A j \in 1 .. Len(r.buffer) : Consumed + j <= Len(file) /\ r.buffer[j] = file[Consumed + j]

\* Cell q begins a fragment that a reader takes, with payload p.
Taken(f, q, t, p) ==
  /\ p \in Seq(Cells) /\ q + kHeaderSize - 1 + Len(p) <= Len(f)
  /\ f[q] = Crc(Type(t), p) /\ f[q + 2] = Type(t)
  /\ \A j \in 1 .. Len(p) : f[q + 2 + j] = p[j]
\* What is collected are the fragments of a record up to the last one taken, which is the
\* last thing read, but for less than a header at the end of its block.
Collecting ==
  \E q \in 1 .. Len(file), p \in Seq(Cells), t \in {kFirstType, kMiddleType} :
    /\ Taken(file, q, t, p)
    /\ LET end == q + kHeaderSize - 1 + Len(p) IN
       /\ end <= Consumed /\ Consumed < end + kHeaderSize
       /\ Consumed = end \/ Len(r.buffer) >= kHeaderSize \/ r.eof
    /\ \A i, from, n \in Nat : p = Payload(i, from, n) /\ (t = kFirstType => from = 0) /\ (t = kMiddleType => n > 0)
         => r.scratch = Payload(i, 0, from + n)
OutOK ==
  /\ out \in Seq([data : Seq(Cells), at : Int])
  /\ OnlyGenuineRecords
ReaderInv ==
  pc = "read" =>
    /\ ReaderTypeOK
    /\ r.in_fragment => Collecting /\ ~r.resyncing /\ r.at < Consumed
    /\ \A j \in DOMAIN out : out[j].at < Consumed /\ (r.in_fragment => out[j].at < r.at)

LogInv == /\ pc \in {"write", "read", "done", "failed"} /\ (pc = "write" => out = << >>)
          /\ WriterInv /\ OutOK /\ ReaderInv

--------------------------------------------------------------------------------
(* Cells and payloads *)

LEMMA Kinds ==
  /\ Zero.k = "zero" /\ Unreadable.k = "garbage"
  /\ \A a, b : Crc(a, b).k = "crc" /\ Crc(a, b).of = <<a, b>>
  /\ \A n : Length(n).k = "len" /\ Length(n).n = n
  /\ \A t : Type(t).k = "type" /\ Type(t).t = t
  /\ \A i, c : Data(i, c).k = "data" /\ Data(i, c).r = i /\ Data(i, c).i = c
BY DEF Zero, Unreadable, Crc, Length, Type, Data

LEMMA CrcEqual ==
  ASSUME NEW s, NEW t, NEW p, NEW q, Crc(Type(s), p) = Crc(Type(t), q)
  PROVE  s = t /\ p = q
<1>1. <<Type(s), p>> = <<Type(t), q>>
  BY Kinds
<1>2. Type(s) = Type(t) /\ p = q
  BY <1>1
<1> QED BY <1>2, Kinds

LEMMA CellsAre ==
  /\ Zero \in Cells /\ Unreadable \in Cells
  /\ \A t \in Types, i, from, n \in Nat : Crc(Type(t), Payload(i, from, n)) \in Cells
  /\ \A n \in Nat : Length(n) \in Cells /\ Type(n) \in Cells
  /\ \A i, c \in Nat : Data(i, c) \in Cells
BY DEF Cells

LEMMA PayloadIs ==
  ASSUME NEW i \in Nat, NEW from \in Nat, NEW n \in Nat
  PROVE  /\ Payload(i, from, n) \in Seq(Cells) /\ Len(Payload(i, from, n)) = n
         /\ \A j \in 1 .. n : Payload(i, from, n)[j] = Data(i, from + j)
<1>1. \A j \in 1 .. n : Data(i, from + j) \in Cells
  BY CellsAre
<1> QED BY <1>1 DEF Payload

LEMMA PayloadConcat ==
  ASSUME NEW i \in Nat, NEW a \in Nat, NEW n \in Nat
  PROVE  Payload(i, 0, a) \o Payload(i, a, n) = Payload(i, 0, a + n)
<1> DEFINE s == Payload(i, 0, a) \o Payload(i, a, n)
<1>1. Payload(i, 0, a) \in Seq(Cells) /\ Len(Payload(i, 0, a)) = a
      /\ Payload(i, a, n) \in Seq(Cells) /\ Len(Payload(i, a, n)) = n
      /\ Payload(i, 0, a + n) \in Seq(Cells) /\ Len(Payload(i, 0, a + n)) = a + n
  BY PayloadIs, a + n \in Nat, 0 \in Nat
<1>2. s \in Seq(Cells) /\ Len(s) = a + n
  BY <1>1, ConcatProperties
<1>3. ASSUME NEW j \in 1 .. a + n PROVE s[j] = Payload(i, 0, a + n)[j]
  <2>1. Payload(i, 0, a + n)[j] = Data(i, j)
    BY DEF Payload
  <2>2. CASE j <= a
    <3>1. s[j] = Payload(i, 0, a)[j]
      BY <1>1, <2>2, ConcatProperties
    <3>2. Payload(i, 0, a)[j] = Data(i, j)
      BY <2>2 DEF Payload
    <3> QED BY <2>1, <3>1, <3>2
  <2>3. CASE j > a
    <3>1. s[j] = Payload(i, a, n)[j - a]
      BY <1>1, <2>3, ConcatProperties
    <3>2. j - a \in 1 .. n /\ a + (j - a) = j
      BY <2>3
    <3>3. Payload(i, a, n)[j - a] = Data(i, a + (j - a))
      BY <3>2 DEF Payload
    <3> QED BY <2>1, <3>1, <3>2, <3>3
  <2> QED BY <2>2, <2>3, j <= a \/ j > a
<1> HIDE DEF s
<1>4. s = Payload(i, 0, a + n)
  BY <1>1, <1>2, <1>3, SeqEqual
<1> QED BY <1>4 DEF s

--------------------------------------------------------------------------------
(* How the layout of a file is kept *)

LEMMA FollowsKept ==
  ASSUME NEW f \in Seq(Cells), NEW f2 \in Seq(Cells), NEW m \in Nat, m <= Len(f), m <= Len(f2),
         \A j \in 1 .. m : f2[j] = f[j],
         NEW q \in Nat, q <= m + 1, NEW i, NEW from, Follows(f, q, i, from)
  PROVE  Follows(f2, q, i, from)
<1>1. PICK q0 \in 1 .. Len(f), from0 \in Nat, n0 \in Nat, t0 \in {kFirstType, kMiddleType} :
        /\ q0 + kHeaderSize + n0 = q /\ from0 + n0 = from
        /\ f[q0].k = "garbage" \/ Fragment(f[q0], t0, i, from0, n0)
        /\ \A j \in 1 .. Len(f) : q0 < j /\ j < q => f[j].k # "crc"
  BY DEF Follows
<1>2. q0 <= m /\ q0 \in 1 .. Len(f2) /\ f2[q0] = f[q0]
  BY <1>1 DEF kHeaderSize
<1>3. \A j \in 1 .. Len(f2) : q0 < j /\ j < q => f2[j].k # "crc"
  BY <1>1
<1> QED BY <1>1, <1>2, <1>3 DEF Follows

SameSizes(ws, ws2) == Len(ws) <= Len(ws2) /\ \A i \in 1 .. Len(ws) : ws2[i].size = ws[i].size

LEMMA LayoutKept ==
  ASSUME NEW f \in Seq(Cells), NEW f2 \in Seq(Cells), NEW m \in Nat, m <= Len(f), m <= Len(f2),
         \A j \in 1 .. m : f2[j] = f[j],
         NEW ws, NEW ws2, Len(ws) \in Nat, Len(ws2) \in Nat, SameSizes(ws, ws2), Layout(f, ws),
         \A q \in 1 .. Len(f2) : q > m /\ f2[q].k = "crc" => Genuine(f2, ws2, q),
         \A j \in 1 .. Len(f2) : j > m /\ f2[j].k = "type" => j > 2 /\ f2[j - 1].k = "len"
  PROVE  Layout(f2, ws2)
<1>1. ASSUME NEW q \in 1 .. Len(f2), f2[q].k = "crc" PROVE Genuine(f2, ws2, q)
  <2>1. CASE q > m
    BY <1>1, <2>1
  <2>2. CASE q <= m
    <3>1. q \in 1 .. Len(f) /\ f2[q] = f[q]
      BY <2>2
    <3>2. Genuine(f, ws, q)
      BY <1>1, <3>1 DEF Layout
    <3>3. PICK i \in 1 .. Len(ws), from \in Nat, n \in Nat, t \in Types :
            /\ Fragment(f[q], t, i, from, n)
            /\ from + n <= ws[i].size
            /\ t \in {kFullType, kLastType} => from + n = ws[i].size
            /\ t \in {kMiddleType, kLastType} => Follows(f, q, i, from)
      BY <3>2 DEF Genuine
    <3>4. Follows(f, q, i, from) => Follows(f2, q, i, from)
      <4>1. q \in Nat /\ q <= m + 1
        BY <2>2
      <4> QED BY <4>1, FollowsKept
    <3>5. i \in 1 .. Len(ws2) /\ ws2[i].size = ws[i].size
      BY DEF SameSizes
    <3> QED BY <3>1, <3>3, <3>4, <3>5 DEF Genuine
  <2> QED BY <2>1, <2>2
<1>2. ASSUME NEW j \in 1 .. Len(f2), f2[j].k = "type" PROVE j > 2 /\ f2[j - 1].k = "len"
  <2>1. CASE j > m
    BY <1>2, <2>1
  <2>2. CASE j <= m
    <3>1. f[j].k = "type" /\ j \in 1 .. Len(f)
      BY <1>2, <2>2
    <3>2. j > 2 /\ f[j - 1].k = "len"
      BY <3>1 DEF Layout
    <3>3. j - 1 \in 1 .. m
      BY <2>2, <3>2
    <3> QED BY <3>2, <3>3
  <2> QED BY <2>1, <2>2
<1> QED BY <1>1, <1>2 DEF Layout
--------------------------------------------------------------------------------
(* The writer *)

\* The cells of a concatenation.
LEMMA ConcatCells ==
  ASSUME NEW a \in Seq(Cells), NEW b \in Seq(Cells)
  PROVE  /\ a \o b \in Seq(Cells) /\ Len(a \o b) = Len(a) + Len(b)
         /\ \A j \in 1 .. Len(a) : (a \o b)[j] = a[j]
         /\ \A j \in 1 .. Len(b) : (a \o b)[Len(a) + j] = b[j]
<1>1. /\ a \o b \in Seq(Cells) /\ Len(a \o b) = Len(a) + Len(b)
      /\ \A j \in 1 .. Len(a) + Len(b) : (a \o b)[j] = IF j <= Len(a) THEN a[j] ELSE b[j - Len(a)]
  BY ConcatProperties
<1>2. Len(a) \in Nat /\ Len(b) \in Nat
  OBVIOUS
<1>3. ASSUME NEW j \in 1 .. Len(b) PROVE (a \o b)[Len(a) + j] = b[j]
  <2>1. Len(a) + j \in 1 .. Len(a) + Len(b) /\ ~(Len(a) + j <= Len(a)) /\ (Len(a) + j) - Len(a) = j
    BY <1>2
  <2> QED BY <1>1, <2>1
<1> QED BY <1>1, <1>2, <1>3

\* One turn of the loop: what it writes fits into the block, or fills it.
LEMMA TurnIs ==
  ASSUME LogConstants, left \in Nat, block_offset_ \in 0 .. kBlockSize, begin \in BOOLEAN, ~begin => left > 0
  PROVE  \E z \in 0 .. 2 :
           /\ Turn.pad = Zeros(z) /\ (block_offset_ = kBlockSize => z = 0)
           /\ Turn.n \in 0 .. left /\ Turn.type \in Types
           /\ Turn.from + kHeaderSize + Turn.n \in 0 .. kBlockSize
           /\ Turn.n < left => Turn.from + kHeaderSize + Turn.n = kBlockSize
           /\ Turn.type \in {kFullType, kFirstType} <=> begin
           /\ Turn.type \in {kFullType, kLastType} <=> Turn.n = left
           /\ Turn.type = kMiddleType /\ block_offset_ = kBlockSize => Turn.n > 0
<1> DEFINE leftover == kBlockSize - block_offset_
           fits     == leftover >= kHeaderSize
           avail    == (IF fits THEN leftover ELSE kBlockSize) - kHeaderSize
           n        == IF left < avail THEN left ELSE avail
           end      == left = n
           z        == IF fits THEN 0 ELSE leftover
           from     == IF fits THEN block_offset_ ELSE 0
           type     == CASE begin /\ end -> kFullType [] begin /\ ~end -> kFirstType
                         [] ~begin /\ end -> kLastType [] OTHER -> kMiddleType
<1>1. /\ Turn.pad = IF fits THEN << >> ELSE Zeros(leftover)
      /\ Turn.from = from /\ Turn.n = n /\ Turn.type = type
  BY DEF Turn
<1>2. leftover \in 0 .. kBlockSize /\ kBlockSize \in Nat /\ kBlockSize > 3 /\ kHeaderSize = 3
  BY DEF LogConstants, kHeaderSize
<1>3. z \in 0 .. 2 /\ avail \in Nat /\ n \in 0 .. left /\ (block_offset_ = kBlockSize => z = 0)
  BY <1>2
<1>4. Zeros(0) = << >>
  BY DEF Zeros
<1>5. Turn.pad = Zeros(z)
  BY <1>1, <1>4
<1>6. from + kHeaderSize + n \in 0 .. kBlockSize /\ (n < left => from + kHeaderSize + n = kBlockSize)
  BY <1>2
<1>7. block_offset_ = kBlockSize /\ left > 0 => n > 0
  BY <1>2
<1> HIDE DEF n, z, from, avail, leftover, fits
<1>8. /\ type \in Types
      /\ type \in {kFullType, kFirstType} <=> begin
      /\ type \in {kFullType, kLastType} <=> n = left
      /\ type = kMiddleType => ~begin
  <2>1. CASE begin /\ end
    BY <2>1 DEF Types, kFullType, kFirstType, kLastType, kMiddleType
  <2>2. CASE begin /\ ~end
    BY <2>2 DEF Types, kFullType, kFirstType, kLastType, kMiddleType
  <2>3. CASE ~begin /\ end
    BY <2>3 DEF Types, kFullType, kFirstType, kLastType, kMiddleType
  <2>4. CASE ~begin /\ ~end
    BY <2>4 DEF Types, kFullType, kFirstType, kLastType, kMiddleType
  <2> QED BY <2>1, <2>2, <2>3, <2>4
<1> HIDE DEF type
<1> QED BY <1>1, <1>3, <1>5, <1>6, <1>7, <1>8

\* The cells of a fragment, behind z cells of trailer.
Cut(z, t, i, from, n) ==
  Zeros(z) \o (<<Crc(Type(t), Payload(i, from, n)), Length(n), Type(t)>> \o Payload(i, from, n))
EmittedAs(s, z, t, i, from, n) ==
  /\ s \in Seq(Cells) /\ Len(s) = z + kHeaderSize + n
  /\ \A j \in 1 .. z : s[j] = Zero
  /\ s[z + 1] = Crc(Type(t), Payload(i, from, n)) /\ s[z + 2] = Length(n) /\ s[z + 3] = Type(t)
  /\ \A j \in 1 .. n : s[z + 3 + j] = Data(i, from + j)
LEMMA EmittedCells ==
  ASSUME NEW z \in Nat, NEW t \in Types, NEW i \in Nat, NEW from \in Nat, NEW n \in Nat
  PROVE  EmittedAs(Cut(z, t, i, from, n), z, t, i, from, n)
<1> DEFINE p == Payload(i, from, n)
           h == <<Crc(Type(t), p), Length(n), Type(t)>>
           a == h \o p
           s == Zeros(z) \o a
<1>1. p \in Seq(Cells) /\ Len(p) = n /\ \A j \in 1 .. n : p[j] = Data(i, from + j)
  BY PayloadIs
<1>2. Crc(Type(t), p) \in Cells /\ Length(n) \in Cells /\ Type(t) \in Cells
  BY CellsAre DEF Types, kFullType, kFirstType, kLastType, kMiddleType
<1>3. Zeros(z) \in Seq(Cells) /\ Len(Zeros(z)) = z /\ \A j \in 1 .. z : Zeros(z)[j] = Zero
  BY CellsAre DEF Zeros
<1> HIDE DEF p
<1>4. h \in Seq(Cells) /\ Len(h) = 3 /\ h[1] = Crc(Type(t), p) /\ h[2] = Length(n) /\ h[3] = Type(t)
  BY <1>2
<1> HIDE DEF h
<1>5. /\ a \in Seq(Cells) /\ Len(a) = 3 + n
      /\ \A j \in 1 .. 3 : a[j] = h[j]
      /\ \A j \in 1 .. n : a[3 + j] = p[j]
  <2>1. /\ h \o p \in Seq(Cells) /\ Len(h \o p) = Len(h) + Len(p)
        /\ \A j \in 1 .. Len(h) : (h \o p)[j] = h[j]
        /\ \A j \in 1 .. Len(p) : (h \o p)[Len(h) + j] = p[j]
    BY <1>1, <1>4, ConcatCells
  <2> QED BY ONLY <1>1, <1>4, <2>1
<1> HIDE DEF a
<1>6. /\ s \in Seq(Cells) /\ Len(s) = z + (3 + n)
      /\ \A j \in 1 .. z : s[j] = Zeros(z)[j]
      /\ \A j \in 1 .. 3 + n : s[z + j] = a[j]
  BY <1>3, <1>5, ConcatCells, SMTT(40)
<1> HIDE DEF s
<1>7. s[z + 1] = a[1] /\ s[z + 2] = a[2] /\ s[z + 3] = a[3]
  BY <1>6
<1>8. \A j \in 1 .. n : s[z + 3 + j] = Data(i, from + j)
  <2> SUFFICES ASSUME NEW j \in 1 .. n PROVE s[z + 3 + j] = Data(i, from + j)
    OBVIOUS
  <2>1. 3 + j \in 1 .. 3 + n /\ z + (3 + j) = z + 3 + j
    OBVIOUS
  <2> QED BY <1>1, <1>5, <1>6, <2>1
<1>9. /\ s \in Seq(Cells) /\ Len(s) = z + 3 + n
      /\ \A j \in 1 .. z : s[j] = Zero
      /\ s[z + 1] = Crc(Type(t), p) /\ s[z + 2] = Length(n) /\ s[z + 3] = Type(t)
  BY <1>3, <1>4, <1>5, <1>6, <1>7
<1> QED BY ONLY <1>8, <1>9 DEF EmittedAs, s, a, h, p, kHeaderSize, Cut
\* Whatever part of a fragment gets into the file.
LEMMA ZerosCut ==
  ASSUME NEW m \in Nat
  PROVE  Len(Zeros(m)) = m /\ Zeros(m) \in Seq(Cells) /\ \A z \in 0 .. m : SubSeq(Zeros(m), 1, z) = Zeros(z)
BY CellsAre DEF Zeros

\* The cells of a fragment behind z cells of padding: its checksum, length, type and payload.
Places(z, n, m) ==
  \/ m \in 1 .. z /\ m # z + 1 /\ m # z + 2 /\ m # z + 3
  \/ m = z + 1 /\ m # z + 2 /\ m # z + 3
  \/ m = z + 2 /\ m # z + 1 /\ m # z + 3
  \/ m = z + 3 /\ m # z + 1 /\ m # z + 2
  \/ m - z - 3 \in 1 .. n /\ z + 3 + (m - z - 3) = m /\ m # z + 1 /\ m # z + 2 /\ m # z + 3

LEMMA PlacesAre ==
  ASSUME NEW z \in Nat, NEW n \in Nat, NEW m \in Nat, m > 0, m <= z + 3 + n
  PROVE  Places(z, n, m)
BY DEF Places

LEMMA RestLeft ==
  ASSUME NEW all \in Nat, NEW rest \in Nat, NEW n \in 0 .. rest, n # rest, rest <= all
  PROVE  n < rest /\ rest - n > 0 /\ rest - n \in Nat /\ rest - n <= all
OBVIOUS

LEMMA EmitStep ==
  ASSUME LogConstants, WriterInv, left >= 0, NEW z \in 0 .. Len(Turn.pad),
         NEW k \in 0 .. Len(Emitted(Turn, z)), file' = file \o SubSeq(Emitted(Turn, z), 1, k),
         Len(written') = Len(written), SameSizes(written, written')
  PROVE  /\ file' \in Seq(Cells) /\ Layout(file', written')
         /\ Turn.n \in 0 .. left /\ Turn.from + kHeaderSize + Turn.n \in 0 .. kBlockSize
         /\ Turn.n < left => Turn.from + kHeaderSize + Turn.n = kBlockSize
         /\ k = Len(Emitted(Turn, z)) /\ Turn.n < left =>
              Follows(file', Len(file') + 1, Record, written[Record].size - (left - Turn.n))
<1> DEFINE i == Record
           from == written[Record].size - left
           n == Turn.n
           t == Turn.type
<1>1. /\ left \in Nat /\ block_offset_ \in 0 .. kBlockSize /\ begin \in BOOLEAN /\ (~begin => left > 0)
      /\ i \in 1 .. Len(written) /\ Len(written) \in Nat /\ written[i].size \in Nat
      /\ left <= written[i].size /\ (begin => left = written[i].size)
      /\ ~begin => block_offset_ = kBlockSize /\ Follows(file, Len(file) + 1, i, from)
      /\ file \in Seq(Cells) /\ Layout(file, written)
  <2>1. left \in Nat /\ Len(written) \in Nat
    BY DEF WriterInv
  <2>2. Record \in 1 .. Len(written)
    BY <2>1 DEF WriterInv, Record
  <2>3. written[Record].size \in Nat
    <3>1. written \in Seq([size : Nat, at : Nat, ok : BOOLEAN])
      BY DEF WriterInv
    <3>2. written[Record] \in [size : Nat, at : Nat, ok : BOOLEAN]
      BY ONLY <2>2, <3>1, ElementOfSeq
    <3> QED BY ONLY <3>2
  <2> QED BY <2>1, <2>2, <2>3 DEF WriterInv
<1>0. PICK y \in 0 .. 2 :
        /\ Turn.pad = Zeros(y) /\ (block_offset_ = kBlockSize => y = 0)
        /\ n \in 0 .. left /\ t \in Types
        /\ Turn.from + kHeaderSize + n \in 0 .. kBlockSize
        /\ n < left => Turn.from + kHeaderSize + n = kBlockSize
        /\ t \in {kFullType, kFirstType} <=> begin
        /\ t \in {kFullType, kLastType} <=> n = left
        /\ t = kMiddleType /\ block_offset_ = kBlockSize => n > 0
  BY <1>1, TurnIs
<1>2. /\ z \in Nat /\ SubSeq(Turn.pad, 1, z) = Zeros(z) /\ (block_offset_ = kBlockSize => z = 0)
      /\ n \in 0 .. left /\ t \in Types
      /\ Turn.from + kHeaderSize + n \in 0 .. kBlockSize
      /\ n < left => Turn.from + kHeaderSize + n = kBlockSize
      /\ t \in {kFullType, kFirstType} <=> begin
      /\ t \in {kFullType, kLastType} <=> n = left
      /\ t = kMiddleType /\ block_offset_ = kBlockSize => n > 0
  <2>1. y \in Nat /\ Turn.pad = Zeros(y)
    BY <1>0
  <2>2. z \in 0 .. y
    BY <2>1, ZerosCut
  <2>3. SubSeq(Turn.pad, 1, z) = Zeros(z)
    BY <2>1, <2>2, ZerosCut
  <2>4. block_offset_ = kBlockSize => z = 0
    BY <1>0, <2>2
  <2>5. z \in Nat
    BY <2>1, <2>2
  <2> QED BY <1>0, <2>3, <2>4, <2>5
<1>3. from \in Nat /\ n \in Nat /\ i \in Nat /\ z \in Nat
  BY <1>1, <1>2
<1> DEFINE e == Emitted(Turn, z)
<1>4. e = Zeros(z) \o (<<Crc(Type(t), Payload(i, from, n)), Length(n), Type(t)>> \o Payload(i, from, n))
  BY <1>2 DEF Emitted, EmitPhysicalRecord
<1>e. k \in 0 .. Len(e) /\ file' = file \o SubSeq(e, 1, k)
  OBVIOUS
<1> HIDE DEF i, from, n, t, e
<1>5. /\ e \in Seq(Cells) /\ Len(e) = z + kHeaderSize + n
      /\ \A j \in 1 .. z : e[j] = Zero
      /\ e[z + 1] = Crc(Type(t), Payload(i, from, n)) /\ e[z + 2] = Length(n) /\ e[z + 3] = Type(t)
      /\ \A j \in 1 .. n : e[z + 3 + j] = Data(i, from + j)
  <2>1. EmittedAs(Cut(z, t, i, from, n), z, t, i, from, n)
    BY <1>2, <1>3, EmittedCells
  <2>2. e = Cut(z, t, i, from, n)
    BY <1>4 DEF Cut
  <2> QED BY <2>1, <2>2 DEF EmittedAs
<1>6. SubSeq(e, 1, k) \in Seq(Cells) /\ Len(SubSeq(e, 1, k)) = k
      /\ \A j \in 1 .. k : SubSeq(e, 1, k)[j] = e[j]
  BY <1>5, <1>e
<1>7. /\ file' \in Seq(Cells) /\ Len(file') = Len(file) + k
      /\ \A j \in 1 .. Len(file) : file'[j] = file[j]
      /\ \A j \in 1 .. k : file'[Len(file) + j] = e[j]
  <2> DEFINE b == SubSeq(e, 1, k)
             s == file \o b
  <2>1. b \in Seq(Cells)
    BY <1>6
  <2>2. /\ s \in Seq(Cells) /\ Len(s) = Len(file) + Len(b)
        /\ \A j \in 1 .. Len(file) : s[j] = file[j]
        /\ \A j \in 1 .. Len(b) : s[Len(file) + j] = b[j]
    <3> HIDE DEF b
    <3> QED BY <1>1, <2>1, ConcatCells
  <2>3. file' = s
    BY <1>e
  <2> HIDE DEF s
  <2> QED BY ONLY <1>6, <2>2, <2>3 DEF b
<1>f. Len(file) \in Nat
  BY <1>1
<1> DEFINE q == Len(file) + z + 1
<1>8. ASSUME NEW j \in 1 .. Len(file'), j > Len(file)
      PROVE  /\ file'[j].k = "crc" <=> j = q
             /\ file'[j].k = "type" => j = q + 2
             /\ j = q => file'[j] = Crc(Type(t), Payload(i, from, n))
             /\ j = q + 1 => file'[j].k = "len"
  <2> DEFINE m == j - Len(file)
  <2>1. m \in Nat /\ j = Len(file) + m /\ file'[j] = e[m] /\ m > 0 /\ m <= z + 3 + n
    <3>1. Len(file) \in Nat /\ k \in Nat /\ k <= z + 3 + n
      BY <1>1, <1>3, <1>5, <1>e DEF kHeaderSize
    <3>2. m \in 1 .. k /\ m \in Nat /\ j = Len(file) + m
      BY <1>7, <1>8, <3>1
    <3> HIDE DEF m
    <3> QED BY ONLY <1>3, <1>7, <3>1, <3>2
  <2>2. Places(z, n, m)
    <3> HIDE DEF m
    <3> QED BY ONLY <1>3, <2>1, PlacesAre, Zenon
  <2>3. /\ j = q <=> m = z + 1
        /\ j = q + 1 <=> m = z + 2
        /\ j = q + 2 <=> m = z + 3
    BY ONLY <1>3, <1>f, <2>1
  <2> HIDE DEF m, q
  <2>4. CASE m \in 1 .. z /\ m # z + 1 /\ m # z + 2 /\ m # z + 3
    <3>1. file'[j].k = "zero"
      BY <1>5, <2>1, <2>4, Kinds
    <3> QED BY ONLY <2>3, <2>4, <3>1, Zenon
  <2>5. CASE m = z + 1 /\ m # z + 2 /\ m # z + 3
    <3>1. file'[j] = Crc(Type(t), Payload(i, from, n))
      BY ONLY <1>5, <2>1, <2>5
    <3>2. file'[j].k = "crc"
      BY ONLY <3>1, Kinds
    <3> QED BY ONLY <2>3, <2>5, <3>1, <3>2, Zenon
  <2>6. CASE m = z + 2 /\ m # z + 1 /\ m # z + 3
    <3>1. file'[j].k = "len"
      BY <1>5, <2>1, <2>6, Kinds
    <3> QED BY ONLY <2>3, <2>6, <3>1, Zenon
  <2>7. CASE m = z + 3 /\ m # z + 1 /\ m # z + 2
    <3>1. file'[j].k = "type"
      BY <1>5, <2>1, <2>7, Kinds
    <3> QED BY ONLY <2>3, <2>7, <3>1, Zenon
  <2>8. CASE m - z - 3 \in 1 .. n /\ z + 3 + (m - z - 3) = m /\ m # z + 1 /\ m # z + 2 /\ m # z + 3
    <3>1. e[m] = Data(i, from + (m - z - 3))
      BY <1>5, <2>8
    <3>2. file'[j].k = "data"
      BY ONLY <2>1, <3>1, Kinds
    <3> QED BY ONLY <2>3, <2>8, <3>2, Zenon
  <2> QED BY ONLY <2>2, <2>4, <2>5, <2>6, <2>7, <2>8, Zenon DEF Places
<1>9. q \in 1 .. Len(file') => Genuine(file', written', q)
  <2> SUFFICES ASSUME q \in 1 .. Len(file') PROVE Genuine(file', written', q)
    OBVIOUS
  <2>1. file'[q] = Crc(Type(t), Payload(i, from, n))
    <3>1. q > Len(file)
      BY <1>1, <1>3
    <3> HIDE DEF q
    <3> QED BY <1>8, <3>1
  <2>2. Fragment(file'[q], t, i, from, n)
    <3>1. t \in {kFullType, kFirstType} => from = 0
      BY <1>1, <1>2 DEF from, i
    <3>2. t = kMiddleType => n > 0
      <4>1. t = kMiddleType => ~begin
        BY <1>2 DEF kFullType, kFirstType, kMiddleType
      <4> QED BY <1>1, <1>2, <4>1
    <3> QED BY <2>1, <3>1, <3>2 DEF Fragment
  <2>3. from + n <= written[i].size /\ (t \in {kFullType, kLastType} => from + n = written[i].size)
    BY <1>1, <1>2 DEF from, i
  <2>4. i \in 1 .. Len(written') /\ written'[i].size = written[i].size
    BY <1>1 DEF SameSizes
  <2>5. t \in {kMiddleType, kLastType} => Follows(file', q, i, from)
    <3> SUFFICES ASSUME t \in {kMiddleType, kLastType} PROVE Follows(file', q, i, from)
      OBVIOUS
    <3>1. ~begin
      BY <1>2 DEF kFullType, kFirstType, kMiddleType, kLastType
    <3>2. z = 0 /\ q = Len(file) + 1 /\ Follows(file, q, i, from)
      BY <1>1, <1>2, <3>1
    <3>3. Len(file) \in Nat /\ Len(file) <= Len(file') /\ q \in Nat
      BY <1>1, <1>7, <3>2
    <3>4. \A j \in 1 .. Len(file) : file'[j] = file[j]
      BY <1>7
    <3>5. Len(file) <= Len(file) /\ q <= Len(file) + 1
      BY <1>1, <3>2
    <3> HIDE DEF q
    <3> QED BY <1>1, <1>7, <3>2, <3>3, <3>4, <3>5, FollowsKept, ZenonT(40)
  <2> HIDE DEF q
  <2> QED BY <1>2, <1>3, <2>2, <2>3, <2>4, <2>5 DEF Genuine
<1>10. Layout(file', written')
  <2>1. \A j \in 1 .. Len(file') : j > Len(file) /\ file'[j].k = "crc" => Genuine(file', written', j)
    BY <1>8, <1>9
  <2>2. \A j \in 1 .. Len(file') : j > Len(file) /\ file'[j].k = "type" => j > 2 /\ file'[j - 1].k = "len"
    <3> SUFFICES ASSUME NEW j \in 1 .. Len(file'), j > Len(file), file'[j].k = "type"
                 PROVE  j > 2 /\ file'[j - 1].k = "len"
      OBVIOUS
    <3>1. j = q + 2
      BY <1>8
    <3>2. j - 1 \in 1 .. Len(file') /\ j - 1 > Len(file) /\ j - 1 = q + 1 /\ j > 2
      BY <1>1, <1>3, <3>1, SMTT(40)
    <3> QED BY <1>8, <3>2
  <2>3. Len(file) \in Nat /\ Len(file) <= Len(file')
    BY <1>1, <1>7
  <2>4. Len(written') \in Nat /\ Len(file) <= Len(file)
    BY <1>1, <2>3
  <2> HIDE DEF q
  <2> QED BY <1>1, <1>7, <2>1, <2>2, <2>3, <2>4, LayoutKept
<1>11. ASSUME k = Len(e), n < left PROVE Follows(file', Len(file') + 1, i, from + n)
  <2>1. q \in 1 .. Len(file') /\ q + kHeaderSize + n = Len(file') + 1
    BY <1>1, <1>3, <1>5, <1>7, <1>11 DEF kHeaderSize
  <2>2. file'[q] = Crc(Type(t), Payload(i, from, n))
    <3>1. q > Len(file)
      BY <1>1, <1>3
    <3> HIDE DEF q
    <3> QED BY <1>8, <2>1, <3>1
  <2>3. t \in {kFirstType, kMiddleType}
    BY <1>2, <1>11 DEF Types
  <2>4. t = kFirstType => from = 0
    BY <1>1, <1>2 DEF from, i
  <2>5. t = kMiddleType => n > 0
    <3>1. t = kMiddleType => ~begin
      BY <1>2 DEF kFullType, kFirstType, kMiddleType
    <3> QED BY <1>1, <1>2, <3>1
  <2>6. Fragment(file'[q], t, i, from, n)
    <3>1. t # kFullType
      BY <2>3 DEF kFirstType, kMiddleType, kFullType
    <3> QED BY <2>2, <2>4, <2>5, <3>1 DEF Fragment
  <2>7. \A j \in 1 .. Len(file') : q < j /\ j < Len(file') + 1 => file'[j].k # "crc"
    <3>1. \A j \in Nat : q < j => j > Len(file) /\ j # q
      BY <1>1, <1>3
    <3> HIDE DEF q
    <3> QED BY <1>8, <3>1
  <2> HIDE DEF q
  <2> QED BY <1>3, <2>1, <2>3, <2>6, <2>7 DEF Follows
<1>12. from + n = written[Record].size - (left - Turn.n)
  BY <1>1, <1>2 DEF from, n, i
<1> QED BY <1>2, <1>7, <1>10, <1>11, <1>12 DEF n, i, e
Call == [size : Nat, at : Nat, ok : BOOLEAN]
\* Marking a call changes no size.
LEMMA MarkedCalls ==
  ASSUME NEW ws \in Seq(Call), NEW i \in 1 .. Len(ws), NEW c \in Call, c.size = ws[i].size
  PROVE  /\ [ws EXCEPT ![i] = c] \in Seq(Call) /\ Len([ws EXCEPT ![i] = c]) = Len(ws)
         /\ SameSizes(ws, [ws EXCEPT ![i] = c])
<1>1. [ws EXCEPT ![i] = c] \in Seq(Call) /\ Len([ws EXCEPT ![i] = c]) = Len(ws)
  BY ExceptSeq
<1>2. \A j \in 1 .. Len(ws) : [ws EXCEPT ![i] = c][j] = IF j = i THEN c ELSE ws[j]
  OBVIOUS
<1> QED BY <1>1, <1>2 DEF SameSizes

LEMMA StartedIs ==
  ASSUME WriterInv, left >= 0, NEW z \in Nat
  PROVE  /\ Started(z) \in Seq(Call) /\ Len(Started(z)) = Len(written) /\ SameSizes(written, Started(z))
         /\ LET ws == [Started(z) EXCEPT ![Record].ok = TRUE]
            IN  ws \in Seq(Call) /\ Len(ws) = Len(written) /\ SameSizes(written, ws)
<1>1. written \in Seq(Call) /\ Record \in 1 .. Len(written) /\ file \in Seq(Cells) /\ Len(file) \in Nat
  BY DEF WriterInv, Record, Call
<1> DEFINE a == [written[Record] EXCEPT !.at = Len(file) + z + 1]
           ws == [Started(z) EXCEPT ![Record].ok = TRUE]
           b == [Started(z)[Record] EXCEPT !.ok = TRUE]
<1>2. written[Record] \in Call
  BY <1>1, ElementOfSeq
<1>3. a \in Call /\ a.size = written[Record].size
  <2> DEFINE at == Len(file) + z + 1
  <2>1. at \in Nat
    BY <1>1
  <2> HIDE DEF at
  <2>2. [written[Record] EXCEPT !.at = at] \in Call
        /\ [written[Record] EXCEPT !.at = at].size = written[Record].size
    BY <1>2, <2>1 DEF Call
  <2> QED BY <2>2 DEF at
<1>4. Started(z) \in Seq(Call) /\ Len(Started(z)) = Len(written) /\ SameSizes(written, Started(z))
  <2>1. CASE begin
    <3>1. Started(z) = [written EXCEPT ![Record] = a]
      BY <2>1 DEF Started
    <3> HIDE DEF a
    <3>2. /\ [written EXCEPT ![Record] = a] \in Seq(Call) /\ Len([written EXCEPT ![Record] = a]) = Len(written)
          /\ SameSizes(written, [written EXCEPT ![Record] = a])
      BY <1>1, <1>3, MarkedCalls
    <3> QED BY <3>1, <3>2
  <2>2. CASE ~begin
    BY <1>1, <2>2 DEF Started, SameSizes
  <2> QED BY <2>1, <2>2
<1> HIDE DEF a
<1>5. Started(z)[Record] \in Call /\ Record \in 1 .. Len(Started(z))
  BY <1>1, <1>4, ElementOfSeq
<1>6. b \in Call /\ b.size = Started(z)[Record].size
  BY <1>5 DEF Call
<1>7. ws = [Started(z) EXCEPT ![Record] = b]
  OBVIOUS
<1> HIDE DEF b, ws
<1>8. ws \in Seq(Call) /\ Len(ws) = Len(Started(z)) /\ SameSizes(Started(z), ws)
  BY <1>4, <1>5, <1>6, <1>7, MarkedCalls
<1>9. SameSizes(written, ws)
  BY <1>1, <1>4, <1>8 DEF SameSizes
<1> QED BY <1>4, <1>8, <1>9 DEF ws

LEMMA EmittedIs ==
  ASSUME LogConstants, WriterInv, left >= 0
  PROVE  /\ Len(Turn.pad) \in Nat
         /\ \A y \in 0 .. Len(Turn.pad) : y \in Nat /\ Emitted(Turn, y) \in Seq(Cells)
<1>1. /\ left \in Nat /\ block_offset_ \in 0 .. kBlockSize /\ begin \in BOOLEAN /\ (~begin => left > 0)
      /\ written \in Seq(Call) /\ Record \in 1 .. Len(written) /\ left <= written[Record].size
  BY DEF WriterInv, Record, Call
<1>2. PICK z \in 0 .. 2 : Turn.pad = Zeros(z) /\ Turn.n \in 0 .. left /\ Turn.type \in Types
  BY <1>1, TurnIs
<1>3. written[Record] \in Call
  BY <1>1, ElementOfSeq
<1>4. written[Record].size - left \in Nat /\ Turn.n \in Nat /\ z \in Nat /\ Record \in Nat
  BY <1>1, <1>2, <1>3 DEF Call
<1>5. Payload(Record, written[Record].size - left, Turn.n) \in Seq(Cells)
  BY <1>4, PayloadIs
<1> DEFINE p == Payload(Record, written[Record].size - left, Turn.n)
           h == <<Crc(Type(Turn.type), p), Length(Turn.n), Type(Turn.type)>>
<1>6. h \in Seq(Cells)
  <2>1. Crc(Type(Turn.type), p) \in Cells /\ Length(Turn.n) \in Cells /\ Type(Turn.type) \in Cells
    BY <1>2, <1>4, CellsAre DEF Types, kFullType, kFirstType, kLastType, kMiddleType
  <2> HIDE DEF p
  <2> QED BY <2>1
<1>7. EmitPhysicalRecord(Turn.type, Turn.n) = h \o p
  BY DEF EmitPhysicalRecord
<1> HIDE DEF h, p
<1>8. h \o p \in Seq(Cells)
  BY <1>5, <1>6, ConcatCells DEF p
<1>9. Len(Turn.pad) = z /\ \A y \in 0 .. z : y \in Nat /\ SubSeq(Turn.pad, 1, y) \in Seq(Cells)
  <2>1. Len(Turn.pad) = z /\ \A y \in 0 .. z : SubSeq(Turn.pad, 1, y) = Zeros(y)
    BY <1>2, <1>4, ZerosCut
  <2>2. \A y \in 0 .. z : y \in Nat /\ Zeros(y) \in Seq(Cells)
    BY <1>4, ZerosCut
  <2> QED BY <2>1, <2>2
<1>10. \A y \in 0 .. z : SubSeq(Turn.pad, 1, y) \o (h \o p) \in Seq(Cells)
  BY <1>8, <1>9, ConcatCells
<1> QED BY <1>4, <1>7, <1>9, <1>10 DEF Emitted

\* While the log is written nothing has been returned.
LEMMA WritingStep ==
  ASSUME LogInv, pc = "write", pc' = "write", out' = out, WriterInv'
  PROVE  LogInv'
BY DEF LogInv, OutOK, OnlyGenuineRecords, ReaderInv

LEMMA BeginStep ==
  ASSUME LogConstants, LogInv, NEW n \in Lengths, BeginRecord(n)
  PROVE  LogInv'
<1>1. /\ pc = "write" /\ pc' = "write" /\ out' = out /\ file' = file /\ block_offset_' = block_offset_
      /\ damaged = 0 /\ damaged' = 0 /\ left' = n /\ begin' = TRUE
      /\ written' = Append(written, [size |-> n, at |-> 0, ok |-> FALSE])
  BY DEF BeginRecord
<1>2. WriterInv /\ file \in Seq(Cells) /\ written \in Seq(Call) /\ n \in Nat
  BY DEF LogInv, WriterInv, LogConstants, Call
<1>3. [size |-> n, at |-> 0, ok |-> FALSE] \in Call
  BY <1>2 DEF Call
<1>4. /\ written' \in Seq(Call) /\ Len(written') = Len(written) + 1
      /\ \A i \in 1 .. Len(written) : written'[i] = written[i]
      /\ written'[Len(written) + 1] = [size |-> n, at |-> 0, ok |-> FALSE]
  BY <1>1, <1>2, <1>3, AppendProperties
<1>5. SameSizes(written, written') /\ Len(written) \in Nat /\ Len(written') \in Nat
  BY <1>2, <1>4 DEF SameSizes
<1>6. Layout(file, written')
  <2>1. Layout(file, written) /\ Len(file) \in Nat
    BY <1>2 DEF WriterInv
  <2> QED BY <1>2, <1>5, <2>1, LayoutKept
<1>7. WriterInv'
  <2>1. Record' = Len(written) + 1 /\ written'[Record'].size = n
    BY <1>4 DEF Record
  <2>2. Layout(file', written')
    BY <1>1, <1>6
  <2>3. left' >= 0 => Len(written') >= 1 /\ left' <= written'[Record'].size
    BY <1>1, <1>2, <1>4, <1>5, <2>1
  <2> QED BY <1>1, <1>2, <1>4, <2>1, <2>2, <2>3 DEF WriterInv, Call
<1> QED BY <1>1, <1>7, WritingStep

LEMMA FragmentedStep ==
  ASSUME LogConstants, LogInv, NEW z \in 0 .. Len(Turn.pad), Fragmented(Turn, z)
  PROVE  LogInv'
<1> DEFINE f == Turn
<1>1. /\ pc = "write" /\ pc' = "write" /\ out' = out /\ left >= 0
      /\ file' = file \o Emitted(f, z)
      /\ block_offset_' = f.from + kHeaderSize + f.n
      /\ left' = (IF left = f.n THEN -1 ELSE left - f.n) /\ begin' = FALSE
      /\ written' = (IF left = f.n THEN [Started(z) EXCEPT ![Record].ok = TRUE] ELSE Started(z))
      /\ damaged' = damaged
  BY DEF Fragmented
<1>2. WriterInv
  BY DEF LogInv
<1>3. z \in Nat /\ Emitted(f, z) \in Seq(Cells)
  BY <1>1, <1>2, EmittedIs
<1>4. file' = file \o SubSeq(Emitted(f, z), 1, Len(Emitted(f, z))) /\ Len(Emitted(f, z)) \in 0 .. Len(Emitted(f, z))
  <2>1. SubSeq(Emitted(f, z), 1, Len(Emitted(f, z))) = Emitted(f, z)
    BY <1>3, SubSeqFull
  <2>2. Len(Emitted(f, z)) \in Nat
    BY <1>3
  <2> QED BY <1>1, <2>1, <2>2
<1>5. written' \in Seq(Call) /\ Len(written') = Len(written) /\ SameSizes(written, written')
  <2> HIDE DEF f
  <2> QED BY <1>1, <1>2, <1>3, StartedIs
<1>6. /\ file' \in Seq(Cells) /\ Layout(file', written')
      /\ f.n \in 0 .. left /\ f.from + kHeaderSize + f.n \in 0 .. kBlockSize
      /\ f.n < left => f.from + kHeaderSize + f.n = kBlockSize
      /\ f.n < left => Follows(file', Len(file') + 1, Record, written[Record].size - (left - f.n))
  BY <1>1, <1>2, <1>4, <1>5, EmitStep
<1> HIDE DEF f
<1>7. /\ left \in Nat /\ Record \in 1 .. Len(written) /\ Record' = Record
      /\ written'[Record].size = written[Record].size /\ written[Record].size \in Nat
      /\ left <= written[Record].size /\ (damaged # 0 => left = -1)
  <2>1. left \in Nat /\ Record \in 1 .. Len(written) /\ written \in Seq(Call) /\ left <= written[Record].size
    BY <1>1, <1>2 DEF WriterInv, Record, Call
  <2>2. written[Record] \in Call
    BY <2>1, ElementOfSeq
  <2> QED BY <1>2, <1>5, <2>1, <2>2 DEF SameSizes, Record, Call, WriterInv
<1>8. WriterInv'
  <2>0. /\ file' \in Seq(Cells) /\ Layout(file', written') /\ block_offset_' \in 0 .. kBlockSize
        /\ begin' = FALSE /\ written' \in Seq([size : Nat, at : Nat, ok : BOOLEAN]) /\ damaged' = 0
    <3>1. damaged' = 0
      BY <1>1, <1>7
    <3> QED BY <1>1, <1>5, <1>6, <3>1 DEF Call
  <2>1. CASE left = f.n
    <3>0. left' = -1
      BY <1>1, <2>1
    <3>1. left' \in Nat \cup {-1} /\ ~(left' >= 0)
      BY ONLY <3>0
    <3>3. begin' \in BOOLEAN
      BY <2>0, Zenon
    <3>2. ~(left >= 0)'
      BY <3>1
    <3> QED BY <2>0, <3>0, <3>1, <3>2, <3>3, Zenon DEF WriterInv
  <2>2. CASE left # f.n
    <3>1. f.n < left /\ left' = left - f.n /\ left' > 0 /\ left' \in Nat /\ left' <= written[Record].size
      <4>1. left' = left - f.n
        BY <1>1, <2>2, Zenon
      <4>2. f.n < left /\ left - f.n > 0 /\ left - f.n \in Nat /\ left - f.n <= written[Record].size
        BY ONLY <1>6, <1>7, <2>2, RestLeft
      <4> QED BY ONLY <4>1, <4>2
    <3>2. /\ block_offset_' = kBlockSize
          /\ Follows(file', Len(file') + 1, Record', written'[Record'].size - left')
      BY <1>1, <1>6, <1>7, <3>1
    <3>3. Len(written') >= 1 /\ left' <= written'[Record'].size
      BY <1>5, <1>7, <3>1
    <3> QED BY <2>0, <3>1, <3>2, <3>3 DEF WriterInv
  <2> QED BY <2>1, <2>2
<1> QED BY <1>1, <1>8, WritingStep
\* Between two calls of AddRecord.
LEMMA IdleWriter ==
  ASSUME file' \in Seq(Cells), Layout(file', written'), block_offset_' \in 0 .. kBlockSize, left' = -1,
         begin' \in BOOLEAN, written' \in Seq(Call)
  PROVE  WriterInv'
<1>1. left' \in Nat \cup {-1} /\ ~(left' >= 0)
  BY ONLY left' = -1
<1>2. ~(left >= 0)'
  BY <1>1
<1> QED BY <1>1, <1>2, Zenon DEF WriterInv, Call

LEMMA WriteFragmentStep ==
  ASSUME LogConstants, LogInv, WriteFragment \/ TrailerFails
  PROVE  LogInv'
<1>1. LogInv => WriterInv
  BY DEF LogInv
<1>2. left >= 0
  BY DEF WriteFragment, TrailerFails, Fragmented
<1>3. Len(Turn.pad) \in Nat
  BY <1>1, <1>2, EmittedIs
<1>4. PICK z \in 0 .. Len(Turn.pad) : Fragmented(Turn, z)
  BY <1>3 DEF WriteFragment, TrailerFails, AddRecord
<1> QED BY <1>4, FragmentedStep

LEMMA WriteFailsStep ==
  ASSUME LogConstants, LogInv, WriteFails
  PROVE  LogInv'
<1>1. PICK z \in 0 .. Len(Turn.pad) : \E k \in z .. Len(Emitted(Turn, z)) :
        file' = file \o SubSeq(Emitted(Turn, z), 1, k) /\ written' = Started(z)
  BY DEF WriteFails, AddRecord
<1>2. PICK k \in z .. Len(Emitted(Turn, z)) :
        file' = file \o SubSeq(Emitted(Turn, z), 1, k) /\ written' = Started(z)
  BY <1>1
<1>3. /\ pc = "write" /\ pc' = "write" /\ out' = out /\ left >= 0
      /\ block_offset_' = Turn.from + kHeaderSize + Turn.n
      /\ left' = -1 /\ begin' = FALSE
  BY DEF WriteFails, AddRecord
<1>4. WriterInv
  BY DEF LogInv
<1>5. z \in Nat /\ Emitted(Turn, z) \in Seq(Cells)
  BY <1>3, <1>4, EmittedIs
<1>6. written' \in Seq(Call) /\ Len(written') = Len(written) /\ SameSizes(written, written')
  BY <1>2, <1>3, <1>4, <1>5, StartedIs
<1>7. k \in 0 .. Len(Emitted(Turn, z))
  BY <1>5
<1>8. file' \in Seq(Cells) /\ Layout(file', written') /\ block_offset_' \in 0 .. kBlockSize
  BY <1>2, <1>3, <1>4, <1>6, <1>7, EmitStep
<1>9. WriterInv'
  <2>1. begin' \in BOOLEAN
    BY <1>3, Zenon
  <2> QED BY <1>3, <1>6, <1>8, <2>1, IdleWriter
<1> QED BY <1>3, <1>9, WritingStep

LEMMA StopStep ==
  ASSUME LogConstants, LogInv, Stop
  PROVE  LogInv'
<1> DEFINE Kept(i, n) == written[i].ok /\ written[i].at + kHeaderSize - 1 <= n
                           /\ \A c \in 1 .. written[i].size : \E j \in 1 .. n : file[j] = Data(i, c)
<1>1. PICK n \in 0 .. Len(file) :
        /\ file' = SubSeq(file, 1, n) /\ block_offset_' = n % kBlockSize
        /\ written' = [i \in 1 .. Len(written) |-> [written[i] EXCEPT !.ok = Kept(i, n)]]
  BY DEF Stop
<1>2. pc = "write" /\ pc' = "write" /\ out' = out /\ left' = -1 /\ begin' = FALSE
  BY DEF Stop
<1>3. WriterInv /\ file \in Seq(Cells) /\ Layout(file, written) /\ written \in Seq(Call)
  BY DEF LogInv, WriterInv, Call
<1>4. \A i \in 1 .. Len(written) : Kept(i, n) \in BOOLEAN
  BY Zenon
<1> HIDE DEF Kept
<1>5. \A i \in 1 .. Len(written) :
        /\ [written[i] EXCEPT !.ok = Kept(i, n)] \in Call
        /\ [written[i] EXCEPT !.ok = Kept(i, n)].size = written[i].size
  <2> TAKE i \in 1 .. Len(written)
  <2>1. written[i] \in Call
    BY <1>3, ElementOfSeq
  <2> QED BY <1>4, <2>1 DEF Call
<1>6. written' \in Seq(Call) /\ Len(written') = Len(written) /\ SameSizes(written, written')
  <2>1. written' \in Seq(Call) /\ Len(written') = Len(written)
    <3> DEFINE g(i) == [written[i] EXCEPT !.ok = Kept(i, n)]
               m == Len(written)
    <3>1. written' = [i \in 1 .. m |-> g(i)]
      BY <1>1
    <3>2. m \in Nat /\ \A i \in 1 .. m : g(i) \in Call
      BY <1>3, <1>5
    <3> HIDE DEF g, m
    <3>3. written' \in Seq(Call) /\ Len(written') = m
      BY ONLY <3>1, <3>2
    <3> QED BY <3>3 DEF m
  <2>2. \A i \in 1 .. Len(written) : written'[i].size = written[i].size
    BY <1>1, <1>5
  <2> QED BY <1>3, <2>1, <2>2 DEF SameSizes
<1>7. /\ file' \in Seq(Cells) /\ Len(file') = n /\ n \in Nat /\ n <= Len(file)
      /\ \A j \in 1 .. n : file'[j] = file[j]
  BY <1>1, <1>3
<1>8. Layout(file', written')
  <2>1. Len(written) \in Nat /\ Len(written') \in Nat /\ n <= Len(file')
    BY <1>3, <1>6, <1>7
  <2>2. \A q \in 1 .. Len(file') : ~(q > n)
    BY <1>7
  <2> QED BY <1>3, <1>6, <1>7, <2>1, <2>2, LayoutKept
<1>9. block_offset_' \in 0 .. kBlockSize
  <2>1. n \in Int /\ kBlockSize \in Nat /\ kBlockSize > 0
    BY <1>7 DEF LogConstants, kHeaderSize
  <2>2. n % kBlockSize \in 0 .. kBlockSize - 1
    BY <2>1
  <2> QED BY <1>1, <2>1, <2>2
<1>10. WriterInv'
  <2>1. begin' \in BOOLEAN
    BY <1>2, Zenon
  <2> QED BY <1>2, <1>6, <1>8, <1>7, <1>9, <2>1, IdleWriter
<1> QED BY <1>2, <1>10, WritingStep

\* A damaged length stays a length and a damaged type a type; nothing else is sound again.
LEMMA DamageKind ==
  ASSUME LogConstants, NEW cell \in Cells, NEW c \in Damages(cell)
  PROVE  /\ c \in Cells /\ c.k # "crc"
         /\ c.k = "type" <=> cell.k = "type"
         /\ c.k = "len" <=> cell.k = "len"
         /\ cell.k \in {"crc", "garbage"} => c.k = "garbage"
<1>1. CASE cell.k = "len"
  <2>1. PICK n \in 0 .. kBlockSize : c = Length(n)
    BY <1>1 DEF Damages
  <2>2. n \in Nat
    BY DEF LogConstants
  <2> QED BY <1>1, <2>1, <2>2, CellsAre, Kinds
<1>2. CASE cell.k = "type"
  <2>1. PICK t \in 0 .. 5 : c = Type(t)
    BY <1>2 DEF Damages
  <2> QED BY <1>2, <2>1, CellsAre, Kinds
<1>3. CASE cell.k # "len" /\ cell.k # "type"
  <2>1. c = Unreadable
    BY <1>3 DEF Damages
  <2> QED BY <1>3, <2>1, CellsAre, Kinds
<1> QED BY <1>1, <1>2, <1>3

LEMMA DamageStep ==
  ASSUME LogConstants, LogInv, Damage
  PROVE  LogInv'
<1>0. PICK j \in 1 .. Len(file) : \E c \in Damages(file[j]) : file' = [file EXCEPT ![j] = c]
  BY DEF Damage
<1>1. PICK c \in Damages(file[j]) : file' = [file EXCEPT ![j] = c]
  BY <1>0
<1>2. /\ pc = "write" /\ pc' = "write" /\ out' = out /\ left = -1 /\ left' = -1 /\ begin' = begin
      /\ block_offset_' = block_offset_ /\ written' = written
  BY DEF Damage
<1>3. /\ WriterInv /\ file \in Seq(Cells) /\ Layout(file, written) /\ written \in Seq(Call)
      /\ begin \in BOOLEAN /\ block_offset_ \in 0 .. kBlockSize
  BY DEF LogInv, WriterInv, Call
<1>4. /\ c \in Cells /\ c.k # "crc"
      /\ c.k = "type" <=> file[j].k = "type"
      /\ c.k = "len" <=> file[j].k = "len"
      /\ file[j].k \in {"crc", "garbage"} => c.k = "garbage"
  <2>1. file[j] \in Cells
    BY <1>3, ElementOfSeq
  <2> QED BY <1>1, <2>1, DamageKind
<1>5. file' \in Seq(Cells) /\ Len(file') = Len(file)
  BY <1>1, <1>3, <1>4, ExceptSeq
<1>6. \A q \in 1 .. Len(file) : file'[q] = IF q = j THEN c ELSE file[q]
  BY <1>1, <1>3
<1>7. \A q \in 1 .. Len(file) :
        /\ file'[q].k = "crc" => file'[q] = file[q]
        /\ file'[q].k = "type" <=> file[q].k = "type"
        /\ file'[q].k = "len" <=> file[q].k = "len"
        /\ file'[q] = file[q] \/ (file[q].k \in {"crc", "garbage"} => file'[q].k = "garbage")
  BY <1>4, <1>6
<1>8. ASSUME NEW q, NEW i, NEW from, Follows(file, q, i, from) PROVE Follows(file', q, i, from)
  <2>1. PICK q0 \in 1 .. Len(file), from0 \in Nat, n0 \in Nat, t0 \in {kFirstType, kMiddleType} :
        /\ q0 + kHeaderSize + n0 = q /\ from0 + n0 = from
        /\ file[q0].k = "garbage" \/ Fragment(file[q0], t0, i, from0, n0)
        /\ \A m \in 1 .. Len(file) : q0 < m /\ m < q => file[m].k # "crc"
    BY <1>8 DEF Follows
  <2>2. file[q0].k \in {"crc", "garbage"}
    BY <2>1, Kinds DEF Fragment
  <2>3. file'[q0].k = "garbage" \/ Fragment(file'[q0], t0, i, from0, n0)
    BY <1>7, <2>1, <2>2
  <2>4. \A m \in 1 .. Len(file') : q0 < m /\ m < q => file'[m].k # "crc"
    BY <1>5, <1>7, <2>1
  <2> QED BY <1>5, <2>1, <2>3, <2>4 DEF Follows
<1>9. Layout(file', written')
  <2>1. ASSUME NEW q \in 1 .. Len(file'), file'[q].k = "crc" PROVE Genuine(file', written', q)
    <3>1. q \in 1 .. Len(file) /\ file'[q] = file[q] /\ file[q].k = "crc"
      BY <1>5, <1>7, <2>1
    <3>2. Genuine(file, written, q)
      BY <1>3, <3>1 DEF Layout
    <3> QED BY <1>2, <1>8, <3>1, <3>2 DEF Genuine
  <2>2. ASSUME NEW m \in 1 .. Len(file'), file'[m].k = "type" PROVE m > 2 /\ file'[m - 1].k = "len"
    <3>1. m \in 1 .. Len(file) /\ file[m].k = "type"
      BY <1>5, <1>7, <2>2
    <3>2. m > 2 /\ file[m - 1].k = "len"
      BY <1>3, <3>1 DEF Layout
    <3>3. m - 1 \in 1 .. Len(file)
      BY <1>3, <3>1, <3>2
    <3> QED BY <1>7, <3>2, <3>3
  <2> QED BY <2>1, <2>2 DEF Layout
<1>10. WriterInv'
  <2>1. begin' \in BOOLEAN /\ written' \in Seq(Call) /\ block_offset_' \in 0 .. kBlockSize
    BY <1>2, <1>3
  <2> QED BY <1>2, <1>5, <1>9, <2>1, IdleWriter
<1> QED BY <1>2, <1>10, WritingStep
--------------------------------------------------------------------------------
(* The reader *)

\* While the log is read the file stays as it is.
LEMMA ReadingStep ==
  ASSUME LogInv, UNCHANGED writer, pc' \in {"read", "done", "failed"}, OutOK', ReaderInv'
  PROVE  LogInv'
<1>1. /\ file' = file /\ block_offset_' = block_offset_ /\ left' = left /\ begin' = begin
      /\ written' = written /\ damaged' = damaged
  BY DEF writer
<1>2. WriterInv'
  BY <1>1 DEF LogInv, WriterInv, Record
<1> QED BY <1>2 DEF LogInv

LEMMA OutKept ==
  ASSUME LogInv, UNCHANGED writer, out' = out
  PROVE  OutOK'
BY DEF LogInv, OutOK, OnlyGenuineRecords, writer, Content

LEMMA ReaderStep ==
  ASSUME LogConstants, LogInv, NEW offset \in 0 .. Len(file), Reader(offset)
  PROVE  LogInv'
<1> DEFINE skip == SkipToInitialBlock(offset)
<1>1. /\ pc = "write" /\ pc' = "read" /\ UNCHANGED writer /\ out' = out
      /\ r' = [end |-> skip, buffer |-> << >>, eof |-> FALSE,
               initial |-> offset, resyncing |-> offset > 0,
               scratch |-> << >>, in_fragment |-> FALSE, at |-> 0]
  BY DEF Reader, NewReader
<1>2. offset \in Nat
  BY DEF LogInv, WriterInv
<1>3. skip \in Nat
  <2>1. kBlockSize \in Nat /\ kBlockSize > 0
    BY DEF LogConstants, kHeaderSize
  <2>2. offset % kBlockSize \in 0 .. kBlockSize - 1 /\ offset = kBlockSize * (offset \div kBlockSize) + (offset % kBlockSize)
        /\ offset \div kBlockSize \in Nat
    BY <1>2, <2>1
  <2>3. offset - (offset % kBlockSize) \in Nat
    BY <1>2, <2>1, <2>2
  <2> QED BY <2>1, <2>3 DEF SkipToInitialBlock
<1> HIDE DEF skip
<1>4. out = << >>
  BY <1>1 DEF LogInv
<1>5. (offset > 0) \in BOOLEAN
  BY <1>2
<1>6. ReaderTypeOK'
  <2>1. /\ r'.end = skip /\ r'.buffer = << >> /\ r'.in_fragment = FALSE
        /\ r' \in [end : Nat, buffer : Seq(Cells), eof : BOOLEAN, initial : Nat, resyncing : BOOLEAN,
                   scratch : Seq(Cells), in_fragment : BOOLEAN, at : Int]
    BY <1>1, <1>2, <1>3, <1>5
  <2>2. Len(r'.buffer) = 0
    BY <2>1
  <2> QED BY <1>3, <2>1, <2>2 DEF ReaderTypeOK
<1>7. ReaderInv'
  <2>1. ~r'.in_fragment /\ DOMAIN out' = {}
    BY <1>1, <1>4
  <2> QED BY <1>6, <2>1 DEF ReaderInv
<1> QED BY <1>1, <1>7, OutKept, ReadingStep

\* What is behind the first a cells of f.
LEMMA PartOf ==
  ASSUME NEW f \in Seq(Cells), NEW a \in Nat, NEW m \in Nat, m <= Len(f)
  PROVE  /\ SubSeq(f, a + 1, m) \in Seq(Cells)
         /\ Len(SubSeq(f, a + 1, m)) = IF a < m THEN m - a ELSE 0
         /\ \A j \in 1 .. Len(SubSeq(f, a + 1, m)) : SubSeq(f, a + 1, m)[j] = f[a + j]
<1> DEFINE s == SubSeq(f, a + 1, m)
<1>1. a + 1 \in Int /\ m \in Int /\ \A i \in a + 1 .. m : f[i] \in Cells
  BY ElementOfSeq
<1>2. /\ s \in Seq(Cells) /\ Len(s) = (IF a + 1 <= m THEN m - (a + 1) + 1 ELSE 0)
      /\ \A i \in 1 .. m - (a + 1) + 1 : s[i] = f[(a + 1) + i - 1]
  BY <1>1, SubSeqProperties
<1> HIDE DEF s
<1>3. Len(s) = IF a < m THEN m - a ELSE 0
  BY <1>2
<1>4. \A j \in 1 .. Len(s) : s[j] = f[a + j]
  <2> TAKE j \in 1 .. Len(s)
  <2>1. j \in 1 .. m - (a + 1) + 1 /\ (a + 1) + j - 1 = a + j
    BY <1>3
  <2> QED BY <1>2, <2>1
<1> QED BY <1>2, <1>3, <1>4 DEF s

LEMMA MinOfTwo ==
  ASSUME NEW a \in Nat, NEW b \in Nat
  PROVE  Min({a, b}) = IF a <= b THEN a ELSE b
<1>1. PICK m \in {a, b} : \A y \in {a, b} : m <= y
  BY a <= b \/ b <= a
<1>2. Min({a, b}) \in {a, b} /\ \A y \in {a, b} : Min({a, b}) <= y
  BY <1>1 DEF Min
<1> HIDE DEF Min
<1> QED BY <1>2

LEMMA ReadBlockStep ==
  ASSUME LogConstants, LogInv, ReadBlock
  PROVE  LogInv'
<1> DEFINE m == Min({r.end + kBlockSize, Len(file)})
           b == SubSeq(file, r.end + 1, m)
<1>1. /\ pc = "read" /\ pc' = pc /\ Len(r.buffer) < kHeaderSize /\ ~r.eof /\ UNCHANGED writer /\ out' = out
      /\ r' = [r EXCEPT !.buffer = b, !.end = @ + Len(b), !.eof = Len(b) < kBlockSize]
  BY DEF ReadBlock, NextBlock
<1>2. ReaderTypeOK /\ ReaderInv /\ file \in Seq(Cells) /\ Len(file) \in Nat
  BY <1>1 DEF LogInv, ReaderInv, WriterInv
<1>3. /\ r \in [end : Nat, buffer : Seq(Cells), eof : BOOLEAN, initial : Nat, resyncing : BOOLEAN,
                scratch : Seq(Cells), in_fragment : BOOLEAN, at : Int]
      /\ r.end \in Nat /\ Len(r.buffer) \in Nat /\ Len(r.buffer) <= r.end /\ r.at \in Int
  BY <1>2 DEF ReaderTypeOK
<1>4. kBlockSize \in Nat /\ kBlockSize > 3 /\ kHeaderSize = 3
  BY DEF LogConstants, kHeaderSize
<1>5. m \in Nat /\ m <= Len(file)
  <2>1. r.end + kBlockSize \in Nat
    BY <1>3, <1>4
  <2> QED BY <1>2, <2>1, MinOfTwo
<1> HIDE DEF m
<1>6. /\ b \in Seq(Cells) /\ Len(b) \in Nat /\ (Len(b) > 0 => r.end + Len(b) <= Len(file))
      /\ \A j \in 1 .. Len(b) : b[j] = file[r.end + j]
  <2>1. /\ b \in Seq(Cells) /\ Len(b) = (IF r.end < m THEN m - r.end ELSE 0)
        /\ \A j \in 1 .. Len(b) : b[j] = file[r.end + j]
    BY <1>2, <1>3, <1>5, PartOf
  <2> HIDE DEF b
  <2> QED BY <1>2, <1>3, <1>5, <2>1
<1> HIDE DEF b
<1>7. /\ r'.buffer = b /\ r'.end = r.end + Len(b) /\ r'.eof = (Len(b) < kBlockSize)
      /\ r'.resyncing = r.resyncing /\ r'.in_fragment = r.in_fragment /\ r'.at = r.at /\ r'.scratch = r.scratch
      /\ r' \in [end : Nat, buffer : Seq(Cells), eof : BOOLEAN, initial : Nat, resyncing : BOOLEAN,
                 scratch : Seq(Cells), in_fragment : BOOLEAN, at : Int]
  <2>1. (Len(b) < kBlockSize) \in BOOLEAN /\ r.end + Len(b) \in Nat
    BY <1>3, <1>4, <1>6
  <2> QED BY <1>1, <1>3, <1>6, <2>1
<1>8. Consumed' = r.end /\ Consumed = r.end - Len(r.buffer) /\ Consumed <= Consumed' /\ Consumed \in Nat
  BY <1>3, <1>6, <1>7, SMTT(40) DEF Consumed
<1>9. file' = file
  BY <1>1 DEF writer
<1>10. ReaderTypeOK'
  <2>1. \A j \in 1 .. Len(r'.buffer) : Consumed' + j <= Len(file') /\ r'.buffer[j] = file'[Consumed' + j]
    BY <1>2, <1>3, <1>6, <1>7, <1>8, <1>9
  <2>2. Len(r'.buffer) <= r'.end
    BY <1>3, <1>6, <1>7
  <2> QED BY <1>7, <2>1, <2>2 DEF ReaderTypeOK
<1>11. r.in_fragment => Collecting' /\ ~r.resyncing /\ r.at < Consumed
  <2> SUFFICES ASSUME r.in_fragment PROVE Collecting' /\ ~r.resyncing /\ r.at < Consumed
    OBVIOUS
  <2>1. Collecting /\ ~r.resyncing /\ r.at < Consumed
    BY <1>1, <1>2 DEF ReaderInv
  <2>2. PICK q \in 1 .. Len(file), p \in Seq(Cells), t \in {kFirstType, kMiddleType} :
          /\ Taken(file, q, t, p)
          /\ LET end == q + kHeaderSize - 1 + Len(p) IN
             /\ end <= Consumed /\ Consumed < end + kHeaderSize
             /\ Consumed = end \/ Len(r.buffer) >= kHeaderSize \/ r.eof
          /\ \A i, from, n \in Nat : p = Payload(i, from, n) /\ (t = kFirstType => from = 0) /\ (t = kMiddleType => n > 0)
               => r.scratch = Payload(i, 0, from + n)
    BY <2>1 DEF Collecting
  <2> DEFINE end == q + kHeaderSize - 1 + Len(p)
  <2>3. end \in Nat
    BY <1>4
  <2>4. Consumed = end
    BY <1>1, <1>3, <1>4, <2>2
  <2> HIDE DEF end
  <2>5. end <= Consumed' /\ Consumed' < end + kHeaderSize
    BY <1>1, <1>3, <1>4, <1>8, <2>3, <2>4
  <2>6. Len(b) >= kHeaderSize \/ Len(b) < kBlockSize
    BY <1>4, <1>6
  <2>7. Len(r'.buffer) >= kHeaderSize \/ r'.eof
    BY <1>7, <2>6
  <2>8. Collecting'
    BY <1>7, <1>9, <2>2, <2>5, <2>7 DEF Collecting, end
  <2> QED BY <2>1, <2>8
<1>12. ReaderInv'
  <2>1. \A j \in DOMAIN out : out[j].at < Consumed /\ (r.in_fragment => out[j].at < r.at)
    BY <1>1, <1>2 DEF ReaderInv
  <2>2. out \in Seq([data : Seq(Cells), at : Int])
    BY DEF LogInv, OutOK
  <2>3. \A j \in DOMAIN out : out[j].at \in Int
    <3> TAKE j \in DOMAIN out
    <3>1. j \in 1 .. Len(out)
      BY <2>2
    <3>2. out[j] \in [data : Seq(Cells), at : Int]
      BY <2>2, <3>1, ElementOfSeq
    <3> QED BY <3>2
  <2>4. \A j \in DOMAIN out' : out'[j].at < Consumed' /\ (r'.in_fragment => out'[j].at < r'.at)
    BY <1>1, <1>3, <1>7, <1>8, <2>1, <2>3
  <2>5. r'.in_fragment => Collecting' /\ ~r'.resyncing /\ r'.at < Consumed'
    BY <1>3, <1>7, <1>8, <1>11
  <2> QED BY <1>10, <2>4, <2>5 DEF ReaderInv
<1> QED BY <1>1, <1>12, OutKept, ReadingStep
LEMMA EndStep ==
  ASSUME LogInv, EndOfFile \/ ReadError \/ Done \/ \E offset \in 0 .. Len(file) : SkipFails(offset)
  PROVE  LogInv'
<1>1. UNCHANGED writer /\ out' = out /\ pc' \in {"done", "failed"}
  BY DEF EndOfFile, ReadError, Done, SkipFails, NewReader, lgVars
<1> QED BY <1>1, OutKept, ReadingStep DEF ReaderInv

\* What ReadPhysicalRecord leaves of the buffer.
Rest(p) ==
  /\ p.rest \in Seq(Cells) /\ Len(p.rest) <= Len(r.buffer)
  /\ \A j \in 1 .. Len(p.rest) : p.rest[j] = r.buffer[Len(r.buffer) - Len(p.rest) + j]

\* A fragment is taken with its checksum; anything else is no fragment.
LEMMA ReadPhysicalRecordIs ==
  ASSUME LogConstants, LogInv, pc = "read", Len(r.buffer) >= kHeaderSize, NEW p \in ReadPhysicalRecord(r.buffer)
  PROVE  /\ Rest(p)
         /\ \/ p.type \in {kEof, kBadRecord}
            \/ /\ p.type \in Types /\ Taken(file, Consumed + 1, p.type, p.fragment)
               /\ Len(r.buffer) = kHeaderSize + Len(p.fragment) + Len(p.rest)
<1> DEFINE b == r.buffer
<1>1. /\ ReaderTypeOK /\ b \in Seq(Cells) /\ Len(b) \in Nat /\ Len(b) >= 3 /\ kHeaderSize = 3
      /\ Consumed \in Nat
      /\ \A j \in 1 .. Len(b) : Consumed + j <= Len(file) /\ b[j] = file[Consumed + j]
  <2>1. ReaderTypeOK
    BY DEF LogInv, ReaderInv
  <2>2. b \in Seq(Cells) /\ r.end \in Nat
    BY <2>1 DEF ReaderTypeOK
  <2>3. Len(b) \in Nat /\ Len(b) <= r.end
    BY <2>1, <2>2 DEF ReaderTypeOK
  <2> QED BY <2>1, <2>2, <2>3 DEF ReaderTypeOK, kHeaderSize, Consumed
<1>2. /\ file \in Seq(Cells) /\ Layout(file, written) /\ Len(file) \in Nat
  BY DEF LogInv, WriterInv
<1> DEFINE fragment(n) == SubSeq(b, kHeaderSize + 1, kHeaderSize + n)
           rest(n)     == SubSeq(b, kHeaderSize + n + 1, Len(b))
<1>3. PICK n \in Nat :
        \/ p.type \in {kEof, kBadRecord} /\ p.rest = << >>
        \/ /\ kHeaderSize + n <= Len(b)
           /\ \E t \in TypesOf(b[3]) :
                \/ p.type = kBadRecord /\ p.rest \in {<< >>, rest(n)}
                \/ p.type = t /\ p.rest = rest(n) /\ p.fragment = fragment(n) /\ b[1] = Crc(b[3], fragment(n))
  <2>1. \A x, y, z, u : LET q == Phys(x, y, z, u) IN q.type = x /\ q.fragment = y /\ q.drop = z /\ q.rest = u
    BY DEF Phys
  <2> DEFINE short == IF r.eof THEN Phys(kEof, << >>, -1, << >>) ELSE Phys(kBadRecord, << >>, Len(b), << >>)
             offset(n) == r.end - Len(rest(n)) - kHeaderSize - n
             good(n, t) == CASE t = kZeroType /\ n = 0 -> Phys(kBadRecord, << >>, -1, << >>)
                [] ~(t = kZeroType /\ n = 0) /\ b[1] # Crc(b[3], fragment(n)) -> Phys(kBadRecord, << >>, Len(b), << >>)
                [] OTHER -> IF offset(n) < r.initial THEN Phys(kBadRecord, << >>, -1, rest(n))
                                                  ELSE Phys(t, fragment(n), -1, rest(n))
  <2>2. PICK n \in LengthsOf(b[2]) :
          p \in IF kHeaderSize + n > Len(b) THEN {short} ELSE {good(n, t) : t \in TypesOf(b[3])}
    BY DEF ReadPhysicalRecord
  <2>3. n \in Nat
    <3>1. b[2] \in Cells
      BY <1>1, ElementOfSeq
    <3>2. kBlockSize \in Nat
      BY DEF LogConstants
    <3>3. b[2].k = "len" => b[2].n \in Nat
      BY <3>1, Kinds DEF Cells
    <3> QED BY <2>2, <3>2, <3>3 DEF LengthsOf
  <2>4. CASE kHeaderSize + n > Len(b)
    <3>1. p = short
      BY <2>2, <2>4
    <3>2. p.type \in {kEof, kBadRecord} /\ p.rest = << >>
      <4>1. CASE r.eof
        BY <2>1, <3>1, <4>1
      <4>2. CASE ~r.eof
        BY <2>1, <3>1, <4>2
      <4> QED BY <4>1, <4>2
    <3> QED BY <3>2
  <2>5. CASE ~(kHeaderSize + n > Len(b))
    <3>1. PICK t \in TypesOf(b[3]) : p = good(n, t)
      BY <2>2, <2>5
    <3>2. \/ p.type = kBadRecord /\ p.rest \in {<< >>, rest(n)}
          \/ p.type = t /\ p.rest = rest(n) /\ p.fragment = fragment(n) /\ b[1] = Crc(b[3], fragment(n))
      <4> HIDE DEF fragment, rest, offset
      <4>1. CASE t = kZeroType /\ n = 0
        <5>1. p = Phys(kBadRecord, << >>, -1, << >>)
          BY <3>1, <4>1
        <5> QED BY <2>1, <5>1
      <4>2. CASE ~(t = kZeroType /\ n = 0) /\ b[1] # Crc(b[3], fragment(n))
        <5>1. p = Phys(kBadRecord, << >>, Len(b), << >>)
          BY <3>1, <4>2
        <5> QED BY <2>1, <5>1
      <4>3. CASE ~(t = kZeroType /\ n = 0) /\ b[1] = Crc(b[3], fragment(n))
        <5>1. p = IF offset(n) < r.initial THEN Phys(kBadRecord, << >>, -1, rest(n))
                                           ELSE Phys(t, fragment(n), -1, rest(n))
          BY <3>1, <4>3
        <5>2. CASE offset(n) < r.initial
          BY <2>1, <5>1, <5>2
        <5>3. CASE ~(offset(n) < r.initial)
          BY <2>1, <4>3, <5>1, <5>3
        <5> QED BY <5>2, <5>3
      <4> QED BY <4>1, <4>2, <4>3
    <3>3. kHeaderSize + n <= Len(b)
      BY <1>1, <2>3, <2>5
    <3> HIDE DEF fragment, rest
    <3> QED BY <2>3, <3>2, <3>3
  <2> QED BY <2>4, <2>5
<1> HIDE DEF b
<1>4. \A m \in Nat : kHeaderSize + m <= Len(b) =>
        /\ rest(m) \in Seq(Cells) /\ Len(rest(m)) = Len(b) - 3 - m
        /\ \A j \in 1 .. Len(rest(m)) : rest(m)[j] = b[Len(b) - Len(rest(m)) + j]
        /\ fragment(m) \in Seq(Cells) /\ Len(fragment(m)) = m
        /\ \A j \in 1 .. m : fragment(m)[j] = b[3 + j]
  <2> TAKE m \in Nat
  <2> HAVE kHeaderSize + m <= Len(b)
  <2>1. /\ rest(m) \in Seq(Cells)
        /\ Len(rest(m)) = IF kHeaderSize + m < Len(b) THEN Len(b) - (kHeaderSize + m) ELSE 0
        /\ \A j \in 1 .. Len(rest(m)) : rest(m)[j] = b[kHeaderSize + m + j]
    <3>1. kHeaderSize + m \in Nat
      BY <1>1
    <3> QED BY <1>1, <3>1, PartOf, SMTT(40)
  <2>2. /\ fragment(m) \in Seq(Cells)
        /\ Len(fragment(m)) = IF kHeaderSize < kHeaderSize + m THEN kHeaderSize + m - kHeaderSize ELSE 0
        /\ \A j \in 1 .. Len(fragment(m)) : fragment(m)[j] = b[kHeaderSize + j]
    <3>1. kHeaderSize + m \in Nat /\ kHeaderSize \in Nat
      BY <1>1
    <3> QED BY <1>1, <3>1, PartOf
  <2> HIDE DEF rest, fragment
  <2>3. Len(rest(m)) = Len(b) - 3 - m /\ Len(fragment(m)) = m
    BY <1>1, <2>1, <2>2
  <2>4. \A j \in 1 .. Len(rest(m)) : rest(m)[j] = b[Len(b) - Len(rest(m)) + j]
    <3>1. Len(b) - Len(rest(m)) = kHeaderSize + m
      BY <1>1, <2>3
    <3> QED BY <2>1, <3>1
  <2> QED BY <1>1, <2>1, <2>2, <2>3, <2>4
<1> HIDE DEF rest, fragment
<1>5. p.rest \in {<< >>, rest(n)} /\ (p.rest = rest(n) => kHeaderSize + n <= Len(b) \/ p.rest = << >>)
  BY <1>3
<1>6. Rest(p)
  <2>1. CASE p.rest = << >>
    <3>1. p.rest \in Seq(Cells) /\ Len(p.rest) = 0
      BY <2>1
    <3> QED BY <1>1, <3>1 DEF Rest, b
  <2>2. CASE p.rest = rest(n) /\ kHeaderSize + n <= Len(b)
    <3>1. Len(rest(n)) <= Len(b)
      BY <1>1, <1>4, <2>2
    <3> QED BY <1>4, <2>2, <3>1 DEF Rest, b
  <2> QED BY <1>5, <2>1, <2>2
<1>7. ASSUME p.type \notin {kEof, kBadRecord}
      PROVE  /\ p.type \in Types /\ Taken(file, Consumed + 1, p.type, p.fragment)
             /\ Len(b) = kHeaderSize + Len(p.fragment) + Len(p.rest)
  <2>1. /\ kHeaderSize + n <= Len(b) /\ p.type \in TypesOf(b[3])
        /\ p.rest = rest(n) /\ p.fragment = fragment(n) /\ b[1] = Crc(b[3], fragment(n))
    BY <1>3, <1>7
  <2> DEFINE q == Consumed + 1
  <2>2. q \in 1 .. Len(file) /\ b[1] = file[q] /\ b[3] = file[q + 2] /\ q + 2 = Consumed + 3
    <3>1. 1 \in 1 .. Len(b) /\ 3 \in 1 .. Len(b)
      BY <1>1
    <3> QED BY <1>1, <1>2, <3>1
  <2> HIDE DEF q
  <2>3. Genuine(file, written, q)
    <3>1. file[q].k = "crc"
      <4>1. \A x, y : Crc(x, y).k = "crc"
        BY Kinds
      <4>2. file[q] = Crc(b[3], fragment(n))
        BY <2>1, <2>2
      <4> QED BY ONLY <4>1, <4>2
    <3> QED BY <1>2, <2>2, <3>1 DEF Layout
  <2>4. PICK t \in Types : \E x : file[q] = Crc(Type(t), x)
    BY <2>3 DEF Genuine, Fragment
  <2>5. b[3] = Type(t)
    <3>1. PICK x : Crc(b[3], fragment(n)) = Crc(Type(t), x)
      BY <2>1, <2>2, <2>4
    <3>2. <<b[3], fragment(n)>> = <<Type(t), x>>
      BY <3>1, Kinds
    <3> QED BY <3>2
  <2>6. p.type = t
    <3>1. TypesOf(b[3]) = {t}
      BY <2>5, Kinds DEF TypesOf
    <3> QED BY <2>1, <3>1
  <2>7. /\ p.fragment \in Seq(Cells) /\ Len(p.fragment) = n /\ Len(b) = kHeaderSize + n + Len(p.rest)
        /\ \A j \in 1 .. n : p.fragment[j] = b[3 + j]
    <3>1. /\ fragment(n) \in Seq(Cells) /\ Len(fragment(n)) = n /\ Len(rest(n)) = Len(b) - 3 - n
          /\ \A j \in 1 .. n : fragment(n)[j] = b[3 + j]
      BY <1>4, <2>1
    <3> QED BY <1>1, <2>1, <3>1
  <2>8. q + kHeaderSize - 1 + n <= Len(file)
    <3>1. CASE n = 0
      <4>1. 3 \in 1 .. Len(b) /\ Consumed + 3 <= Len(file)
        BY <1>1
      <4> QED BY <1>1, <2>2, <3>1, <4>1
    <3>2. CASE n > 0
      <4>1. 3 + n \in 1 .. Len(b)
        BY <1>1, <2>1
      <4>2. Consumed + (3 + n) <= Len(file)
        BY <1>1, <4>1
      <4> QED BY <1>1, <4>2 DEF q
    <3> QED BY <3>1, <3>2
  <2>9. \A j \in 1 .. n : file[q + 2 + j] = p.fragment[j]
    <3> TAKE j \in 1 .. n
    <3>1. 3 + j \in 1 .. Len(b) /\ Consumed + (3 + j) = q + 2 + j
      <4>1. n <= Len(b) - 3
        BY <1>1, <2>1
      <4> DEFINE l == Len(b)
                 c == Consumed
      <4>2. l \in Nat /\ c \in Nat /\ n <= l - 3 /\ q = c + 1
        BY <1>1, <4>1 DEF q
      <4> HIDE DEF l, c
      <4>3. 3 + j \in 1 .. l /\ c + (3 + j) = q + 2 + j
        BY ONLY <4>2, n \in Nat, j \in 1 .. n
      <4> QED BY <4>3 DEF l, c
    <3>2. b[3 + j] = file[Consumed + (3 + j)]
      BY <1>1, <3>1
    <3> QED BY <2>7, <3>1, <3>2
  <2>10. Taken(file, q, p.type, p.fragment)
    BY <2>1, <2>2, <2>5, <2>6, <2>7, <2>8, <2>9 DEF Taken
  <2> QED BY <2>6, <2>7, <2>10 DEF q
<1> QED BY <1>6, <1>7 DEF b
\* A fragment that is taken is one of a record that was written.
LEMMA TakenIs ==
  ASSUME LogInv, NEW q \in Nat \ {0}, NEW t \in Types, NEW p, Taken(file, q, t, p)
  PROVE  \E i \in 1 .. Len(written), from, n \in Nat :
           /\ p = Payload(i, from, n) /\ written[i].size \in Nat /\ from + n <= written[i].size
           /\ t \in {kFullType, kFirstType} => from = 0
           /\ t = kMiddleType => n > 0
           /\ t \in {kFullType, kLastType} => from + n = written[i].size
           /\ t \in {kMiddleType, kLastType} => Follows(file, q, i, from)
<1>1. /\ p \in Seq(Cells) /\ q + kHeaderSize - 1 + Len(p) <= Len(file) /\ file[q] = Crc(Type(t), p)
      /\ Layout(file, written) /\ written \in Seq(Call) /\ Len(file) \in Nat
  BY DEF Taken, LogInv, WriterInv, Call
<1>2. q \in 1 .. Len(file)
  <2>1. Len(p) \in Nat
    BY <1>1
  <2> QED BY <1>1, <2>1 DEF kHeaderSize
<1>3. Genuine(file, written, q)
  <2>1. file[q].k = "crc"
    BY <1>1, Kinds
  <2> QED BY <1>1, <1>2, <2>1 DEF Layout
<1>4. PICK i \in 1 .. Len(written), from \in Nat, n \in Nat, t2 \in Types :
        /\ Fragment(file[q], t2, i, from, n)
        /\ from + n <= written[i].size
        /\ t2 \in {kFullType, kLastType} => from + n = written[i].size
        /\ t2 \in {kMiddleType, kLastType} => Follows(file, q, i, from)
  BY <1>3 DEF Genuine
<1>5. t2 = t /\ p = Payload(i, from, n)
  <2>1. Crc(Type(t), p) = Crc(Type(t2), Payload(i, from, n))
    BY <1>1, <1>4 DEF Fragment
  <2> QED BY <2>1, CrcEqual
<1>6. written[i].size \in Nat
  <2>1. written[i] \in Call
    BY <1>1, ElementOfSeq
  <2> QED BY <2>1 DEF Call
<1> QED BY <1>4, <1>5, <1>6 DEF Fragment

\* A fragment that continues a record continues the one collected.
LEMMA ContinuesIs ==
  ASSUME LogInv, pc = "read", r.in_fragment, NEW t \in {kMiddleType, kLastType}, NEW p,
         Taken(file, Consumed + 1, t, p)
  PROVE  \E i \in 1 .. Len(written), from, n \in Nat :
           /\ p = Payload(i, from, n) /\ r.scratch = Payload(i, 0, from) /\ written[i].size \in Nat
           /\ t = kMiddleType => n > 0
           /\ t = kLastType => from + n = written[i].size
<1> DEFINE q == Consumed + 1
<1>1. Collecting /\ Consumed \in Nat /\ Layout(file, written) /\ Len(file) \in Nat
  <2>1. Collecting /\ ReaderTypeOK
    BY DEF LogInv, ReaderInv
  <2>2. r.end \in Nat /\ Len(r.buffer) \in Nat /\ Len(r.buffer) <= r.end
    BY <2>1 DEF ReaderTypeOK
  <2>3. Consumed \in Nat
    BY <2>2 DEF Consumed
  <2>4. Layout(file, written) /\ Len(file) \in Nat
    BY DEF LogInv, WriterInv
  <2> QED BY <2>1, <2>3, <2>4
<1>2. t \in Types /\ q \in Nat \ {0}
  BY <1>1 DEF Types
<1>3. PICK i \in 1 .. Len(written), from \in Nat, n \in Nat :
        /\ p = Payload(i, from, n) /\ written[i].size \in Nat
        /\ t = kMiddleType => n > 0
        /\ t \in {kFullType, kLastType} => from + n = written[i].size
        /\ Follows(file, q, i, from)
  BY <1>2, TakenIs
<1>4. PICK q0 \in 1 .. Len(file), p0 \in Seq(Cells), t0 \in {kFirstType, kMiddleType} :
        /\ Taken(file, q0, t0, p0)
        /\ LET end == q0 + kHeaderSize - 1 + Len(p0) IN
           /\ end <= Consumed /\ Consumed < end + kHeaderSize
           /\ Consumed = end \/ Len(r.buffer) >= kHeaderSize \/ r.eof
        /\ \A k, a, m \in Nat : p0 = Payload(k, a, m) /\ (t0 = kFirstType => a = 0) /\ (t0 = kMiddleType => m > 0)
             => r.scratch = Payload(k, 0, a + m)
  BY <1>1 DEF Collecting
<1>5. PICK q1 \in 1 .. Len(file), from1 \in Nat, n1 \in Nat, t1 \in {kFirstType, kMiddleType} :
        /\ q1 + kHeaderSize + n1 = q /\ from1 + n1 = from
        /\ file[q1].k = "garbage" \/ Fragment(file[q1], t1, i, from1, n1)
        /\ \A j \in 1 .. Len(file) : q1 < j /\ j < q => file[j].k # "crc"
  BY <1>3 DEF Follows
<1>6. Len(p0) \in Nat /\ kHeaderSize = 3
  BY DEF kHeaderSize
<1>7. q0 + 2 + Len(p0) < q /\ q <= q0 + 2 + Len(p0) + 3 /\ q1 + 3 <= q /\ q0 < q
  BY <1>1, <1>4, <1>5, <1>6
<1>8. /\ file[q0] = Crc(Type(t0), p0) /\ file[q0 + 2] = Type(t0)
      /\ \A j \in 1 .. Len(p0) : file[q0 + 2 + j] = p0[j]
      /\ q0 + 2 + Len(p0) <= Len(file)
  BY <1>4, <1>6 DEF Taken
<1>9. file[q0].k = "crc" /\ file[q0 + 1].k = "len" /\ file[q0 + 2].k = "type"
  <2>1. file[q0].k = "crc" /\ file[q0 + 2].k = "type"
    <3>1. \A x, y : Crc(x, y).k = "crc" /\ Type(x).k = "type"
      BY Kinds
    <3> QED BY <1>8, <3>1
  <2>2. q0 + 2 \in 1 .. Len(file) /\ (q0 + 2) - 1 = q0 + 1
    BY <1>6, <1>8
  <2> QED BY <1>1, <2>1, <2>2 DEF Layout
<1>10. q0 <= q1
  <2> SUFFICES ASSUME q1 < q0 PROVE FALSE
    OBVIOUS
  <2> QED BY <1>5, <1>7, <1>9
<1>11. file[q1].k \in {"garbage", "crc"}
  BY <1>5, Kinds DEF Fragment
<1>12. PICK i0 \in Nat, from0 \in Nat, n0 \in Nat :
         p0 = Payload(i0, from0, n0) /\ (t0 = kFirstType => from0 = 0) /\ (t0 = kMiddleType => n0 > 0)
  <2>1. t0 \in Types /\ q0 \in Nat \ {0}
    BY DEF Types
  <2>2. PICK i0 \in 1 .. Len(written), from0 \in Nat, n0 \in Nat :
         /\ p0 = Payload(i0, from0, n0)
         /\ t0 \in {kFullType, kFirstType} => from0 = 0
         /\ t0 = kMiddleType => n0 > 0
    BY <1>4, <2>1, TakenIs
  <2>3. i0 \in Nat
    OBVIOUS
  <2> QED BY <2>2, <2>3
<1>13. q1 = q0
  <2> SUFFICES ASSUME q0 < q1 PROVE FALSE
    BY <1>10
  <2>1. q1 # q0 + 1 /\ q1 # q0 + 2
    BY <1>9, <1>11
  <2>2. CASE q1 <= q0 + 2 + Len(p0)
    <3> DEFINE j == q1 - (q0 + 2)
    <3>1. j \in 1 .. Len(p0) /\ q1 = q0 + 2 + j
      BY <1>6, <2>1, <2>2
    <3> HIDE DEF j
    <3>2. p0[j].k = "data"
      <4>1. Len(p0) = n0 /\ \A c \in 1 .. n0 : p0[c] = Data(i0, from0 + c)
        BY <1>12, PayloadIs, ZenonT(40)
      <4>2. p0[j] = Data(i0, from0 + j)
        BY <3>1, <4>1
      <4> QED BY <4>2, Kinds
    <3>3. file[q1].k = "data"
      BY <1>8, <3>1, <3>2
    <3> QED BY <1>11, <3>3
  <2>3. CASE q1 > q0 + 2 + Len(p0)
    BY <1>1, <1>6, <1>7, <2>3
  <2> QED BY <1>6, <2>2, <2>3
<1>14. r.scratch = Payload(i, 0, from)
  <2>1. Fragment(file[q0], t1, i, from1, n1)
    BY <1>5, <1>9, <1>13
  <2>2. t0 = t1 /\ p0 = Payload(i, from1, n1)
    <3>1. Crc(Type(t0), p0) = Crc(Type(t1), Payload(i, from1, n1))
      BY <1>8, <2>1 DEF Fragment
    <3> QED BY <3>1, CrcEqual
  <2>3. i \in Nat /\ (t0 = kFirstType => from1 = 0) /\ (t0 = kMiddleType => n1 > 0)
    BY <2>1, <2>2 DEF Fragment
  <2>4. r.scratch = Payload(i, 0, from1 + n1)
    BY <1>4, <2>2, <2>3
  <2> QED BY <1>5, <2>4
<1> QED BY <1>3, <1>14
\* What ReadRecord's loop does with a physical record.
Base(p) == [r EXCEPT !.buffer = p.rest, !.resyncing = @ /\ p.type = kMiddleType]
Cleared(p) == [Base(p) EXCEPT !.scratch = << >>, !.in_fragment = FALSE]
Offset(p) == r.end - Len(p.rest) - kHeaderSize - Len(p.fragment)
Ignored(p) == out' = out /\ pc' = pc /\ (r' = Cleared(p) \/ (r' = Base(p) /\ (r.resyncing \/ ~r.in_fragment)))
Returning(p) ==
  /\ pc' = pc /\ r' = Cleared(p)
  /\ \/ p.type = kFullType /\ out' = Append(out, [data |-> p.fragment, at |-> Offset(p)])
     \/ p.type = kLastType /\ r.in_fragment /\ out' = Append(out, [data |-> r.scratch \o p.fragment, at |-> r.at])
Keeping(p) ==
  /\ out' = out /\ pc' = pc
  /\ \/ /\ p.type = kFirstType
        /\ r' = [Base(p) EXCEPT !.in_fragment = TRUE, !.at = Offset(p), !.scratch = << >> \o p.fragment]
     \/ /\ p.type = kMiddleType /\ r.in_fragment
        /\ r' = [Base(p) EXCEPT !.scratch = @ \o p.fragment]
LEMMA ReadRecordIs ==
  ASSUME NEW p, ReadRecord(p), p.type \in Types \cup {kEof, kBadRecord}
  PROVE  \/ p.type = kEof /\ out' = out /\ pc' = "done"
         \/ Ignored(p)
         \/ p.type \in Types /\ Returning(p)
         \/ p.type \in Types /\ Keeping(p)
<1> DEFINE skip     == r.resyncing /\ p.type \in {kMiddleType, kLastType}
           dropped(bytes) == ReportDrop(bytes, r.end - Len(p.rest), r.initial)
           report(bytes) == drops + dropped(bytes)
           partial  == IF r.in_fragment /\ r.scratch # << >> THEN report(Len(r.scratch)) ELSE drops
           full == /\ out' = Append(out, [data |-> p.fragment, at |-> Offset(p)]) /\ drops' = partial
                   /\ r' = Cleared(p) /\ UNCHANGED pc
           first == /\ r' = [Base(p) EXCEPT !.in_fragment = TRUE, !.at = Offset(p), !.scratch = << >> \o p.fragment]
                    /\ drops' = partial /\ UNCHANGED <<out, pc>>
           lonely == /\ r' = Base(p) /\ drops' = report(Len(p.fragment)) /\ UNCHANGED <<out, pc>>
           middle == r' = [Base(p) EXCEPT !.scratch = @ \o p.fragment] /\ UNCHANGED <<out, drops, pc>>
           last == /\ out' = Append(out, [data |-> r.scratch \o p.fragment, at |-> r.at])
                   /\ r' = Cleared(p) /\ UNCHANGED <<drops, pc>>
           eof == r' = Base(p) /\ pc' = "done" /\ drops' = report(p.drop) /\ UNCHANGED out
           bad == /\ r' = Cleared(p)
                  /\ drops' = report(p.drop) + dropped(IF r.in_fragment THEN Len(r.scratch) ELSE -1)
                  /\ UNCHANGED <<out, pc>>
           other == /\ r' = Cleared(p)
                    /\ drops' = report(Len(p.fragment) + (IF r.in_fragment THEN Len(r.scratch) ELSE 0))
                    /\ UNCHANGED <<out, pc>>
<1>1. (CASE skip -> r' = Base(p) /\ UNCHANGED <<out, drops, pc>>
        [] ~skip /\ p.type = kFullType -> full
        [] ~skip /\ p.type = kFirstType -> first
        [] ~skip /\ p.type \in {kMiddleType, kLastType} /\ ~r.in_fragment -> lonely
        [] ~skip /\ p.type = kMiddleType /\ r.in_fragment -> middle
        [] ~skip /\ p.type = kLastType /\ r.in_fragment -> last
        [] p.type = kEof -> eof
        [] p.type = kBadRecord -> bad
        [] OTHER -> other)
  BY DEF ReadRecord, Handle, Base, Cleared, Offset
<1>2. /\ kFullType # kFirstType /\ kFullType # kMiddleType /\ kFullType # kLastType
      /\ kFirstType # kMiddleType /\ kFirstType # kLastType /\ kMiddleType # kLastType
      /\ Types \cap {kEof, kBadRecord} = {} /\ kEof # kBadRecord
  BY DEF Types, kFullType, kFirstType, kMiddleType, kLastType, kEof, kBadRecord
<1> HIDE DEF full, first, lonely, middle, last, eof, bad, other
<1>3. CASE skip
  <2>1. r' = Base(p) /\ UNCHANGED <<out, drops, pc>>
    BY <1>1, <1>2, <1>3 DEF Types
  <2> QED BY <1>3, <2>1 DEF Ignored
<1>4. CASE ~skip /\ p.type = kFullType
  <2>1. full
    BY <1>1, <1>2, <1>4 DEF Types
  <2> QED BY <1>4, <2>1 DEF Returning, full, Types
<1>5. CASE ~skip /\ p.type = kFirstType
  <2>1. first
    BY <1>1, <1>2, <1>5 DEF Types
  <2> QED BY <1>5, <2>1 DEF Keeping, first, Types
<1>6. CASE ~skip /\ p.type \in {kMiddleType, kLastType} /\ ~r.in_fragment
  <2>1. lonely
    BY <1>1, <1>2, <1>6 DEF Types
  <2> QED BY <1>6, <2>1 DEF Ignored, lonely
<1>7. CASE ~skip /\ p.type = kMiddleType /\ r.in_fragment
  <2>1. middle
    BY <1>1, <1>2, <1>7 DEF Types
  <2> QED BY <1>7, <2>1 DEF Keeping, middle, Types
<1>8. CASE ~skip /\ p.type = kLastType /\ r.in_fragment
  <2>1. last
    BY <1>1, <1>2, <1>8 DEF Types
  <2> QED BY <1>8, <2>1 DEF Returning, last, Types
<1>9. CASE p.type = kEof
  <2>1. eof
    BY <1>1, <1>2, <1>9 DEF Types
  <2> QED BY <1>9, <2>1 DEF eof
<1>10. CASE p.type = kBadRecord
  <2>1. bad
    BY <1>1, <1>2, <1>10 DEF Types
  <2> QED BY <1>10, <2>1 DEF Ignored, bad
<1> QED BY <1>3, <1>4, <1>5, <1>6, <1>7, <1>8, <1>9, <1>10 DEF Types
ReaderFields == [end : Nat, buffer : Seq(Cells), eof : BOOLEAN, initial : Nat, resyncing : BOOLEAN,
                 scratch : Seq(Cells), in_fragment : BOOLEAN, at : Int]
LEMMA NextReader ==
  ASSUME ReaderTypeOK, file' = file, NEW p, Rest(p), r' \in ReaderFields, r'.end = r.end, r'.buffer = p.rest
  PROVE  /\ ReaderTypeOK' /\ Consumed \in Nat /\ Consumed' \in Nat
         /\ Consumed' = Consumed + (Len(r.buffer) - Len(p.rest)) /\ Consumed' >= Consumed
<1> DEFINE b == r.buffer
           s == p.rest
<1>1. /\ r.end \in Nat /\ b \in Seq(Cells) /\ Len(b) <= r.end
      /\ \A j \in 1 .. Len(b) : Consumed + j <= Len(file) /\ b[j] = file[Consumed + j]
  BY DEF ReaderTypeOK
<1>2. /\ s \in Seq(Cells) /\ Len(s) <= Len(b)
      /\ \A j \in 1 .. Len(s) : s[j] = b[Len(b) - Len(s) + j]
  BY DEF Rest
<1>3. Consumed = r.end - Len(b) /\ Consumed' = r.end - Len(s)
  BY DEF Consumed
<1> HIDE DEF b, s
<1>4. Len(b) \in Nat /\ Len(s) \in Nat
  BY <1>1, <1>2
<1>5. /\ Consumed \in Nat /\ Consumed' \in Nat
      /\ Consumed' = Consumed + (Len(b) - Len(s)) /\ Consumed' >= Consumed
  BY <1>1, <1>2, <1>3, <1>4
<1>6. \A j \in 1 .. Len(s) : Consumed' + j <= Len(file) /\ s[j] = file[Consumed' + j]
  <2> TAKE j \in 1 .. Len(s)
  <2>1. Len(b) - Len(s) + j \in 1 .. Len(b) /\ Consumed + (Len(b) - Len(s) + j) = Consumed' + j
    BY <1>2, <1>4, <1>5
  <2> QED BY <1>1, <1>2, <2>1
<1>7. Len(s) <= r.end
  BY <1>1, <1>2, <1>4
<1>8. ReaderTypeOK'
  BY <1>6, <1>7 DEF ReaderTypeOK, ReaderFields, s
<1> QED BY <1>5, <1>8 DEF b, s

LEMMA BaseIs ==
  ASSUME ReaderTypeOK, NEW p, Rest(p)
  PROVE  /\ Base(p) \in ReaderFields /\ Cleared(p) \in ReaderFields
         /\ Base(p).end = r.end /\ Base(p).buffer = p.rest /\ Base(p).in_fragment = r.in_fragment
         /\ Base(p).scratch = r.scratch /\ Base(p).at = r.at
         /\ Base(p).resyncing <=> r.resyncing /\ p.type = kMiddleType
         /\ Cleared(p).end = r.end /\ Cleared(p).buffer = p.rest /\ ~Cleared(p).in_fragment
<1>1. r \in ReaderFields /\ p.rest \in Seq(Cells) /\ << >> \in Seq(Cells)
  BY DEF ReaderTypeOK, ReaderFields, Rest
<1> DEFINE x == r.resyncing /\ p.type = kMiddleType
<1>2. x \in BOOLEAN
  BY Zenon
<1>3. Base(p) = [r EXCEPT !.buffer = p.rest, !.resyncing = x]
  BY DEF Base
<1> HIDE DEF x
<1>4. /\ Base(p) \in ReaderFields
      /\ Base(p).end = r.end /\ Base(p).buffer = p.rest /\ Base(p).in_fragment = r.in_fragment
      /\ Base(p).scratch = r.scratch /\ Base(p).at = r.at /\ Base(p).resyncing = x
  BY <1>1, <1>2, <1>3 DEF ReaderFields
<1>5. Cleared(p) = [Base(p) EXCEPT !.scratch = << >>, !.in_fragment = FALSE]
  BY DEF Cleared
<1>6. /\ Cleared(p) \in ReaderFields /\ Cleared(p).end = Base(p).end /\ Cleared(p).buffer = Base(p).buffer
      /\ Cleared(p).in_fragment = FALSE
  BY <1>1, <1>4, <1>5 DEF ReaderFields
<1> QED BY <1>4, <1>6 DEF x

\* Whatever is not collecting goes on from where it is.
LEMMA NotCollecting ==
  ASSUME LogInv, pc = "read", UNCHANGED writer, NEW p, Rest(p), pc' = pc, out' = out,
         r' \in ReaderFields, r'.end = r.end, r'.buffer = p.rest, ~r'.in_fragment
  PROVE  LogInv'
<1>1. ReaderTypeOK /\ file' = file
  BY DEF LogInv, ReaderInv, writer
<1>2. ReaderTypeOK' /\ Consumed \in Nat /\ Consumed' \in Nat /\ Consumed' >= Consumed
  BY <1>1, NextReader
<1>3. \A j \in DOMAIN out : out[j].at < Consumed /\ out[j].at \in Int
  <2>1. out \in Seq([data : Seq(Cells), at : Int])
    BY DEF LogInv, OutOK
  <2> TAKE j \in DOMAIN out
  <2>2. j \in 1 .. Len(out)
    BY <2>1
  <2>3. out[j] \in [data : Seq(Cells), at : Int]
    BY <2>1, <2>2, ElementOfSeq
  <2>4. out[j].at < Consumed
    BY DEF LogInv, ReaderInv
  <2> QED BY <2>3, <2>4
<1>4. \A j \in DOMAIN out' : out'[j].at < Consumed'
  BY <1>2, <1>3
<1>5. ReaderInv'
  BY <1>2, <1>4 DEF ReaderInv
<1> QED BY <1>5, OutKept, ReadingStep
LEMMA OutTyped ==
  ASSUME LogInv
  PROVE  /\ out \in Seq([data : Seq(Cells), at : Int]) /\ DOMAIN out = 1 .. Len(out) /\ Len(out) \in Nat
         /\ \A j \in 1 .. Len(out) : out[j] \in [data : Seq(Cells), at : Int] /\ out[j].at \in Int
<1>1. out \in Seq([data : Seq(Cells), at : Int])
  BY DEF LogInv, OutOK
<1>2. \A j \in 1 .. Len(out) : out[j] \in [data : Seq(Cells), at : Int]
  BY <1>1, ElementOfSeq
<1>3. \A j \in 1 .. Len(out) : out[j].at \in Int
  BY <1>2
<1> QED BY <1>1, <1>2, <1>3

\* One more record is returned: a record that was written, from behind those before it.
LEMMA OneMore ==
  ASSUME LogInv, UNCHANGED writer, NEW d \in Seq(Cells), NEW a \in Int, NEW m \in Int, a < m,
         \E i \in 1 .. Len(written) : d = Content(i),
         \A j \in 1 .. Len(out) : out[j].at < a,
         out' = Append(out, [data |-> d, at |-> a])
  PROVE  OutOK' /\ \A j \in DOMAIN out' : out'[j].at < m
<1> DEFINE e == [data |-> d, at |-> a]
<1>1. /\ out \in Seq([data : Seq(Cells), at : Int]) /\ DOMAIN out = 1 .. Len(out) /\ Len(out) \in Nat
      /\ \A j \in 1 .. Len(out) : out[j].at \in Int
  BY OutTyped
<1>2. e \in [data : Seq(Cells), at : Int] /\ e.data = d /\ e.at = a
  OBVIOUS
<1> HIDE DEF e
<1>3. /\ out' \in Seq([data : Seq(Cells), at : Int]) /\ Len(out') = Len(out) + 1
      /\ \A j \in 1 .. Len(out) : out'[j] = out[j]
      /\ out'[Len(out) + 1] = e
  <2>1. out' = Append(out, e)
    BY DEF e
  <2> QED BY <1>1, <1>2, <2>1, AppendProperties
<1>4. DOMAIN out' = 1 .. Len(out) + 1
  BY <1>3
<1>5. written' = written /\ \A i \in 1 .. Len(written) : Content(i)' = Content(i)
  BY DEF writer, Content
<1>6. DOMAIN written = 1 .. Len(written)
  BY DEF LogInv, WriterInv
<1>7. \A j \in DOMAIN out' : j \in 1 .. Len(out) \/ j = Len(out) + 1
  BY <1>1, <1>4
<1>8. \A j \in DOMAIN out' : \E i \in DOMAIN written' : out'[j].data = Content(i)'
  <2> TAKE j \in DOMAIN out'
  <2>1. CASE j \in 1 .. Len(out)
    <3>1. \E i \in DOMAIN written : out[j].data = Content(i)
      BY <1>1, <2>1 DEF LogInv, OutOK, OnlyGenuineRecords
    <3> QED BY <1>3, <1>5, <1>6, <2>1, <3>1
  <2>2. CASE j = Len(out) + 1
    BY <1>2, <1>3, <1>5, <1>6, <2>2
  <2> QED BY <1>7, <2>1, <2>2
<1>9. \A j \in DOMAIN out' : out'[j].at <= a /\ out'[j].at \in Int
  <2> TAKE j \in DOMAIN out'
  <2>1. CASE j \in 1 .. Len(out)
    <3>1. out'[j] = out[j] /\ out[j].at < a /\ out[j].at \in Int
      BY <1>1, <1>3, <2>1
    <3> QED BY <3>1
  <2>2. CASE j = Len(out) + 1
    <3>1. out'[j].at = a
      BY <1>2, <1>3, <2>2
    <3> QED BY <3>1
  <2> QED BY <1>7, <2>1, <2>2
<1>10. \A j, k \in DOMAIN out' : j < k => out'[j].at < out'[k].at
  <2> SUFFICES ASSUME NEW j \in DOMAIN out', NEW k \in DOMAIN out', j < k PROVE out'[j].at < out'[k].at
    OBVIOUS
  <2>1. j \in 1 .. Len(out) /\ out'[j] = out[j] /\ out[j].at < a
    BY <1>1, <1>3, <1>4
  <2>2. CASE k \in 1 .. Len(out)
    <3>1. out[j].at < out[k].at
      BY <1>1, <2>1, <2>2 DEF LogInv, OutOK, OnlyGenuineRecords
    <3> QED BY <1>3, <2>1, <2>2, <3>1
  <2>3. CASE k = Len(out) + 1
    BY <1>2, <1>3, <2>1, <2>3
  <2> QED BY <1>7, <2>2, <2>3
<1>11. OutOK'
  BY <1>3, <1>8, <1>10 DEF OutOK, OnlyGenuineRecords
<1>12. \A j \in DOMAIN out' : out'[j].at < m
  <2> TAKE j \in DOMAIN out'
  <2>1. out'[j].at <= a /\ out'[j].at \in Int
    BY <1>9
  <2> QED BY <2>1
<1> QED BY <1>11, <1>12

LEMMA OffsetIs ==
  ASSUME ReaderTypeOK, NEW p, Rest(p), p.fragment \in Seq(Cells),
         Len(r.buffer) = kHeaderSize + Len(p.fragment) + Len(p.rest)
  PROVE  Offset(p) = Consumed /\ Consumed \in Nat
<1>1. r.end \in Nat /\ Len(r.buffer) \in Nat /\ Len(r.buffer) <= r.end
  BY DEF ReaderTypeOK
<1>2. Len(p.rest) \in Nat /\ Len(p.fragment) \in Nat /\ kHeaderSize = 3
  BY DEF Rest, kHeaderSize
<1> DEFINE b == Len(r.buffer)
           n == Len(p.fragment)
           m == Len(p.rest)
           e == r.end
<1>3. Offset(p) = e - m - kHeaderSize - n /\ Consumed = e - b /\ b = kHeaderSize + n + m
  BY DEF Offset, Consumed
<1>4. e \in Nat /\ b \in Nat /\ n \in Nat /\ m \in Nat /\ b <= e
  BY <1>1, <1>2
<1> HIDE DEF b, n, m, e
<1> QED BY ONLY <1>2, <1>3, <1>4

LEMMA ReturningStep ==
  ASSUME LogInv, pc = "read", UNCHANGED writer, NEW p, Rest(p), p.type \in Types,
         Taken(file, Consumed + 1, p.type, p.fragment),
         Len(r.buffer) = kHeaderSize + Len(p.fragment) + Len(p.rest), Returning(p)
  PROVE  LogInv'
<1>1. ReaderTypeOK /\ file' = file /\ r \in ReaderFields /\ pc' = "read"
  BY DEF LogInv, ReaderInv, writer, ReaderTypeOK, ReaderFields, Returning
<1>2. p.fragment \in Seq(Cells) /\ Len(p.fragment) \in Nat /\ Len(p.rest) \in Nat /\ kHeaderSize = 3
  BY DEF Taken, kHeaderSize, Rest
<1>3. Offset(p) = Consumed /\ Consumed \in Nat
  BY <1>1, <1>2, OffsetIs
<1>4. r' = Cleared(p) /\ r' \in ReaderFields /\ r'.end = r.end /\ r'.buffer = p.rest /\ ~r'.in_fragment
  BY <1>1, BaseIs DEF Returning
<1>5. ReaderTypeOK' /\ Consumed' \in Nat /\ Consumed' = Consumed + (Len(r.buffer) - Len(p.rest))
  BY <1>1, <1>4, NextReader
<1>6. Consumed' > Consumed
  BY <1>2, <1>3, <1>5
<1>7. \A j \in 1 .. Len(out) : out[j].at < Consumed /\ (r.in_fragment => out[j].at < r.at)
  BY OutTyped DEF LogInv, ReaderInv
<1>8. OutOK' /\ \A j \in DOMAIN out' : out'[j].at < Consumed'
  <2>1. CASE p.type = kFullType /\ out' = Append(out, [data |-> p.fragment, at |-> Offset(p)])
    <3>1. Consumed + 1 \in Nat \ {0}
      BY <1>3
    <3>2. PICK i \in 1 .. Len(written), from \in Nat, n \in Nat :
            /\ p.fragment = Payload(i, from, n) /\ written[i].size \in Nat /\ from + n <= written[i].size
            /\ p.type \in {kFullType, kFirstType} => from = 0
            /\ p.type = kMiddleType => n > 0
            /\ p.type \in {kFullType, kLastType} => from + n = written[i].size
            /\ p.type \in {kMiddleType, kLastType} => Follows(file, Consumed + 1, i, from)
      BY <3>1, TakenIs
    <3>3. from = 0 /\ n = written[i].size
      BY <2>1, <3>2
    <3>4. p.fragment = Content(i)
      BY <3>2, <3>3 DEF Content
    <3>5. out' = Append(out, [data |-> p.fragment, at |-> Consumed])
      BY <1>3, <2>1
    <3>6. Consumed \in Int /\ Consumed' \in Int /\ Consumed < Consumed'
      BY <1>3, <1>5, <1>6
    <3> QED BY <1>2, <1>7, <3>4, <3>5, <3>6, OneMore
  <2>2. CASE p.type = kLastType /\ r.in_fragment
             /\ out' = Append(out, [data |-> r.scratch \o p.fragment, at |-> r.at])
    <3>1. PICK i \in 1 .. Len(written), from \in Nat, n \in Nat :
            /\ p.fragment = Payload(i, from, n) /\ r.scratch = Payload(i, 0, from) /\ written[i].size \in Nat
            /\ from + n = written[i].size
      <4>1. p.type \in {kMiddleType, kLastType}
        BY <2>2
      <4> QED BY <2>2, <4>1, ContinuesIs
    <3>2. r.scratch \o p.fragment = Content(i)
      <4>1. i \in Nat
        BY DEF LogInv, WriterInv
      <4>2. Payload(i, 0, from) \o Payload(i, from, n) = Payload(i, 0, from + n)
        BY <4>1, PayloadConcat
      <4> QED BY <3>1, <4>2 DEF Content
    <3>3. r.scratch \o p.fragment \in Seq(Cells)
      <4>1. r.scratch \in Seq(Cells)
        BY <1>1 DEF ReaderFields
      <4> QED BY <1>2, <4>1, ConcatCells
    <3>4. r.at \in Int /\ r.at < Consumed
      BY <1>1, <2>2 DEF ReaderFields, LogInv, ReaderInv
    <3>5. r.at < Consumed' /\ Consumed' \in Int
      BY <1>3, <1>5, <1>6, <3>4
    <3> QED BY <1>7, <2>2, <3>2, <3>3, <3>4, <3>5, OneMore
  <2> QED BY <2>1, <2>2 DEF Returning
<1>9. ReaderInv'
  BY <1>4, <1>5, <1>8 DEF ReaderInv
<1> QED BY <1>1, <1>8, <1>9, ReadingStep
LEMMA KeepingStep ==
  ASSUME LogInv, pc = "read", UNCHANGED writer, NEW p, Rest(p), p.type \in Types,
         Taken(file, Consumed + 1, p.type, p.fragment),
         Len(r.buffer) = kHeaderSize + Len(p.fragment) + Len(p.rest), Keeping(p)
  PROVE  LogInv'
<1>1. ReaderTypeOK /\ file' = file /\ r \in ReaderFields /\ pc' = "read" /\ out' = out
  BY DEF LogInv, ReaderInv, writer, ReaderTypeOK, ReaderFields, Keeping
<1>2. p.fragment \in Seq(Cells) /\ Len(p.fragment) \in Nat /\ Len(p.rest) \in Nat /\ kHeaderSize = 3
  BY DEF Taken, kHeaderSize, Rest
<1>3. Offset(p) = Consumed /\ Consumed \in Nat
  BY <1>1, <1>2, OffsetIs
<1>4. /\ Base(p) \in ReaderFields
      /\ Base(p).end = r.end /\ Base(p).buffer = p.rest /\ Base(p).in_fragment = r.in_fragment
      /\ Base(p).scratch = r.scratch /\ Base(p).at = r.at
      /\ Base(p).resyncing <=> r.resyncing /\ p.type = kMiddleType
  BY <1>1, BaseIs
<1> DEFINE q == Consumed + 1
           n == Len(p.fragment)
<1>5. q \in 1 .. Len(file) /\ q \in Nat \ {0}
  <2>1. q + kHeaderSize - 1 + n <= Len(file)
    BY DEF Taken
  <2>2. Len(file) \in Nat
    BY DEF LogInv, WriterInv
  <2> HIDE DEF n
  <2>3. n \in Nat
    BY <1>2 DEF n
  <2> QED BY <1>2, <1>3, <2>1, <2>2, <2>3
<1>6. \A j \in 1 .. Len(out) : out[j].at < Consumed /\ (r.in_fragment => out[j].at < r.at)
  BY OutTyped DEF LogInv, ReaderInv
<1>7. /\ r' \in ReaderFields /\ r'.end = r.end /\ r'.buffer = p.rest /\ r'.in_fragment /\ ~r'.resyncing
      /\ r'.at <= Consumed /\ r'.at \in Int /\ p.type \in {kFirstType, kMiddleType}
      /\ \A j \in 1 .. Len(out) : out[j].at < r'.at
      /\ \A i, from, m \in Nat :
           p.fragment = Payload(i, from, m) /\ (p.type = kFirstType => from = 0) /\ (p.type = kMiddleType => m > 0)
             => r'.scratch = Payload(i, 0, from + m)
  <2>1. CASE /\ p.type = kFirstType
             /\ r' = [Base(p) EXCEPT !.in_fragment = TRUE, !.at = Offset(p), !.scratch = << >> \o p.fragment]
    <3>1. << >> \o p.fragment = p.fragment
      BY <1>2, ConcatEmptySeq
    <3>2. /\ r' \in ReaderFields /\ r'.end = r.end /\ r'.buffer = p.rest /\ r'.in_fragment = TRUE
          /\ r'.resyncing = Base(p).resyncing /\ r'.at = Consumed /\ r'.scratch = p.fragment
      <4> DEFINE b == Base(p)
                 c == Offset(p)
                 f == p.fragment
      <4>1. b \in ReaderFields /\ c \in Int /\ f \in Seq(Cells)
        BY <1>2, <1>3, <1>4
      <4>2. r' = [b EXCEPT !.in_fragment = TRUE, !.at = c, !.scratch = f]
        BY <2>1, <3>1
      <4> HIDE DEF b, c, f
      <4>3. /\ r' \in ReaderFields /\ r'.end = b.end /\ r'.buffer = b.buffer /\ r'.in_fragment = TRUE
            /\ r'.resyncing = b.resyncing /\ r'.at = c /\ r'.scratch = f
        BY <4>1, <4>2 DEF ReaderFields
      <4> QED BY <1>3, <1>4, <4>3, Zenon DEF b, c, f
    <3>3. ~Base(p).resyncing
      BY <1>4, <2>1 DEF kFirstType, kMiddleType
    <3>4. \A i, from, m \in Nat : p.fragment = Payload(i, from, m) /\ from = 0 => r'.scratch = Payload(i, 0, from + m)
      BY <3>2
    <3> QED BY <1>3, <1>6, <2>1, <3>2, <3>3, <3>4
  <2>2. CASE p.type = kMiddleType /\ r.in_fragment /\ r' = [Base(p) EXCEPT !.scratch = @ \o p.fragment]
    <3>1. PICK i \in 1 .. Len(written), from \in Nat, m \in Nat :
            /\ p.fragment = Payload(i, from, m) /\ r.scratch = Payload(i, 0, from) /\ written[i].size \in Nat
            /\ p.type = kMiddleType => m > 0
            /\ p.type = kLastType => from + m = written[i].size
      <4>1. p.type \in {kMiddleType, kLastType}
        BY <2>2
      <4> QED BY <2>2, <4>1, ContinuesIs
    <3>2. i \in Nat /\ m > 0
      BY <2>2, <3>1 DEF LogInv, WriterInv
    <3>3. r.scratch \o p.fragment = Payload(i, 0, from + m)
      <4>1. Payload(i, 0, from) \o Payload(i, from, m) = Payload(i, 0, from + m)
        BY <3>2, PayloadConcat
      <4> QED BY <3>1, <4>1
    <3>4. r.scratch \o p.fragment \in Seq(Cells)
      <4>1. r.scratch \in Seq(Cells)
        BY <1>1 DEF ReaderFields
      <4> QED BY <1>2, <4>1, ConcatCells
    <3>5. /\ r' \in ReaderFields /\ r'.end = r.end /\ r'.buffer = p.rest /\ r'.in_fragment = r.in_fragment
          /\ r'.resyncing = Base(p).resyncing /\ r'.at = r.at /\ r'.scratch = r.scratch \o p.fragment
      BY <1>4, <2>2, <3>4 DEF ReaderFields
    <3>6. ~r.resyncing /\ r.at < Consumed /\ r.at \in Int
      BY <1>1, <2>2 DEF LogInv, ReaderInv, ReaderFields
    <3>7. \A k, a, b \in Nat : p.fragment = Payload(k, a, b) /\ b > 0 => r'.scratch = Payload(k, 0, a + b)
      <4> SUFFICES ASSUME NEW k \in Nat, NEW a \in Nat, NEW b \in Nat, p.fragment = Payload(k, a, b), b > 0
                   PROVE  r'.scratch = Payload(k, 0, a + b)
        OBVIOUS
      <4>1. Payload(k, a, b) = Payload(i, from, m)
        BY <3>1
      <4>2. b = m /\ (b > 0 => k = i /\ a = from)
        <5> DEFINE u == Payload(k, a, b)
                   v == Payload(i, from, m)
        <5>0. Len(u) = b /\ \A c \in 1 .. b : u[c] = Data(k, a + c)
          BY PayloadIs, ZenonT(40)
        <5>1. Len(v) = m /\ \A c \in 1 .. m : v[c] = Data(i, from + c)
          <6> DEFINE i0 == i
          <6>1. i0 \in Nat
            BY <3>2
          <6> HIDE DEF i0
          <6>2. /\ Len(Payload(i0, from, m)) = m
                /\ \A c \in 1 .. m : Payload(i0, from, m)[c] = Data(i0, from + c)
            BY <6>1, PayloadIs, ZenonT(40)
          <6> QED BY <6>2 DEF i0
        <5>2. u = v
          BY <4>1
        <5> HIDE DEF u, v
        <5>3. b = m /\ Data(k, a + 1) = Data(i, from + 1)
          BY <3>2, <5>0, <5>1, <5>2
        <5>4. k = i /\ a + 1 = from + 1
          BY <5>3, Kinds
        <5> QED BY <5>3, <5>4
      <4> QED BY <3>3, <3>5, <4>2
    <3>8. r'.in_fragment /\ ~r'.resyncing
      BY <1>4, <2>2, <3>5, <3>6, Zenon
    <3>9. r'.at <= Consumed /\ r'.at \in Int /\ p.type \in {kFirstType, kMiddleType}
      BY <1>3, <2>2, <3>5, <3>6
    <3>10. \A j \in 1 .. Len(out) : out[j].at < r'.at
      BY <1>6, <2>2, <3>5
    <3>11. \A k, a, b \in Nat :
             p.fragment = Payload(k, a, b) /\ (p.type = kFirstType => a = 0) /\ (p.type = kMiddleType => b > 0)
               => r'.scratch = Payload(k, 0, a + b)
      BY <2>2, <3>7
    <3> QED BY <3>5, <3>8, <3>9, <3>10, <3>11
  <2> QED BY <2>1, <2>2 DEF Keeping
<1>8. ReaderTypeOK' /\ Consumed' \in Nat /\ Consumed' = Consumed + (Len(r.buffer) - Len(p.rest))
  BY <1>1, <1>7, NextReader
<1>9. Consumed' = Consumed + kHeaderSize + n /\ Consumed' > Consumed
  <2> DEFINE b == Len(r.buffer)
             m == Len(p.rest)
             c == Consumed'
  <2>1. c = Consumed + (b - m) /\ b = kHeaderSize + n + m /\ n \in Nat /\ m \in Nat /\ kHeaderSize = 3
        /\ Consumed \in Nat
    BY <1>2, <1>3, <1>8
  <2> HIDE DEF b, m, n, c
  <2>2. c = Consumed + kHeaderSize + n /\ c > Consumed
    BY ONLY <2>1
  <2> QED BY <2>2 DEF c
<1>10. q + kHeaderSize - 1 + n = Consumed'
  BY <1>2, <1>3, <1>9
<1>11. Collecting'
  <2>1. Taken(file', q, p.type, p.fragment)
    BY <1>1
  <2>2. Consumed' < Consumed' + kHeaderSize
    BY <1>2, <1>8
  <2>3. \E q0 \in 1 .. Len(file'), f \in Seq(Cells), t \in {kFirstType, kMiddleType} :
          /\ Taken(file', q0, t, f)
          /\ q0 + kHeaderSize - 1 + Len(f) <= Consumed' /\ Consumed' < q0 + kHeaderSize - 1 + Len(f) + kHeaderSize
          /\ Consumed' = q0 + kHeaderSize - 1 + Len(f) \/ Len(r'.buffer) >= kHeaderSize \/ r'.eof
          /\ \A i, from, m \in Nat : f = Payload(i, from, m) /\ (t = kFirstType => from = 0) /\ (t = kMiddleType => m > 0)
               => r'.scratch = Payload(i, 0, from + m)
    <3> HIDE DEF q
    <3>1. Consumed' <= Consumed'
      BY <1>8
    <3> DEFINE t0 == p.type
               f0 == p.fragment
    <3>2. q \in 1 .. Len(file') /\ f0 \in Seq(Cells) /\ t0 \in {kFirstType, kMiddleType}
      BY <1>1, <1>2, <1>5, <1>7
    <3>3. /\ Taken(file', q, t0, f0)
          /\ q + kHeaderSize - 1 + Len(f0) <= Consumed' /\ Consumed' < q + kHeaderSize - 1 + Len(f0) + kHeaderSize
          /\ Consumed' = q + kHeaderSize - 1 + Len(f0)
      BY <1>10, <2>1, <2>2, <3>1
    <3>4. \A i, from, m \in Nat : f0 = Payload(i, from, m) /\ (t0 = kFirstType => from = 0) /\ (t0 = kMiddleType => m > 0)
               => r'.scratch = Payload(i, 0, from + m)
      BY <1>7
    <3> HIDE DEF t0, f0
    <3> QED BY <3>2, <3>3, <3>4
  <2> QED BY <2>3 DEF Collecting
<1>12. ReaderInv'
  <2>1. \A j \in DOMAIN out' : out'[j].at < Consumed' /\ out'[j].at < r'.at
    <3> TAKE j \in DOMAIN out'
    <3>1. j \in 1 .. Len(out) /\ out[j].at \in Int
      BY <1>1, OutTyped
    <3> QED BY <1>1, <1>3, <1>6, <1>7, <1>8, <1>9, <3>1
  <2>2. r'.at < Consumed'
    BY <1>3, <1>7, <1>8, <1>9
  <2> QED BY <1>7, <1>8, <1>11, <2>1, <2>2 DEF ReaderInv
<1> QED BY <1>1, <1>12, OutKept, ReadingStep

LEMMA ReadStep ==
  ASSUME LogConstants, LogInv, Read
  PROVE  LogInv'
<1>1. PICK p \in ReadPhysicalRecord(r.buffer) : ReadRecord(p)
  BY DEF Read
<1>2. pc = "read" /\ Len(r.buffer) >= kHeaderSize /\ UNCHANGED writer
  BY DEF Read
<1>3. /\ Rest(p)
      /\ \/ p.type \in {kEof, kBadRecord}
         \/ /\ p.type \in Types /\ Taken(file, Consumed + 1, p.type, p.fragment)
            /\ Len(r.buffer) = kHeaderSize + Len(p.fragment) + Len(p.rest)
  BY <1>2, ReadPhysicalRecordIs
<1>4. p.type \in Types => Taken(file, Consumed + 1, p.type, p.fragment)
                         /\ Len(r.buffer) = kHeaderSize + Len(p.fragment) + Len(p.rest)
  BY <1>3 DEF Types, kFullType, kFirstType, kMiddleType, kLastType, kEof, kBadRecord
<1>5. \/ p.type = kEof /\ out' = out /\ pc' = "done"
      \/ Ignored(p)
      \/ p.type \in Types /\ Returning(p)
      \/ p.type \in Types /\ Keeping(p)
  BY <1>1, <1>3, ReadRecordIs
<1>6. CASE out' = out /\ pc' = "done"
  BY <1>2, <1>6, OutKept, ReadingStep DEF ReaderInv
<1>7. CASE Ignored(p)
  <2>1. ReaderTypeOK /\ (r.in_fragment => ~r.resyncing)
    BY <1>2 DEF LogInv, ReaderInv
  <2>2. /\ Base(p) \in ReaderFields /\ Cleared(p) \in ReaderFields
        /\ Base(p).end = r.end /\ Base(p).buffer = p.rest /\ Base(p).in_fragment = r.in_fragment
        /\ Cleared(p).end = r.end /\ Cleared(p).buffer = p.rest /\ ~Cleared(p).in_fragment
    BY <1>3, <2>1, BaseIs
  <2>3. r' \in ReaderFields /\ r'.end = r.end /\ r'.buffer = p.rest /\ ~r'.in_fragment
    BY <1>7, <2>1, <2>2 DEF Ignored
  <2> QED BY <1>2, <1>3, <1>7, <2>3, NotCollecting DEF Ignored
<1>8. CASE p.type \in Types /\ Returning(p)
  BY <1>2, <1>3, <1>4, <1>8, ReturningStep
<1>9. CASE p.type \in Types /\ Keeping(p)
  BY <1>2, <1>3, <1>4, <1>9, KeepingStep
<1> QED BY <1>5, <1>6, <1>7, <1>8, <1>9

--------------------------------------------------------------------------------
(* Every record a reader returns was written *)

LEMMA LogInitial == ASSUME LogConstants, lgInit PROVE LogInv
<1>1. /\ file = << >> /\ block_offset_ = 0 /\ left = -1 /\ begin = FALSE /\ written = << >> /\ damaged = 0
      /\ out = << >> /\ pc = "write"
  BY DEF lgInit
<1>2. WriterInv
  <2>1. 0 \in 0 .. kBlockSize
    BY DEF LogConstants
  <2>2. Layout(<< >>, << >>)
    BY DEF Layout
  <2>3. file \in Seq(Cells) /\ written \in Seq([size : Nat, at : Nat, ok : BOOLEAN])
    BY <1>1
  <2>4. left \in Nat \cup {-1} /\ ~(left >= 0)
    BY <1>1
  <2> QED BY <1>1, <2>1, <2>2, <2>3, <2>4, Zenon DEF WriterInv
<1>3. OutOK
  BY <1>1 DEF OutOK, OnlyGenuineRecords
<1> QED BY <1>1, <1>2, <1>3 DEF LogInv, ReaderInv

LEMMA LogNext == ASSUME LogConstants, LogInv, [lgNext]_lgVars PROVE LogInv'
<1>1. CASE UNCHANGED lgVars
  <2>1. /\ UNCHANGED writer /\ out' = out /\ pc' = pc /\ r' = r
    BY <1>1 DEF lgVars
  <2>2. CASE pc = "write"
    <3>1. WriterInv'
      BY <2>1 DEF writer, LogInv, WriterInv, Record
    <3> QED BY <2>1, <2>2, <3>1, WritingStep
  <2>3. CASE pc # "write"
    <3>1. ReaderInv'
      BY <2>1 DEF writer, LogInv, ReaderInv, ReaderTypeOK, Collecting, Consumed
    <3>2. pc' \in {"read", "done", "failed"}
      BY <2>1, <2>3 DEF LogInv
    <3> QED BY <2>1, <3>1, <3>2, OutKept, ReadingStep
  <2> QED BY <2>2, <2>3
<1>2. ASSUME NEW n \in Lengths, BeginRecord(n) PROVE LogInv'
  BY <1>2, BeginStep
<1>3. ASSUME NEW offset \in 0 .. Len(file), Reader(offset) PROVE LogInv'
  BY <1>3, ReaderStep
<1>4. CASE WriteFragment \/ TrailerFails
  BY <1>4, WriteFragmentStep
<1>5. CASE WriteFails
  BY <1>5, WriteFailsStep
<1>6. CASE Stop
  BY <1>6, StopStep
<1>7. CASE Damage
  BY <1>7, DamageStep
<1>8. CASE ReadBlock
  BY <1>8, ReadBlockStep
<1>9. CASE EndOfFile \/ ReadError \/ Done \/ \E offset \in 0 .. Len(file) : SkipFails(offset)
  BY <1>9, EndStep
<1>10. CASE Read
  BY <1>10, ReadStep
<1> QED BY <1>1, <1>2, <1>3, <1>4, <1>5, <1>6, <1>7, <1>8, <1>9, <1>10 DEF lgNext

\* log_reader.cc, whatever happened to the file: a record is returned only if its fragments,
\* first to last, are those of one record that AddRecord was called with, and the records
\* come in the order they have in the file.
THEOREM OnlyWhatWasWritten == ASSUME LogConstants PROVE lgSpec => []OnlyGenuineRecords
<1>1. lgInit => LogInv
  BY LogInitial
<1>2. LogInv /\ [lgNext]_lgVars => LogInv'
  BY LogNext
<1>3. LogInv => OnlyGenuineRecords
  BY DEF LogInv, OutOK
<1> QED BY <1>1, <1>2, <1>3, PTL DEF lgSpec
================================================================================
