------------------------------- MODULE Snappy -------------------------------
(***************************************************************************)
(* The snappy library as leveldb-mcpe uses it to compress table blocks:     *)
(* the compressor, the decompressor over a source that hands its bytes out  *)
(* in fragments, and its four writers (flat array, scatter vector, blocks   *)
(* for a sink, and the validator that keeps only a count).                  *)
(*                                                                         *)
(* A stream is a sequence of symbols: length bytes (base 128), tags         *)
(* (type + 4 * data), trailer bytes (base ByteBase) and data bytes.  Every  *)
(* limit of the code is kept except those only long inputs reach: ByteBase    *)
(* (256) and BlockSize (65536) are constants, and the hash table has 8 to 32 *)
(* entries (256 to 16384).                                                  *)
(*                                                                         *)
(* The fast paths write more than they mean to: a copy of 3 bytes stores a  *)
(* chunk of 8, 16 or 64.  A writer record keeps the bytes it means (out)    *)
(* and whether any store or load left its buffer (over).                    *)
(***************************************************************************)
EXTENDS Integers, Sequences, SequencesExt

CONSTANTS ByteBase,    \* values of a trailer byte
          BlockSize    \* kBlockSize

ASSUME SnappyAssumption ==
    /\ ByteBase \in Nat /\ ByteBase > 8
    /\ BlockSize \in 1..(ByteBase * ByteBase - 1)

kSlopBytes == 64
kMaximumTagLength == 5
kInputMarginBytes == 15
kMaxHashTableSize == 32
kMinHashTableSize == 8
Unlimited == 1000000
Garbage == -1

LITERAL == 0
COPY_1_BYTE_OFFSET == 1
COPY_2_BYTE_OFFSET == 2
COPY_4_BYTE_OFFSET == 3

Prefix(s, n) == SubSeq(s, 1, n)
Rest(s, n) == SubSeq(s, n + 1, Len(s))

-----------------------------------------------------------------------------
(* The length in front of a stream: 7 bits per byte, at most Width bits in  *)
(* all (32 in the code, 16 here so that TLC's integers hold every value).   *)

Width == 16

RECURSIVE Encode32(_)
Encode32(v) == IF v < 128 THEN <<v>> ELSE <<(v % 128) + 128>> \o Encode32(v \div 128)

LeftShiftOverflows(value, shift) == value * 2^shift >= 2^Width

NoLength == [ok |-> FALSE, value |-> 0, used |-> 0]

\* Varint::Parse32WithLimit, behind GetUncompressedLength(start, n, result).
Parse32WithLimit(s) ==
    LET Ends == {k \in 1..Len(s) : s[k] < 128}
        k == IF Ends = {} THEN Len(s) + 1 ELSE CHOOSE k \in Ends : \A j \in Ends : k <= j
        Value[j \in 0..k] == IF j = 0 THEN 0 ELSE Value[j - 1] + (s[j] % 128) * 2^(7 * (j - 1))
    IN  IF k > Len(s) \/ k > 3 \/ (k = 3 /\ s[3] >= 4) THEN NoLength
        ELSE [ok |-> TRUE, value |-> Value[k], used |-> k]

-----------------------------------------------------------------------------
(* Compression.                                                             *)

RECURSIVE Digits(_)
Digits(n) == IF n < ByteBase THEN <<n>> ELSE <<n % ByteBase>> \o Digits(n \div ByteBase)

EmitLiteral(literal) ==
    LET n == Len(literal) - 1
    IN  IF n < 60 THEN <<LITERAL + 4 * n>> \o literal
        ELSE <<LITERAL + 4 * (59 + Len(Digits(n)))>> \o Digits(n) \o literal

EmitCopyAtMost64(offset, len, less12) ==
    IF less12 /\ offset < 8 * ByteBase
    THEN <<COPY_1_BYTE_OFFSET + 4 * (len - 4) + 32 * (offset \div ByteBase), offset % ByteBase>>
    ELSE <<COPY_2_BYTE_OFFSET + 4 * (len - 1), offset % ByteBase, offset \div ByteBase>>

\* No room is kept for the last copy.
EmitCopyNoReserve(offset, length) ==
    LET full == length \div 64
    IN  FlattenSeq([i \in 1..full |-> EmitCopyAtMost64(offset, 64, FALSE)])
        \o (IF length % 64 = 0 THEN <<>> ELSE EmitCopyAtMost64(offset, length % 64, length % 64 < 12))

EmitCopy(offset, length) ==
    LET full == IF length >= 68 THEN (length - 4) \div 64 ELSE 0
        tail == length - 64 * full
        last == IF tail > 64 THEN tail - 60 ELSE tail
    IN  FlattenSeq([i \in 1..full |-> EmitCopyAtMost64(offset, 64, FALSE)])
        \o (IF tail > 64 THEN EmitCopyAtMost64(offset, 60, FALSE) ELSE <<>>)
        \o EmitCopyAtMost64(offset, last, last < 12)

RECURSIVE CalculateTableSize(_)
CalculateTableSize(size) ==
    IF size > kMaxHashTableSize THEN kMaxHashTableSize
    ELSE IF size <= kMinHashTableSize THEN kMinHashTableSize
    ELSE 2 * CalculateTableSize((size + 1) \div 2)

\* The four bytes at p; positions count from 0.
Load32(s, p) == SubSeq(s, p + 1, p + 4)

HashBytes(w, size) == (w[1] + 3 * w[2] + 5 * w[3] + 7 * w[4]) % size

\* What starts at candidate and at ip alike, up to the end of the input.
FindMatchLength(s, candidate, ip) ==
    LET Differ == {j \in 0..(Len(s) - ip - 1) : s[candidate + j + 1] # s[ip + j + 1]}
    IN  IF Differ = {} THEN Len(s) - ip ELSE CHOOSE j \in Differ : \A k \in Differ : j <= k

\* Looks for a 4-byte match at or after ip: left unrolled probes of every byte,
\* then ever longer strides.
RECURSIVE Scan(_, _, _, _, _)
Scan(s, ip, skip, left, table) ==
    LET limit == Len(s) - kInputMarginBytes
        size == Len(table)
        h == HashBytes(Load32(s, ip), size) + 1
        stride == IF left > 0 THEN 1 ELSE skip \div 32
    IN  IF left = 0 /\ ip + stride > limit THEN [found |-> FALSE]
        ELSE IF Load32(s, table[h]) = Load32(s, ip)
        THEN [found |-> TRUE, ip |-> ip, candidate |-> table[h], table |-> [table EXCEPT ![h] = ip]]
        ELSE Scan(s, ip + stride,
                  IF left = 1 THEN skip + 16 ELSE IF left > 0 THEN skip ELSE skip + stride,
                  IF left > 0 THEN left - 1 ELSE 0, [table EXCEPT ![h] = ip])

RECURSIVE EmitMatches(_, _, _, _, _)
RECURSIVE EmitFrom(_, _, _, _)
\* The loop at emit_match: a copy, then another as long as one follows at once.
EmitMatches(s, ip, candidate, table, op) ==
    LET matched == FindMatchLength(s, candidate, ip)
        op2 == op \o EmitCopy(ip - candidate, matched)
        ip2 == ip + matched
        h1 == HashBytes(Load32(s, ip2 - 1), Len(table)) + 1
        h == HashBytes(Load32(s, ip2), Len(table)) + 1
        tab == [table EXCEPT ![h1] = ip2 - 1]
        tab2 == [tab EXCEPT ![h] = ip2]
    IN  IF ip2 >= Len(s) - kInputMarginBytes THEN [ip |-> ip2, op |-> op2]
        ELSE IF Load32(s, ip2) = Load32(s, tab[h]) THEN EmitMatches(s, ip2, tab[h], tab2, op2)
        ELSE EmitFrom(s, ip2, tab2, op2)
\* One turn of the main loop, from next_emit on.
EmitFrom(s, nextEmit, table, op) ==
    LET ip == nextEmit + 1
        m == Scan(s, ip, 32, IF Len(s) - kInputMarginBytes - ip >= 16 THEN 16 ELSE 0, table)
    IN  IF ~m.found THEN [ip |-> nextEmit, op |-> op]
        ELSE EmitMatches(s, m.ip, m.candidate, m.table,
                         op \o EmitLiteral(SubSeq(s, nextEmit + 1, m.ip)))

CompressFragment(s) ==
    LET table == [h \in 1..CalculateTableSize(Len(s)) |-> 0]
        main == IF Len(s) >= kInputMarginBytes THEN EmitFrom(s, 0, table, <<>>)
                ELSE [ip |-> 0, op |-> <<>>]
    IN  IF main.ip < Len(s) THEN main.op \o EmitLiteral(Rest(s, main.ip)) ELSE main.op

-----------------------------------------------------------------------------
(* A source hands out its bytes in fragments: Peek shows the first, Skip     *)
(* consumes.  A sequence of non-empty sequences.                            *)

Peek(src) == IF src = <<>> THEN <<>> ELSE Head(src)

Skip(src, n) ==
    IF n = 0 THEN src
    ELSE IF n = Len(Head(src)) THEN Tail(src) ELSE <<Rest(Head(src), n)>> \o Tail(src)

RECURSIVE Gather(_, _, _)
\* Peek, copy and Skip until n bytes are together or the source is dry.
Gather(src, have, n) ==
    LET add == IF n - Len(have) < Len(Peek(src)) THEN n - Len(have) ELSE Len(Peek(src))
    IN  IF add = 0 THEN [src |-> src, bytes |-> have]
        ELSE Gather(Skip(src, add), have \o Prefix(Peek(src), add), n)

RECURSIVE CompressBlocks(_, _)
CompressBlocks(src, left) ==
    LET size == IF left < BlockSize THEN left ELSE BlockSize
        block == Gather(src, <<>>, size)
    IN  IF left = 0 THEN <<>>
        ELSE CompressFragment(block.bytes) \o CompressBlocks(block.src, left - size)

Compress(src) ==
    LET N == Len(FlattenSeq(src)) IN Encode32(N) \o CompressBlocks(src, N)

-----------------------------------------------------------------------------
(* Copies within the output.  pat is the pattern (the bytes from src to op), *)
(* len what the tag asks for, room what the buffer has left, vec whether    *)
(* the build has SNAPPY_HAVE_VECTOR_BYTE_SHUFFLE; the result is the len     *)
(* bytes after op and whether a chunk reached past the buffer.              *)

\* Copies n bytes from position s to position d, all loads before the stores.
Store(m, s, d, n) ==
    [mem |-> [i \in 1..(IF d + n > Len(m.mem) THEN d + n ELSE Len(m.mem)) |->
                 IF i > d /\ i <= d + n
                 THEN (IF i - d + s <= Len(m.mem) THEN m.mem[i - d + s] ELSE Garbage)
                 ELSE IF i <= Len(m.mem) THEN m.mem[i] ELSE Garbage],
     over |-> m.over \/ d + n > m.limit, limit |-> m.limit]

\* One byte at a time from d on, each the byte p before it.
RECURSIVE StoreSlow(_, _, _, _)
StoreSlow(m, d, p, end) ==
    IF d >= end THEN m ELSE StoreSlow(Store(m, d - p, d, 1), d + 1, p, end)

ConditionalUnalignedCopy128(vec, m, s, d) ==
    IF vec THEN Store(m, s, d, 16) ELSE Store(Store(m, s, d, 8), s + 8, d + 8, 8)

\* A chunk every 16 bytes from d on, while d < end.
RECURSIVE StoreChunks(_, _, _, _, _)
StoreChunks(vec, m, d, p, end) ==
    IF d >= end THEN m ELSE StoreChunks(vec, ConditionalUnalignedCopy128(vec, m, d - p, d), d + 16, p, end)

\* The same with the vector unit: 16 bytes of the pattern, wherever d stands in it.
RECURSIVE StorePattern(_, _, _, _)
StorePattern(m, d, p, end) ==
    IF d >= end THEN m
    ELSE LET w == [i \in 1..(d + 16) |-> IF i <= d THEN m.mem[i] ELSE m.mem[d - p + 1 + ((i - d - 1) % p)]]
         IN  StorePattern([m EXCEPT !.mem = w, !.over = @ \/ d + 16 > m.limit], d + 16, p, end)

\* Without the vector unit: doubles the pattern until it spans 8 bytes.
RECURSIVE Widen(_, _, _)
Widen(m, op, p) ==
    IF p >= 8 THEN [m |-> m, op |-> op, p |-> p]
    ELSE Widen(Store(m, op - p, op, 8), op + p, 2 * p)

\* One byte less than a pattern of 1 or 3 needs.
CanWidenTen(room) == room >= 10

\* Room for every chunk of Widen: 8 bytes from the last of its steps.
CanWiden(room) == room >= 11

\* First chunk after op at or past the end.
ChunksEnd(op, end) == IF op < end THEN op + 16 * ((end - op + 15) \div 16) ELSE op

\* The tail after a pattern is widened or was wide enough.
CopyWide(vec, m, op, p, end) ==
    LET Finish(wide, done) ==
            IF done >= end THEN wide
            ELSE IF done <= m.limit - 8 THEN StoreSlow(Store(wide, done - p, done, 8), done + 8, p, end)
            ELSE StoreSlow(wide, done, p, end)
    IN  IF end <= m.limit - 15 THEN StoreChunks(vec, m, op, p, IF op < end THEN end ELSE op + 1)
        ELSE Finish(StoreChunks(vec, m, op, p, m.limit - 16), ChunksEnd(op, m.limit - 16))

CopyWidened(vec, wider, end) ==
    IF wider.op >= end THEN wider.m ELSE CopyWide(vec, wider.m, wider.op, wider.p, end)

\* The buffer behind a pattern, and what len bytes after it hold in the end.
Buffer(pat, room) == [mem |-> pat, over |-> FALSE, limit |-> Len(pat) + room]
Copied(m, pat, len) == [data |-> SubSeq(m.mem, Len(pat) + 1, Len(pat) + len), over |-> m.over]

IncrementalCopy(vec, pat, len, room) ==
    LET Done(m, op, end, last) ==
            CASE vec /\ op < 16 /\ end <= last -> StorePattern(m, op, op, end)
              [] vec /\ op < 16 /\ end > last ->
                     StoreSlow(StorePattern(m, op, op, last), ChunksEnd(op, last), op, end)
              [] ~vec /\ op < 8 /\ ~CanWiden(room) -> StoreSlow(m, op, op, end)
              [] ~vec /\ op < 8 /\ CanWiden(room) -> CopyWidened(vec, Widen(m, op, op), end)
              [] OTHER -> CopyWide(vec, m, op, op, end)
    IN  Copied(Done(Buffer(pat, room), Len(pat), Len(pat) + len, Len(pat) + room - 15), pat, len)

\* 64 bytes, whatever the length asked for; the caller has checked offset > 0.
Copy64BytesWithPatternExtension(vec, pat, len, room) ==
    LET Done(m, op) ==
            CASE vec /\ op <= 16 -> StorePattern(m, op, op, op + 64)
              [] ~vec /\ op < 16 ->
                     StoreChunks(vec, StoreSlow(m, op, op, op + 16), op + 16, (16 \div op + 1) * op, op + 64)
              [] OTHER -> StoreChunks(vec, m, op, op, op + 64)
    IN  Copied(Done(Buffer(pat, room), Len(pat)), pat, len)

-----------------------------------------------------------------------------
(* Writers.  out is what has been written, exp the announced length, base    *)
(* where the block being filled starts in out, lim where it ends, over       *)
(* whether memory outside the block was touched.  A sink writer has full     *)
(* blocks before base, and full counts them; a vector writer has buffers of  *)
(* the lengths iov, and cur is the one being filled.                         *)

ArrayWriter(exp, vec) ==
    [kind |-> "array", out |-> <<>>, exp |-> exp, base |-> 0, lim |-> exp, full |-> 0,
     iov |-> <<>>, cur |-> 0, over |-> FALSE, vec |-> vec]
ScatteredWriter(exp, vec) == [ArrayWriter(exp, vec) EXCEPT !.kind = "scattered", !.lim = 0]
Validator(exp) == [ArrayWriter(exp, FALSE) EXCEPT !.kind = "validator", !.base = 1, !.lim = Unlimited]
IOVecWriter(exp, iov, vec) ==
    [ArrayWriter(exp, vec) EXCEPT !.kind = "iovec", !.iov = iov, !.cur = 1, !.lim = iov[1]]

Add(w, bytes) == [w EXCEPT !.out = @ \o bytes]
AddCopy(w, c) == [w EXCEPT !.out = @ \o c.data, !.over = @ \/ c.over]
Touch(w, n) == [w EXCEPT !.over = @ \/ n > w.lim]
Yes(w) == [ok |-> TRUE, w |-> w]
No(w) == [ok |-> FALSE, w |-> w]

op(w) == Len(w.out)

\* op_limit_min_slop: below it kSlopBytes may be written without looking.
MinSlop(w) ==
    LET room == w.lim - w.base
    IN  IF w.kind = "validator" THEN Unlimited - kSlopBytes + 1
        ELSE w.lim - (IF room < kSlopBytes - 1 THEN room ELSE kSlopBytes - 1)

Size(w) == w.full + op(w) - w.base

CheckLength(w) == IF w.kind = "scattered" THEN Size(w) = w.exp ELSE op(w) = w.exp

\* A new block of the sink writer, when the last one is full.
RECURSIVE SlowAppend(_, _)
SlowAppend(w, bytes) ==
    LET avail == w.lim - op(w)
        NewBlock(w2, rest) ==
            IF w2.full + Len(rest) > w.exp THEN No(w2)
            ELSE SlowAppend([w2 EXCEPT !.base = op(w2),
                                       !.lim = op(w2) + (IF BlockSize < w.exp - w2.full THEN BlockSize
                                                         ELSE w.exp - w2.full)], rest)
    IN  IF Len(bytes) <= avail THEN Yes(Add(w, bytes))
        ELSE NewBlock([Add(w, Prefix(bytes, avail)) EXCEPT !.full = @ + w.lim - w.base], Rest(bytes, avail))

\* SnappyIOVecWriter::AppendNoCheck.
RECURSIVE AppendNoCheck(_, _)
AppendNoCheck(w, bytes) ==
    LET room == w.lim - op(w)
        n == IF Len(bytes) < room THEN Len(bytes) ELSE room
    IN  IF bytes = <<>> THEN Yes(w)
        ELSE IF room > 0 THEN AppendNoCheck(Add(w, Prefix(bytes, n)), Rest(bytes, n))
        ELSE IF w.cur = Len(w.iov) THEN No(w)
        ELSE AppendNoCheck([w EXCEPT !.cur = @ + 1, !.base = w.lim, !.lim = w.lim + w.iov[w.cur + 1]], bytes)

Append_(w, bytes) ==
    CASE w.kind = "array" -> IF w.exp - op(w) < Len(bytes) THEN No(w) ELSE Yes(Add(w, bytes))
      [] w.kind = "iovec" -> IF op(w) + Len(bytes) > w.exp THEN No(w) ELSE AppendNoCheck(w, bytes)
      [] w.kind = "scattered" -> SlowAppend(w, bytes)
      [] w.kind = "validator" -> [ok |-> op(w) + Len(bytes) <= w.exp, w |-> Add(w, bytes)]

\* Up to 16 bytes at once, without another look at the limits.
CanTryFastAppend(w, available, length) ==
    /\ w.kind # "validator"
    /\ length <= 16
    /\ available >= 16 + kMaximumTagLength
    /\ w.lim - op(w) >= 16
    /\ w.kind = "iovec" => w.exp - op(w) >= 16
TryFastAppend(w, bytes) == Touch(Add(w, bytes), op(w) + 16)

\* Overlapping copy from offset bytes back, inside the block.
CopyInBlock(w, offset, len) ==
    Yes(AddCopy(w, IncrementalCopy(w.vec, SubSeq(w.out, op(w) - offset + 1, op(w)), len, w.lim - op(w))))

\* memmove of kSlopBytes: the bytes not yet written are garbage.
MoveSlop(w, offset, len) ==
    Touch(Add(w, [i \in 1..len |-> IF i <= offset THEN w.out[op(w) - offset + i] ELSE Garbage]),
          op(w) + kSlopBytes)

\* A copy that overlaps itself is moved like any other.
AppendFromSelfArrayUnchecked(w, offset, len) ==
    IF op(w) - w.base < offset THEN No(w)
    ELSE IF op(w) >= MinSlop(w) THEN
         (IF op(w) + len > w.lim \/ offset = 0 THEN No(w) ELSE CopyInBlock(w, offset, len))
    ELSE Yes(MoveSlop(w, offset, len))

\* SnappyArrayWriter::AppendFromSelf.
AppendFromSelfArray(w, offset, len) ==
    IF op(w) - w.base < offset THEN No(w)
    ELSE IF op(w) >= MinSlop(w) \/ offset < len THEN
         (IF op(w) + len > w.lim \/ offset = 0 THEN No(w) ELSE CopyInBlock(w, offset, len))
    ELSE Yes(MoveSlop(w, offset, len))

RECURSIVE SlowAppendBytes(_, _, _)
SlowAppendBytes(w, src, len) ==
    LET After(r) == IF r.ok THEN SlowAppendBytes(r.w, src + 1, len - 1) ELSE r
    IN  IF len = 0 THEN Yes(w) ELSE After(Append_(w, <<w.out[src + 1]>>))

SlowAppendFromSelf(w, offset, len) ==
    IF offset > Size(w) \/ w.exp - Size(w) < len THEN No(w)
    ELSE SlowAppendBytes(w, Size(w) - offset, len)

\* SnappyScatteredWriter::AppendFromSelf.
AppendFromSelfScattered(w, offset, len) ==
    LET before == op(w) - w.base < offset
    IN  IF before \/ op(w) >= MinSlop(w) \/ offset < len THEN
            IF offset = 0 THEN No(w)
            ELSE IF before \/ op(w) + len > w.lim THEN SlowAppendFromSelf(w, offset, len)
            ELSE CopyInBlock(w, offset, len)
        ELSE Yes(MoveSlop(w, offset, len))

\* Where buffer i of the vector starts.
IovStart(w, i) == SumFunction([j \in 1..(i - 1) |-> w.iov[j]])

\* Walks back over the buffers to the one that holds the byte offset back.
RECURSIVE LocateIov(_, _, _, _)
LocateIov(w, i, at, offset) ==
    IF at >= offset THEN [i |-> i, at |-> at - offset]
    ELSE LocateIov(w, i - 1, w.iov[i - 1], offset - at)

\* The copy loop, buffer by buffer.
RECURSIVE CopyIov(_, _, _, _)
CopyIov(w, i, at, len) ==
    LET from == w.iov[i] - at
        n == IF from < len THEN from ELSE len
        room == w.lim - op(w)
        k == IF room < len THEN room ELSE len
        start == IovStart(w, i) + at
    IN  IF len = 0 THEN Yes(w)
        ELSE IF i # w.cur
        THEN LET Onward(r) == IF len = n THEN Yes(r.w) ELSE CopyIov(r.w, i + 1, 0, len - n)
             IN  Onward(AppendNoCheck(w, SubSeq(w.out, start + 1, start + n)))
        ELSE IF room = 0 THEN
             (IF w.cur = Len(w.iov) THEN No(w)
              ELSE CopyIov([w EXCEPT !.cur = @ + 1, !.base = w.lim, !.lim = w.lim + w.iov[w.cur + 1]], i, at, len))
        ELSE CopyIov(CopyInBlock(w, op(w) - start, k).w, i, at + k, len - k)

\* SnappyIOVecWriter::AppendFromSelf.
AppendFromSelfIOVec(w, offset, len) ==
    IF offset = 0 \/ offset > op(w) \/ len > w.exp - op(w) THEN No(w)
    ELSE LET from == LocateIov(w, w.cur, op(w) - w.base, offset) IN CopyIov(w, from.i, from.at, len)

AppendFromSelf(w, offset, len) ==
    CASE w.kind = "array" -> AppendFromSelfArray(w, offset, len)
      [] w.kind = "scattered" -> AppendFromSelfScattered(w, offset, len)
      [] w.kind = "iovec" -> AppendFromSelfIOVec(w, offset, len)
      [] w.kind = "validator" ->
             IF offset = 0 \/ op(w) < offset THEN No(w)
             ELSE LET w2 == Add(w, [i \in 1..len |-> Garbage]) IN [ok |-> op(w2) <= w.exp, w |-> w2]

-----------------------------------------------------------------------------
(* The decompressor: src the source, buf the bytes from ip_ to ip_limit_,    *)
(* peeked how many of them are still to be skipped in the source.            *)

\* Number of bytes of a tag and its trailer.
CalculateNeeded(tag) ==
    CASE tag % 4 = LITERAL -> IF tag \div 4 >= 60 THEN (tag \div 4) - 58 ELSE 1
      [] tag % 4 = COPY_1_BYTE_OFFSET -> 2
      [] tag % 4 = COPY_2_BYTE_OFFSET -> 3
      [] tag % 4 = COPY_4_BYTE_OFFSET -> 5

RECURSIVE ExtractLowBytes(_, _)
ExtractLowBytes(buf, n) == IF n = 0 THEN 0 ELSE buf[1] + ByteBase * ExtractLowBytes(Tail(buf), n - 1)

\* Length and offset of a copy (kLengthMinusOffset and the trailer).
TrailerBytes(tag) == IF tag % 4 = COPY_4_BYTE_OFFSET THEN 4 ELSE tag % 4
CopyLength(tag) == IF tag % 4 = COPY_1_BYTE_OFFSET THEN ((tag \div 4) % 8) + 4 ELSE (tag \div 4) + 1
CopyOffset(tag, trailer) ==
    ExtractLowBytes(trailer, TrailerBytes(tag))
    + (IF tag % 4 = COPY_1_BYTE_OFFSET THEN ByteBase * (tag \div 32) ELSE 0)

\* RefillTag: a whole tag in buf, put together from several fragments if need be.
RefillTag(d) ==
    LET Reader(src, buf, peeked) == [src |-> src, buf |-> buf, peeked |-> peeked, eof |-> FALSE]
        Fresh(src) == Reader(src, Peek(src), Len(Peek(src)))
        Whole(got, needed) == [ok |-> Len(got.bytes) = needed, d |-> Reader(got.src, got.bytes, 0)]
        Refill(e, needed) ==
            IF Len(e.buf) < needed THEN Whole(Gather(Skip(e.src, e.peeked), e.buf, needed), needed)
            ELSE IF Len(e.buf) < kMaximumTagLength
            THEN [ok |-> TRUE, d |-> Reader(Skip(e.src, e.peeked), e.buf, 0)]
            ELSE [ok |-> TRUE, d |-> e]
        Start(e) ==
            IF e.buf = <<>> THEN [ok |-> FALSE, d |-> [e EXCEPT !.eof = TRUE]]
            ELSE Refill(e, CalculateNeeded(e.buf[1]))
    IN  Start(IF d.buf = <<>> THEN Fresh(Skip(d.src, d.peeked)) ELSE d)

\* MAYBE_REFILL: ip has come within kMaximumTagLength of the limit.
MaybeRefill(d) == IF Len(d.buf) < kMaximumTagLength THEN RefillTag(d) ELSE [ok |-> TRUE, d |-> d]

\* One tag of the unrolled loop; ok is FALSE at break_loop.
BranchlessTag(buf, w) ==
    LET tag == buf[1]
        Break == [ok |-> FALSE, buf |-> buf, w |-> w]
        Lit(len) ==
            [ok |-> TRUE, buf |-> Rest(buf, 1 + len),
             w |-> [Add(w, SubSeq(buf, 2, 1 + len)) EXCEPT
                       !.over = @ \/ op(w) + kSlopBytes > w.lim \/ Len(buf) < 1 + kSlopBytes]]
        Pattern(offset, len) ==
            Copy64BytesWithPatternExtension(w.vec, SubSeq(w.out, op(w) - offset + 1, op(w)), len, w.lim - op(w))
        Copy(offset, len) ==
            IF offset = 0 \/ offset > op(w) - w.base THEN Break
            ELSE [ok |-> TRUE, buf |-> Rest(buf, 1 + (tag % 4)),
                  w |-> CASE w.kind = "validator" -> Add(w, [i \in 1..len |-> Garbage])
                          [] w.kind # "validator" /\ offset < len -> AddCopy(w, Pattern(offset, len))
                          [] OTHER -> MoveSlop(w, offset, len)]
    IN  CASE tag % 4 = COPY_4_BYTE_OFFSET -> Break
          [] tag % 4 = LITERAL -> IF tag \div 4 >= 60 THEN Break ELSE Lit((tag \div 4) + 1)
          [] OTHER -> Copy(CopyOffset(tag, Tail(buf)), CopyLength(tag))

\* The loop: two tags between two looks at the limits.
RECURSIVE BranchlessLoop(_, _)
BranchlessLoop(buf, w) ==
    LET Two(two) ==
            IF two.ok /\ Len(two.buf) - 1 > 2 * kSlopBytes + 1 /\ op(two.w) < MinSlop(w) - kSlopBytes
            THEN BranchlessLoop(two.buf, two.w)
            ELSE [buf |-> two.buf, w |-> two.w]
        One(one) == IF one.ok THEN Two(BranchlessTag(one.buf, one.w)) ELSE [buf |-> buf, w |-> w]
    IN  One(BranchlessTag(buf, w))

DecompressBranchless(buf, w) ==
    IF /\ w.kind # "iovec" /\ ~(w.kind = "scattered" /\ w.lim = 0)
       /\ 2 * (kSlopBytes + 1) < Len(buf) /\ op(w) - w.base < MinSlop(w) - w.base - kSlopBytes
    THEN BranchlessLoop(buf, w)
    ELSE [buf |-> buf, w |-> w]

\* A literal that may go on over several fragments.
RECURSIVE AppendLiteral(_, _, _)
AppendLiteral(d, w, length) ==
    LET avail == Len(d.buf)
        Onward(src, w2) ==
            IF src = <<>> THEN [ok |-> FALSE, d |-> [d EXCEPT !.src = src, !.buf = <<>>, !.peeked = 0], w |-> w2]
            ELSE AppendLiteral([d EXCEPT !.src = src, !.buf = Peek(src), !.peeked = Len(Peek(src))],
                               w2, length - avail)
        Part(r) ==
            IF ~r.ok THEN [ok |-> FALSE, d |-> d, w |-> r.w]
            ELSE IF avail >= length THEN [ok |-> TRUE, d |-> [d EXCEPT !.buf = Rest(d.buf, length)], w |-> r.w]
            ELSE Onward(Skip(d.src, d.peeked), r.w)
    IN  Part(Append_(w, Prefix(d.buf, IF avail < length THEN avail ELSE length)))

\* One tag of the outer loop.
DecompressTag(d, w) ==
    LET Lit(buf, short) ==
            IF CanTryFastAppend(w, Len(buf), short)
            THEN [ok |-> TRUE, d |-> [d EXCEPT !.buf = Rest(buf, short)], w |-> TryFastAppend(w, Prefix(buf, short))]
            ELSE IF short <= 60 THEN AppendLiteral([d EXCEPT !.buf = buf], w, short)
            ELSE AppendLiteral([d EXCEPT !.buf = Rest(buf, short - 60)], w, ExtractLowBytes(buf, short - 60) + 1)
        After(copy, buf) == [ok |-> copy.ok, d |-> [d EXCEPT !.buf = buf], w |-> copy.w]
        Tag(tag, buf) ==
            IF tag % 4 = LITERAL THEN Lit(buf, (tag \div 4) + 1)
            ELSE After(AppendFromSelf(w, CopyOffset(tag, buf), CopyLength(tag)), Rest(buf, TrailerBytes(tag)))
    IN  Tag(d.buf[1], Tail(d.buf))

\* DecompressAllTags: until the source ends or a tag is refused.
RECURSIVE DecompressAllTags(_, _)
DecompressAllTags(d, w) ==
    LET Continue(r, w2) == IF r.ok THEN DecompressAllTags(r.d, w2) ELSE [d |-> r.d, w |-> w2]
        After(t) == IF t.ok THEN Continue(MaybeRefill(t.d), t.w) ELSE [d |-> t.d, w |-> t.w]
        Slow(r, w2) == IF r.ok THEN After(DecompressTag(r.d, w2)) ELSE [d |-> r.d, w |-> w2]
        Fast(f) == Slow(MaybeRefill([d EXCEPT !.buf = f.buf]), f.w)
    IN  Fast(DecompressBranchless(d.buf, w))

\* ReadUncompressedLength, byte by byte from the source.
RECURSIVE ReadUncompressedLength(_, _, _)
ReadUncompressedLength(src, shift, value) ==
    LET c == Peek(src)[1]
    IN  IF shift >= Width \/ src = <<>> THEN [ok |-> FALSE, value |-> 0, src |-> src]
        ELSE IF LeftShiftOverflows(c % 128, shift) THEN [ok |-> FALSE, value |-> 0, src |-> Skip(src, 1)]
        ELSE IF c < 128 THEN [ok |-> TRUE, value |-> value + c * 2^shift, src |-> Skip(src, 1)]
        ELSE ReadUncompressedLength(Skip(src, 1), shift + 7, value + (c % 128) * 2^shift)

\* InternalUncompressAllTags: all tags, then the length must be the announced one.
InternalUncompressAllTags(src, w) ==
    LET Unpacked(first) == IF first.ok THEN DecompressAllTags(first.d, w) ELSE [d |-> first.d, w |-> w]
        Flush(end) == [ok |-> end.d.eof /\ CheckLength(end.w), w |-> end.w]
    IN  Flush(Unpacked(RefillTag([src |-> src, buf |-> <<>>, peeked |-> 0, eof |-> FALSE])))

Writer(kind, exp, iov, vec) ==
    CASE kind = "array" -> ArrayWriter(exp, vec)
      [] kind = "scattered" -> ScatteredWriter(exp, vec)
      [] kind = "iovec" -> IOVecWriter(exp, iov, vec)
      [] kind = "validator" -> Validator(exp)

InternalUncompress(src, kind, iov, vec) ==
    LET header == ReadUncompressedLength(src, 0, 0)
    IN  IF header.ok THEN InternalUncompressAllTags(header.src, Writer(kind, header.value, iov, vec))
        ELSE [ok |-> FALSE, w |-> Writer(kind, 0, iov, vec)]

\* What UncompressAsMuchAsPossible returns: the sink writer's Produced().
UncompressAsMuchAsPossible(src, vec) == Size(InternalUncompress(src, "scattered", <<>>, vec).w)
=============================================================================
