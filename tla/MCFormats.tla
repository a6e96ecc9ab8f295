----------------------------- MODULE MCFormats -----------------------------
(***************************************************************************)
(* The formats of the files of a database, from the bytes up, one at a     *)
(* time (part): a log written, damaged and read; batches and edits, its    *)
(* records; tables built and read; the iterators over tables; and snappy,  *)
(* which packs the blocks of tables.                                       *)
(***************************************************************************)
EXTENDS Snappy, Records, Log

CONSTANTS Runs,        \* <<period, length>> of the runs a word is made of
          MaxRuns,     \* runs in a word
          Tags,        \* tags, with their trailers, of a hand-made stream
          MaxTags,     \* tags in it
          LengthBytes, \* bytes of the length prefixes tried on their own

          UserKeys, MaxByte, MaxSequence, MaxEntries, OptionSets,
          Rooms, kFilterBase, BitsPerKey, MinBits, Probes, HashOf(_), \* Table
          ScanKeys, ScanSequences, Sources                            \* Iterators

VARIABLES part,     \* the format at work
          stage,    \* how far the stream has come
          word,     \* the word compressed, when the stream comes from Compress
          stream,   \* the compressed stream
          mode,     \* how it is read
          result    \* what reading it returned

snVars == <<stage, word, stream, mode, result>>

VARIABLES builder, added
VARIABLES source, sequence_, last, it, ref

taVars == <<builder, added>>
itVars == <<source, sequence_, last, it, ref>>
vars == <<part, snVars, reVars, lgVars, taVars, itVars>>

TA == INSTANCE Table WITH r <- builder
IT == INSTANCE Iterators WITH UserKeys <- ScanKeys, MaxSequence <- ScanSequences, Databases <- Sources

ASSUME FormatsAssumption ==
    /\ LogConstants
    /\ kFilterBase > 0 /\ MinBits > 0 /\ Probes > 0
    /\ \A o \in OptionSets : o.restart >= 1
    /\ \A d \in Sources : d.sequence \in 1..ScanSequences

\* A run of period r[1] and length r[2]; runs of different periods share no letter.
Run(run) == [i \in 1..run[2] |-> (i % run[1]) + 10 * run[1]]
Words == {FlattenSeq([i \in 1..Len(rs) |-> Run(rs[i])]) : rs \in UNION {[1..n -> Runs] : n \in 0..MaxRuns}}

Literal(n) == EmitLiteral([i \in 1..n |-> i])
Copy1(offset, len) == EmitCopyAtMost64(offset, len, TRUE)
Copy2(offset, len) == EmitCopyAtMost64(offset, len, FALSE)
Copy4(offset, len) == <<COPY_4_BYTE_OFFSET + 4 * (len - 1), offset % ByteBase, offset \div ByteBase, 0, 0>>

\* Enough short literals to keep the unrolled loop running before them.
LongTail == Literal(60) \o Literal(60) \o Literal(60)

\* Fragments of at most n bytes.
Fragments(s, n) ==
    [i \in 1..((Len(s) + n - 1) \div n) |->
        SubSeq(s, (i - 1) * n + 1, IF i * n < Len(s) THEN i * n ELSE Len(s))]

Modes == [kind : {"array", "scattered", "iovec"}, vec : BOOLEAN, frag : {1, 7, 1000}]
         \cup [kind : {"validator"}, vec : {FALSE}, frag : {1, 7, 1000}]

\* What the format means, byte by byte: the reference the decoders are held to.
RECURSIVE Repeat(_, _, _)
Repeat(done, offset, len) ==
    IF len = 0 THEN done ELSE Repeat(Append(done, done[Len(done) - offset + 1]), offset, len - 1)

RECURSIVE Value(_)
Value(bytes) == IF bytes = <<>> THEN 0 ELSE bytes[1] + ByteBase * Value(Tail(bytes))

RECURSIVE Meaning(_, _)
Meaning(s, done) ==
    LET type == s[1] % 4
        data == s[1] \div 4
        width == CASE type = 0 -> (IF data < 60 THEN 0 ELSE data - 59)
                   [] type = 3 -> 4
                   [] OTHER -> type
        value == Value(SubSeq(s, 2, 1 + width))
        length == CASE type = 0 -> (IF data < 60 THEN data ELSE value) + 1
                    [] type = 1 -> (data % 8) + 4
                    [] OTHER -> data + 1
        offset == IF type = 1 THEN value + ByteBase * (data \div 8) ELSE value
    IN  IF s = <<>> THEN [ok |-> TRUE, out |-> done]
        ELSE IF Len(s) < 1 + width THEN [ok |-> FALSE, out |-> done]
        ELSE IF type = 0 /\ Len(s) < 1 + width + length
        THEN [ok |-> FALSE, out |-> done \o Rest(s, 1 + width)]
        ELSE IF type = 0 THEN Meaning(Rest(s, 1 + width + length), done \o SubSeq(s, 2 + width, 1 + width + length))
        ELSE IF offset \in 1..Len(done) THEN Meaning(Rest(s, 1 + width), Repeat(done, offset, length))
        ELSE [ok |-> FALSE, out |-> done]

Decoded(s) ==
    LET header == Parse32WithLimit(s)
        body == Meaning(Rest(s, header.used), <<>>)
    IN  IF header.ok THEN [ok |-> body.ok /\ Len(body.out) = header.value, out |-> body.out]
        ELSE [ok |-> FALSE, out |-> <<>>]

-----------------------------------------------------------------------------

snInit ==
    /\ \/ stage = "word" /\ word \in Words /\ stream = <<>>
       \/ stage = "tags" /\ word = <<>> /\ stream = <<>>
       \/ stage = "packed" /\ word = <<>> /\ stream \in UNION {[1..n -> LengthBytes] : n \in 0..4}
    /\ mode = [kind |-> "none", vec |-> FALSE, frag |-> 1000]
    /\ result = [ok |-> FALSE, w |-> Validator(0)]

\* RawCompress of the word, whatever fragments its source hands out.
Pack ==
    /\ stage = "word"
    /\ \E n \in {7, 1000} : stream' = Compress(Fragments(word, n))
    /\ stage' = "packed"
    /\ UNCHANGED <<word, mode, result>>

\* A stream put together by hand: its length may be wrong, its end missing.
Make ==
    /\ stage = "tags"
    /\ \E ts \in UNION {[1..n -> Tags] : n \in 0..MaxTags}, tail \in {<<>>, LongTail},
         delta \in {-1, 0, 1}, lost \in {0, 1, 3} :
         LET body == FlattenSeq(ts) \o tail
             n == Len(Meaning(body, <<>>).out) + delta
             whole == Encode32(IF n < 0 THEN 0 ELSE n) \o body
         IN  /\ lost < Len(whole)
             /\ stream' = Prefix(whole, Len(whole) - lost)
    /\ stage' = "packed"
    /\ UNCHANGED <<word, mode, result>>

\* RawUncompress, RawUncompressToIOVec, Uncompress to a sink or IsValidCompressed.
Unpack ==
    /\ stage = "packed"
    /\ \E m \in Modes :
         /\ mode' = m
         /\ result' = InternalUncompress(Fragments(stream, m.frag), m.kind,
                                         <<5, 0, 17, Parse32WithLimit(stream).value>>, m.vec)
    /\ stage' = "unpacked"
    /\ UNCHANGED <<word, stream>>

snIdle ==
    /\ stage = "idle" /\ word = <<>> /\ stream = <<>>
    /\ mode = [kind |-> "none", vec |-> FALSE, frag |-> 1000]
    /\ result = [ok |-> FALSE, w |-> Validator(0)]

taIdle == builder = <<>> /\ added = <<>>
itIdle == source = <<>> /\ sequence_ = 0 /\ last = 0 /\ it = <<>> /\ ref = 0

Init ==
    /\ reInit /\ lgInit
    /\ \/ part = "snappy"    /\ snInit /\ taIdle   /\ itIdle
       \/ part = "table"     /\ snIdle /\ TA!Init  /\ itIdle
       \/ part = "iterators" /\ snIdle /\ taIdle   /\ IT!Init
       \/ part \in {"records", "log"} /\ snIdle /\ taIdle /\ itIdle

snStep == part = "snappy" /\ (Pack \/ Make \/ Unpack) /\ UNCHANGED <<part, reVars, lgVars, taVars, itVars>>
reStep == part = "records" /\ reNext /\ UNCHANGED <<part, snVars, lgVars, taVars, itVars>>
lgStep == part = "log" /\ lgNext /\ UNCHANGED <<part, snVars, reVars, taVars, itVars>>
taStep == part = "table" /\ TA!Next /\ UNCHANGED <<part, snVars, reVars, lgVars, itVars>>
itStep == part = "iterators" /\ IT!Next /\ UNCHANGED <<part, snVars, reVars, lgVars, taVars>>

Next == snStep \/ reStep \/ lgStep \/ taStep \/ itStep

Spec == Init /\ [][Next]_vars

-----------------------------------------------------------------------------

\* What Compress made of a word, split into blocks, literals and copies of at
\* most 64 bytes, every decoder turns back into the word, from whatever fragments
\* it is read.
RoundTrip ==
    (stage = "unpacked" /\ word # <<>>) =>
        /\ result.ok
        /\ mode.kind # "validator" => result.w.out = word

\* Every decoder accepts exactly the streams the format allows, and what it has
\* written when it stops is a prefix of what the stream means: the unrolled loop,
\* the chunked copies, the scattered buffers and the validator all decide alike.
DecodersAgree ==
    stage = "unpacked" =>
        LET d == Decoded(stream)
        IN  /\ result.ok = d.ok
            /\ mode.kind # "validator" => IsPrefix(result.w.out, d.out)
            /\ d.ok => Len(result.w.out) = Len(d.out)

\* The fast paths store 8, 16 or 64 bytes where fewer are meant, and read as
\* many: never outside the buffer the caller gave.
NoOverrun == stage = "unpacked" => ~result.w.over

\* snappy.h on UncompressAsMuchAsPossible: "It returns the number of valid bytes
\* added to sink".  The sink has no more than what the writer wrote.
AsMuchCounted ==
    (stage = "unpacked" /\ mode.kind = "scattered") =>
        UncompressAsMuchAsPossible(Fragments(stream, mode.frag), mode.vec) <= Len(result.w.out)

\* A log no failure touched is read in full, and from an offset on by a reader that
\* starts there; a stop or a failed write costs no record before it, and the cut record
\* at the end is no corruption; a damaged cell costs the records of its block and no
\* others; a loss and a failed read are reported (log::Writer::AddRecord, the kEof and
\* the checksum mismatch of ReadPhysicalRecord).  Not promised, since the code does not
\* keep it: records behind a failed write or a trailer that was not filled; a report of
\* damage in the last block, or that makes a length or type zero; a report of a failed
\* read by a reader that starts at an offset.
LogReadable ==
    part = "log" => /\ SoundLogReadable /\ NothingBeforeLost /\ TornTailSilent
                    /\ DamageIsLocal /\ LossReported /\ ReadErrorReported

\* The blocks of a finished table read back as they were built, in both directions
\* and from any seek, and lookups find the newest visible entry (BlockBuilder,
\* TableBuilder, Block::Iter, Table::InternalGet).
TablesReadBack == part = "table" => TA!BlocksReadBack /\ TA!LookupsExact

\* An iterator stands where its calls lead, with every child at its place, or its
\* status() tells (DBIter, MergingIterator, TwoLevelIterator).
ScanExact == part = "iterators" => IT!ScanExact /\ IT!PlacesOrdered

-----------------------------------------------------------------------------

\* Runs shorter and longer than a match, a short literal and a block, of periods
\* a chunk can hold and cannot.
SomeRuns == {1, 3, 9, 30, 70} \X {3, 18, 69, 140}

\* Literals on both sides of the long form; copies of every form from the first
\* byte, from nothing, from before the start and over themselves.
SomeTags == {Literal(1), Literal(20), Literal(61), Copy1(1, 10), Copy1(20, 11), Copy1(0, 5),
             Copy2(3, 64), Copy2(20, 20), Copy2(90, 64), Copy2(1, 1), Copy4(21, 40)}

\* Edits with every field, numbers of one to Groups64 digits and no, one or two files.
Key(n) == [j \in 1..n |-> 1]
NewFile(l, n) == [tag |-> kNewFile, level |-> l, number |-> n, size |-> 5, smallest |-> Key(1), largest |-> Key(n % 7)]
Number(t, n) == [tag |-> t, number |-> n]
SomeEdits ==
    {a \o b \o c \o d :
        a \in {<<>>, <<[tag |-> kComparator, name |-> Key(2)]>>, <<Number(kLogNumber, 9), Number(kPrevLogNumber, 0)>>},
        b \in {<<>>, <<Number(kNextFileNumber, 63), Number(kLastSequence, 16)>>,
               <<[tag |-> kCompactPointer, level |-> 2, key |-> Key(4)]>>},
        c \in {<<>>, <<[tag |-> kDeletedFile, level |-> 0, number |-> 17]>>},
        d \in {<<>>, <<NewFile(0, 5)>>, <<NewFile(1, 20), NewFile(2, 6)>>}}

SomeLengthBytes == {0, 3, 4, 127, 128, 255}

-----------------------------------------------------------------------------

\* User keys, among them prefixes of each other and a run of the largest byte.
\* Tables have one block or several, blocks one restart point or several.
SomeUserKeys == {<<1>>, <<1, 1>>, <<1, 3>>, <<3>>}
Options(b, i, f, c) == [block |-> b, restart |-> i, filter |-> f, compressor |-> c]
SomeOptionSets == {Options(2, 1, TRUE, 0), Options(2, 2, FALSE, 2), Options(3, 1, TRUE, 2),
                   Options(3, 2, TRUE, 0), Options(5, 2, TRUE, 2)}
SomeHashOf(u) == (IF Len(u) = 1 THEN 5 * u[1] ELSE 3 * u[1] + 7 * u[2]) % 16

\* A memtable, a table of level 0 and a deeper level of two files, the first with
\* two blocks.  Every key is absent or present in the deep level, the second one may be
\* deleted there; the younger sources hold at most one entry each.  Without
\* a table in level 0, one block cannot be read or holds a corrupt key.
Entry(k, s, t) == [k |-> k, s |-> s, t |-> t]
Leaf(es, ok)  == [es |-> es, ok |-> ok]
One(s)         == {{}} \cup {{Entry(k, s, t)} : k \in ScanKeys, t \in {"value", "deletion"}}

\* The separator of a block is a key between its last and the next first.
Between(k) == (k + 1) * (ScanSequences + 1) - 1
\* The place of an entry in internal key order: the largest key of a file.
Exactly(k, s) == k * (ScanSequences + 1) + ScanSequences - s
Tree(bs, ks)  == [kid |-> bs, sep |-> [j \in DOMAIN ks |-> Between(ks[j])]]

Deep(f, fault) ==
  LET B(k) == Leaf(IF f[k] = "none" THEN {}
                    ELSE {Entry(k, k, IF fault = k + 10 THEN "corrupt" ELSE f[k])}, fault # k)
      K == {k \in 1 .. 3 : f[k] # "none"}
      FileOf(S) == LET ks == SetToSortSeq(S, LAMBDA a, b : a < b)
                   IN  Tree([j \in DOMAIN ks |-> B(ks[j])], ks)
      fs == {S \in {K \cap {1, 2}, K \cap {3}} : S # {}}
      ss == SetToSortSeq(fs, LAMBDA S, T : Min(S) < Min(T))
  IN  [kid |-> [j \in DOMAIN ss |-> FileOf(ss[j])],
       sep |-> [j \in DOMAIN ss |-> Exactly(Max(ss[j]), Max(ss[j]))]]

\* Version::AddIterators makes no iterator of an empty level, and there is
\* no table without entries.
SomeSources ==
  {[source |-> <<Leaf(mem, TRUE)>>
               \o (IF zero = {} THEN <<>>
                   ELSE LET k == (CHOOSE e \in zero : TRUE).k
                        IN  <<Tree(<<Leaf(zero, TRUE)>>, <<k>>)>>)
               \o (IF \A k \in 1 .. 3 : f[k] = "none" THEN <<>> ELSE <<Deep(f, fault)>>),
    sequence |-> 5, last |-> 5] :
      mem \in One(5),
      <<zero, fault>> \in (One(4) \X {0}) \cup ({{}} \X {2, 12}),
      f \in {g \in [1 .. 3 -> {"none", "value", "deletion"}] : g[1] # "deletion" /\ g[3] # "deletion"}}
=============================================================================
