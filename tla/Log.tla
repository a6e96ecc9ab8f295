---------------------------------- MODULE Log ----------------------------------
(***************************************************************************)
(* log::Writer and log::Reader (log_writer.cc, log_reader.cc): the file    *)
(* format of write-ahead logs and of MANIFEST files, from the calls of     *)
(* AddRecord to the records and reports a reader produces.                 *)
(*                                                                         *)
(* A file is a sequence of cells.  A header is three cells (checksum,      *)
(* length, type), payload cells name the record they belong to.  The       *)
(* checksum of a header is the checked content itself: a reader never      *)
(* takes damaged content for sound.  The process may stop at any cell, a   *)
(* write may fail halfway, one cell may be damaged, and a log may be       *)
(* reopened for more records (reuse_logs).                                 *)
(***************************************************************************)
EXTENDS Integers, Sequences, FiniteSets, SequencesExt

CONSTANTS
  kBlockSize,
  Lengths,       \* payload sizes of the records written
  MaxRecords,    \* calls of AddRecord
  MaxStops       \* stops and failed writes

kHeaderSize == 3

\* A block takes more than a header (log_format.h: 32768 bytes and 7).
LogConstants == kBlockSize \in Nat /\ kBlockSize > kHeaderSize /\ Lengths \subseteq Nat

\* enum RecordType, and what ReadPhysicalRecord adds to it.
kZeroType   == 0
kFullType   == 1
kFirstType  == 2
kMiddleType == 3
kLastType   == 4
kEof        == 5
kBadRecord  == 6

Zero      == [k |-> "zero"]
Crc(type, payload) == [k |-> "crc", of |-> <<type, payload>>]
Length(n) == [k |-> "len", n |-> n]
Type(t)   == [k |-> "type", t |-> t]
Data(r, i) == [k |-> "data", r |-> r, i |-> i]
Unreadable == [k |-> "garbage"]

Zeros(n) == [j \in 1 .. n |-> Zero]
Payload(r, first, n) == [j \in 1 .. n |-> Data(r, first + j)]

VARIABLES
  file,            \* the cells of the file
  block_offset_,   \* of the Writer
  left, begin,     \* locals of AddRecord; left = -1: no call is running
  written,         \* per call of AddRecord: size, first cell, acknowledged
  stops,
  torn,            \* a stop or a failure left a partial record in the file
  damaged,         \* the damaged cell, 0 if none
  r,               \* the Reader, with the locals of ReadRecord
  out, drops,      \* records returned, and the drops reported
  pc               \* write, read, done; failed: the file could not be read on

writer == <<file, block_offset_, left, begin, written, stops, torn, damaged>>
lgVars == <<writer, r, out, drops, pc>>

-----------------------------------------------------------------------------
(* Writer *)

lgInit ==
  /\ file = << >> /\ block_offset_ = 0
  /\ left = -1 /\ begin = FALSE
  /\ written = << >> /\ stops = 0 /\ torn = FALSE /\ damaged = 0
  /\ r = [end |-> 0] /\ out = << >> /\ drops = 0 /\ pc = "write"

\* A call of AddRecord with n bytes.
BeginRecord(n) ==
  /\ pc = "write" /\ left = -1 /\ damaged = 0 /\ Len(written) < MaxRecords
  /\ left' = n /\ begin' = TRUE
  /\ written' = Append(written, [size |-> n, at |-> 0, ok |-> FALSE])
  /\ UNCHANGED <<file, block_offset_, stops, torn, damaged, r, out, drops, pc>>

Record == Len(written)

\* The header and the payload of one fragment of the record.
EmitPhysicalRecord(t, n) ==
  LET p == Payload(Record, written[Record].size - left, n)
  IN  <<Crc(Type(t), p), Length(n), Type(t)>> \o p

\* One turn of AddRecord's loop: the trailer to fill, and the fragment.  (Faulty
\* variant: the trailer is not filled.)
Turn ==
  LET leftover == kBlockSize - block_offset_
      fits     == leftover >= kHeaderSize
      avail    == (IF fits THEN leftover ELSE kBlockSize) - kHeaderSize
      n        == IF left < avail THEN left ELSE avail
      end      == left = n
  IN  [pad  |-> IF fits THEN << >> ELSE Zeros(leftover),
       from |-> IF fits THEN block_offset_ ELSE 0,
       n    |-> n,
       type |-> CASE begin /\ end -> kFullType [] begin /\ ~end -> kFirstType
                  [] ~begin /\ end -> kLastType [] OTHER -> kMiddleType]
AddRecord_NoTrailer == [Turn EXCEPT !.pad = << >>]
AddRecord == Turn

\* The fragment behind the z cells of the trailer that got into the file, and the
\* record, which starts at its first fragment.
Emitted(f, z) == SubSeq(f.pad, 1, z) \o EmitPhysicalRecord(f.type, f.n)
Started(z) ==
  IF begin THEN [written EXCEPT ![Record].at = Len(file) + z + 1] ELSE written

\* The fragment is written, whether the trailer before it was or not.
Fragmented(f, z) ==
  /\ pc = "write" /\ left >= 0
  /\ file' = file \o Emitted(f, z)
  /\ block_offset_' = f.from + kHeaderSize + f.n
  /\ left' = IF left = f.n THEN -1 ELSE left - f.n
  /\ begin' = FALSE
  /\ written' = IF left = f.n THEN [Started(z) EXCEPT ![Record].ok = TRUE] ELSE Started(z)
  /\ UNCHANGED <<damaged, r, out, drops, pc>>

WriteFragment ==
  /\ Fragmented(AddRecord, Len(AddRecord.pad))
  /\ UNCHANGED <<stops, torn>>

\* The Append of the trailer fails; its status is not looked at, and the record goes
\* on where the trailer stopped.
TrailerFails ==
  /\ stops < MaxStops
  /\ \E z \in 0 .. Len(AddRecord.pad) - 1 : Fragmented(AddRecord, z)
  /\ stops' = stops + 1 /\ torn' = TRUE

\* Append or Flush fails after some cells, or after all; AddRecord returns the error,
\* and block_offset_ has moved on all the same.
WriteFails ==
  LET f == AddRecord IN
  /\ pc = "write" /\ left >= 0 /\ stops < MaxStops
  /\ \E z \in 0 .. Len(f.pad) : \E k \in z .. Len(Emitted(f, z)) :
       file' = file \o SubSeq(Emitted(f, z), 1, k) /\ written' = Started(z)
  /\ block_offset_' = f.from + kHeaderSize + f.n
  /\ left' = -1 /\ begin' = FALSE
  /\ stops' = stops + 1 /\ torn' = TRUE
  /\ UNCHANGED <<damaged, r, out, drops, pc>>

\* The machine stops: a prefix of the file survives, and the next process makes
\* a Writer(dest, dest_length) for it.
Stop ==
  /\ pc = "write" /\ damaged = 0 /\ stops < MaxStops
  /\ \E n \in 0 .. Len(file) :
       /\ file' = SubSeq(file, 1, n)
       /\ block_offset_' = n % kBlockSize
       /\ written' = [i \in 1 .. Len(written) |->
            [written[i] EXCEPT !.ok = @ /\ written[i].at + kHeaderSize - 1 <= n
                                        /\ \A c \in 1 .. written[i].size :
                                             \E j \in 1 .. n : file[j] = Data(i, c)]]
       /\ torn' = (torn \/ n < Len(file) \/ left >= 0)
  /\ left' = -1 /\ begin' = FALSE
  /\ stops' = stops + 1
  /\ UNCHANGED <<damaged, r, out, drops, pc>>

\* What a damaged cell may hold.
Damages(c) ==
  CASE c.k = "len"  -> {Length(n) : n \in 0 .. kBlockSize} \ {c}
    [] c.k = "type" -> {Type(t) : t \in 0 .. 5} \ {c}
    [] OTHER        -> {Unreadable}

Damage ==
  /\ pc = "write" /\ left = -1 /\ damaged = 0
  /\ \E j \in 1 .. Len(file) : \E c \in Damages(file[j]) :
       /\ file' = [file EXCEPT ![j] = c]
       /\ damaged' = j
  /\ UNCHANGED <<block_offset_, left, begin, written, stops, torn, r, out, drops, pc>>

-----------------------------------------------------------------------------
(* Reader *)

\* A Reader of the file, and the skip of its first ReadRecord.  Damaged and torn
\* files are read from the start, as recovery reads them.
SkipToInitialBlock(offset) ==
  LET in_block == offset % kBlockSize
      start    == offset - in_block
  IN  IF in_block > kBlockSize - (kHeaderSize - 1) THEN start + kBlockSize ELSE start

NewReader(offset) ==
  /\ pc = "write" /\ left = -1
  /\ damaged # 0 \/ torn => offset = 0
  /\ r' = [end |-> SkipToInitialBlock(offset), buffer |-> << >>, eof |-> FALSE,
           initial |-> offset, resyncing |-> offset > 0,
           scratch |-> << >>, in_fragment |-> FALSE, at |-> 0]
  /\ UNCHANGED <<writer, out>>
Reader(offset) == NewReader(offset) /\ pc' = "read" /\ UNCHANGED drops

\* The number or type a header cell is read as; another cell is read as anything.
LengthsOf(c) == IF c.k = "len" THEN {c.n} ELSE IF c.k = "zero" THEN {0} ELSE 0 .. kBlockSize
TypesOf(c)   == IF c.k = "type" THEN {c.t} ELSE IF c.k = "zero" THEN {kZeroType} ELSE 0 .. kLastType + 1

\* The results of ReadPhysicalRecord on a buffer that holds a header: type, fragment,
\* cells reported as dropped (-1: no report) and what is left of the buffer.
Phys(type, fragment, drop, rest) == [type |-> type, fragment |-> fragment, drop |-> drop, rest |-> rest]

ReadPhysicalRecord(b) ==
  UNION {
    IF kHeaderSize + n > Len(b)
    THEN {IF r.eof THEN Phys(kEof, << >>, -1, << >>)
                   ELSE Phys(kBadRecord, << >>, Len(b), << >>)}
    ELSE LET fragment == SubSeq(b, kHeaderSize + 1, kHeaderSize + n)
             rest     == SubSeq(b, kHeaderSize + n + 1, Len(b))
             offset   == r.end - Len(rest) - kHeaderSize - n
         IN  {CASE t = kZeroType /\ n = 0 -> Phys(kBadRecord, << >>, -1, << >>)
                [] ~(t = kZeroType /\ n = 0) /\ b[1] # Crc(b[3], fragment) -> Phys(kBadRecord, << >>, Len(b), << >>)
                [] OTHER -> IF offset < r.initial THEN Phys(kBadRecord, << >>, -1, rest)
                                                  ELSE Phys(t, fragment, -1, rest) :
              t \in TypesOf(b[3])} :
    n \in LengthsOf(b[2])}

\* The reports made when the file was consumed up to n; what would start before the
\* file is taken for far behind initial (uint64_t).
ReportDrop(bytes, n, initial) ==
  IF bytes >= 0 /\ (n < bytes \/ n - bytes >= initial) THEN 1 ELSE 0

\* The skip to the initial block fails.
SkipFails(offset) ==
  LET start == SkipToInitialBlock(offset) IN
  /\ start > 0
  /\ NewReader(offset) /\ pc' = "failed"
  /\ drops' = drops + ReportDrop(start, start, offset)

\* ReadPhysicalRecord reads the next block, or ends the file.
NextBlock == SubSeq(file, r.end + 1, Min({r.end + kBlockSize, Len(file)}))
ReadBlock ==
  /\ pc = "read" /\ Len(r.buffer) < kHeaderSize /\ ~r.eof
  /\ LET b == NextBlock IN
     r' = [r EXCEPT !.buffer = b, !.end = @ + Len(b), !.eof = Len(b) < kBlockSize]
  /\ UNCHANGED <<writer, out, drops, pc>>

\* The read of the next block fails, behind n cells of it: the end of the file, too.
ReadError ==
  /\ pc = "read" /\ Len(r.buffer) < kHeaderSize /\ ~r.eof
  /\ \E n \in 0 .. Len(NextBlock) :
       /\ r' = [r EXCEPT !.buffer = << >>, !.end = @ + n, !.eof = TRUE]
       /\ drops' = drops + ReportDrop(kBlockSize, r.end + n, r.initial)
  /\ pc' = "failed"
  /\ UNCHANGED <<writer, out>>

EndOfFile ==
  /\ pc = "read" /\ Len(r.buffer) < kHeaderSize /\ r.eof
  /\ pc' = "done"
  /\ UNCHANGED <<writer, r, out, drops>>

\* ReadRecord's loop on one physical record.  (Faulty variant: the first fragment
\* of a record is joined to the record that was cut before it.)
Handle(p, cut) ==
  LET offset   == r.end - Len(p.rest) - kHeaderSize - Len(p.fragment)
      skip     == r.resyncing /\ p.type \in {kMiddleType, kLastType}
      base     == [r EXCEPT !.buffer = p.rest, !.resyncing = @ /\ p.type = kMiddleType]
      cleared  == [base EXCEPT !.scratch = << >>, !.in_fragment = FALSE]
      returned(data, at) == Append(out, [data |-> data, at |-> at])
      dropped(bytes) == ReportDrop(bytes, r.end - Len(p.rest), r.initial)
      report(bytes) == drops + dropped(bytes)
      partial  == IF r.in_fragment /\ r.scratch # << >> THEN report(Len(r.scratch)) ELSE drops
  IN
  CASE skip -> r' = base /\ UNCHANGED <<out, drops, pc>>
    [] ~skip /\ p.type = kFullType ->
         /\ out' = returned(p.fragment, offset) /\ drops' = partial
         /\ r' = cleared /\ UNCHANGED pc
    [] ~skip /\ p.type = kFirstType ->
         /\ r' = [base EXCEPT !.in_fragment = TRUE, !.at = offset, !.scratch = cut \o p.fragment]
         /\ drops' = partial /\ UNCHANGED <<out, pc>>
    [] ~skip /\ p.type \in {kMiddleType, kLastType} /\ ~r.in_fragment ->
         /\ r' = base /\ drops' = report(Len(p.fragment))
         /\ UNCHANGED <<out, pc>>
    [] ~skip /\ p.type = kMiddleType /\ r.in_fragment ->
         /\ r' = [base EXCEPT !.scratch = @ \o p.fragment]
         /\ UNCHANGED <<out, drops, pc>>
    [] ~skip /\ p.type = kLastType /\ r.in_fragment ->
         /\ out' = returned(r.scratch \o p.fragment, r.at)
         /\ r' = cleared /\ UNCHANGED <<drops, pc>>
    [] p.type = kEof ->
         /\ r' = base /\ pc' = "done" /\ drops' = report(p.drop) /\ UNCHANGED out
    [] p.type = kBadRecord ->
         /\ r' = cleared
         /\ drops' = report(p.drop) + dropped(IF r.in_fragment THEN Len(r.scratch) ELSE -1)
         /\ UNCHANGED <<out, pc>>
    [] OTHER ->
         /\ r' = cleared
         /\ drops' = report(Len(p.fragment) + (IF r.in_fragment THEN Len(r.scratch) ELSE 0))
         /\ UNCHANGED <<out, pc>>
ReadRecord_Joins(p) == Handle(p, r.scratch)
ReadRecord(p) == Handle(p, << >>)

Read ==
  /\ pc = "read" /\ Len(r.buffer) >= kHeaderSize
  /\ \E p \in ReadPhysicalRecord(r.buffer) : ReadRecord(p)
  /\ UNCHANGED writer

Done == pc \in {"done", "failed"} /\ UNCHANGED lgVars

lgNext ==
  \/ \E n \in Lengths : BeginRecord(n)
  \/ WriteFragment \/ TrailerFails \/ WriteFails \/ Stop \/ Damage
  \/ \E offset \in 0 .. Len(file) : Reader(offset) \/ SkipFails(offset)
  \/ ReadBlock \/ ReadError \/ EndOfFile \/ Read \/ Done

lgSpec == lgInit /\ [][lgNext]_lgVars

-----------------------------------------------------------------------------
(* Properties *)

Content(i) == Payload(i, 0, written[i].size)
\* The records the file still holds in full, with a given offset or behind it.
Whole(offset) ==
  {i \in DOMAIN written : written[i].ok /\ written[i].at > offset}
Returned == {i \in DOMAIN written : \E o \in ToSet(out) : o.data = Content(i) /\ o.at + 1 = written[i].at}
End(i) == IF i < Len(written) THEN written[i + 1].at - 1 ELSE Len(file)
Blocks(i) == {(j - 1) \div kBlockSize : j \in written[i].at .. End(i)}
LastBlock == (Len(file) - 1) \div kBlockSize

\* Whatever happened to the file, the reader only returns records that were
\* written, whole and in the order written (the checksum and the fragment types of
\* ReadRecord): no record is put together from the fragments of two.
OnlyGenuineRecords ==
  /\ \A j \in DOMAIN out : \E i \in DOMAIN written : out[j].data = Content(i)
  /\ \A j, k \in DOMAIN out : j < k => out[j].at < out[k].at

\* From a log that no failure touched, a reader from the start returns every record
\* and reports nothing; one from an offset returns the records that start there or
\* behind, as log_reader.h:41 says.
SoundLogReadable ==
  pc = "done" /\ ~torn /\ damaged = 0 =>
    /\ Returned = Whole(r.initial)
    /\ Len(out) = Cardinality(Whole(r.initial))
    /\ r.initial = 0 => drops = 0

\* A record that starts where no header fits: the trailer before it was not written.
InTrailer(i) == written[i].at > 0 /\ (written[i].at - 1) % kBlockSize > kBlockSize - kHeaderSize

\* No stop and no failed write costs a record acknowledged before it, whatever is
\* appended behind the failure (what is appended there may itself be unreadable).
NothingBeforeLost ==
  pc = "done" /\ damaged = 0 /\ r.initial = 0 =>
    \A i \in DOMAIN written : (\A j \in 1 .. i : written[j].ok /\ ~InTrailer(j)) => i \in Returned

\* After a stop, or a failed write that ended the writing, the reader takes the cut
\* record for the end of the log instead of reporting it; it returns the records before
\* it, and the one that failed when all of it is there.
TornTailSilent ==
  pc = "done" /\ damaged = 0 /\ r.initial = 0 /\ stops = 1 /\ Len(written) > 0
    /\ (\A i \in DOMAIN written : ~InTrailer(i))
    /\ (\A i \in DOMAIN written : ~written[i].ok => \A k \in i .. Len(written) : ~written[k].ok) =>
    /\ Whole(0) \subseteq Returned
    /\ \A i \in Returned : \A j \in 1 .. i - 1 : written[j].ok
    /\ drops = 0

\* A block that could not be read from the start of the log on is reported: such a log
\* is not taken for a short one.
ReadErrorReported == pc = "failed" /\ r.initial = 0 => drops > 0

\* A damaged cell costs the records of its block and no other ("checksum mismatch"
\* drops the rest of the buffer, and the next block starts afresh).
DamageIsLocal ==
  pc = "done" /\ ~torn /\ damaged # 0 =>
    \A i \in DOMAIN written : (damaged - 1) \div kBlockSize \notin Blocks(i) => i \in Returned

\* What a damaged cell costs is reported, unless it lies in the last block, or made
\* a header look like one of a preallocated region.
LossReported ==
  pc = "done" /\ ~torn /\ damaged # 0 /\ (damaged - 1) \div kBlockSize < LastBlock
    /\ file[damaged] \notin {Type(kZeroType), Length(0)} =>
    (Returned = DOMAIN written) \/ drops > 0

\* log_reader.h:76: a reader that starts at an offset skips the fragments before its
\* first record silently.
ResyncSilent == pc = "done" /\ ~torn /\ damaged = 0 => drops = 0

\* options.h:192: a record whose AddRecord returned OK, and that no stop removed,
\* is there when the log is read.
AcknowledgedReadable == pc = "done" /\ damaged = 0 /\ r.initial = 0 => Whole(0) \subseteq Returned
=============================================================================
