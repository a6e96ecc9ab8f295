--------------------------------- MODULE Table ---------------------------------
(***************************************************************************)
(* Tables: what TableBuilder, BlockBuilder and FilterBlockBuilder write    *)
(* and Table, Block::Iter and FilterBlockReader read back.                 *)
(*                                                                         *)
(* A key is a sequence of bytes whose last cell is the sequence number of  *)
(* the internal key.  An entry of a block is one cell (shared, delta,      *)
(* value), so offsets in a block count entries.  A file maps offsets to    *)
(* blocks; the size of a block is its number of entries and restart        *)
(* points.  Blocks are stored as they are or by a compressor, whatever     *)
(* saves more than an eighth.  A file operation may fail.                  *)
(***************************************************************************)
EXTENDS Integers, Sequences, FiniteSets, SequencesExt

CONSTANTS
  UserKeys,      \* sequences of bytes in 1 .. MaxByte
  MaxByte,       \* stands for 0xff
  MaxSequence,   \* kMaxSequenceNumber; entries are younger than it
  MaxEntries,    \* entries added to a table
  OptionSets,    \* block_size, block_restart_interval, filter_policy, compressor
  Rooms,         \* numbers of file operations before one fails
  kFilterBase,
  BitsPerKey, MinBits, Probes,
  HashOf(_)      \* BloomHash

VARIABLES r, added

vars == <<r, added>>

(***************************************************************************)
(* Comparators.                                                            *)
(***************************************************************************)
RECURSIVE Less(_, _)
Less(a, b) == \/ a = <<>> /\ b # <<>>
              \/ /\ a # <<>> /\ b # <<>>
                 /\ a[1] < b[1] \/ (a[1] = b[1] /\ Less(Tail(a), Tail(b)))

Shared(a, b) == CHOOSE n \in 0 .. Len(a) :
                  /\ n <= Len(b) /\ SubSeq(a, 1, n) = SubSeq(b, 1, n)
                  /\ n = Len(a) \/ n = Len(b) \/ a[n + 1] # b[n + 1]

UserKey(k) == SubSeq(k, 1, Len(k) - 1)
Sequence(k) == k[Len(k)]

\* InternalKeyComparator::Compare(a, b) < 0.
Before(a, b) == \/ Less(UserKey(a), UserKey(b))
                \/ UserKey(a) = UserKey(b) /\ Sequence(a) > Sequence(b)

Separator(u, l) ==
  LET d == Shared(u, l) + 1
  IN  IF d > Len(u) \/ d > Len(l) THEN u
      ELSE IF u[d] < MaxByte /\ u[d] + 1 < l[d] THEN Append(SubSeq(u, 1, d - 1), u[d] + 1)
      ELSE u

Successor(u) ==
  LET S == {i \in DOMAIN u : u[i] # MaxByte}
  IN  IF S = {} THEN u ELSE Append(SubSeq(u, 1, Min(S) - 1), u[Min(S)] + 1)

\* The user part became shorter but larger: it takes the earliest sequence.
Shortened(k, u) ==
  IF Len(u) < Len(UserKey(k)) /\ Less(UserKey(k), u) THEN Append(u, MaxSequence) ELSE k

FindShortestSeparator(k, limit) == Shortened(k, Separator(UserKey(k), UserKey(limit)))
FindShortSuccessor(k)           == Shortened(k, Successor(UserKey(k)))

(***************************************************************************)
(* BlockBuilder.                                                           *)
(***************************************************************************)
EmptyBlock == [buf |-> <<>>, restarts |-> <<0>>, counter |-> 0, last |-> <<>>]

Size(b) == Len(b.buf) + Len(b.restarts)

BlockAdd(b, interval, k, v) ==
  LET again == b.counter >= interval
      n     == IF again THEN 0 ELSE Shared(b.last, k)
  IN  [buf      |-> Append(b.buf, [shared |-> n, delta |-> SubSeq(k, n + 1, Len(k)), value |-> v]),
       restarts |-> IF again THEN Append(b.restarts, Len(b.buf)) ELSE b.restarts,
       counter  |-> IF again THEN 1 ELSE b.counter + 1,
       last     |-> k]

(***************************************************************************)
(* BloomFilterPolicy behind InternalFilterPolicy, and the filter block:    *)
(* one filter per kFilterBase of the file.                                 *)
(***************************************************************************)
Bits(u, bits) == LET h == HashOf(u) IN {(h + j * (h \div 2 + 1)) % bits : j \in 0 .. Probes - 1}

CreateFilter(keys) ==
  LET bits == Max({Len(keys) * BitsPerKey, MinBits})
  IN  [bits |-> bits, set |-> UNION {Bits(UserKey(keys[i]), bits) : i \in DOMAIN keys}]

PolicyMayMatch(k, f) == f.bits > 0 /\ Bits(UserKey(k), f.bits) \subseteq f.set

NoFilter == [bits |-> 0, set |-> {}]
GenerateFilter(f) ==
  [keys |-> <<>>, out |-> Append(f.out, IF f.keys = <<>> THEN NoFilter ELSE CreateFilter(f.keys))]

\* Starts a filter as soon as a block reaches its end.
RECURSIVE StartBlock_Early(_, _)
StartBlock_Early(f, offset) ==
  IF offset \div kFilterBase >= Len(f.out)
  THEN StartBlock_Early(GenerateFilter(f), offset) ELSE f

RECURSIVE StartBlock(_, _)
StartBlock(f, offset) ==
  IF offset \div kFilterBase > Len(f.out) THEN StartBlock(GenerateFilter(f), offset) ELSE f

FilterFinish(f) == IF f.keys = <<>> THEN f.out ELSE GenerateFilter(f).out

KeyMayMatch(filter, offset, k) ==
  LET i == offset \div kFilterBase + 1
  IN  i > Len(filter) \/ PolicyMayMatch(k, filter[i])

(***************************************************************************)
(* TableBuilder: its Rep is r.                                             *)
(***************************************************************************)
Operation(b) == IF b.room = 0 THEN [b EXCEPT !.ok = FALSE] ELSE [b EXCEPT !.room = @ - 1]

\* Contents and trailer are appended separately; the offset moves on only
\* when both are written.
WriteRawBlock(b, block, id, size) ==
  LET Placed(t) == IF ~t.ok THEN t
                   ELSE [t EXCEPT !.file = Append(@, [at |-> b.offset, block |-> block, id |-> id]),
                                  !.offset = @ + size + 1]
      Trailer(c) == IF ~c.ok THEN c ELSE Placed(Operation(c))
  IN  Trailer(Operation(b))

\* compressor->compress may or may not save enough.
WriteBlock(b, block, saves) ==
  LET id == IF saves THEN b.o.compressor ELSE 0
  IN  WriteRawBlock(b, [buf |-> block.buf, restarts |-> block.restarts], id,
                    IF id = 0 THEN Size(block) ELSE Max({1, Size(block) \div 2}))

Flush(b, saves) ==
  IF ~b.ok \/ b.data.buf = <<>> THEN b
  ELSE LET Flushed(w)  == IF w.ok THEN Operation([w EXCEPT !.pending = TRUE]) ELSE w
           Filtered(f) == IF b.o.filter THEN [f EXCEPT !.filter = StartBlock(@, f.offset)] ELSE f
       IN  Filtered(Flushed([WriteBlock(b, b.data, saves) EXCEPT !.data = EmptyBlock, !.handle = b.offset]))

AddIndex(b, k) ==
  IF b.pending THEN [b EXCEPT !.pending = FALSE, !.index = BlockAdd(@, 1, k, b.handle)] ELSE b

Add(k, v, saves) ==
  /\ r.closed = "no" /\ Len(added) < MaxEntries
  /\ added # <<>> => Before(added[Len(added)].k, k)
  /\ added' = Append(added, [k |-> k, v |-> v])
  /\ IF ~r.ok THEN UNCHANGED r
     ELSE LET With(i) == [i EXCEPT !.data = BlockAdd(@, r.o.restart, k, v), !.last = k,
                             !.filter = IF r.o.filter THEN [@ EXCEPT !.keys = Append(@, k)] ELSE @]
              Full(a) == IF Size(a.data) >= r.o.block THEN Flush(a, saves) ELSE a
          IN  r' = Full(With(AddIndex(r, FindShortestSeparator(r.last, k))))

NoFooter == [meta |-> 0, index |-> 0]

\* Finish, on a table of at least one entry: the filter, the metaindex, the
\* index and the footer, which names the last two.
WriteFilter(d) ==
  IF d.ok /\ d.o.filter THEN WriteRawBlock(d, [filters |-> FilterFinish(d.filter)], 0, 1) ELSE d

WriteMetaindex(f, filterAt) ==
  IF ~f.ok THEN f
  ELSE WriteBlock([f EXCEPT !.footer.meta = f.offset],
                  IF f.o.filter THEN BlockAdd(EmptyBlock, f.o.restart, <<1>>, filterAt) ELSE EmptyBlock, FALSE)

WriteIndex(m, saves) ==
  LET With(x) == WriteBlock([x EXCEPT !.footer.index = x.offset], x.index, saves)
  IN  IF ~m.ok THEN m ELSE With(AddIndex(m, FindShortSuccessor(m.last)))

WriteFooter(i) == IF i.ok THEN Operation(i) ELSE i

Finish(saves) ==
  LET Blocks(d) == WriteFooter(WriteIndex(WriteMetaindex(WriteFilter(d), d.offset), saves))
      Closed(t) == [t EXCEPT !.closed = "finished", !.footer = IF t.ok THEN @ ELSE NoFooter]
  IN  /\ r.closed = "no" /\ added # <<>>
      /\ r' = Closed(Blocks(Flush(r, saves)))
      /\ UNCHANGED added

Abandon ==
  /\ r.closed = "no"
  /\ r' = [r EXCEPT !.closed = "abandoned"]
  /\ UNCHANGED added

Init ==
  /\ \E o \in OptionSets, room \in Rooms :
       r = [o |-> o, room |-> room, ok |-> TRUE, closed |-> "no", offset |-> 0, file |-> <<>>,
            data |-> EmptyBlock, index |-> EmptyBlock, pending |-> FALSE, handle |-> 0,
            last |-> <<>>, filter |-> [keys |-> <<>>, out |-> <<>>], footer |-> NoFooter]
  /\ added = <<>>

Next ==
  \/ \E u \in UserKeys, s \in 1 .. MaxSequence - 1, saves \in BOOLEAN : Add(Append(u, s), s, saves)
  \/ \E saves \in BOOLEAN : Finish(saves)
  \/ Abandon

Spec == Init /\ [][Next]_vars

(***************************************************************************)
(* Block::Iter i of a block b.  cur: current_, Len(b.buf) if not valid;    *)
(* next: NextEntryOffset(); ri: restart_index_.                            *)
(***************************************************************************)
End(b) == [cur |-> Len(b.buf), next |-> Len(b.buf), ri |-> Len(b.restarts), key |-> <<>>,
           bad |-> FALSE]
CorruptionError(b) == [End(b) EXCEPT !.bad = TRUE]
RestartPoint(b, j) == b.restarts[j + 1]
SeekToRestartPoint(b, j) == [End(b) EXCEPT !.ri = j, !.next = RestartPoint(b, j)]

ParseNextKey(b, i) ==
  IF i.next >= Len(b.buf) THEN [End(b) EXCEPT !.bad = i.bad]
  ELSE LET e == b.buf[i.next + 1]
           J == {j \in i.ri + 1 .. Len(b.restarts) - 1 : RestartPoint(b, j) < i.next}
       IN  IF Len(i.key) < e.shared THEN CorruptionError(b)
           ELSE [cur |-> i.next, next |-> i.next + 1, bad |-> i.bad,
                 ri  |-> Max({i.ri} \cup J),
                 key |-> SubSeq(i.key, 1, e.shared) \o e.delta]

RECURSIVE ParseUntil(_, _, _)
ParseUntil(b, i, stop) ==
  LET From(n) == IF n.cur < Len(b.buf) /\ n.next < stop THEN ParseUntil(b, n, stop) ELSE n
  IN  From(ParseNextKey(b, i))

\* Back to a restart point before the entry, then forward to the entry
\* that ends where it begins.
PrevEntry(b, i) ==
  LET J == {j \in 0 .. i.ri : RestartPoint(b, j) < i.cur}
  IN  IF J = {} THEN End(b) ELSE ParseUntil(b, SeekToRestartPoint(b, Max(J)), i.cur)

SeekToFirst(b) == ParseNextKey(b, SeekToRestartPoint(b, 0))
SeekToLast(b)  == ParseUntil(b, SeekToRestartPoint(b, Len(b.restarts) - 1), Len(b.buf))

\* The last restart point whose key is before the target, by bisection;
\* -1: a restart point with a shared key, or with no entry.
RECURSIVE Bisect(_, _, _, _)
Bisect(b, left, right, target) ==
  IF left >= right THEN left
  ELSE LET mid == (left + right + 1) \div 2
           at  == RestartPoint(b, mid) + 1
       IN  IF at > Len(b.buf) \/ b.buf[Min({at, Len(b.buf)})].shared # 0 THEN -1
           ELSE IF Before(b.buf[at].delta, target)
           THEN Bisect(b, mid, right, target)
           ELSE Bisect(b, left, mid - 1, target)

RECURSIVE SeekFrom(_, _, _)
SeekFrom(b, i, target) ==
  LET From(n) == IF n.cur < Len(b.buf) /\ Before(n.key, target) THEN SeekFrom(b, n, target) ELSE n
  IN  From(ParseNextKey(b, i))

SeekEntry(b, target) ==
  LET j == Bisect(b, 0, Len(b.restarts) - 1, target)
  IN  IF j = -1 THEN CorruptionError(b) ELSE SeekFrom(b, SeekToRestartPoint(b, j), target)

Value(b, i) == b.buf[i.cur + 1].value

(***************************************************************************)
(* Table.  ReadBlock finds a block by its offset and needs its compressor. *)
(***************************************************************************)
None == [none |-> TRUE]

ReadBlock(offset, ids) ==
  LET S == {j \in DOMAIN r.file : r.file[j].at = offset}
  IN  IF S = {} THEN None
      ELSE LET b == r.file[CHOOSE j \in S : TRUE]
           IN  IF b.id = 0 \/ b.id \in ids THEN b.block ELSE None

\* Open and ReadMeta: the index block, and the filter if there is one that
\* can be read; without it every key may match.
Open(ids) == IF r.footer = NoFooter THEN None ELSE ReadBlock(r.footer.index, ids)

ReadMeta(ids) ==
  LET m == ReadBlock(r.footer.meta, ids)
  IN  IF ~r.o.filter \/ m = None \/ m.buf = <<>> THEN <<>> ELSE ReadBlock(m.buf[1].value, ids).filters

\* The entry InternalGet passes to its saver, None without one.
InternalGet(k, ids) ==
  LET Found(block, e)   == IF e.cur = Len(block.buf) THEN None ELSE [k |-> e.key, v |-> Value(block, e)]
      InBlock(block)    == Found(block, SeekEntry(block, k))
      At(offset)        == IF r.o.filter /\ ~KeyMayMatch(ReadMeta(ids), offset, k) THEN None
                           ELSE InBlock(ReadBlock(offset, ids))
      Indexed(index, i) == IF i.cur = Len(index.buf) THEN None ELSE At(Value(index, i))
      Through(index)    == Indexed(index, SeekEntry(index, k))
  IN  Through(Open(ids))

--------------------------------------------------------------------------------
Done == r.closed = "finished" /\ r.ok
Own  == {r.o.compressor}

\* What SaveValue makes of it for a user key and a snapshot.
Lookup(u, s) ==
  LET Saved(e) == IF e = None \/ UserKey(e.k) # u THEN 0 ELSE e.v
  IN  Saved(InternalGet(Append(u, s), Own))

(***************************************************************************)
(* A table whose Finish returned OK answers every lookup: for each user    *)
(* key and each snapshot it finds the newest entry that was added, or      *)
(* nothing if none was, through separators shortened between blocks, the   *)
(* restart points of index and data blocks and a filter shared by several  *)
(* blocks (TableBuilder::Add, Table::InternalGet, FilterBlockReader).      *)
(***************************************************************************)
LookupsExact ==
  Done => \A u \in UserKeys, s \in 1 .. MaxSequence :
            Lookup(u, s) =
              LET S == {i \in DOMAIN added : UserKey(added[i].k) = u /\ Sequence(added[i].k) <= s}
              IN  IF S = {} THEN 0 ELSE added[Min(S)].v

(***************************************************************************)
(* In every block that was written the iterator reads back the keys in     *)
(* order: forward from the first, backwards from each, and a seek stops at *)
(* the first key at or behind its target; it never reports a corruption    *)
(* (BlockBuilder::Add, Block::Iter).  Iterators.tla builds on this.        *)
(***************************************************************************)
Walk(b) ==
  LET F[n \in 1 .. Len(b.buf)] == IF n = 1 THEN SeekToFirst(b) ELSE ParseNextKey(b, F[n - 1])
  IN  F

BlocksReadBack ==
  Done => \A j \in DOMAIN r.file :
    LET b == r.file[j].block
    IN  "buf" \in DOMAIN b /\ b.buf # <<>> /\ r.file[j].at # r.footer.meta =>
      LET W == Walk(b)
          n == Len(b.buf)
      IN  /\ \A i \in 1 .. n : W[i].cur = i - 1 /\ ~W[i].bad
          /\ \A i \in 1 .. n - 1 : Before(W[i].key, W[i + 1].key)
          /\ SeekToLast(b).key = W[n].key
          /\ \A i \in 1 .. n : PrevEntry(b, W[i]).key = IF i = 1 THEN <<>> ELSE W[i - 1].key
          /\ r.file[j].at # r.footer.index =>
               \A i \in 1 .. n : \E e \in Range(added) : e.k = W[i].key /\ e.v = Value(b, W[i])
          /\ \A u \in UserKeys, s \in 1 .. MaxSequence :
               LET k == Append(u, s)
                   S == {i \in 1 .. n : ~Before(W[i].key, k)}
                   e == SeekEntry(b, k)
               IN  /\ ~e.bad
                   /\ IF S = {} THEN e.cur = n ELSE e.cur = Min(S) - 1
================================================================================
