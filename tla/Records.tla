------------------------------ MODULE Records ------------------------------
(***************************************************************************)
(* What the log and the manifest carry: write batches (write_batch.cc) and  *)
(* version edits (version_edit.cc), in the variable-length encoding of      *)
(* coding.cc.  A record is a sequence of symbols; a number takes base-      *)
(* VarintBase digits (128 in the code), least significant first, all but    *)
(* the last with VarintBase added; 32-bit numbers have at most Groups32     *)
(* digits (5), 64-bit numbers Groups64 (10).                                *)
(***************************************************************************)
EXTENDS Integers, Sequences, SequencesExt

CONSTANTS VarintBase, Groups32, Groups64,
          NumLevels,   \* config::kNumLevels
          MaxOps,      \* operations in the batches together
          Edits        \* version edits encoded

VARIABLES step,    \* what has been done with the record
          batch,   \* the batches the writers hand in
          ops,     \* what was asked of them, in order
          edit,    \* the edit encoded
          rep,     \* the record
          cut,     \* symbols lost from its end
          got      \* what reading it gave

reVars == <<step, batch, ops, edit, rep, cut, got>>

-----------------------------------------------------------------------------
(* coding.cc *)

RECURSIVE PutVarint(_)
PutVarint(v) == IF v < VarintBase THEN <<v>> ELSE <<(v % VarintBase) + VarintBase>> \o PutVarint(v \div VarintBase)

PutLengthPrefixedSlice(s) == PutVarint(Len(s)) \o s

After(s, n) == SubSeq(s, n + 1, Len(s))
Bad == [ok |-> FALSE, v |-> 0, rest |-> <<>>]

\* GetVarint32 and GetVarint64, which differ in the number of groups they take.
GetVarint(s, groups) ==
    LET Ends == {k \in 1..Len(s) : k <= groups /\ s[k] < VarintBase}
        k == CHOOSE k \in Ends : \A j \in Ends : k <= j
        Value[j \in 0..groups] ==
            IF j = 0 THEN 0 ELSE Value[j - 1] + (s[j] % VarintBase) * VarintBase^(j - 1)
    IN  IF Ends = {} THEN Bad ELSE [ok |-> TRUE, v |-> Value[k], rest |-> After(s, k)]

\* The length is believed although fewer bytes are there.
GetLengthPrefixedSliceTrusting(s) ==
    LET Taken(n, m) ==
            IF n.ok THEN [ok |-> TRUE, v |-> SubSeq(n.rest, 1, m), rest |-> After(n.rest, m)]
            ELSE [ok |-> FALSE, v |-> <<>>, rest |-> s]
        Slice(n) == Taken(n, IF n.v <= Len(n.rest) THEN n.v ELSE Len(n.rest))
    IN  Slice(GetVarint(s, Groups32))

GetLengthPrefixedSlice(s) ==
    LET Slice(n) ==
            IF n.ok /\ Len(n.rest) >= n.v
            THEN [ok |-> TRUE, v |-> SubSeq(n.rest, 1, n.v), rest |-> After(n.rest, n.v)]
            ELSE [ok |-> FALSE, v |-> <<>>, rest |-> IF n.ok THEN n.rest ELSE s]
    IN  Slice(GetVarint(s, Groups32))

-----------------------------------------------------------------------------
(* write_batch.cc: a batch is its header, sequence and count, and its body.  *)

kTypeDeletion == 0
kTypeValue == 1

Clear == [sequence |-> 0, count |-> 0, body |-> <<>>]

Put(b, k, v) ==
    [b EXCEPT !.count = @ + 1,
              !.body = @ \o <<kTypeValue>> \o PutLengthPrefixedSlice(k) \o PutLengthPrefixedSlice(v)]
Delete(b, k) == [b EXCEPT !.count = @ + 1, !.body = @ \o <<kTypeDeletion>> \o PutLengthPrefixedSlice(k)]

\* WriteBatchInternal::Append.
AppendBatch(dst, src) == [dst EXCEPT !.count = @ + src.count, !.body = @ \o src.body]

\* WriteBatch::Iterate with a MemTableInserter: what the memtable was given, and
\* whether the batch was found sound.
RECURSIVE IterateFrom(_, _, _, _)
IterateFrom(s, sequence, mem, count) ==
    LET Insert(slice, type, k, v) ==
            IF slice.ok
            THEN IterateFrom(slice.rest, sequence + 1, Append(mem, <<sequence, type, k, v>>), count)
            ELSE [ok |-> FALSE, mem |-> mem]
        PutValue(key, value) == Insert([value EXCEPT !.ok = @ /\ key.ok], kTypeValue, key.v, value.v)
        WithKey(key) ==
            CASE Head(s) = kTypeValue -> PutValue(key, GetLengthPrefixedSlice(key.rest))
              [] Head(s) = kTypeDeletion -> Insert(key, kTypeDeletion, key.v, <<>>)
              [] OTHER -> [ok |-> FALSE, mem |-> mem]
    IN  IF s = <<>> THEN [ok |-> Len(mem) = count, mem |-> mem]
        ELSE WithKey(GetLengthPrefixedSlice(Tail(s)))

InsertInto(b) == IterateFrom(b.body, b.sequence, <<>>, b.count)

-----------------------------------------------------------------------------
(* version_edit.cc: an edit is a list of fields <<tag, value>>, in the order *)
(* EncodeTo writes them.                                                    *)

kComparator == 1
kLogNumber == 2
kNextFileNumber == 3
kLastSequence == 4
kCompactPointer == 5
kDeletedFile == 6
kNewFile == 7
kPrevLogNumber == 9

Numbers == {kLogNumber, kNextFileNumber, kLastSequence, kPrevLogNumber}

EncodeField(f) ==
    PutVarint(f.tag) \o
    CASE f.tag = kComparator -> PutLengthPrefixedSlice(f.name)
      [] f.tag \in Numbers -> PutVarint(f.number)
      [] f.tag = kCompactPointer -> PutVarint(f.level) \o PutLengthPrefixedSlice(f.key)
      [] f.tag = kDeletedFile -> PutVarint(f.level) \o PutVarint(f.number)
      [] f.tag = kNewFile -> PutVarint(f.level) \o PutVarint(f.number) \o PutVarint(f.size)
                             \o PutLengthPrefixedSlice(f.smallest) \o PutLengthPrefixedSlice(f.largest)

EncodeTo(e) == FlattenSeq([i \in 1..Len(e) |-> EncodeField(e[i])])

GetLevel(s) == LET Checked(n) == [n EXCEPT !.ok = @ /\ n.v < NumLevels] IN Checked(GetVarint(s, Groups32))

\* What the part named name of a field is read with.
Get(name, s) ==
    CASE name \in {"name", "key", "smallest", "largest"} -> GetLengthPrefixedSlice(s)
      [] name = "level" -> GetLevel(s)
      [] name \in {"number", "size"} -> GetVarint(s, Groups64)

\* The parts of a field, in the order they are read.
Parts(tag) ==
    CASE tag = kComparator -> <<"name">>
      [] tag \in Numbers -> <<"number">>
      [] tag = kCompactPointer -> <<"level", "key">>
      [] tag = kDeletedFile -> <<"level", "number">>
      [] tag = kNewFile -> <<"level", "number", "size", "smallest", "largest">>
      [] OTHER -> <<>>

DecodeField(tag, s) ==
    LET With(field, name, p) == [ok |-> field.ok /\ p.ok, rest |-> p.rest, f |-> (name :> p.v) @@ field.f]
        Part(field, name) == IF field.ok THEN With(field, name, Get(name, field.rest)) ELSE field
    IN  FoldLeft(Part, [ok |-> Parts(tag) # <<>>, rest |-> s, f |-> [tag |-> tag]], Parts(tag))

RECURSIVE DecodeFrom(_, _)
DecodeFrom(s, fields) ==
    LET Onward(field) ==
            IF field.ok THEN DecodeFrom(field.rest, Append(fields, field.f)) ELSE [ok |-> FALSE, fields |-> fields]
        Tagged(tag) ==
            IF tag.ok THEN Onward(DecodeField(tag.v, tag.rest)) ELSE [ok |-> s = <<>>, fields |-> fields]
    IN  Tagged(GetVarint(s, Groups32))

-----------------------------------------------------------------------------

None == [ok |-> FALSE, mem |-> <<>>, fields |-> <<>>]

reInit ==
    /\ step = "open" /\ rep = <<>> /\ cut = 0 /\ got = None
    /\ batch = <<Clear, Clear>> /\ ops = <<<<>>, <<>>>>
    /\ edit = <<>>

\* WriteBatch::Put or Delete on one of the batches, with keys and values of the
\* caller; the last batch may hold a value longer than one length digit tells.
AddOp ==
    /\ step = "open"
    /\ Len(ops[1]) + Len(ops[2]) < MaxOps
    /\ \E i \in 1..2, k \in {<<>>, <<1>>}, v \in {<<0>>, [j \in 1..VarintBase |-> 1]} :
         \/ /\ batch' = [batch EXCEPT ![i] = Put(@, k, v)]
            /\ ops' = [ops EXCEPT ![i] = Append(@, <<kTypeValue, k, v>>)]
         \/ /\ batch' = [batch EXCEPT ![i] = Delete(@, k)]
            /\ ops' = [ops EXCEPT ![i] = Append(@, <<kTypeDeletion, k, <<>>>>)]
    /\ UNCHANGED <<step, edit, rep, cut, got>>

\* BuildBatchGroup: the batches become one record, the end of which may be lost
\* in a damaged log.
WriteGroup ==
    /\ step = "open"
    /\ \E n \in 0..3 :
         LET b == [AppendBatch(AppendBatch(Clear, batch[1]), batch[2]) EXCEPT !.sequence = 7]
         IN  /\ n <= Len(b.body)
             /\ rep' = [b EXCEPT !.body = SubSeq(b.body, 1, Len(b.body) - n)]
             /\ cut' = n
    /\ step' = "batch"
    /\ UNCHANGED <<batch, ops, edit, got>>

ReplayBatch ==
    /\ step = "batch"
    /\ got' = InsertInto(rep) @@ None
    /\ step' = "replayed"
    /\ UNCHANGED <<batch, ops, edit, rep, cut>>

\* LogAndApply writes an edit.
WriteEdit ==
    /\ step = "open" /\ ops = <<<<>>, <<>>>>
    /\ \E e \in Edits : \E n \in 0..Len(EncodeTo(e)) :
         /\ edit' = e /\ cut' = n
         /\ rep' = SubSeq(EncodeTo(e), 1, Len(EncodeTo(e)) - n)
    /\ step' = "edit"
    /\ UNCHANGED <<batch, ops, got>>

ReadEdit ==
    /\ step = "edit"
    /\ got' = DecodeFrom(rep, <<>>) @@ None
    /\ step' = "read"
    /\ UNCHANGED <<batch, ops, edit, rep, cut>>

reNext == AddOp \/ WriteGroup \/ ReplayBatch \/ WriteEdit \/ ReadEdit

-----------------------------------------------------------------------------

\* Replaying a group of batches (WriteBatch::Iterate over what
\* WriteBatchInternal::Append joined) says OK exactly when nothing is missing, and
\* then the memtable has every operation, in order, under consecutive sequence
\* numbers; of a damaged one it has a prefix, and the caller is told.
BatchWhole ==
    step = "replayed" =>
        LET all == ops[1] \o ops[2]
            want == [i \in 1..Len(all) |-> <<6 + i>> \o all[i]]
        IN  /\ got.ok = (cut = 0)
            /\ IsPrefix(got.mem, want)
            /\ got.ok => got.mem = want

\* An edit read back by VersionEdit::DecodeFrom has the fields EncodeTo wrote, in
\* order; a damaged one has some of the first of them, never a wrong number, level
\* or key.
EditExact ==
    step = "read" =>
        /\ IsPrefix(got.fields, edit)
        /\ cut = 0 => got.ok /\ got.fields = edit

\* What a log or a manifest holds is replayed as it was written, or not taken for
\* whole (WriteBatch and VersionEdit, on the varints of coding.cc).
RecordsExact == BatchWhole /\ EditExact
=============================================================================
