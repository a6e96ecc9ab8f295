------------------------------- MODULE Iterators -------------------------------
(***************************************************************************)
(* What NewIterator of the database returns, and parseBedrock walks: a     *)
(* DBIter (db_iter.cc) over a MergingIterator (merger.cc) over the         *)
(* memtables, the tables of level 0 and one concatenating iterator per     *)
(* deeper level.  A table is a TwoLevelIterator (two_level_iterator.cc)    *)
(* over its index block, a deeper level one over its files.                *)
(*                                                                         *)
(* A source is a tree.  A leaf is a memtable or a data block: a set of     *)
(* entries in internal key order, which can be read or cannot; an inner    *)
(* node has its index keys.  An iterator is a record of the same shape.    *)
(* Writers go on inserting into the memtable while the iterator is used.   *)
(***************************************************************************)
EXTENDS Integers, Sequences, FiniteSets, SequencesExt

CONSTANTS
  UserKeys,     \* a set of numbers
  MaxSequence,
  Databases     \* the sources and the snapshots an iterator may be created on

VARIABLES
  source,       \* Seq of trees; source[1] is the memtable
  sequence_,    \* the snapshot of the DBIter
  last,         \* the last sequence number written
  it,           \* the DBIter
  ref           \* the user key the calls so far should lead to, 0 if none

vars == <<source, sequence_, last, it, ref>>

None == [none |-> TRUE]

(***************************************************************************)
(* Entries: user key, sequence number, type.  InternalKeyComparator sorts  *)
(* by user key, newest first.  Values are named by the sequence number.    *)
(***************************************************************************)
Ord(e)      == e.k * (MaxSequence + 1) + MaxSequence - e.s
Least(es)   == IF es = {} THEN None ELSE CHOOSE e \in es : \A f \in es : Ord(e) <= Ord(f)
Most(es)    == IF es = {} THEN None ELSE CHOOSE e \in es : \A f \in es : Ord(e) >= Ord(f)

Leaf(n)     == "es" \in DOMAIN n

(***************************************************************************)
(* Iterators of a leaf: MemTableIterator and Block::Iter stand at an       *)
(* entry or nowhere.  For a block that cannot be read it is the            *)
(* EmptyIterator of NewErrorIterator.                                      *)
(***************************************************************************)
LeafAt(n, e)       == [pos |-> IF n.ok THEN e ELSE None, bad |-> ~n.ok]
LeafFirst(n)       == LeafAt(n, Least(n.es))
LeafLast(n)        == LeafAt(n, Most(n.es))
LeafSeek(n, o)     == LeafAt(n, Least({e \in n.es : Ord(e) >= o}))
LeafNext(n, i)     == LeafAt(n, Least({e \in n.es : Ord(e) > Ord(i.pos)}))
LeafPrev(n, i)     == LeafAt(n, Most({e \in n.es : Ord(e) < Ord(i.pos)}))
Created(n)         == IF Leaf(n) THEN LeafAt(n, None)
                      ELSE [index |-> 0, data |-> None, handle |-> 0, bad |-> FALSE]

(***************************************************************************)
(* TwoLevelIterator.  index: the entry of the index iterator, 0 if it is   *)
(* not valid (an index iterator that runs off either end is not valid);    *)
(* data: the iterator of the block or of the table; bad: status_.          *)
(***************************************************************************)
RECURSIVE Pos(_), Bad(_)
Pos(i) == IF "pos" \in DOMAIN i THEN i.pos
          ELSE IF i.data = None THEN None ELSE Pos(i.data)
Bad(i) == i.bad \/ ("data" \in DOMAIN i /\ i.data # None /\ Bad(i.data))

\* The index entry whose key is the first at or behind the target: Seek of
\* the index block, or FindFile.
IndexSeek(n, o) ==
  LET S == {j \in DOMAIN n.sep : n.sep[j] >= o}
  IN  IF S = {} THEN 0 ELSE CHOOSE j \in S : \A k \in S : j <= k
IndexNext(n, j) == (j + 1) % (Len(n.kid) + 1)

\* The status of the iterator that is replaced is lost.
SetDataIterator_Forgets(i, d) == [i EXCEPT !.data = d]

SetDataIterator(i, d) == [i EXCEPT !.bad = Bad(i), !.data = d]
InitDataBlock(n, i) ==
  IF i.index = 0 THEN SetDataIterator(i, None)
  ELSE IF i.data # None /\ i.handle = i.index THEN i
  ELSE [SetDataIterator(i, Created(n.kid[i.index])) EXCEPT !.handle = i.index]

RECURSIVE SeekToFirst(_, _), SeekToLast(_, _), Seek(_, _, _)
RECURSIVE SkipEmptyDataBlocksForward(_, _), SkipEmptyDataBlocksBackward(_, _)

SkipEmptyDataBlocksForward(n, i) ==
  IF Pos(i) # None THEN i
  ELSE IF i.index = 0 THEN SetDataIterator(i, None)
  ELSE LET j == InitDataBlock(n, [i EXCEPT !.index = IndexNext(n, @)])
       IN  SkipEmptyDataBlocksForward(n, IF j.data = None THEN j
             ELSE [j EXCEPT !.data = SeekToFirst(n.kid[j.index], @)])

SkipEmptyDataBlocksBackward(n, i) ==
  IF Pos(i) # None THEN i
  ELSE IF i.index = 0 THEN SetDataIterator(i, None)
  ELSE LET j == InitDataBlock(n, [i EXCEPT !.index = @ - 1])
       IN  SkipEmptyDataBlocksBackward(n, IF j.data = None THEN j
             ELSE [j EXCEPT !.data = SeekToLast(n.kid[j.index], @)])

SeekToFirst(n, i) ==
  IF Leaf(n) THEN LeafFirst(n)
  ELSE LET j == InitDataBlock(n, [i EXCEPT !.index = 1])
       IN  SkipEmptyDataBlocksForward(n, [j EXCEPT !.data = SeekToFirst(n.kid[1], @)])

SeekToLast(n, i) ==
  IF Leaf(n) THEN LeafLast(n)
  ELSE LET j == InitDataBlock(n, [i EXCEPT !.index = Len(n.kid)])
       IN  SkipEmptyDataBlocksBackward(n, [j EXCEPT !.data = SeekToLast(n.kid[j.index], @)])

Seek(n, i, o) ==
  IF Leaf(n) THEN LeafSeek(n, o)
  ELSE LET j == InitDataBlock(n, [i EXCEPT !.index = IndexSeek(n, o)])
       IN  SkipEmptyDataBlocksForward(n, IF j.data = None THEN j
             ELSE [j EXCEPT !.data = Seek(n.kid[j.index], @, o)])

RECURSIVE NextOf(_, _), PrevOf(_, _)
NextOf(n, i) ==
  IF Leaf(n) THEN LeafNext(n, i)
  ELSE SkipEmptyDataBlocksForward(n, [i EXCEPT !.data = NextOf(n.kid[i.index], @)])

PrevOf(n, i) ==
  IF Leaf(n) THEN LeafPrev(n, i)
  ELSE SkipEmptyDataBlocksBackward(n, [i EXCEPT !.data = PrevOf(n.kid[i.index], @)])

(***************************************************************************)
(* MergingIterator m: its children, current_ (0: NULL) and direction_.     *)
(***************************************************************************)
Valid(m) == m.current # 0
Key(m)   == Pos(m.child[m.current])

\* The first child with the smallest key; the last one with the largest.
FindSmallest(m) ==
  LET V == {c \in DOMAIN m.child : Pos(m.child[c]) # None}
      B == {c \in V : \A d \in V : Ord(Pos(m.child[c])) <= Ord(Pos(m.child[d]))}
  IN  [m EXCEPT !.current = IF B = {} THEN 0 ELSE Min(B)]

FindLargest(m) ==
  LET V == {c \in DOMAIN m.child : Pos(m.child[c]) # None}
      B == {c \in V : \A d \in V : Ord(Pos(m.child[c])) >= Ord(Pos(m.child[d]))}
  IN  [m EXCEPT !.current = IF B = {} THEN 0 ELSE Max(B)]

MergeFirst(src, m) ==
  [FindSmallest([m EXCEPT !.child = [c \in DOMAIN @ |-> SeekToFirst(src[c], @[c])]])
     EXCEPT !.forward = TRUE]

MergeLast(src, m) ==
  [FindLargest([m EXCEPT !.child = [c \in DOMAIN @ |-> SeekToLast(src[c], @[c])]])
     EXCEPT !.forward = FALSE]

MergeSeek(src, m, o) ==
  [FindSmallest([m EXCEPT !.child = [c \in DOMAIN @ |-> Seek(src[c], @[c], o)]])
     EXCEPT !.forward = TRUE]

\* Next and Prev position the other children when the direction changes.
Behind(src, m, c) ==
  LET Past(s) == IF Pos(s) # None /\ Ord(Pos(s)) = Ord(Key(m)) THEN NextOf(src[c], s) ELSE s
  IN  Past(Seek(src[c], m.child[c], Ord(Key(m))))

Before(src, m, c) ==
  LET Back(s) == IF Pos(s) # None THEN PrevOf(src[c], s) ELSE SeekToLast(src[c], s)
  IN  Back(Seek(src[c], m.child[c], Ord(Key(m))))

MergeNext(src, m) ==
  LET turned == IF m.forward THEN m.child
                ELSE [c \in DOMAIN m.child |->
                        IF c = m.current THEN m.child[c] ELSE Behind(src, m, c)]
  IN  FindSmallest([m EXCEPT !.forward = TRUE,
        !.child = [turned EXCEPT ![m.current] = NextOf(src[m.current], @)]])

MergePrev(src, m) ==
  LET turned == IF ~m.forward THEN m.child
                ELSE [c \in DOMAIN m.child |->
                        IF c = m.current THEN m.child[c] ELSE Before(src, m, c)]
  IN  FindLargest([m EXCEPT !.forward = FALSE,
        !.child = [turned EXCEPT ![m.current] = PrevOf(src[m.current], @)]])

(***************************************************************************)
(* DBIter d: iter_ as m, direction_, saved_key_ (0: cleared), saved_value_,*)
(* valid_ and status_.  An entry of type "corrupt" fails ParseInternalKey. *)
(***************************************************************************)
ParseKey(d)  == [d EXCEPT !.bad = @ \/ Key(d.m).t = "corrupt"]
Visible(e)   == e.t # "corrupt" /\ e.s <= sequence_
Ends(d)      == [d EXCEPT !.valid = FALSE, !.key = 0]

RECURSIVE FindNextUserEntry(_, _, _, _)
FindNextUserEntry(src, d, skipping, skip) ==
  IF ~Valid(d.m) THEN Ends(d)
  ELSE LET Over(p, sk, k) == FindNextUserEntry(src, [p EXCEPT !.m = MergeNext(src, @)], sk, k)
           At(p, e) ==
             IF Visible(e) /\ e.t # "deletion" /\ ~(skipping /\ e.k <= skip)
             THEN [p EXCEPT !.valid = TRUE, !.key = 0]
             ELSE LET gone == Visible(e) /\ e.t = "deletion"
                  IN  Over(p, skipping \/ gone, IF gone THEN e.k ELSE skip)
       IN  At(ParseKey(d), Key(d.m))

RECURSIVE FindPrevUserEntry(_, _, _)
FindPrevUserEntry(src, d, type) ==
  LET stop == IF type = "deletion"
              THEN [d EXCEPT !.valid = FALSE, !.key = 0, !.value = 0, !.forward = TRUE]
              ELSE [d EXCEPT !.valid = TRUE]
  IN  IF ~Valid(d.m) THEN stop
      ELSE LET Saved(p, e) ==
                 IF ~Visible(e) THEN p
                 ELSE IF e.t = "deletion" THEN [p EXCEPT !.key = 0, !.value = 0]
                 ELSE [p EXCEPT !.key = e.k, !.value = e.s]
               At(p, e) ==
                 IF Visible(e) /\ type # "deletion" /\ e.k < d.key THEN [stop EXCEPT !.bad = p.bad]
                 ELSE FindPrevUserEntry(src, [Saved(p, e) EXCEPT !.m = MergePrev(src, @)],
                                        IF Visible(e) THEN e.t ELSE type)
           IN  At(ParseKey(d), Key(d.m))

\* Prev of a DBIter that moved forward: back over all entries of its key.
RECURSIVE ScanBack(_, _, _)
ScanBack(src, m, k) ==
  LET From(n) == IF Valid(n) /\ Key(n).k >= k THEN ScanBack(src, n, k) ELSE n
  IN  From(MergePrev(src, m))

KeyOf(d)   == IF d.forward THEN Key(d.m).k ELSE d.key
ValueOf(d) == IF d.forward THEN Key(d.m).s ELSE d.value
StatusOk(d) == ~d.bad /\ \A c \in DOMAIN d.m.child : ~Bad(d.m.child[c])

(***************************************************************************)
(* The calls, each with the place it should lead to.                       *)
(***************************************************************************)
RECURSIVE EntriesOf(_)
EntriesOf(n) == IF Leaf(n) THEN n.es ELSE UNION {EntriesOf(n.kid[j]) : j \in DOMAIN n.kid}

\* The newest entry of a user key that the snapshot sees, None if there is
\* none; the user keys with a value.
Newest(k) == Least({e \in UNION {EntriesOf(source[c]) : c \in DOMAIN source} :
                      e.k = k /\ Visible(e)})
Live      == {k \in UserKeys : Newest(k) # None /\ Newest(k).t = "value"}
LeastOf(S) == IF S = {} THEN 0 ELSE Min(S)
MostOf(S)  == IF S = {} THEN 0 ELSE Max(S)

Call(d, k) == it' = d /\ ref' = k /\ UNCHANGED <<source, sequence_, last>>

\* To the first entry at or behind the place of iter_.
From(d) == IF Valid(d.m) THEN FindNextUserEntry(source, d, FALSE, 0) ELSE [d EXCEPT !.valid = FALSE]

DBSeekToFirst ==
  Call(From([it EXCEPT !.m = MergeFirst(source, @), !.forward = TRUE, !.value = 0]), LeastOf(Live))

DBSeekToLast ==
  Call(FindPrevUserEntry(source, [it EXCEPT !.m = MergeLast(source, @), !.forward = FALSE,
                                            !.value = 0], "deletion"), MostOf(Live))

DBSeek(k) ==
  Call(From([it EXCEPT !.m = MergeSeek(source, @, Ord([k |-> k, s |-> sequence_])),
                       !.forward = TRUE, !.value = 0, !.key = 0]), LeastOf({l \in Live : l >= k}))

DBNext ==
  LET Turned(m) == IF it.forward THEN m
                   ELSE IF Valid(m) THEN MergeNext(source, m) ELSE MergeFirst(source, m)
      Past(d)   == IF Valid(d.m) THEN FindNextUserEntry(source, d, TRUE, KeyOf(it)) ELSE Ends(d)
  IN  /\ it.valid
      /\ Call(Past([it EXCEPT !.m = Turned(@), !.forward = TRUE]), LeastOf({l \in Live : l > ref}))

DBPrev ==
  LET Before_(d) ==
        IF d.forward /\ ~Valid(d.m) THEN [Ends(d) EXCEPT !.value = 0]
        ELSE FindPrevUserEntry(source, [d EXCEPT !.key = KeyOf(it), !.forward = FALSE], "deletion")
  IN  /\ it.valid
      /\ Call(Before_([it EXCEPT !.m = IF it.forward THEN ScanBack(source, @, KeyOf(it)) ELSE @]),
              MostOf({l \in Live : l < ref}))

\* A writer inserts an entry into the memtable.
Write(k, t) ==
  /\ last < MaxSequence
  /\ last' = last + 1
  /\ source' = [source EXCEPT ![1].es = @ \cup {[k |-> k, s |-> last + 1, t |-> t]}]
  /\ UNCHANGED <<sequence_, it, ref>>

\* NewIterator: nothing is read before the first call.
Init ==
  \E d \in Databases :
    /\ source = d.source
    /\ sequence_ = d.sequence
    /\ last = d.last
    /\ it = [m |-> [child |-> [c \in DOMAIN d.source |-> Created(d.source[c])],
                    current |-> 0, forward |-> TRUE],
             forward |-> TRUE, key |-> 0, value |-> 0, valid |-> FALSE, bad |-> FALSE]
    /\ ref = 0

Next ==
  \/ DBSeekToFirst
  \/ DBSeekToLast
  \/ \E k \in UserKeys : DBSeek(k)
  \/ DBNext
  \/ DBPrev
  \/ \E k \in UserKeys, t \in {"value", "deletion"} : Write(k, t)

Spec == Init /\ [][Next]_vars

--------------------------------------------------------------------------------
(***************************************************************************)
(* Whatever the order of the calls, the changes of direction and the       *)
(* inserts in between, the iterator stands at the user key, with the       *)
(* value, that the snapshot has at that place - or its status() says that  *)
(* something could not be read: a block that is skipped is never skipped   *)
(* silently (TwoLevelIterator::SetDataIterator, DBIter::ParseKey).         *)
(***************************************************************************)
ScanExact ==
  StatusOk(it) =>
    /\ it.valid <=> ref # 0
    /\ it.valid => KeyOf(it) = ref /\ ValueOf(it) = Newest(ref).s

(***************************************************************************)
(* Where the iterators below stand (the comments at Direction in           *)
(* db_iter.cc and in MergingIterator::Next and Prev): moving forward,      *)
(* iter_ is at the entry that yields key() and every other child at its    *)
(* first entry behind it; moving backwards, iter_ is before all entries of *)
(* key() and every other child at its last entry before iter_, so that no  *)
(* child has passed over an entry the snapshot sees.  It holds again after *)
(* every turn, also when writers have inserted entries in between.         *)
(***************************************************************************)
PlacesOrdered ==
  LET m    == it.m
      P(c) == Pos(m.child[c])
  IN  /\ StatusOk(it) /\ Valid(m) =>
           \A c \in DOMAIN source \ {m.current} :
             /\ P(c) # None => IF m.forward THEN Ord(P(c)) > Ord(Key(m))
                               ELSE Ord(P(c)) < Ord(Key(m))
             /\ \A e \in EntriesOf(source[c]) :
                  /\ Visible(e)
                  /\ IF m.forward THEN Ord(e) > Ord(Key(m)) ELSE Ord(e) < Ord(Key(m))
                  => /\ P(c) # None
                     /\ IF m.forward THEN Ord(P(c)) <= Ord(e) ELSE Ord(P(c)) >= Ord(e)
      /\ it.valid => /\ it.forward = m.forward
                     /\ it.forward => Valid(m) /\ Visible(Key(m)) /\ Key(m).t = "value"
                     /\ ~it.forward /\ Valid(m) => Key(m).k < it.key
================================================================================
