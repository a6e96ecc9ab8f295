-------------------------------- MODULE Version --------------------------------
(***************************************************************************)
(* The pure part of version_set.cc: what a Version (the files of every     *)
(* level) answers to a read, which files a compaction takes, and what      *)
(* DBImpl::DoCompactionWork makes of them.                                 *)
(*                                                                         *)
(* A user key is a number.  An internal key is a user key, a sequence      *)
(* number and whether it is a deletion; its value is what was written      *)
(* under that sequence number.  A file is a number and a set of internal   *)
(* keys, and counts one byte per key.  A version maps each level to the    *)
(* sequence of its files.                                                  *)
(***************************************************************************)
EXTENDS Integers, Sequences, FiniteSets, SequencesExt

CONSTANTS
  kNumLevels, kMaxMemCompactLevel, kL0_CompactionTrigger,
  kMaxSequenceNumber, \* 2^56 - 1
  TargetFileSize,     \* max_file_size
  GrandParentFactor,  \* 10 in MaxGrandParentOverlapBytes
  ExpandFactor,       \* 25 in ExpandedCompactionByteSizeLimit
  BaseLevelBytes      \* 10 MB in MaxBytesForLevel

ASSUME VersionAssumption ==
  /\ {kNumLevels, kL0_CompactionTrigger, TargetFileSize, BaseLevelBytes} \subseteq Nat \ {0}
  /\ kNumLevels > 1
  /\ kMaxMemCompactLevel \in 0 .. kNumLevels - 1
  /\ {kMaxSequenceNumber, GrandParentFactor, ExpandFactor} \subseteq Nat

Levels == 0 .. kNumLevels - 1
None == [none |-> TRUE]

MaxGrandParentOverlapBytes == GrandParentFactor * TargetFileSize
ExpandedCompactionByteSizeLimit == ExpandFactor * TargetFileSize
MaxBytesForLevel[level \in Levels] == IF level > 1 THEN 10 * MaxBytesForLevel[level - 1] ELSE BaseLevelBytes

-----------------------------------------------------------------------------
(* Internal keys and files *)

IKey(user, seq, del) == [user |-> user, seq |-> seq, del |-> del]
\* InternalKeyComparator::Compare: user keys ascending, sequence numbers descending.
ILess(a, b) == a.user < b.user \/ (a.user = b.user /\ a.seq > b.seq)
IMin(S) == CHOOSE k \in S : \A j \in S : j = k \/ ILess(k, j)
IMax(S) == CHOOSE k \in S : \A j \in S : j = k \/ ILess(j, k)

\* FileMetaData of a table with these keys.
NewFile(num, keys) == [num |-> num, keys |-> keys, smallest |-> IMin(keys), largest |-> IMax(keys)]
TotalFileSize(files) ==
  LET sum[n \in 0 .. Len(files)] == IF n = 0 THEN 0 ELSE sum[n - 1] + Cardinality(files[n].keys)
  IN  sum[Len(files)]

\* The elements of a set in an order: the i-th has i - 1 before it.
InOrder(S, Less(_, _)) ==
  [i \in 1 .. Cardinality(S) |-> CHOOSE x \in S : Cardinality({y \in S : Less(y, x)}) = i - 1]
SortedKeys(S) == InOrder(S, ILess)
\* BySmallestKey, and NewestFirst.
FileLess(f, g) == ILess(f.smallest, g.smallest) \/ (f.smallest = g.smallest /\ f.num < g.num)
SortedFiles(S) == InOrder(S, FileLess)
NewestFirst(S) == InOrder(S, LAMBDA f, g : f.num > g.num)

\* The binary search for the first file whose largest key is not below the key;
\* as in the code, Len(files) + 1 if there is none.  Halve is a turn of the loop.
Halve(files, ikey, s) ==
  LET mid == (s.left + s.right) \div 2 IN
  IF s.left >= s.right THEN s
  ELSE IF ILess(files[mid + 1].largest, ikey) THEN [s EXCEPT !.left = mid + 1]
  ELSE [s EXCEPT !.right = mid]
FindFile(files, ikey) ==
  LET after[n \in 0 .. Len(files)] ==
        IF n = 0 THEN [left |-> 0, right |-> Len(files)] ELSE Halve(files, ikey, after[n - 1])
  IN  after[Len(files)].right + 1

\* SomeFileOverlapsRange: level 0 file by file, the others by binary search.
SomeFileOverlapsRange(files, disjoint, lo, hi) ==
  IF disjoint
  THEN LET i == FindFile(files, IKey(lo, kMaxSequenceNumber, FALSE))
       IN  i <= Len(files) /\ hi >= files[i].smallest.user
  ELSE \E i \in DOMAIN files : lo <= files[i].largest.user /\ hi >= files[i].smallest.user

OverlapInLevel(v, level, lo, hi) == SomeFileOverlapsRange(v[level], level > 0, lo, hi)

\* The files of a level that overlap a range of user keys.  A file of level 0 widens
\* the range, until no file does.
Overlapping(files, lo, hi) ==
  LET over == InOrder({i \in DOMAIN files : files[i].largest.user >= lo /\ files[i].smallest.user <= hi}, <)
  IN  [n \in DOMAIN over |-> files[over[n]]]
Widen(files, r) ==
  LET S == ToSet(Overlapping(files, r[1], r[2]))
  IN  <<Min({r[1]} \cup {f.smallest.user : f \in S}), Max({r[2]} \cup {f.largest.user : f \in S})>>
GetOverlappingInputs(v, level, lo, hi) ==
  LET widen[n \in 0 .. Len(v[level])] == IF n = 0 THEN <<lo, hi>> ELSE Widen(v[level], widen[n - 1])
      r == IF level = 0 THEN widen[Len(v[level])] ELSE <<lo, hi>>
  IN  Overlapping(v[level], r[1], r[2])

\* The level a memtable with this range goes to.
PickLevelForMemTableOutput(v, lo, hi) ==
  LET stays(level) ==
        \/ OverlapInLevel(v, level + 1, lo, hi)
        \/ /\ level + 2 < kNumLevels
           /\ TotalFileSize(GetOverlappingInputs(v, level + 2, lo, hi)) > MaxGrandParentOverlapBytes
  IN  IF OverlapInLevel(v, 0, lo, hi) THEN 0
      ELSE Min({kMaxMemCompactLevel} \cup {l \in 0 .. kMaxMemCompactLevel - 1 : stays(l)})

-----------------------------------------------------------------------------
(* Reads *)

\* The newest entry for the user key that a snapshot sees, among a set of keys.
Visible(keys, user, snapshot) ==
  LET S == {k \in keys : k.user = user /\ k.seq <= snapshot}
  IN  IF S = {} THEN None ELSE IMin(S)

\* The files Version::Get and ForEachOverlapping search, in order: level 0 from the
\* newest, then one file per level.
FileAt(v, level, user, snapshot) ==
  LET i == FindFile(v[level], IKey(user, snapshot, FALSE))
  IN  IF i <= Len(v[level]) /\ user >= v[level][i].smallest.user
      THEN <<[level |-> level, file |-> v[level][i]]>> ELSE << >>
Searched(v, user, snapshot, level0) ==
  LET below[l \in Levels] == IF l = 0 THEN << >> ELSE below[l - 1] \o FileAt(v, l, user, snapshot)
  IN  [i \in DOMAIN level0 |-> [level |-> 0, file |-> level0[i]]] \o below[kNumLevels - 1]
InRange(v, user) == {f \in ToSet(v[0]) : f.smallest.user <= user /\ user <= f.largest.user}
ForEachOverlapping(v, user, snapshot) ==
  Searched(v, user, snapshot, NewestFirst(InRange(v, user)))

\* Version::Get: the entry found, and the file charged with a seek (the first one
\* read, when a second one had to be).
VersionGet(v, user, snapshot) ==
  LET Seen(files) == [i \in DOMAIN files |-> Visible(files[i].file.keys, user, snapshot)]
      Hits(seen) == {i \in DOMAIN seen : seen[i] # None}
      Answer(files, seen, read) ==
        [entry     |-> IF Hits(seen) = {} THEN None ELSE seen[read],
         seek_file |-> IF read >= 2 THEN files[1] ELSE None]
      Read(files, seen) == Answer(files, seen, IF Hits(seen) = {} THEN Len(files) ELSE Min(Hits(seen)))
      Search(files) == Read(files, Seen(files))
  IN  Search(ForEachOverlapping(v, user, snapshot))

\* RecordReadSample charges the first file if a second one overlaps the key.
ReadSample(v, user, snapshot) ==
  LET First(files) == IF Len(files) >= 2 THEN files[1] ELSE None
  IN  First(ForEachOverlapping(v, user, snapshot))

-----------------------------------------------------------------------------
(* Compactions *)

\* Builder::Apply and SaveTo, with the assertion on the order of MaybeAddFile.
SaveTo(v, edit) ==
  [level \in Levels |->
     SortedFiles({f \in ToSet(v[level]) : <<level, f.num>> \notin edit.deleted}
                 \cup {e[2] : e \in {e \in edit.added : e[1] = level}})]
MaybeAddFile(files) == \A i \in 1 .. Len(files) - 1 : ILess(files[i].largest, files[i + 1].smallest)

\* Finalize: the level with the best score, as a fraction <<bytes, limit>>.
Score(v, level) ==
  IF level = 0 THEN <<Len(v[0]), kL0_CompactionTrigger>>
  ELSE <<TotalFileSize(v[level]), MaxBytesForLevel[level]>>
Above(a, b) == a[1] * b[2] > b[1] * a[2]
Finalize(v) ==
  LET Better(level, best) == IF Above(Score(v, level), Score(v, best)) THEN level ELSE best
      best[level \in 0 .. kNumLevels - 2] == IF level = 0 THEN 0 ELSE Better(level, best[level - 1])
      level == best[kNumLevels - 2]
  IN  [level |-> level, due |-> Score(v, level)[1] >= Score(v, level)[2]]

GetRange(files) ==
  [lo |-> IMin({f.smallest : f \in ToSet(files)}), hi |-> IMax({f.largest : f \in ToSet(files)})]

\* SetupOtherInputs: the files of the next level, more files of this one if that adds
\* none there, and the grandparents.
Within(v, level, range) == GetOverlappingInputs(v, level, range.lo.user, range.hi.user)
Compaction(v, level, in0, in1) ==
  [level |-> level, inputs |-> <<in0, in1>>, version |-> v, pointer |-> GetRange(in0).hi,
   grandparents |-> IF level + 2 < kNumLevels THEN Within(v, level + 2, GetRange(in0 \o in1)) ELSE << >>]
SetupOtherInputs(v, level, inputs0) ==
  LET inputs1 == Within(v, level + 1, GetRange(inputs0))
      expanded0 == Within(v, level, GetRange(inputs0 \o inputs1))
      expanded1 == Within(v, level + 1, GetRange(expanded0))
      expand == /\ inputs1 # << >>
                /\ Len(expanded0) > Len(inputs0)
                /\ TotalFileSize(inputs1) + TotalFileSize(expanded0) < ExpandedCompactionByteSizeLimit
                /\ Len(expanded1) = Len(inputs1)
  IN  IF expand THEN Compaction(v, level, expanded0, expanded1) ELSE Compaction(v, level, inputs0, inputs1)

\* PickCompaction: by size behind the compaction pointer of the level, else the file
\* that was read too often; None if neither.
CompactionFrom(v, level, first) ==
  SetupOtherInputs(v, level,
    IF level = 0 THEN GetOverlappingInputs(v, 0, first.smallest.user, first.largest.user) ELSE <<first>>)
FirstBehind(files, pointer) ==
  LET i == SelectInSeq(files, LAMBDA f : pointer = None \/ ILess(pointer, f.largest))
  IN  IF i = 0 THEN files[1] ELSE files[i]
PickCompaction(v, pointers, to_compact) ==
  LET size == Finalize(v)
  IN  IF size.due THEN CompactionFrom(v, size.level, FirstBehind(v[size.level], pointers[size.level]))
      ELSE IF to_compact # None THEN CompactionFrom(v, to_compact.level, to_compact.file)
      ELSE None

\* CompactRange: all overlapping files, above level 0 up to the size of one file.
CompactRange(v, level, lo, hi) ==
  LET Full(files) == {i \in DOMAIN files : TotalFileSize(SubSeq(files, 1, i)) >= TargetFileSize}
      Limited(files, full) == IF level > 0 /\ full # {} THEN SubSeq(files, 1, Min(full)) ELSE files
      Of(files) == IF files = << >> THEN None ELSE SetupOtherInputs(v, level, Limited(files, Full(files)))
  IN  Of(GetOverlappingInputs(v, level, lo, hi))

IsTrivialMove(c) ==
  /\ Len(c.inputs[1]) = 1 /\ Len(c.inputs[2]) = 0
  /\ TotalFileSize(c.grandparents) <= MaxGrandParentOverlapBytes

\* No level below the output holds the key.
IsBaseLevelForKey(c, user) ==
  \A level \in c.level + 2 .. kNumLevels - 1 :
    LET files == c.version[level]
        i == SelectInSeq(files, LAMBDA f : user <= f.largest.user)
    IN  i = 0 \/ user < files[i].smallest.user

\* ShouldStopBefore moves over the grandparents that end before the key.
ShouldStopBefore(c, s, ikey) ==
  LET passed == {i \in s.gp + 1 .. Len(c.grandparents) :
                   \A j \in s.gp + 1 .. i : ILess(c.grandparents[j].largest, ikey)}
      Past(n, bytes) ==
        [s EXCEPT !.gp = @ + n, !.seen = TRUE, !.stop = bytes > MaxGrandParentOverlapBytes,
                  !.bytes = IF bytes > MaxGrandParentOverlapBytes THEN 0 ELSE bytes]
      Passed(n) == Past(n, s.bytes + IF s.seen THEN TotalFileSize(SubSeq(c.grandparents, s.gp + 1, s.gp + n)) ELSE 0)
  IN  Passed(Cardinality(passed))

\* FinishCompactionOutputFile closes the output that is open.
FinishCompactionOutputFile(s) == IF s.open = {} THEN s ELSE [s EXCEPT !.open = {}, !.outs = Append(@, s.open)]

\* Drop rules of DoCompactionWork.  (Faulty variant: rule (A) is off by one.)
Drops(c, s, k, smallest_snapshot, hidden) ==
  \/ hidden
  \/ k.del /\ k.seq <= smallest_snapshot /\ IsBaseLevelForKey(c, k.user)
Drop_Newer(c, s, k, smallest_snapshot) ==
  Drops(c, s, k, smallest_snapshot, s.user = k.user /\ s.last <= smallest_snapshot + 1)
Drop(c, s, k, smallest_snapshot) ==
  Drops(c, s, k, smallest_snapshot, s.user = k.user /\ s.last <= smallest_snapshot)

\* DoCompactionWork: the key sets of the output files, in order.  CompactKey is a turn
\* of its loop.
CloseIf(full, s) == IF full THEN FinishCompactionOutputFile(s) ELSE s
CompactKey(c, s, k, smallest_snapshot) ==
  LET Add(s1) == IF Drop(c, s1, k, smallest_snapshot) THEN s1 ELSE [s1 EXCEPT !.open = @ \cup {k}]
      Before(s1) == CloseIf(s1.stop, s1)
      Behind(s1) == CloseIf(Cardinality(s1.open) >= TargetFileSize, s1)
  IN  [Behind(Add(Before(ShouldStopBefore(c, s, k)))) EXCEPT !.user = k.user, !.last = k.seq]
DoCompactionWork(c, smallest_snapshot) ==
  LET start == [user |-> -1, last |-> 0, open |-> {}, outs |-> << >>,
                gp |-> 0, seen |-> FALSE, bytes |-> 0, stop |-> FALSE]
      input == SortedKeys(UNION {f.keys : f \in ToSet(c.inputs[1] \o c.inputs[2])})
      after[n \in 0 .. Len(input)] == IF n = 0 THEN start
                                 ELSE CompactKey(c, after[n - 1], input[n], smallest_snapshot)
  IN  FinishCompactionOutputFile(after[Len(input)]).outs
=============================================================================
