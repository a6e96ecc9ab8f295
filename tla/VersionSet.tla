------------------------------ MODULE VersionSet -------------------------------
(***************************************************************************)
(* The data of a database as writes, memtable compactions and level        *)
(* compactions move it (DBImpl with VersionSet): which entries a read      *)
(* finds, at any time and through any snapshot.                            *)
(*                                                                         *)
(* DBImpl holds its mutex in every step.  A level compaction starts and    *)
(* ends in two steps: in between the mutex is free, and writes, reads,     *)
(* snapshots and memtable compactions go on.  Files do not fail here       *)
(* (DBImpl.tla, Recovery.tla).                                             *)
(***************************************************************************)
EXTENDS Version

CONSTANTS
  Keys,           \* user keys that are written
  Missing,        \* user keys that are only asked for
  MaxSequence,    \* number of writes
  AllowedSeeks,   \* 100 in Builder::Apply
  MaxCalls,       \* snapshots taken and reads that charge a file
  ManualRanges    \* ranges <<level, first, last>> of CompactRange calls

ASSUME VersionSetAssumption ==
  /\ Keys \subseteq Nat /\ Missing \subseteq Nat /\ MaxSequence \in 0 .. kMaxSequenceNumber - 1
  /\ AllowedSeeks \in Nat /\ MaxCalls \in Nat
  /\ ManualRanges \subseteq (0 .. kNumLevels - 2) \X Nat \X Nat

VARIABLES
  mem_, imm_,        \* memtables, as sets of internal keys; imm_ = {} is NULL
  current_,          \* the current version
  next_file_number_, last_sequence_,
  snapshots_,        \* sequence numbers, oldest first
  compact_pointer_,
  allowed_seeks, file_to_compact_,
  running,           \* the compaction whose work is going on, with its smallest snapshot
  taken, reads,      \* snapshots taken, reads made
  written,           \* every entry ever written
  sound              \* no version so far split a user key or had overlapping files

vars == <<mem_, imm_, current_, next_file_number_, last_sequence_, snapshots_, compact_pointer_,
          allowed_seeks, file_to_compact_, running, taken, reads, written, sound>>
versions == <<current_, next_file_number_, compact_pointer_, allowed_seeks, file_to_compact_, sound>>

Init ==
  /\ mem_ = {} /\ imm_ = {} /\ written = {}
  /\ current_ = [level \in Levels |-> << >>]
  /\ next_file_number_ = 2 /\ last_sequence_ = 0
  /\ snapshots_ = << >> /\ taken = 0 /\ reads = 0
  /\ compact_pointer_ = [level \in Levels |-> None]
  /\ allowed_seeks = << >> /\ file_to_compact_ = None
  /\ running = None /\ sound = TRUE

\* The files of each level are disjoint, by internal and by user keys.
Sound(v) == \A l \in 1 .. kNumLevels - 1 :
              \A i \in 1 .. Len(v[l]) - 1 : v[l][i].largest.user < v[l][i + 1].smallest.user

\* LogAndApply: the new version, fresh seek counts for its new files; what the old
\* version wanted compacted is forgotten.
LogAndApply(edit) ==
  /\ current_' = SaveTo(current_, edit)
  /\ allowed_seeks' = [n \in {f.num : f \in UNION {ToSet(current_'[l]) : l \in Levels}} |->
                         IF \E e \in edit.added : e[2].num = n THEN AllowedSeeks ELSE allowed_seeks[n]]
  /\ file_to_compact_' = None
  /\ sound' = (sound /\ Sound(current_'))

\* Write, with MemTable::Add.
Write(user, del) ==
  /\ last_sequence_ < MaxSequence
  /\ mem_' = mem_ \cup {IKey(user, last_sequence_ + 1, del)}
  /\ written' = written \cup {IKey(user, last_sequence_ + 1, del)}
  /\ last_sequence_' = last_sequence_ + 1
  /\ UNCHANGED <<imm_, versions, snapshots_, running, taken, reads>>

\* MakeRoomForWrite switches to a new memtable.
MakeRoomForWrite ==
  /\ mem_ # {} /\ imm_ = {}
  /\ imm_' = mem_ /\ mem_' = {}
  /\ UNCHANGED <<versions, last_sequence_, snapshots_, running, taken, reads, written>>

\* WriteLevel0Table: where the table of the memtable goes.
WriteLevel0Table(f) == PickLevelForMemTableOutput(current_, f.smallest.user, f.largest.user)

CompactMemTable ==
  LET f == NewFile(next_file_number_, imm_) IN
  /\ imm_ # {}
  /\ LogAndApply([deleted |-> {}, added |-> {<<WriteLevel0Table(f), f>>}])
  /\ next_file_number_' = next_file_number_ + 1
  /\ imm_' = {}
  /\ UNCHANGED <<mem_, last_sequence_, snapshots_, compact_pointer_, running, taken, reads, written>>

\* snapshots_.oldest(), or everything.
SmallestSnapshot == IF snapshots_ = << >> THEN last_sequence_ ELSE snapshots_[1]

\* BackgroundCompaction picks a compaction: a trivial move is done at once.  (Faulty
\* variant: one is picked while another is running.)
StartWork(c) ==
  /\ running' = [c |-> c, smallest_snapshot |-> SmallestSnapshot]
  /\ compact_pointer_' = [compact_pointer_ EXCEPT ![c.level] = c.pointer]
  /\ UNCHANGED <<current_, allowed_seeks, file_to_compact_, sound>>

Pick(idle) ==
  /\ idle /\ imm_ = {}
  /\ \E c \in {PickCompaction(current_, compact_pointer_, file_to_compact_)} \ {None} :
       IF IsTrivialMove(c)
       THEN /\ \E f \in ToSet(c.inputs[1]) :
                 LogAndApply([deleted |-> {<<c.level, f.num>>}, added |-> {<<c.level + 1, f>>}])
            /\ compact_pointer_' = [compact_pointer_ EXCEPT ![c.level] = c.pointer]
            /\ UNCHANGED running
       ELSE StartWork(c)
  /\ UNCHANGED <<mem_, imm_, next_file_number_, last_sequence_, snapshots_, taken, reads, written>>
BackgroundCompaction_Twice == Pick(TRUE)
BackgroundCompaction == Pick(running = None)

\* A manual compaction of a range is never a trivial move.
ManualCompaction(range) ==
  /\ running = None /\ imm_ = {}
  /\ \E c \in {CompactRange(current_, range[1], range[2], range[3])} \ {None} : StartWork(c)
  /\ UNCHANGED <<mem_, imm_, next_file_number_, last_sequence_, snapshots_, taken, reads, written>>

\* InstallCompactionResults: the inputs out, the outputs in.  (Faulty variant: the
\* outputs stay in the level of the inputs.)
Inputs(c, which) == {<<c.level + which - 1, f.num>> : f \in ToSet(c.inputs[which])}
Results(c, outs, level) ==
  [deleted |-> Inputs(c, 1) \cup Inputs(c, 2),
   added   |-> {<<level, NewFile(next_file_number_ + i - 1, outs[i])>> : i \in DOMAIN outs}]
InstallCompactionResults_Same(c, outs) == Results(c, outs, c.level)
InstallCompactionResults(c, outs) == Results(c, outs, c.level + 1)

FinishCompaction ==
  /\ running # None
  /\ \E outs \in {DoCompactionWork(running.c, running.smallest_snapshot)} :
       /\ LogAndApply(InstallCompactionResults(running.c, outs))
       /\ next_file_number_' = next_file_number_ + Len(outs)
  /\ running' = None
  /\ UNCHANGED <<mem_, imm_, last_sequence_, snapshots_, compact_pointer_, taken, reads, written>>

GetSnapshot ==
  /\ taken + reads < MaxCalls
  /\ snapshots_' = Append(snapshots_, last_sequence_) /\ taken' = taken + 1
  /\ UNCHANGED <<mem_, imm_, versions, last_sequence_, running, reads, written>>

ReleaseSnapshot ==
  /\ \E i \in DOMAIN snapshots_ : snapshots_' = RemoveAt(snapshots_, i)
  /\ UNCHANGED <<mem_, imm_, versions, last_sequence_, running, taken, reads, written>>

\* DBImpl::Get: memtable, immutable memtable, then the files.
Lookup(user, snapshot) ==
  LET m == Visible(mem_, user, snapshot)
      i == Visible(imm_, user, snapshot)
  IN  IF m # None THEN m ELSE IF i # None THEN i ELSE VersionGet(current_, user, snapshot).entry

Snapshots == ToSet(snapshots_) \cup {last_sequence_}

\* UpdateStats charges the file a read had to go past.
UpdateStats(seek) ==
  /\ seek # None
  /\ allowed_seeks' = [allowed_seeks EXCEPT ![seek.file.num] = @ - 1]
  /\ file_to_compact_' = IF allowed_seeks'[seek.file.num] <= 0 /\ file_to_compact_ = None
                         THEN seek ELSE file_to_compact_

\* A read at a snapshot or, with snapshot = last_sequence_, without one.
Get(user, snapshot) ==
  /\ taken + reads < MaxCalls /\ reads' = reads + 1
  /\ Visible(mem_ \cup imm_, user, snapshot) = None
  /\ UpdateStats(VersionGet(current_, user, snapshot).seek_file)
  /\ UNCHANGED <<mem_, imm_, current_, next_file_number_, compact_pointer_, last_sequence_,
                 snapshots_, running, taken, written, sound>>

RecordReadSample(user) ==
  /\ taken + reads < MaxCalls /\ reads' = reads + 1
  /\ UpdateStats(ReadSample(current_, user, last_sequence_))
  /\ UNCHANGED <<mem_, imm_, current_, next_file_number_, compact_pointer_, last_sequence_,
                 snapshots_, running, taken, written, sound>>

Background == CompactMemTable \/ BackgroundCompaction \/ FinishCompaction

Next ==
  \/ \E user \in Keys, del \in BOOLEAN : Write(user, del)
  \/ MakeRoomForWrite
  \/ Background
  \/ \E range \in ManualRanges : ManualCompaction(range)
  \/ GetSnapshot \/ ReleaseSnapshot
  \/ \E user \in Keys \cup Missing, snapshot \in Snapshots : Get(user, snapshot)
  \/ \E user \in Keys : RecordReadSample(user)

Spec == Init /\ [][Next]_vars

-----------------------------------------------------------------------------
(* Properties *)

Files(level) == ToSet(current_[level])
Entries(level) == UNION {f.keys : f \in Files(level)}

\* The assertion of SaveTo, "Make sure there is no overlap in levels > 0"
\* (version_set.cc:742): the files of a level are disjoint.
LevelsDisjoint == \A l \in 1 .. kNumLevels - 1 : MaybeAddFile(current_[l])

\* Version::Get relies on this (version_set.cc:346): of the entries for a user key,
\* those in an upper level are newer than those in a lower one.
NewerAbove(l, m) == \A a \in Entries(l), b \in Entries(m) : a.user = b.user => a.seq > b.seq
EntriesNeverHop == \A l, m \in Levels : l < m => NewerAbove(l, m)

Found(e) == IF e = None THEN 0 ELSE IF e.del THEN 0 ELSE e.seq
\* A read, through the newest state or a snapshot, finds what the whole history of
\* writes says, wherever memtable and level compactions have put the entries and
\* whichever they dropped.
ReadsCorrect ==
  \A user \in Keys \cup Missing, s \in Snapshots : Found(Lookup(user, s)) = Found(Visible(written, user, s))

\* The same, and the order of the levels, as long as every level kept the entries of
\* a user key in one file, and its files disjoint (VersionSet::PickCompaction,
\* DoCompactionWork, PickLevelForMemTableOutput).
ReadsCorrectIfSound == sound => EntriesNeverHop /\ ReadsCorrect

\* The inputs of a running compaction stay in the current version until it ends,
\* although memtable compactions install versions meanwhile; and a file to compact
\* because of seeks is a file of the current version, in a level that has a next
\* one: neither PickCompaction nor InstallCompactionResults checks it.
InputsLive ==
  /\ running # None => \A w \in {1, 2} : ToSet(running.c.inputs[w]) \subseteq Files(running.c.level + w - 1)
  /\ file_to_compact_ # None =>
       file_to_compact_.level < kNumLevels - 1 /\ file_to_compact_.file \in Files(file_to_compact_.level)

\* Compactions cannot go on for ever (each BackgroundCompaction schedules the next): each
\* one brings data further down or drops entries, whatever the sizes of the levels and
\* the seeks that caused it.
Height(v) ==
  LET upto[l \in Levels] == (kNumLevels - l) * TotalFileSize(v[l]) + IF l = 0 THEN 0 ELSE upto[l - 1]
  IN  upto[kNumLevels - 1]
CompactionsSink == [][imm_' = imm_ /\ current_' # current_ => Height(current_') < Height(current_)]_vars
=============================================================================
