---------------------------- MODULE RecoveryProofs -----------------------------
(***************************************************************************)
(* Proofs about Recovery.tla: until something is appended behind a torn    *)
(* record, which without reuse_logs never happens, it implements KVStore,  *)
(* a database once opened can always be opened again, and reads find what  *)
(* recovery would; without reuse_logs a write with sync that has returned  *)
(* is stable.  For any number of writes, crashes, failed manifest writes   *)
(* and iterators.                                                          *)
(***************************************************************************)
EXTENDS Recovery, SequenceTheorems, FiniteSetTheorems, TLAPS

-----------------------------------------------------------------------------
(* What is on disk *)

TableSet == [num : Nat, level : {0, 1}]
EditSet == [has : BOOLEAN, log : Nat, next : Nat, last : Nat,
            added : SUBSET TableSet, deleted : SUBSET TableSet]

\* The logs among files, what is in one, and what of it is synced; the entries of all.
LogSet(fs)      == {n \in Nat : LogFile(n) \in DOMAIN fs}
LogEntries(fs, n)    == ToSet(fs[LogFile(n)].recs)
SyncedEntries(fs, n) == ToSet(SubSeq(fs[LogFile(n)].recs, 1, fs[LogFile(n)].synced))
AllLogs(fs)     == UNION {LogEntries(fs, n) : n \in LogSet(fs)}
AllSynced(fs)   == UNION {SyncedEntries(fs, n) : n \in LogSet(fs)}
\* The entries of tables, and these with the logs.
Entries(fs, tables) == UNION {fs[TableFile(t.num)].recs[1] : t \in tables}
Data(fs, tables)    == Entries(fs, tables) \cup AllLogs(fs)

\* The manifest that CURRENT names, what it says, and what is synced of that.
Number(fs) == fs[CURRENT].recs[1]
Current(fs) == fs[Descriptor(Number(fs))]
Full(fs)   == ReadManifest(Current(fs).recs)
Durable(fs) == ReadManifest(SubSeq(Current(fs).recs, 1, Current(fs).synced))

FileOK(f, file) ==
  /\ f[1] = "log"      => file \in [recs : Seq(Nat), synced : Nat]
  /\ f[1] = "MANIFEST" => file \in [recs : Seq(EditSet), synced : Nat]
  /\ f[1] = "table"    => \E S \in SUBSET Nat : file = [recs |-> <<S>>, synced |-> 1]
  /\ f[1] = "dbtmp"    => file = [recs |-> <<f[2]>>, synced |-> 1]
  /\ f[1] = "CURRENT"  => \E n \in Nat : file = [recs |-> <<n>>, synced |-> 1]
  /\ file.synced <= Len(file.recs)
FilesOK(fs) ==
  /\ DOMAIN fs \subseteq {CURRENT} \cup {"MANIFEST", "log", "table", "dbtmp"} \X Nat
  /\ \A f \in DOMAIN fs : FileOK(f, fs[f])

\* The entries of the logs ascend: in each log and from log to log.
LogsAscend(fs) ==
  /\ \A n \in LogSet(fs) : \A i, j \in DOMAIN fs[LogFile(n)].recs :
       i < j => fs[LogFile(n)].recs[i] < fs[LogFile(n)].recs[j]
  /\ \A m, n \in LogSet(fs) : m < n =>
       \A a \in LogEntries(fs, m), b \in LogEntries(fs, n) : a < b

\* Tables and the number of a log are a state of the database that a manifest may name:
\* the tables are there and in order, and what is in the logs behind is in them.
LevelsAscend(fs, tables) ==
  \A s, t \in tables :
    (s.level = 1 /\ t.level = 0) \/ (s.level = 0 /\ t.level = 0 /\ s.num < t.num)
      => \A a \in fs[TableFile(s.num)].recs[1], b \in fs[TableFile(t.num)].recs[1] : a < b
Sound(fs, tables, log, next, last) ==
  /\ \A t \in tables : TableFile(t.num) \in DOMAIN fs /\ t.num < next
  /\ LevelsAscend(fs, tables)
  /\ \A n \in LogSet(fs) : n >= log => \A a \in Entries(fs, tables), b \in LogEntries(fs, n) : a < b
  /\ \A n \in LogSet(fs) : n < log => LogEntries(fs, n) \subseteq Entries(fs, tables)
  /\ \A a \in Entries(fs, tables) : a <= last
SoundView(fs, m) ==
  /\ Sound(fs, m.added, m.log, m.next, m.last)
  /\ m.log < m.next /\ Number(fs) < m.next
  /\ \A n \in Nat : Descriptor(n) \in DOMAIN fs => n <= m.next \/ \E l \in LogSet(fs) : n < l

-----------------------------------------------------------------------------
(* The inductive invariant *)

PCs == {"closed", "newdb", "tmp", "rename", "recover", "failed", "logs", "apply", "add", "sync",
        "install", "gc", "open"}

VersionsSet == [version : SUBSET TableSet, next : Nat, last : Nat, log : Nat, manifest : Nat,
                descriptor : BOOLEAN]
JobSet == [edit : EditSet, save : BOOLEAN, fresh : BOOLEAN, opening : BOOLEAN, output : BOOLEAN]
TypeOK ==
  /\ options_ \in Settings /\ FilesOK(files) /\ pc \in PCs
  /\ vs \in VersionsSet /\ job \in JobSet
  /\ pending \in SUBSET Nat
  /\ mem_ \in SUBSET Nat /\ imm_ \in SUBSET Nat /\ has_mem_ \in BOOLEAN /\ has_imm_ \in BOOLEAN
  /\ logfile_number_ \in Nat /\ bg_error_ \in BOOLEAN
  /\ w \in [at : {"idle", "sync", "insert"}, sync : BOOLEAN]
  /\ pinned \in Seq(SUBSET TableSet) /\ created \in BOOLEAN

Creating == pc \in {"tmp", "rename"} /\ ~job.edit.has
Applying == pc \in {"apply", "add", "sync", "install"} \/ (pc \in {"tmp", "rename"} /\ job.edit.has)
Ready    == pc \in {"gc", "open"} \/ Applying
Running  == pc = "logs" \/ Ready
\* Where an edit is being applied: the tables and numbers after it.
NextVersion == ApplyEdit(vs.version, job.edit)
NextNext == IF pc = "apply" THEN vs.next ELSE job.edit.next
NextLast == IF pc = "apply" THEN vs.last ELSE job.edit.last
\* A view m of the manifest is the current version, or the next one.
IsCurrent(m) == m.has /\ m.added = vs.version /\ m.log = vs.log
IsNext(m) == m.has /\ m.added = NextVersion /\ m.log = job.edit.log /\ m.next = job.edit.next
             /\ m.last = job.edit.last

CreatingOK ==
  /\ ~Exists(CURRENT) => /\ DOMAIN files \subseteq {Descriptor(1), TempFile(1)}
                         /\ ~created /\ (pc \in {"closed", "newdb"} \/ Creating)
  /\ pc = "newdb" \/ Creating => ~Exists(CURRENT)
  /\ Creating => /\ vs = [NoVersions EXCEPT !.manifest = 1]
                 /\ Exists(Descriptor(1)) /\ files[Descriptor(1)] = [recs |-> <<NewDBEdit>>, synced |-> 0]
                 /\ job = [NoJob EXCEPT !.fresh = TRUE]
  /\ Creating /\ pc = "rename" => Exists(TempFile(1))

\* The manifest and what is synced of it: both can be opened, once there has been a sync.
Views(fs, reuse) == {m \in {Full(fs)} \cup (IF reuse THEN {} ELSE {Durable(fs)}) : m.has}
ManifestFine(fs, made, reuse) ==
  /\ Descriptor(Number(fs)) \in DOMAIN fs
  /\ Full(fs) \in EditSet /\ Durable(fs) \in EditSet
  /\ \A m \in Views(fs, reuse) : SoundView(fs, m)
  /\ made => Full(fs).has
  /\ reuse => Full(fs).has /\ \A n \in Nat : Descriptor(n) \in DOMAIN fs => n = 1
  /\ ~reuse => Len(Current(fs).recs) <= Current(fs).synced + 1
  /\ ~reuse /\ Durable(fs).has =>
       /\ Full(fs).has /\ Durable(fs).next <= Full(fs).next /\ Durable(fs).last <= Full(fs).last
       /\ Entries(fs, Durable(fs).added) \subseteq Entries(fs, Full(fs).added)
       /\ Entries(fs, Full(fs).added) \subseteq Data(fs, Durable(fs).added)
  /\ ~reuse /\ ~Durable(fs).has => ~made /\ AllLogs(fs) = {} /\ Full(fs).added = {}
ManifestOK == Exists(CURRENT) => ManifestFine(files, created, ReuseLogs)

\* Before the database is open nothing is written, and nothing is in memory at first.
MemoryOK ==
  /\ ~Opened => ~bg_error_ /\ w.at = "idle" /\ pinned = << >> /\ ~has_imm_ /\ imm_ = {}
  /\ pc \in {"closed", "newdb", "recover"} \/ Creating => ~has_mem_ /\ mem_ = {} /\ logfile_number_ = 0

\* An opened database.
OpenedOK ==
  /\ pc = "recover" \/ Running => Exists(CURRENT)
  /\ Opened => created /\ \A f \in DOMAIN files : f[2] < vs.next
  /\ bg_error_ => pc \in {"gc", "open"}

  /\ job.fresh => job.opening
  /\ ~has_imm_ => imm_ = {}
  /\ \A i \in DOMAIN pinned : Missing(pinned[i]) = {}
  /\ w.at # "idle" => vs.last + 1 \in LogEntries(files, logfile_number_)
  /\ w.at = "insert" /\ w.sync => vs.last + 1 \in SyncedEntries(files, logfile_number_)

\* The state in memory agrees with the files.
RunningOK ==
  Running =>
    /\ Sound(files, vs.version, vs.log, vs.next, vs.last) /\ vs.log < vs.next
    /\ Full(files).has /\ Full(files).next <= vs.next /\ Full(files).last <= vs.last
    /\ Entries(files, vs.version) \subseteq Data(files, Full(files).added)
    /\ Entries(files, Full(files).added) \subseteq Data(files, vs.version)

\* While the logs are recovered: the tables made of them follow one another.
LogsOK ==
  pc = "logs" =>
    LET tables == vs.version \cup job.edit.added
        left(n) == n \in pending \/ (has_mem_ /\ n = logfile_number_)
    IN
    /\ IsCurrent(Full(files)) /\ Full(files).next < vs.next
    /\ job.opening /\ ~job.fresh /\ job.edit.has /\ job.edit.deleted = {}
    /\ pending \subseteq LogSet(files) /\ \A n \in pending : n >= vs.log
    /\ \A n \in LogSet(files) : n < vs.next \/ n \in pending
    /\ \A n \in LogSet(files) : n < vs.log \/ n \in pending \/ (\A m \in pending : n < m)
    /\ \A n \in Nat : Exists(Descriptor(n)) => n < vs.next \/ \E l \in pending : n < l
    /\ \A t \in job.edit.added : TableFile(t.num) \in DOMAIN files /\ t.num < vs.next /\ t.level = 0
    /\ \A t \in vs.version, s \in job.edit.added : t.num < s.num
    /\ LevelsAscend(files, tables)
    /\ \A n \in LogSet(files) : left(n) => \A a \in Entries(files, tables), b \in LogEntries(files, n) : a < b
    /\ \A n \in LogSet(files) : n < vs.log \/ left(n) \/ LogEntries(files, n) \subseteq Entries(files, job.edit.added)
    /\ Entries(files, job.edit.added) \subseteq AllLogs(files)
    /\ \A n \in LogSet(files) : n \in pending \/ \A a \in LogEntries(files, n) : a <= vs.last
    /\ has_mem_ => /\ pending = {} /\ ReuseLogs /\ logfile_number_ \in LogSet(files)
                   /\ \A n \in LogSet(files) : n <= logfile_number_
                   /\ vs.log <= logfile_number_ /\ mem_ = LogEntries(files, logfile_number_)
    /\ ~job.save => job.edit.added = {} /\ ReuseLogs
    /\ vs.descriptor = ReuseLogs
    /\ IF ReuseLogs THEN vs.manifest = Number(files)
       ELSE vs.manifest = Full(files).next /\ Number(files) < vs.manifest

\* From then on there is a log to write to, the last one.
ReadyOK ==
  Ready =>
    /\ has_mem_ /\ logfile_number_ \in LogSet(files) /\ logfile_number_ < vs.next
    /\ \A n \in LogSet(files) : n <= logfile_number_
    /\ vs.log <= logfile_number_
    /\ LogEntries(files, logfile_number_) = mem_ \cup (IF w.at = "idle" THEN {} ELSE {vs.last + 1})
    /\ \A e \in mem_ : e <= vs.last
    /\ \A n \in LogSet(files) : n # logfile_number_ => \A e \in LogEntries(files, n) : e <= vs.last
    /\ \A n \in Nat : Exists(Descriptor(n)) => n < vs.next
    /\ vs.manifest < vs.next
    /\ pc \in {"gc", "open"} \/ ~job.opening =>
         imm_ = UNION {LogEntries(files, n) : n \in {n \in LogSet(files) : vs.log <= n /\ n < logfile_number_}}
    /\ has_imm_ => vs.log < logfile_number_

\* An edit on its way into the manifest.
ApplyingOK ==
  Applying =>
    /\ Sound(files, NextVersion, job.edit.log, NextNext, NextLast)
    /\ NextNext <= vs.next /\ NextLast <= vs.last
    /\ job.edit.log < NextNext
    /\ \A n \in Nat : Exists(Descriptor(n)) => n < NextNext
    /\ vs.log <= job.edit.log /\ job.edit.log <= logfile_number_
    /\ job.edit.log # vs.log => job.edit.log = logfile_number_ /\ (has_imm_ \/ job.opening)
    /\ job.opening => job.edit.log = logfile_number_
    /\ pc # "apply" => job.edit.has
    /\ Entries(files, vs.version) \subseteq Entries(files, NextVersion)
    /\ Entries(files, NextVersion) \subseteq Data(files, vs.version)
    /\ Full(files).next <= NextNext /\ Full(files).last <= NextLast

\* A new manifest is written next to the current one.
Fresh == job.fresh /\ pc \in {"add", "sync", "tmp", "rename"}
\* What is in the manifests when.
PhaseOK ==
  /\ job.fresh => job.opening
  /\ pc \in {"tmp", "rename"} => job.fresh
  /\ Ready /\ ~vs.descriptor => pc = "apply" /\ job.opening /\ ~ReuseLogs /\ vs.manifest < logfile_number_
  /\ pc = "apply" /\ job.opening /\ ~ReuseLogs => ~vs.descriptor
  /\ pc = "add" /\ job.opening /\ ~ReuseLogs => job.fresh
  /\ Ready /\ (Fresh \/ ~vs.descriptor) => Number(files) < vs.manifest /\ IsCurrent(Full(files))
  /\ Ready /\ ~Fresh /\ vs.descriptor => Number(files) = vs.manifest
  /\ Ready /\ Fresh =>
       /\ ~ReuseLogs /\ Exists(Descriptor(vs.manifest))
       /\ files[Descriptor(vs.manifest)].recs =
            IF pc = "add" THEN <<Snapshot>> ELSE <<Snapshot, job.edit>>
       /\ pc \in {"tmp", "rename"} => files[Descriptor(vs.manifest)].synced = 2
       /\ pc = "rename" => Exists(TempFile(vs.manifest))
  /\ pc \in {"apply", "add"} => IsCurrent(Full(files))
  /\ pc = "sync" /\ ~job.fresh => IsNext(Full(files)) /\ (~ReuseLogs => IsCurrent(Durable(files)))
  /\ pc = "install" => IsNext(Full(files))
  /\ pc \in {"gc", "open"} /\ ~bg_error_ => IsCurrent(Full(files))
  /\ ~ReuseLogs =>
       /\ (pc \in {"gc", "open"} /\ ~bg_error_) \/ pc = "install" \/ (pc \in {"apply", "add"} /\ ~job.opening)
            => Len(Current(files).recs) = Current(files).synced
       /\ pc = "sync" /\ ~job.fresh => Len(Current(files).recs) = Current(files).synced + 1


IInv == /\ TypeOK /\ CreatingOK /\ ManifestOK /\ LogsAscend(files) /\ MemoryOK /\ OpenedOK
        /\ RunningOK /\ LogsOK /\ ReadyOK /\ ApplyingOK /\ PhaseOK

-----------------------------------------------------------------------------
(* Names and contents of files *)

LEMMA Names ==
  ASSUME NEW m, NEW n
  PROVE  /\ LogFile(m) = LogFile(n) => m = n
         /\ Descriptor(m) = Descriptor(n) => m = n
         /\ TableFile(m) = TableFile(n) => m = n
         /\ TempFile(m) = TempFile(n) => m = n
         /\ LogFile(m) # CURRENT /\ LogFile(m) # Descriptor(n) /\ LogFile(m) # TableFile(n)
         /\ LogFile(m) # TempFile(n)
         /\ Descriptor(m) # CURRENT /\ Descriptor(m) # TableFile(n) /\ Descriptor(m) # TempFile(n)
         /\ TableFile(m) # CURRENT /\ TableFile(m) # TempFile(n) /\ TempFile(m) # CURRENT
BY DEF LogFile, Descriptor, TableFile, TempFile, CURRENT

LEMMA Parts ==
  ASSUME NEW n
  PROVE  /\ LogFile(n)[1] = "log" /\ LogFile(n)[2] = n
         /\ Descriptor(n)[1] = "MANIFEST" /\ Descriptor(n)[2] = n
         /\ TableFile(n)[1] = "table" /\ TableFile(n)[2] = n
         /\ TempFile(n)[1] = "dbtmp" /\ TempFile(n)[2] = n
         /\ CURRENT[1] = "CURRENT" /\ CURRENT[2] = 0
BY DEF LogFile, Descriptor, TableFile, TempFile, CURRENT

LEMMA Kinds ==
  ASSUME NEW fs, FilesOK(fs), NEW f \in DOMAIN fs
  PROVE  \/ f = CURRENT
         \/ \E n \in Nat : f = LogFile(n) \/ f = Descriptor(n) \/ f = TableFile(n) \/ f = TempFile(n)
<1>1. f = CURRENT \/ f \in {"MANIFEST", "log", "table", "dbtmp"} \X Nat
  BY DEF FilesOK
<1>2. ASSUME f \in {"MANIFEST", "log", "table", "dbtmp"} \X Nat
      PROVE  \E n \in Nat : f = LogFile(n) \/ f = Descriptor(n) \/ f = TableFile(n) \/ f = TempFile(n)
  <2>1. PICK t \in {"MANIFEST", "log", "table", "dbtmp"}, n \in Nat : f = <<t, n>>
    BY <1>2
  <2> QED BY <2>1 DEF LogFile, Descriptor, TableFile, TempFile
<1> QED BY <1>1, <1>2

LEMMA FileTypes ==
  ASSUME NEW fs, FilesOK(fs)
  PROVE  /\ \A n \in Nat : LogFile(n) \in DOMAIN fs =>
              /\ fs[LogFile(n)] \in [recs : Seq(Nat), synced : Nat]
              /\ fs[LogFile(n)].synced <= Len(fs[LogFile(n)].recs)
         /\ \A n \in Nat : Descriptor(n) \in DOMAIN fs =>
              /\ fs[Descriptor(n)] \in [recs : Seq(EditSet), synced : Nat]
              /\ fs[Descriptor(n)].synced <= Len(fs[Descriptor(n)].recs)
         /\ \A n \in Nat : TableFile(n) \in DOMAIN fs =>
              \E S \in SUBSET Nat : fs[TableFile(n)] = [recs |-> <<S>>, synced |-> 1]
         /\ \A n \in Nat : TempFile(n) \in DOMAIN fs => fs[TempFile(n)] = [recs |-> <<n>>, synced |-> 1]
         /\ CURRENT \in DOMAIN fs => \E n \in Nat : fs[CURRENT] = [recs |-> <<n>>, synced |-> 1]
<1>1. \A f \in DOMAIN fs : FileOK(f, fs[f])
  BY DEF FilesOK
<1>2. \A n \in Nat : LogFile(n) \in DOMAIN fs =>
              /\ fs[LogFile(n)] \in [recs : Seq(Nat), synced : Nat]
              /\ fs[LogFile(n)].synced <= Len(fs[LogFile(n)].recs)
  BY <1>1, Parts DEF FileOK
<1>3. \A n \in Nat : Descriptor(n) \in DOMAIN fs =>
              /\ fs[Descriptor(n)] \in [recs : Seq(EditSet), synced : Nat]
              /\ fs[Descriptor(n)].synced <= Len(fs[Descriptor(n)].recs)
  BY <1>1, Parts DEF FileOK
<1>4. \A n \in Nat : TableFile(n) \in DOMAIN fs =>
              \E S \in SUBSET Nat : fs[TableFile(n)] = [recs |-> <<S>>, synced |-> 1]
  <2> SUFFICES ASSUME NEW n \in Nat, TableFile(n) \in DOMAIN fs
               PROVE  \E S \in SUBSET Nat : fs[TableFile(n)] = [recs |-> <<S>>, synced |-> 1]
    OBVIOUS
  <2>1. FileOK(TableFile(n), fs[TableFile(n)]) /\ TableFile(n)[1] = "table"
    BY <1>1, Parts
  <2> QED BY ONLY <2>1, Zenon DEF FileOK
<1>5. \A n \in Nat : TempFile(n) \in DOMAIN fs => fs[TempFile(n)] = [recs |-> <<n>>, synced |-> 1]
  BY <1>1, Parts DEF FileOK
<1>6. CURRENT \in DOMAIN fs => \E n \in Nat : fs[CURRENT] = [recs |-> <<n>>, synced |-> 1]
  BY <1>1, Parts DEF FileOK
<1> QED BY <1>2, <1>3, <1>4, <1>5, <1>6

\* Files stay well formed when each of them was there or is well formed.
LEMMA FilesOKKept ==
  ASSUME NEW fs, NEW fs2, FilesOK(fs),
         DOMAIN fs2 \subseteq {CURRENT} \cup {"MANIFEST", "log", "table", "dbtmp"} \X Nat,
         \A f \in DOMAIN fs2 : (f \in DOMAIN fs /\ fs2[f] = fs[f]) \/ FileOK(f, fs2[f])
  PROVE  FilesOK(fs2)
BY DEF FilesOK

\* The fields of an update and of a removal.
LEMMA WithFile ==
  ASSUME NEW f, NEW file, files' = With(f, file)
  PROVE  /\ DOMAIN files' = DOMAIN files \cup {f}
         /\ files'[f] = file
         /\ \A g \in DOMAIN files : g # f => files'[g] = files[g]
BY DEF With

LEMMA WithoutFiles ==
  ASSUME NEW fs, NEW names
  PROVE  /\ DOMAIN Without(fs, names) = DOMAIN fs \ names
         /\ \A g \in DOMAIN fs \ names : Without(fs, names)[g] = fs[g]
BY DEF Without

-----------------------------------------------------------------------------
(* What a change of the files does to entries, logs and manifest *)

LEMMA LogTypes ==
  ASSUME NEW fs, FilesOK(fs), NEW n \in LogSet(fs)
  PROVE  /\ n \in Nat /\ LogFile(n) \in DOMAIN fs
         /\ LogEntries(fs, n) \in SUBSET Nat
         /\ SyncedEntries(fs, n) \subseteq LogEntries(fs, n)
<1>1. n \in Nat /\ LogFile(n) \in DOMAIN fs
  BY DEF LogSet
<1>2. /\ fs[LogFile(n)] \in [recs : Seq(Nat), synced : Nat]
      /\ fs[LogFile(n)].synced <= Len(fs[LogFile(n)].recs)
  BY <1>1, FileTypes
<1>3. LogEntries(fs, n) \in SUBSET Nat
  BY <1>2 DEF LogEntries, ToSet
<1>4. SyncedEntries(fs, n) \subseteq LogEntries(fs, n)
  BY <1>2 DEF LogEntries, SyncedEntries, ToSet
<1> QED BY <1>1, <1>3, <1>4

LEMMA EntriesTypes ==
  ASSUME NEW fs, FilesOK(fs), NEW T \in SUBSET TableSet, \A t \in T : TableFile(t.num) \in DOMAIN fs
  PROVE  /\ Entries(fs, T) \in SUBSET Nat
         /\ \A t \in T : fs[TableFile(t.num)].recs[1] \in SUBSET Nat
<1>1. ASSUME NEW t \in T PROVE fs[TableFile(t.num)].recs[1] \in SUBSET Nat
  <2>1. t.num \in Nat
    BY DEF TableSet
  <2>2. PICK S \in SUBSET Nat : fs[TableFile(t.num)] = [recs |-> <<S>>, synced |-> 1]
    BY <2>1, FileTypes
  <2> QED BY <2>2
<1> QED BY <1>1 DEF Entries

LEMMA SameEntries ==
  ASSUME NEW fs, NEW fs2, NEW T, \A t \in T : fs2[TableFile(t.num)] = fs[TableFile(t.num)]
  PROVE  Entries(fs2, T) = Entries(fs, T)
BY DEF Entries

\* A sound version stays sound when its tables stay and the logs only get shorter, or
\* get entries behind its own.
LEMMA SoundKept ==
  ASSUME NEW fs, NEW fs2, NEW T, NEW log, NEW next, NEW last,
         Sound(fs, T, log, next, last),
         \A t \in T : TableFile(t.num) \in DOMAIN fs2 /\ fs2[TableFile(t.num)] = fs[TableFile(t.num)],
         \A n \in LogSet(fs2) : \A x \in LogEntries(fs2, n) :
           \/ n \in LogSet(fs) /\ x \in LogEntries(fs, n)
           \/ n >= log /\ ~(n < log) /\ \A a \in Entries(fs, T) : a < x
  PROVE  Sound(fs2, T, log, next, last)
<1>1. Entries(fs2, T) = Entries(fs, T)
  BY SameEntries
<1>2. \A t \in T : TableFile(t.num) \in DOMAIN fs2 /\ t.num < next
  BY DEF Sound
<1>3. LevelsAscend(fs2, T)
  BY DEF Sound, LevelsAscend
<1>4. \A n \in LogSet(fs2) : n >= log => \A a \in Entries(fs2, T), b \in LogEntries(fs2, n) : a < b
  BY <1>1 DEF Sound
<1>5. \A n \in LogSet(fs2) : n < log => LogEntries(fs2, n) \subseteq Entries(fs2, T)
  BY <1>1 DEF Sound
<1>6. \A a \in Entries(fs2, T) : a <= last
  BY <1>1 DEF Sound
<1> QED BY <1>2, <1>3, <1>4, <1>5, <1>6 DEF Sound

LEMMA SoundWeaker ==
  ASSUME NEW fs, FilesOK(fs), NEW T \in SUBSET TableSet, NEW log \in Nat, NEW next \in Nat, NEW last \in Nat,
         NEW next2 \in Nat, NEW last2 \in Nat, Sound(fs, T, log, next, last), next <= next2, last <= last2
  PROVE  Sound(fs, T, log, next2, last2)
<1>1. Entries(fs, T) \in SUBSET Nat
  BY EntriesTypes DEF Sound
<1>2. \A t \in T : t.num \in Nat
  BY DEF TableSet
<1>3. \A t \in T : TableFile(t.num) \in DOMAIN fs /\ t.num < next2
  BY <1>2 DEF Sound
<1>4. \A a \in Entries(fs, T) : a <= last2
  BY <1>1 DEF Sound
<1> QED BY <1>3, <1>4 DEF Sound

SameLogs(fs, fs2) == LogSet(fs2) = LogSet(fs) /\ \A n \in LogSet(fs) : fs2[LogFile(n)] = fs[LogFile(n)]
LEMMA SameLogsFacts ==
  ASSUME NEW fs, NEW fs2, SameLogs(fs, fs2)
  PROVE  /\ LogSet(fs2) = LogSet(fs) /\ AllLogs(fs2) = AllLogs(fs) /\ AllSynced(fs2) = AllSynced(fs)
         /\ \A n \in LogSet(fs) : LogEntries(fs2, n) = LogEntries(fs, n)
         /\ \A n \in LogSet(fs) : SyncedEntries(fs2, n) = SyncedEntries(fs, n)
         /\ LogsAscend(fs) => LogsAscend(fs2)
<1>1. \A n \in LogSet(fs) : LogEntries(fs2, n) = LogEntries(fs, n)
  BY DEF SameLogs, LogEntries
<1>2. \A n \in LogSet(fs) : SyncedEntries(fs2, n) = SyncedEntries(fs, n)
  BY DEF SameLogs, SyncedEntries
<1>3. LogsAscend(fs) => LogsAscend(fs2)
  BY <1>1 DEF SameLogs, LogsAscend
<1> QED BY <1>1, <1>2, <1>3 DEF SameLogs, AllLogs, AllSynced

SameManifest(fs, fs2) ==
  /\ CURRENT \in DOMAIN fs2 /\ fs2[CURRENT] = fs[CURRENT]
  /\ Descriptor(Number(fs)) \in DOMAIN fs2 /\ fs2[Descriptor(Number(fs))] = fs[Descriptor(Number(fs))]
LEMMA SameManifestFacts ==
  ASSUME NEW fs, NEW fs2, SameManifest(fs, fs2)
  PROVE  /\ Number(fs2) = Number(fs) /\ Current(fs2) = Current(fs)
         /\ Full(fs2) = Full(fs) /\ Durable(fs2) = Durable(fs)
<1>1. Number(fs2) = Number(fs)
  BY DEF SameManifest, Number
<1>2. Current(fs2) = Current(fs)
  BY <1>1 DEF SameManifest, Current
<1> QED BY <1>1, <1>2 DEF Full, Durable
\* A view of the manifest stays sound, too, when the files above it stay.
LEMMA SoundViewKept ==
  ASSUME NEW fs, NEW fs2, NEW m \in EditSet, SoundView(fs, m), Number(fs2) = Number(fs),
         \A t \in m.added : TableFile(t.num) \in DOMAIN fs2 /\ fs2[TableFile(t.num)] = fs[TableFile(t.num)],
         \A n \in LogSet(fs2) : \A x \in LogEntries(fs2, n) :
           \/ n \in LogSet(fs) /\ x \in LogEntries(fs, n)
           \/ n >= m.log /\ \A a \in Entries(fs, m.added) : a < x,
         \A n \in Nat : Descriptor(n) \in DOMAIN fs2 =>
           Descriptor(n) \in DOMAIN fs \/ n <= m.next \/ \E l \in LogSet(fs2) : n < l,
         \A l \in LogSet(fs) : \E k \in LogSet(fs2) : l <= k
  PROVE  SoundView(fs2, m)
<1>0. m.log \in Nat /\ m.next \in Nat
  BY DEF EditSet
<1>1. Sound(fs, m.added, m.log, m.next, m.last)
  BY DEF SoundView
<1>2. \A n \in LogSet(fs2) : n \in Nat /\ (n >= m.log => ~(n < m.log))
  BY <1>0 DEF LogSet
<1>3. Sound(fs2, m.added, m.log, m.next, m.last)
  BY <1>1, <1>2, SoundKept
<1>4. m.log < m.next /\ Number(fs2) < m.next
  BY DEF SoundView
<1>5. ASSUME NEW n \in Nat, Descriptor(n) \in DOMAIN fs2
      PROVE  n <= m.next \/ \E l \in LogSet(fs2) : n < l
  <2>1. CASE Descriptor(n) \notin DOMAIN fs
    BY <1>5, <2>1
  <2>2. CASE Descriptor(n) \in DOMAIN fs /\ ~(n <= m.next)
    <3>1. PICK l \in LogSet(fs) : n < l
      BY <2>2 DEF SoundView
    <3>2. PICK k \in LogSet(fs2) : l <= k
      OBVIOUS
    <3> QED BY <3>1, <3>2 DEF LogSet
  <2> QED BY <2>1, <2>2
<1> QED BY <1>3, <1>4, <1>5 DEF SoundView

\* What keeps the manifest, the tables it names, and the logs behind it, keeps it usable.
LEMMA ManifestKept ==
  ASSUME NEW fs, NEW fs2, NEW made, NEW made2, NEW reuse,
         ManifestFine(fs, made, reuse), SameManifest(fs, fs2),
         \A m \in Views(fs, reuse) : \A t \in m.added :
           TableFile(t.num) \in DOMAIN fs2 /\ fs2[TableFile(t.num)] = fs[TableFile(t.num)],
         \A m \in Views(fs, reuse) : \A n \in LogSet(fs2) : \A x \in LogEntries(fs2, n) :
           \/ n \in LogSet(fs) /\ x \in LogEntries(fs, n)
           \/ n >= m.log /\ \A a \in Entries(fs, m.added) : a < x,
         \A n \in Nat : Descriptor(n) \in DOMAIN fs2 =>
           \/ Descriptor(n) \in DOMAIN fs
           \/ ~reuse /\ \A m \in Views(fs, reuse) : n <= m.next \/ \E l \in LogSet(fs2) : n < l,
         \A l \in LogSet(fs) : \E k \in LogSet(fs2) : l <= k,
         ~reuse /\ Durable(fs).has => AllLogs(fs) \subseteq Data(fs2, Durable(fs).added),
         ~reuse /\ ~Durable(fs).has => AllLogs(fs2) = {},
         made2 => made \/ (Full(fs).has /\ (~reuse => Durable(fs).has))
  PROVE  ManifestFine(fs2, made2, reuse)
<1>1. /\ Number(fs2) = Number(fs) /\ Current(fs2) = Current(fs)
      /\ Full(fs2) = Full(fs) /\ Durable(fs2) = Durable(fs)
  BY SameManifestFacts
<1>2. Views(fs2, reuse) = Views(fs, reuse)
  BY <1>1 DEF Views
<1>3. ASSUME NEW m \in Views(fs, reuse) PROVE SoundView(fs2, m) /\ Entries(fs2, m.added) = Entries(fs, m.added)
  <2>1. m \in EditSet /\ SoundView(fs, m)
    BY DEF ManifestFine, Views
  <2>2. SoundView(fs2, m)
    BY <1>1, <2>1, SoundViewKept
  <2>3. Entries(fs2, m.added) = Entries(fs, m.added)
    BY SameEntries
  <2> QED BY <2>2, <2>3
<1>4. ~reuse /\ Durable(fs).has =>
       /\ Entries(fs2, Durable(fs).added) \subseteq Entries(fs2, Full(fs).added)
       /\ Entries(fs2, Full(fs).added) \subseteq Data(fs2, Durable(fs).added)
  <2> SUFFICES ASSUME ~reuse, Durable(fs).has
               PROVE  /\ Entries(fs2, Durable(fs).added) \subseteq Entries(fs2, Full(fs).added)
                      /\ Entries(fs2, Full(fs).added) \subseteq Data(fs2, Durable(fs).added)
    OBVIOUS
  <2>1. /\ Full(fs).has
        /\ Entries(fs, Durable(fs).added) \subseteq Entries(fs, Full(fs).added)
        /\ Entries(fs, Full(fs).added) \subseteq Data(fs, Durable(fs).added)
    BY DEF ManifestFine
  <2>2. Full(fs) \in Views(fs, reuse) /\ Durable(fs) \in Views(fs, reuse)
    BY <2>1 DEF Views
  <2>3. /\ Entries(fs2, Durable(fs).added) = Entries(fs, Durable(fs).added)
        /\ Entries(fs2, Full(fs).added) = Entries(fs, Full(fs).added)
    BY <1>3, <2>2
  <2>4. AllLogs(fs) \subseteq Data(fs2, Durable(fs).added)
    OBVIOUS
  <2> QED BY <2>1, <2>3, <2>4 DEF Data
<1>5. made2 => Full(fs).has
  BY DEF ManifestFine
<1>6. ~reuse /\ ~Durable(fs).has => ~made2 /\ AllLogs(fs2) = {} /\ Full(fs).added = {}
  BY DEF ManifestFine
<1>7. Descriptor(Number(fs2)) \in DOMAIN fs2
  BY <1>1 DEF SameManifest
<1>8. reuse => Full(fs).has /\ \A n \in Nat : Descriptor(n) \in DOMAIN fs2 => n = 1
  BY DEF ManifestFine
<1>9. /\ Full(fs) \in EditSet /\ Durable(fs) \in EditSet
      /\ ~reuse => Len(Current(fs).recs) <= Current(fs).synced + 1
      /\ ~reuse /\ Durable(fs).has =>
           Full(fs).has /\ Durable(fs).next <= Full(fs).next /\ Durable(fs).last <= Full(fs).last
  BY DEF ManifestFine
<1> QED BY <1>1, <1>2, <1>3, <1>4, <1>5, <1>6, <1>7, <1>8, <1>9 DEF ManifestFine
-----------------------------------------------------------------------------
(* Reading a manifest *)

LEMMA MaxIs ==
  ASSUME NEW S \in SUBSET Nat, NEW x \in S, \A y \in S : y <= x
  PROVE  Max(S) = x
<1>1. \E m \in S : \A y \in S : m >= y
  OBVIOUS
<1>2. Max(S) \in S /\ \A y \in S : Max(S) >= y
  BY <1>1, Zenon DEF Max
<1>3. Max(S) >= x /\ x >= Max(S) /\ Max(S) \in Nat /\ x \in Nat
  BY <1>2
<1> QED BY ONLY <1>3

\* The tables that records leave.
Kept(recs) == UNION {recs[n].added \ UNION {recs[m].deleted : m \in n + 1 .. Len(recs)} : n \in DOMAIN recs}

LEMMA KeptAppend ==
  ASSUME NEW recs \in Seq(EditSet), NEW e \in EditSet
  PROVE  Kept(Append(recs, e)) = ApplyEdit(Kept(recs), e)
<1> DEFINE s == Append(recs, e)
<1>1. /\ Len(s) = Len(recs) + 1 /\ DOMAIN s = DOMAIN recs \cup {Len(recs) + 1}
      /\ s[Len(recs) + 1] = e /\ \A n \in DOMAIN recs : s[n] = recs[n]
      /\ DOMAIN recs = 1 .. Len(recs) /\ Len(recs) \in Nat
  OBVIOUS
<1> HIDE DEF s
<1>2. ASSUME NEW n \in DOMAIN recs
      PROVE  UNION {s[m].deleted : m \in n + 1 .. Len(s)} =
               (UNION {recs[m].deleted : m \in n + 1 .. Len(recs)}) \cup e.deleted
  <2>1. n + 1 .. Len(s) = (n + 1 .. Len(recs)) \cup {Len(recs) + 1}
    BY <1>1
  <2>2. \A m \in n + 1 .. Len(recs) : s[m] = recs[m]
    BY <1>1
  <2> QED BY <2>1, <2>2, <1>1
<1>3. UNION {s[m].deleted : m \in Len(recs) + 2 .. Len(s)} = {}
  BY <1>1
<1>4. ASSUME NEW t
      PROVE  t \in Kept(s) <=> t \in ApplyEdit(Kept(recs), e)
  <2>1. t \in Kept(s) <=> \E n \in DOMAIN s :
          t \in s[n].added /\ t \notin UNION {s[m].deleted : m \in n + 1 .. Len(s)}
    BY DEF Kept
  <2>2. t \in Kept(recs) <=> \E n \in DOMAIN recs :
          t \in recs[n].added /\ t \notin UNION {recs[m].deleted : m \in n + 1 .. Len(recs)}
    BY DEF Kept
  <2>3. ASSUME NEW n \in DOMAIN recs
        PROVE  t \in s[n].added /\ t \notin UNION {s[m].deleted : m \in n + 1 .. Len(s)}
                 <=> t \in recs[n].added /\ t \notin UNION {recs[m].deleted : m \in n + 1 .. Len(recs)}
                     /\ t \notin e.deleted
    <3>1. s[n] = recs[n]
      BY <1>1
    <3> QED BY ONLY <3>1, <1>2, <2>3
  <2>4. t \in s[Len(recs) + 1].added /\ t \notin UNION {s[m].deleted : m \in (Len(recs) + 1) + 1 .. Len(s)}
          <=> t \in e.added
    <3>1. (Len(recs) + 1) + 1 = Len(recs) + 2
      BY <1>1
    <3> QED BY <3>1, <1>1, <1>3
  <2>5. t \in Kept(s) <=> (t \in Kept(recs) /\ t \notin e.deleted) \/ t \in e.added
    BY ONLY <1>1, <2>1, <2>2, <2>3, <2>4
  <2> QED BY ONLY <2>5 DEF ApplyEdit
<1> QED BY <1>4 DEF s

LEMMA KeptEmpty == Kept(<< >>) = {}
<1>1. DOMAIN << >> = {}
  OBVIOUS
<1> QED BY <1>1, Zenon DEF Kept

\* What a manifest says after a record e is what e says, applied to the tables before it.
Says(m, tables, e) ==
  /\ m \in EditSet /\ m.has /\ m.added = ApplyEdit(tables, e)
  /\ m.log = e.log /\ m.next = e.next /\ m.last = e.last

LEMMA KeptType ==
  ASSUME NEW recs \in Seq(EditSet)
  PROVE  Kept(recs) \in SUBSET TableSet
<1>0. \A n \in DOMAIN recs : recs[n] \in EditSet
  OBVIOUS
<1>1. \A n \in DOMAIN recs : recs[n].added \in SUBSET TableSet
  BY <1>0 DEF EditSet
<1>2. ASSUME NEW t \in Kept(recs) PROVE t \in TableSet
  <2>1. PICK n \in DOMAIN recs : t \in recs[n].added
    BY DEF Kept
  <2> QED BY <1>1, <2>1
<1> QED BY <1>2

LEMMA ReadAppend ==
  ASSUME NEW recs \in Seq(EditSet), NEW e \in EditSet, e.has
  PROVE  Says(ReadManifest(Append(recs, e)), Kept(recs), e)
<1> DEFINE s == Append(recs, e)
           numbered == {n \in DOMAIN s : s[n].has}
<1>1. /\ Len(s) = Len(recs) + 1 /\ DOMAIN s = 1 .. Len(recs) + 1 /\ s[Len(recs) + 1] = e
      /\ Len(recs) \in Nat
  OBVIOUS
<1>2. Len(recs) + 1 \in numbered /\ numbered \in SUBSET Nat /\ \A y \in numbered : y <= Len(recs) + 1
  BY <1>1
<1>3. Max(numbered) = Len(recs) + 1
  BY <1>2, MaxIs
<1>4. ReadManifest(s) = [NoEdit EXCEPT !.has = TRUE, !.log = s[Max(numbered)].log,
                           !.next = s[Max(numbered)].next, !.last = s[Max(numbered)].last, !.added = Kept(s)]
  BY <1>2 DEF ReadManifest, Kept
<1> HIDE DEF numbered, s
<1>5. ReadManifest(s) = [NoEdit EXCEPT !.has = TRUE, !.log = e.log, !.next = e.next, !.last = e.last,
                                       !.added = Kept(s)]
  BY <1>1, <1>3, <1>4
<1>6. Kept(s) = ApplyEdit(Kept(recs), e)
  BY KeptAppend DEF s
<1>7. Kept(s) \in SUBSET TableSet
  BY <1>6, KeptType DEF ApplyEdit, EditSet
<1> DEFINE View(a, b, c, K) == [NoEdit EXCEPT !.has = TRUE, !.log = a, !.next = b, !.last = c, !.added = K]
<1>8. ASSUME NEW a \in Nat, NEW b \in Nat, NEW c \in Nat, NEW K \in SUBSET TableSet
      PROVE  /\ View(a, b, c, K).has /\ View(a, b, c, K).log = a /\ View(a, b, c, K).next = b
             /\ View(a, b, c, K).last = c /\ View(a, b, c, K).added = K
             /\ View(a, b, c, K) \in EditSet
  BY DEF NoEdit, EditSet
<1>11. ReadManifest(s) = View(e.log, e.next, e.last, Kept(s))
  BY <1>5
<1> HIDE DEF View
<1>9. e.log \in Nat /\ e.next \in Nat /\ e.last \in Nat
  BY DEF EditSet
<1>10. /\ ReadManifest(s).has /\ ReadManifest(s).log = e.log /\ ReadManifest(s).next = e.next
       /\ ReadManifest(s).last = e.last /\ ReadManifest(s).added = Kept(s) /\ ReadManifest(s) \in EditSet
  BY ONLY <1>7, <1>8, <1>9, <1>11
<1> QED BY ONLY <1>6, <1>10 DEF s, Says

LEMMA ReadHas ==
  ASSUME NEW recs, ReadManifest(recs).has
  PROVE  ReadManifest(recs).added = Kept(recs)
<1> DEFINE numbered == {n \in DOMAIN recs : recs[n].has}
           latest == recs[Max(numbered)]
<1>1. numbered # {}
  BY DEF ReadManifest, NoEdit
<1>2. ReadManifest(recs) = [NoEdit EXCEPT !.has = TRUE, !.log = latest.log, !.next = latest.next,
                                          !.last = latest.last, !.added = Kept(recs)]
  BY <1>1 DEF ReadManifest, Kept
<1> HIDE DEF latest
<1>3. ASSUME NEW a, NEW b, NEW c, NEW d
      PROVE  [NoEdit EXCEPT !.has = TRUE, !.log = a, !.next = b, !.last = c, !.added = d].added = d
  BY DEF NoEdit
<1> QED BY <1>2, <1>3
-----------------------------------------------------------------------------
(* What can be recovered *)

\* Recoverable, where the invariant holds (RecoverableIs below).
Store(fs)  == IF CURRENT \in DOMAIN fs /\ Full(fs).has THEN Data(fs, Full(fs).added) ELSE {}
Stable(fs) == IF CURRENT \in DOMAIN fs /\ Durable(fs).has
              THEN Entries(fs, Durable(fs).added) \cup AllSynced(fs) ELSE {}
\* A step that writes nothing changes nothing of what can be recovered.
Keeps == Store(files') = Store(files) /\ (~ReuseLogs => Stable(files) \subseteq Stable(files'))

SameTables(fs, fs2) ==
  \A n \in Nat : /\ TableFile(n) \in DOMAIN fs2 <=> TableFile(n) \in DOMAIN fs
                 /\ TableFile(n) \in DOMAIN fs => fs2[TableFile(n)] = fs[TableFile(n)]

LEMMA SoundSame ==
  ASSUME NEW fs, NEW fs2, SameLogs(fs, fs2), SameTables(fs, fs2), NEW T \in SUBSET TableSet,
         NEW log \in Nat, NEW next, NEW last, Sound(fs, T, log, next, last)
  PROVE  /\ Sound(fs2, T, log, next, last)
         /\ Entries(fs2, T) = Entries(fs, T) /\ Data(fs2, T) = Data(fs, T)
<1>1. \A t \in T : TableFile(t.num) \in DOMAIN fs2 /\ fs2[TableFile(t.num)] = fs[TableFile(t.num)]
  <2>1. \A t \in T : t.num \in Nat
    BY DEF TableSet
  <2> QED BY <2>1 DEF Sound, SameTables
<1>2. /\ LogSet(fs2) = LogSet(fs) /\ AllLogs(fs2) = AllLogs(fs)
      /\ \A n \in LogSet(fs) : LogEntries(fs2, n) = LogEntries(fs, n)
  BY SameLogsFacts
<1>3. Sound(fs2, T, log, next, last)
  BY <1>1, <1>2, SoundKept
<1>4. Entries(fs2, T) = Entries(fs, T)
  BY <1>1, SameEntries
<1> QED BY <1>2, <1>3, <1>4 DEF Data

LEMMA ManifestSame ==
  ASSUME NEW fs, NEW fs2, NEW made, NEW reuse, ManifestFine(fs, made, reuse), FilesOK(fs),
         SameManifest(fs, fs2), SameLogs(fs, fs2), SameTables(fs, fs2),
         \A n \in Nat : Descriptor(n) \in DOMAIN fs2 =>
           \/ Descriptor(n) \in DOMAIN fs
           \/ ~reuse /\ \A m \in Views(fs, reuse) : n <= m.next \/ \E l \in LogSet(fs2) : n < l
  PROVE  ManifestFine(fs2, made, reuse)
<1>1. /\ LogSet(fs2) = LogSet(fs) /\ AllLogs(fs2) = AllLogs(fs)
      /\ \A n \in LogSet(fs) : LogEntries(fs2, n) = LogEntries(fs, n)
  BY SameLogsFacts
<1>2. ASSUME NEW m \in Views(fs, reuse), NEW t \in m.added
      PROVE  TableFile(t.num) \in DOMAIN fs2 /\ fs2[TableFile(t.num)] = fs[TableFile(t.num)]
  <2>1. m \in EditSet /\ SoundView(fs, m)
    BY DEF ManifestFine, Views
  <2>2. t.num \in Nat /\ TableFile(t.num) \in DOMAIN fs
    BY <2>1 DEF SoundView, Sound, EditSet, TableSet
  <2> QED BY <2>2 DEF SameTables
<1>3. \A l \in LogSet(fs) : l <= l
  BY DEF LogSet
<1>4. ~reuse /\ ~Durable(fs).has => AllLogs(fs2) = {}
  BY <1>1 DEF ManifestFine
<1>5. AllLogs(fs) \subseteq Data(fs2, Durable(fs).added)
  BY <1>1 DEF Data
<1>6. \A m \in Views(fs, reuse) : \A n \in LogSet(fs2) : \A x \in LogEntries(fs2, n) :
        n \in LogSet(fs) /\ x \in LogEntries(fs, n)
  BY <1>1
<1>7. \A l \in LogSet(fs) : \E k \in LogSet(fs2) : l <= k
  BY <1>1, <1>3
<1> QED BY <1>2, <1>4, <1>5, <1>6, <1>7, ManifestKept

\* Another manifest, or a temporary file, comes or goes.
SideFile(fs, fs2, k) ==
  /\ k \in Nat /\ (CURRENT \in DOMAIN fs => Number(fs) # k)
  /\ \A g : g \notin {Descriptor(k), TempFile(k)} =>
       (g \in DOMAIN fs2 <=> g \in DOMAIN fs) /\ (g \in DOMAIN fs => fs2[g] = fs[g])
LEMMA SideFileFacts ==
  ASSUME NEW fs, NEW fs2, NEW k, SideFile(fs, fs2, k)
  PROVE  /\ SameLogs(fs, fs2) /\ SameTables(fs, fs2)
         /\ CURRENT \in DOMAIN fs2 <=> CURRENT \in DOMAIN fs
         /\ CURRENT \in DOMAIN fs /\ Descriptor(Number(fs)) \in DOMAIN fs => SameManifest(fs, fs2)
         /\ \A n : n # k => (Descriptor(n) \in DOMAIN fs2 <=> Descriptor(n) \in DOMAIN fs)
<1>1. SameLogs(fs, fs2)
  BY Names DEF SideFile, SameLogs, LogSet
<1>2. SameTables(fs, fs2)
  BY Names DEF SideFile, SameTables
<1>3. CURRENT \in DOMAIN fs2 <=> CURRENT \in DOMAIN fs
  BY Names DEF SideFile
<1>4. \A n : n # k => (Descriptor(n) \in DOMAIN fs2 <=> Descriptor(n) \in DOMAIN fs)
  BY Names DEF SideFile
<1>5. CURRENT \in DOMAIN fs /\ Descriptor(Number(fs)) \in DOMAIN fs => SameManifest(fs, fs2)
  BY <1>3, Names DEF SideFile, SameManifest
<1> QED BY <1>1, <1>2, <1>3, <1>4, <1>5

LEMMA SameStore ==
  ASSUME NEW fs, NEW fs2, NEW made, NEW reuse, SameLogs(fs, fs2), SameTables(fs, fs2),
         CURRENT \in DOMAIN fs2 <=> CURRENT \in DOMAIN fs,
         CURRENT \in DOMAIN fs => SameManifest(fs, fs2) /\ ManifestFine(fs, made, reuse)
  PROVE  Store(fs2) = Store(fs) /\ (~reuse => Stable(fs2) = Stable(fs))
<1>1. CASE CURRENT \notin DOMAIN fs
  BY <1>1 DEF Store, Stable
<1>2. CASE CURRENT \in DOMAIN fs
  <2>1. Full(fs2) = Full(fs) /\ Durable(fs2) = Durable(fs)
    BY <1>2, SameManifestFacts
  <2>2. AllLogs(fs2) = AllLogs(fs) /\ AllSynced(fs2) = AllSynced(fs)
    BY SameLogsFacts
  <2>3. ASSUME NEW m \in Views(fs, reuse) PROVE Entries(fs2, m.added) = Entries(fs, m.added)
    <3>1. m \in EditSet /\ SoundView(fs, m)
      BY <1>2 DEF ManifestFine, Views
    <3>2. m.added \in SUBSET TableSet /\ m.log \in Nat /\ Sound(fs, m.added, m.log, m.next, m.last)
      BY <3>1 DEF EditSet, SoundView
    <3> QED BY <3>2, SoundSame
  <2>4. Full(fs).has => Full(fs) \in Views(fs, reuse)
    BY DEF Views
  <2>5. ~reuse /\ Durable(fs).has => Durable(fs) \in Views(fs, reuse)
    BY DEF Views
  <2> QED BY <1>2, <2>1, <2>2, <2>3, <2>4, <2>5 DEF Store, Stable, Data
<1> QED BY <1>1, <1>2

-----------------------------------------------------------------------------
(* The steps that open the database *)

LEMMA OpenStep == IInv /\ Open /\ options_' = options_ => IInv' /\ Keeps
<1> SUFFICES ASSUME IInv, Open, options_' = options_ PROVE IInv' /\ Keeps
  OBVIOUS
<1>0. pc = "closed" /\ pc' = IF CURRENT \in DOMAIN files THEN "recover" ELSE "newdb"
  BY DEF Open, Exists
<1>1. UNCHANGED <<options_, files, vs, job, pending, memory, bg_error_, w, pinned, crashes, faults, created>>
  BY DEF Open
<1>2. TypeOK'
  BY <1>0, <1>1 DEF IInv, TypeOK, PCs, memory
<1>3. CreatingOK'
  BY <1>0, <1>1 DEF IInv, CreatingOK, Creating, Exists
<1>4. ManifestOK'
  BY <1>1 DEF IInv, ManifestOK, Exists, ReuseLogs
<1>5. LogsAscend(files)'
  BY <1>1 DEF IInv
<1>6. MemoryOK'
  BY <1>0, <1>1 DEF IInv, MemoryOK, Creating, Opened, memory
<1>7. OpenedOK'
  BY <1>0, <1>1 DEF IInv, OpenedOK, MemoryOK, Opened, Running, Ready, Applying, memory, Exists, Missing
<1>8. RunningOK'
  BY <1>0, <1>1 DEF IInv, RunningOK, Running, Ready, Applying
<1>9. LogsOK'
  BY <1>0, <1>1 DEF IInv, LogsOK
<1>10. ReadyOK'
  BY <1>0, <1>1 DEF IInv, ReadyOK, Ready, Applying
<1>11. ApplyingOK'
  BY <1>0, <1>1 DEF IInv, ApplyingOK, Applying
<1>12. PhaseOK'
  BY <1>0, <1>1 DEF IInv, PhaseOK, Ready, Applying, Fresh
<1>13. Keeps
  BY <1>1 DEF Keeps
<1> QED BY <1>2, <1>3, <1>4, <1>5, <1>6, <1>7, <1>8, <1>9, <1>10, <1>11, <1>12, <1>13 DEF IInv
LEMMA Constants ==
  /\ NoEdit \in EditSet /\ ~NoEdit.has /\ NoEdit.added = {} /\ NoEdit.deleted = {}
  /\ NoEdit.log = 0 /\ NoEdit.next = 0 /\ NoEdit.last = 0
  /\ NewDBEdit \in EditSet /\ NewDBEdit.has /\ NewDBEdit.added = {} /\ NewDBEdit.deleted = {}
  /\ NewDBEdit.log = 0 /\ NewDBEdit.next = 2 /\ NewDBEdit.last = 0
  /\ NoJob \in JobSet /\ NoJob.edit = NoEdit /\ ~NoJob.fresh /\ NoJob.opening /\ ~NoJob.save
  /\ NoVersions \in VersionsSet /\ NoVersions.version = {} /\ NoVersions.next = 2
  /\ NoVersions.last = 0 /\ NoVersions.log = 0 /\ NoVersions.manifest = 0 /\ ~NoVersions.descriptor
<1>1. /\ NoEdit \in EditSet /\ ~NoEdit.has /\ NoEdit.added = {} /\ NoEdit.deleted = {}
      /\ NoEdit.log = 0 /\ NoEdit.next = 0 /\ NoEdit.last = 0
  BY DEF NoEdit, EditSet
<1>2. /\ NewDBEdit \in EditSet /\ NewDBEdit.has /\ NewDBEdit.added = {} /\ NewDBEdit.deleted = {}
      /\ NewDBEdit.log = 0 /\ NewDBEdit.next = 2 /\ NewDBEdit.last = 0
  BY DEF NewDBEdit, NoEdit, EditSet
<1>3. NoJob \in JobSet /\ NoJob.edit = NoEdit /\ ~NoJob.fresh /\ NoJob.opening /\ ~NoJob.save
  BY <1>1 DEF NoJob, JobSet
<1>4. /\ NoVersions \in VersionsSet /\ NoVersions.version = {} /\ NoVersions.next = 2
      /\ NoVersions.last = 0 /\ NoVersions.log = 0 /\ NoVersions.manifest = 0 /\ ~NoVersions.descriptor
  BY DEF NoVersions, VersionsSet
<1> QED BY <1>1, <1>2, <1>3, <1>4

LEMMA InitOK == Init => IInv
<1> SUFFICES ASSUME Init PROVE IInv
  OBVIOUS
<1>1. /\ options_ \in Settings /\ files = << >> /\ pc = "closed" /\ vs = NoVersions /\ job = NoJob
      /\ pending = {} /\ mem_ = {} /\ imm_ = {} /\ has_mem_ = FALSE /\ has_imm_ = FALSE
      /\ logfile_number_ = 0 /\ bg_error_ = FALSE /\ w = NoWrite /\ pinned = << >> /\ created = FALSE
  BY DEF Init
<1>2. DOMAIN files = {} /\ LogSet(files) = {} /\ w.at = "idle" /\ w \in [at : {"idle", "sync", "insert"}, sync : BOOLEAN]
  BY <1>1 DEF LogSet, NoWrite
<1>3. FilesOK(files)
  BY <1>2 DEF FilesOK
<1>4. TypeOK
  <2>1. pinned \in Seq(SUBSET TableSet)
    BY <1>1
  <2> QED BY <1>1, <1>2, <1>3, <2>1, Constants DEF TypeOK, PCs
<1>5. CreatingOK /\ ManifestOK
  BY <1>1, <1>2 DEF CreatingOK, Creating, ManifestOK, Exists
<1>6. LogsAscend(files)
  BY <1>2 DEF LogsAscend
<1>7. MemoryOK
  BY <1>1, <1>2 DEF MemoryOK
<1>8. OpenedOK
  BY <1>1, <1>2, Constants DEF OpenedOK, Opened, Running, Ready, Applying
<1>9. RunningOK /\ LogsOK /\ ReadyOK /\ ApplyingOK
  BY <1>1 DEF RunningOK, LogsOK, ReadyOK, ApplyingOK, Running, Ready, Applying
<1>10. PhaseOK
  BY <1>1, Constants DEF PhaseOK, Ready, Applying, Fresh
<1> QED BY <1>3, <1>4, <1>5, <1>6, <1>7, <1>8, <1>9, <1>10 DEF IInv

\* A log that is new, or none: what is in the logs follows from their domain.
LEMMA NoLogs ==
  ASSUME NEW fs, DOMAIN fs \subseteq {Descriptor(1), TempFile(1)}
  PROVE  LogSet(fs) = {} /\ AllLogs(fs) = {} /\ LogsAscend(fs)
<1>1. LogSet(fs) = {}
  BY Names DEF LogSet
<1> QED BY <1>1 DEF AllLogs, LogsAscend

LEMMA NewDBStep == IInv /\ NewDB /\ options_' = options_ => IInv' /\ Keeps
<1> SUFFICES ASSUME IInv, NewDB, options_' = options_ PROVE IInv' /\ Keeps
  OBVIOUS
<1>0. /\ pc = "newdb" /\ pc' = "tmp" /\ job' = [NoJob EXCEPT !.fresh = TRUE]
      /\ vs' = [NoVersions EXCEPT !.manifest = 1]
      /\ UNCHANGED <<options_, pending, mem_, imm_, has_mem_, has_imm_, logfile_number_, bg_error_, w, pinned, crashes, faults, created>>
  BY DEF NewDB, memory
<1> DEFINE file == [recs |-> <<NewDBEdit>>, synced |-> 0]
<1>1. files' = With(Descriptor(1), file)
  BY DEF NewDB, NewFile
<1>2. /\ DOMAIN files' = DOMAIN files \cup {Descriptor(1)}
      /\ files'[Descriptor(1)] = file
      /\ \A g \in DOMAIN files : g # Descriptor(1) => files'[g] = files[g]
  BY <1>1, WithFile
<1>3. ~Exists(CURRENT) /\ DOMAIN files \subseteq {Descriptor(1), TempFile(1)} /\ ~created
  BY <1>0 DEF IInv, CreatingOK
<1>4. ~(CURRENT \in DOMAIN files') /\ DOMAIN files' \subseteq {Descriptor(1), TempFile(1)}
  BY <1>2, <1>3, Names DEF Exists
<1>5. job' \in JobSet /\ job'.edit = NoEdit /\ job'.fresh /\ job'.opening /\ ~job'.edit.has
  BY <1>0, Constants DEF JobSet, NoJob
<1>6. vs' \in VersionsSet
  BY <1>0, Constants DEF VersionsSet, NoVersions
<1>7. FilesOK(files')
  <2>1. <<NewDBEdit>> \in Seq(EditSet) /\ Len(<<NewDBEdit>>) = 1
    BY Constants
  <2>2. FileOK(Descriptor(1), file)
    BY <2>1, Parts DEF FileOK
  <2>3. DOMAIN files' \subseteq {CURRENT} \cup {"MANIFEST", "log", "table", "dbtmp"} \X Nat
    BY <1>4 DEF Descriptor, TempFile
  <2> QED BY <1>2, <2>2, <2>3, FilesOKKept DEF IInv, TypeOK
<1>8. TypeOK'
  BY <1>0, <1>5, <1>6, <1>7 DEF IInv, TypeOK, PCs
<1>9. CreatingOK'
  BY <1>0, <1>2, <1>3, <1>4, <1>5 DEF CreatingOK, Creating, Exists
<1>10. ManifestOK'
  BY <1>4 DEF ManifestOK, Exists
<1>11. LogsAscend(files)'
  BY <1>4, NoLogs
<1>12. MemoryOK'
  BY <1>0, <1>5 DEF IInv, MemoryOK, Creating, Opened
<1>13. OpenedOK'
  BY <1>0, <1>5 DEF IInv, OpenedOK, MemoryOK, Opened, Running, Ready, Applying
<1>14. RunningOK' /\ LogsOK' /\ ReadyOK' /\ ApplyingOK'
  BY <1>0, <1>5 DEF RunningOK, LogsOK, ReadyOK, ApplyingOK, Running, Ready, Applying
<1>15. PhaseOK'
  BY <1>0, <1>5 DEF IInv, PhaseOK, Ready, Applying, Fresh
<1>16. Keeps
  BY <1>3, <1>4 DEF Keeps, Store, Stable, Exists
<1> QED BY <1>7, <1>8, <1>9, <1>10, <1>11, <1>12, <1>13, <1>14, <1>15, <1>16 DEF IInv
LEMMA NextVersionType == TypeOK => NextVersion \in SUBSET TableSet
BY DEF TypeOK, NextVersion, ApplyEdit, VersionsSet, JobSet, EditSet

\* What the invariant says of tables and logs, after a step that changes none of them.
LEMMA SameDataStep ==
  ASSUME IInv, SameLogs(files, files'), SameTables(files, files')
  PROVE  /\ Running => /\ Sound(files', vs.version, vs.log, vs.next, vs.last)
                       /\ Entries(files', vs.version) = Entries(files, vs.version)
                       /\ Data(files', vs.version) = Data(files, vs.version)
         /\ Applying => /\ Sound(files', NextVersion, job.edit.log, NextNext, NextLast)
                        /\ Entries(files', NextVersion) = Entries(files, NextVersion)
         /\ Exists(CURRENT) /\ Full(files).has =>
              /\ Entries(files', Full(files).added) = Entries(files, Full(files).added)
              /\ Data(files', Full(files).added) = Data(files, Full(files).added)
         /\ \A i \in DOMAIN pinned : \A t \in pinned[i] : TableFile(t.num) \in DOMAIN files'
<1>1. TypeOK /\ FilesOK(files)
  BY DEF IInv, TypeOK
<1>2. vs.version \in SUBSET TableSet /\ vs.log \in Nat /\ job.edit.log \in Nat
  BY <1>1 DEF TypeOK, VersionsSet, JobSet, EditSet
<1>3. Running => Sound(files, vs.version, vs.log, vs.next, vs.last)
  BY DEF IInv, RunningOK
<1>4. Applying => Sound(files, NextVersion, job.edit.log, NextNext, NextLast)
  BY DEF IInv, ApplyingOK
<1>5. Exists(CURRENT) /\ Full(files).has =>
        /\ Full(files).added \in SUBSET TableSet /\ Full(files).log \in Nat
        /\ Sound(files, Full(files).added, Full(files).log, Full(files).next, Full(files).last)
  <2> SUFFICES ASSUME Exists(CURRENT), Full(files).has
               PROVE  /\ Full(files).added \in SUBSET TableSet /\ Full(files).log \in Nat
                      /\ Sound(files, Full(files).added, Full(files).log, Full(files).next, Full(files).last)
    OBVIOUS
  <2>1. Full(files) \in EditSet /\ Full(files) \in Views(files, ReuseLogs)
    BY DEF IInv, ManifestOK, ManifestFine, Views
  <2>2. SoundView(files, Full(files))
    BY <2>1 DEF IInv, ManifestOK, ManifestFine
  <2> QED BY <2>1, <2>2 DEF EditSet, SoundView
<1>6. \A i \in DOMAIN pinned : \A t \in pinned[i] : TableFile(t.num) \in DOMAIN files'
  <2> SUFFICES ASSUME NEW i \in DOMAIN pinned, NEW t \in pinned[i] PROVE TableFile(t.num) \in DOMAIN files'
    OBVIOUS
  <2>0. pinned \in Seq(SUBSET TableSet)
    BY <1>1 DEF TypeOK
  <2>1. pinned[i] \in SUBSET TableSet
    BY <2>0
  <2>2. t.num \in Nat
    BY <2>1 DEF TableSet
  <2>3. TableFile(t.num) \in DOMAIN files
    BY DEF IInv, OpenedOK, Missing, Exists
  <2> QED BY <2>2, <2>3 DEF SameTables
<1>7. Running => /\ Sound(files', vs.version, vs.log, vs.next, vs.last)
                 /\ Entries(files', vs.version) = Entries(files, vs.version)
                 /\ Data(files', vs.version) = Data(files, vs.version)
  BY <1>2, <1>3, SoundSame
<1>8. Applying => /\ Sound(files', NextVersion, job.edit.log, NextNext, NextLast)
                  /\ Entries(files', NextVersion) = Entries(files, NextVersion)
  BY <1>1, <1>2, <1>4, SoundSame, NextVersionType
<1>9. Exists(CURRENT) /\ Full(files).has =>
              /\ Entries(files', Full(files).added) = Entries(files, Full(files).added)
              /\ Data(files', Full(files).added) = Data(files, Full(files).added)
  BY <1>5, SoundSame
<1> QED BY <1>6, <1>7, <1>8, <1>9

LEMMA WriteTempStep == IInv /\ WriteTemp /\ options_' = options_ => IInv' /\ Keeps
<1> SUFFICES ASSUME IInv, WriteTemp, options_' = options_ PROVE IInv' /\ Keeps
  OBVIOUS
<1>0. /\ pc = "tmp" /\ pc' = "rename"
      /\ UNCHANGED <<options_, vs, job, pending, mem_, imm_, has_mem_, has_imm_, logfile_number_, bg_error_, w, pinned, crashes, faults, created>>
  BY DEF WriteTemp, memory
<1> DEFINE file == [recs |-> <<vs.manifest>>, synced |-> 1]
<1>1. files' = With(TempFile(vs.manifest), file)
  BY DEF WriteTemp, NewFile
<1>2. /\ DOMAIN files' = DOMAIN files \cup {TempFile(vs.manifest)}
      /\ files'[TempFile(vs.manifest)] = file
      /\ \A g \in DOMAIN files : g # TempFile(vs.manifest) => files'[g] = files[g]
  BY <1>1, WithFile
<1> HIDE DEF file
<1>3. TypeOK /\ vs.manifest \in Nat /\ FilesOK(files)
  BY DEF IInv, TypeOK, VersionsSet
<1>4. Exists(CURRENT) => Applying /\ Ready /\ Fresh
  BY <1>0 DEF IInv, CreatingOK, Creating, Applying, Ready, Fresh, PhaseOK
<1>5. SideFile(files, files', vs.manifest)
  <2>1. Exists(CURRENT) => Number(files) # vs.manifest
    <3>1. Exists(CURRENT) => Number(files) < vs.manifest
      BY <1>4 DEF IInv, PhaseOK
    <3> QED BY <1>3, <3>1
  <2> QED BY <1>2, <1>3, <2>1 DEF SideFile, Exists
<1>6. /\ SameLogs(files, files') /\ SameTables(files, files')
      /\ Exists(CURRENT)' <=> Exists(CURRENT)
      /\ Exists(CURRENT) => SameManifest(files, files')
      /\ \A n : Descriptor(n) \in DOMAIN files' <=> Descriptor(n) \in DOMAIN files
      /\ \A n : Descriptor(n) \in DOMAIN files => files'[Descriptor(n)] = files[Descriptor(n)]
  BY <1>2, <1>5, SideFileFacts, Names DEF IInv, ManifestOK, ManifestFine, Exists
<1>7. /\ LogSet(files') = LogSet(files) /\ AllLogs(files') = AllLogs(files)
      /\ \A n \in LogSet(files) : LogEntries(files', n) = LogEntries(files, n)
      /\ \A n \in LogSet(files) : SyncedEntries(files', n) = SyncedEntries(files, n)
      /\ LogsAscend(files')
  BY <1>6, SameLogsFacts DEF IInv
<1>8. Exists(CURRENT) => /\ Number(files') = Number(files) /\ Current(files') = Current(files)
                         /\ Full(files') = Full(files) /\ Durable(files') = Durable(files)
  BY <1>6, SameManifestFacts
<1>9. FilesOK(files')
  <2>1. FileOK(TempFile(vs.manifest), file)
    BY Parts DEF FileOK, file
  <2>2. DOMAIN files' \subseteq {CURRENT} \cup {"MANIFEST", "log", "table", "dbtmp"} \X Nat
    BY <1>2, <1>3 DEF FilesOK, TempFile
  <2> QED BY <1>2, <1>3, <2>1, <2>2, FilesOKKept
<1>10. TypeOK'
  BY <1>0, <1>3, <1>9 DEF TypeOK, PCs
<1>11. CreatingOK'
  <2>1. Creating' <=> Creating
    BY <1>0 DEF Creating
  <2>2. ~Exists(CURRENT)' => /\ DOMAIN files' \subseteq {Descriptor(1), TempFile(1)}
                             /\ ~created' /\ (pc' \in {"closed", "newdb"} \/ Creating')
    <3> SUFFICES ASSUME ~Exists(CURRENT)
                 PROVE  /\ DOMAIN files' \subseteq {Descriptor(1), TempFile(1)} /\ ~created /\ Creating
      BY <1>0, <1>6, <2>1
    <3>1. Creating /\ ~created /\ DOMAIN files \subseteq {Descriptor(1), TempFile(1)}
      BY <1>0 DEF IInv, CreatingOK
    <3>2. vs.manifest = 1
      BY <3>1, Constants DEF IInv, CreatingOK, NoVersions
    <3> QED BY <1>2, <3>1, <3>2
  <2>3. pc' = "newdb" \/ Creating' => ~Exists(CURRENT)'
    BY <1>0, <1>6, <2>1 DEF IInv, CreatingOK
  <2>4. Creating' => /\ vs' = [NoVersions EXCEPT !.manifest = 1] /\ job' = [NoJob EXCEPT !.fresh = TRUE]
                     /\ Exists(Descriptor(1))' /\ files'[Descriptor(1)] = [recs |-> <<NewDBEdit>>, synced |-> 0]
    BY <1>0, <1>6, <2>1 DEF IInv, CreatingOK, Exists
  <2>5. Creating' => Exists(TempFile(1))'
    <3>1. Creating => vs.manifest = 1
      BY DEF IInv, CreatingOK, NoVersions
    <3> QED BY <1>2, <2>1, <3>1 DEF Exists
  <2> QED BY <2>2, <2>3, <2>4, <2>5 DEF CreatingOK
<1>12. ManifestOK'
  <2>1. ManifestOK /\ ReuseLogs' = ReuseLogs
    BY <1>0 DEF IInv, ReuseLogs
  <2>2. Exists(CURRENT) => ManifestFine(files', created, ReuseLogs)
    BY <1>3, <1>6, <2>1, ManifestSame DEF ManifestOK
  <2> QED BY <1>0, <1>6, <2>1, <2>2 DEF ManifestOK
<1>13. MemoryOK'
  BY <1>0 DEF IInv, MemoryOK, Opened, Creating
<1>14. /\ Running => /\ Sound(files', vs.version, vs.log, vs.next, vs.last)
                     /\ Entries(files', vs.version) = Entries(files, vs.version)
                     /\ Data(files', vs.version) = Data(files, vs.version)
       /\ Applying => /\ Sound(files', NextVersion, job.edit.log, NextNext, NextLast)
                      /\ Entries(files', NextVersion) = Entries(files, NextVersion)
       /\ Exists(CURRENT) /\ Full(files).has =>
            /\ Entries(files', Full(files).added) = Entries(files, Full(files).added)
            /\ Data(files', Full(files).added) = Data(files, Full(files).added)
       /\ \A i \in DOMAIN pinned : \A t \in pinned[i] : TableFile(t.num) \in DOMAIN files'
  BY <1>6, SameDataStep
<1>15. /\ ~Opened' /\ ~Opened /\ (Running' <=> Running) /\ (Ready' <=> Ready) /\ (Applying' <=> Applying)
       /\ (Applying => Running)
       /\ (Fresh' <=> Fresh) /\ NextNext' = NextNext /\ NextLast' = NextLast /\ NextVersion' = NextVersion
  BY <1>0 DEF IInv, PhaseOK, Opened, Running, Ready, Applying, Fresh, NextNext, NextLast, NextVersion
<1>16. OpenedOK'
  BY <1>0, <1>6, <1>15 DEF IInv, OpenedOK, MemoryOK, Missing
<1>17. RunningOK'
  BY <1>0, <1>8, <1>14, <1>15 DEF IInv, RunningOK, OpenedOK
<1>18. LogsOK'
  BY <1>0 DEF LogsOK
<1>19. ReadyOK'
  BY <1>0, <1>6, <1>7, <1>15 DEF IInv, ReadyOK, Exists
<1>20. ApplyingOK'
  BY <1>0, <1>6, <1>8, <1>14, <1>15 DEF IInv, ApplyingOK, Exists, Running, Ready, OpenedOK
<1>21. PhaseOK'
  <2>1. /\ job.fresh /\ job.opening
        /\ Ready => /\ Fresh /\ Number(files) < vs.manifest /\ IsCurrent(Full(files)) /\ vs.descriptor
                    /\ ~ReuseLogs /\ Exists(Descriptor(vs.manifest))
                    /\ files[Descriptor(vs.manifest)].recs = <<Snapshot, job.edit>>
                    /\ files[Descriptor(vs.manifest)].synced = 2
    BY <1>0 DEF IInv, PhaseOK, Fresh
  <2>2. Ready => Exists(CURRENT)
    BY DEF IInv, OpenedOK, Running
  <2>3. Ready => /\ Number(files') < vs.manifest /\ IsCurrent(Full(files'))
                 /\ Exists(Descriptor(vs.manifest))' /\ Exists(TempFile(vs.manifest))'
                 /\ files'[Descriptor(vs.manifest)].recs = <<Snapshot, job.edit>>
                 /\ files'[Descriptor(vs.manifest)].synced = 2
    BY <1>0, <1>2, <1>6, <1>8, <2>1, <2>2 DEF Exists
  <2>4. Snapshot' = Snapshot /\ (ReuseLogs' <=> ReuseLogs) /\ (IsCurrent(Full(files))' <=> IsCurrent(Full(files')))
    BY <1>0 DEF Snapshot, ReuseLogs, IsCurrent
  <2> QED BY ONLY <1>0, <1>15, <2>1, <2>3, <2>4 DEF PhaseOK
<1>22. Keeps
  <2>1. Store(files') = Store(files) /\ (~ReuseLogs => Stable(files') = Stable(files))
    BY <1>6, SameStore DEF IInv, ManifestOK, Exists
  <2> QED BY <2>1 DEF Keeps
<1> QED BY <1>7, <1>10, <1>11, <1>12, <1>13, <1>16, <1>17, <1>18, <1>19, <1>20, <1>21, <1>22 DEF IInv
-----------------------------------------------------------------------------
(* What Recovery.tla reads of the files is what the invariant speaks of *)

LEMMA ManifestIs ==
  ASSUME IInv
  PROVE  /\ Exists(CURRENT) => Manifest(FALSE) = Full(files) /\ Manifest(TRUE) = Durable(files)
         /\ ~Exists(CURRENT) => Manifest(FALSE) = NoEdit /\ Manifest(TRUE) = NoEdit
<1>1. ASSUME Exists(CURRENT)
      PROVE  Manifest(FALSE) = Full(files) /\ Manifest(TRUE) = Durable(files)
  <2>1. Exists(Descriptor(files[CURRENT].recs[1]))
    BY <1>1 DEF IInv, ManifestOK, ManifestFine, Number, Exists
  <2> QED BY <1>1, <2>1 DEF Manifest, Recs, Full, Durable, Current, Number
<1>2. ASSUME ~Exists(CURRENT)
      PROVE  Manifest(FALSE) = NoEdit /\ Manifest(TRUE) = NoEdit
  <2>1. ~Exists(Descriptor(0))
    <3>1. Descriptor(0) # Descriptor(1) /\ Descriptor(0) # TempFile(1)
      BY DEF Descriptor, TempFile
    <3> QED BY <1>2, <3>1 DEF IInv, CreatingOK, Exists
  <2> QED BY <1>2, <2>1 DEF Manifest
<1> QED BY <1>1, <1>2

\* A view of the manifest names tables that are there.
LEMMA ViewFacts ==
  ASSUME IInv, Exists(CURRENT), NEW m \in Views(files, ReuseLogs)
  PROVE  /\ m \in EditSet /\ m.has /\ SoundView(files, m) /\ Missing(m.added) = {}
         /\ m.added \in SUBSET TableSet /\ m.log \in Nat /\ m.next \in Nat /\ m.last \in Nat
         /\ Sound(files, m.added, m.log, m.next, m.last)
<1>1. m \in EditSet /\ m.has /\ SoundView(files, m)
  BY DEF IInv, ManifestOK, ManifestFine, Views
<1> QED BY <1>1 DEF EditSet, SoundView, Sound, Missing, Exists

LEMMA FullViews ==
  ASSUME Full(files).has
  PROVE  Full(files) \in Views(files, ReuseLogs)
BY DEF Views

LEMMA RecoverStep == IInv /\ Recover /\ options_' = options_ => IInv' /\ Keeps
<1> SUFFICES ASSUME IInv, Recover, options_' = options_ PROVE IInv' /\ Keeps
  OBVIOUS
<1>0. /\ pc = "recover" /\ pc' \in {"failed", "logs"}
      /\ UNCHANGED <<options_, files, memory, bg_error_, w, pinned, crashes, faults, created>>
      /\ pc' = "failed" => UNCHANGED <<vs, job, pending>>
  BY DEF Recover
<1>1. TypeOK /\ Exists(CURRENT)
  BY <1>0 DEF IInv, OpenedOK
<1>2. /\ mem_ = {} /\ imm_ = {} /\ ~has_mem_ /\ ~has_imm_ /\ ~bg_error_ /\ w.at = "idle" /\ pinned = << >>
      /\ UNCHANGED <<mem_, imm_, has_mem_, has_imm_, logfile_number_, bg_error_, w, pinned>>
  BY <1>0 DEF IInv, MemoryOK, Opened, memory
<1> DEFINE m == Full(files)
<1>3. ASSUME pc' = "logs"
      PROVE  /\ m.has /\ vs' \in VersionsSet /\ job' \in JobSet
             /\ vs'.version = m.added /\ vs'.last = m.last /\ vs'.log = m.log /\ vs'.next = m.next + 1
             /\ vs'.manifest = (IF ReuseLogs THEN Number(files) ELSE m.next) /\ vs'.descriptor = ReuseLogs
             /\ job'.save = ~ReuseLogs /\ job'.edit.has /\ job'.edit.added = {} /\ job'.edit.deleted = {}
             /\ job'.opening /\ ~job'.fresh
             /\ pending' = {n \in LogSet(files) : n >= m.log}
  <2>1. Manifest(FALSE) = m /\ Openable(FALSE)
    BY <1>1, <1>3, ManifestIs DEF Recover
  <2>2. m.has
    BY <2>1 DEF Openable, Complete
  <2>3. m \in Views(files, ReuseLogs)
    BY <2>2, FullViews
  <2>4. m.added \in SUBSET TableSet /\ m.log \in Nat /\ m.next \in Nat /\ m.last \in Nat
    BY <1>1, <2>3, ViewFacts
  <2>5. Number(files) \in Nat
    <3>1. \E n \in Nat : files[CURRENT] = [recs |-> <<n>>, synced |-> 1]
      BY <1>1, FileTypes DEF TypeOK, Exists
    <3> QED BY <3>1 DEF Number
  <2>6. vs' = [version |-> m.added, last |-> m.last, log |-> m.log, next |-> m.next + 1,
               manifest |-> IF ReuseLogs THEN Number(files) ELSE m.next, descriptor |-> ReuseLogs]
    BY <1>3, <2>1 DEF Recover, Number
  <2>7. ReuseLogs \in BOOLEAN
    BY <1>1, RecoveryAssumption DEF TypeOK, ReuseLogs
  <2>8. job' = [NoJob EXCEPT !.save = ~ReuseLogs, !.edit.has = TRUE]
    BY <1>3, <2>1 DEF Recover
  <2>9. /\ job' \in JobSet /\ job'.save = ~ReuseLogs /\ job'.edit.has /\ job'.edit.added = {}
        /\ job'.edit.deleted = {} /\ job'.opening /\ ~job'.fresh
    BY <2>7, <2>8, Constants DEF NoJob, NoEdit, JobSet, EditSet
  <2>10. pending' = {n \in LogSet(files) : n >= m.log}
    <3>1. pending' = Logs(m.log)
      BY <1>3, <2>1 DEF Recover
    <3>2. ASSUME NEW f \in DOMAIN files, f[1] = "log" PROVE \E n \in Nat : f = LogFile(n) /\ f[2] = n
      BY <1>1, <3>2, Kinds, Parts DEF TypeOK
    <3>3. ASSUME NEW n \in Nat, LogFile(n) \in DOMAIN files PROVE LogFile(n)[1] = "log" /\ LogFile(n)[2] = n
      BY Parts
    <3> QED BY <3>1, <3>2, <3>3 DEF Logs, LogSet
  <2>11. vs' \in VersionsSet
    BY <2>4, <2>5, <2>6, <2>7 DEF VersionsSet
  <2> QED BY <2>2, <2>6, <2>9, <2>10, <2>11
<1>4. pc' = "logs" => /\ m.has /\ m \in Views(files, ReuseLogs)
                      /\ m.added \in SUBSET TableSet /\ m.log \in Nat /\ m.next \in Nat /\ m.last \in Nat
                      /\ Sound(files, m.added, m.log, m.next, m.last) /\ SoundView(files, m)
                      /\ Sound(files, m.added, m.log, m.next + 1, m.last)
  <2> SUFFICES ASSUME pc' = "logs"
               PROVE  /\ m \in Views(files, ReuseLogs)
                      /\ m.added \in SUBSET TableSet /\ m.log \in Nat /\ m.next \in Nat /\ m.last \in Nat
                      /\ Sound(files, m.added, m.log, m.next, m.last) /\ SoundView(files, m)
                      /\ Sound(files, m.added, m.log, m.next + 1, m.last)
    BY <1>3
  <2>1. m \in Views(files, ReuseLogs)
    BY <1>3, FullViews
  <2>2. /\ m.added \in SUBSET TableSet /\ m.log \in Nat /\ m.next \in Nat /\ m.last \in Nat
        /\ Sound(files, m.added, m.log, m.next, m.last) /\ SoundView(files, m)
    BY <1>1, <2>1, ViewFacts
  <2>3. Sound(files, m.added, m.log, m.next + 1, m.last)
    BY <1>1, <2>2, SoundWeaker DEF TypeOK
  <2> QED BY <2>1, <2>2, <2>3
<1>5. TypeOK'
  <2>1. pending' \in SUBSET Nat /\ vs' \in VersionsSet /\ job' \in JobSet
    BY <1>0, <1>1, <1>3 DEF TypeOK, LogSet
  <2> QED BY <1>0, <1>1, <1>2, <2>1 DEF TypeOK, PCs
<1>6. CreatingOK'
  BY <1>0, <1>1 DEF IInv, CreatingOK, Creating, Exists
<1>7. ManifestOK'
  BY <1>0 DEF IInv, ManifestOK, Exists, ReuseLogs
<1>8. LogsAscend(files)'
  BY <1>0 DEF IInv
<1>9. MemoryOK'
  BY <1>0, <1>2 DEF MemoryOK, Creating
<1>10. OpenedOK'
  BY <1>0, <1>1, <1>2, <1>3 DEF IInv, OpenedOK, Opened, Running, Ready, Applying, Exists, Missing
<1>11. RunningOK'
  <2> SUFFICES ASSUME pc' = "logs" PROVE RunningOK'
    BY <1>0 DEF RunningOK, Running, Ready, Applying
  <2>1. /\ Sound(files', vs'.version, vs'.log, vs'.next, vs'.last) /\ vs'.log < vs'.next
        /\ Full(files').has /\ Full(files').next <= vs'.next /\ Full(files').last <= vs'.last
    BY <1>0, <1>3, <1>4 DEF SoundView
  <2>2. /\ Entries(files', vs'.version) \subseteq Data(files', Full(files').added)
        /\ Entries(files', Full(files').added) \subseteq Data(files', vs'.version)
    BY <1>0, <1>3 DEF Data
  <2> QED BY <2>1, <2>2 DEF RunningOK
<1>12. LogsOK'
  <2> SUFFICES ASSUME pc' = "logs" PROVE LogsOK'
    BY DEF LogsOK
  <2>1. IsCurrent(Full(files))' /\ (Full(files).next < vs.next)'
    BY <1>0, <1>3, <1>4 DEF IsCurrent
  <2>10. vs'.descriptor = ReuseLogs' /\ (~job'.save => job'.edit.added = {} /\ ReuseLogs')
    BY <1>0, <1>3 DEF ReuseLogs
  <2>2. /\ pending' \subseteq LogSet(files') /\ \A n \in pending' : n >= vs'.log
        /\ \A n \in LogSet(files') : n < vs'.next \/ n \in pending'
        /\ \A n \in LogSet(files') : n < vs'.log \/ n \in pending'
    BY <1>0, <1>3, <1>4 DEF SoundView, LogSet
  <2>3. \A n \in Nat : Descriptor(n) \in DOMAIN files' => n < vs'.next \/ \E l \in pending' : n < l
    <3> SUFFICES ASSUME NEW n \in Nat, Descriptor(n) \in DOMAIN files, ~(n < m.next + 1)
                 PROVE  \E l \in pending' : n < l
      BY <1>0, <1>3
    <3>1. PICK l \in LogSet(files) : n < l
      BY <1>4 DEF SoundView
    <3>2. l >= m.log
      BY <1>4, <3>1 DEF SoundView, LogSet
    <3> QED BY <1>3, <3>1, <3>2
  <2>4. vs'.version \cup job'.edit.added = vs'.version
    BY <1>3
  <2>5. /\ LevelsAscend(files', vs'.version)
        /\ \A n \in LogSet(files') : n \in pending' => \A a \in Entries(files', vs'.version), b \in LogEntries(files', n) : a < b
    BY <1>0, <1>3, <1>4 DEF Sound
  <2>6. Entries(files', job'.edit.added) = {}
    BY <1>3 DEF Entries
  <2>7. \A n \in LogSet(files') : n \in pending' \/ \A a \in LogEntries(files', n) : a <= vs'.last
    BY <1>0, <1>3, <1>4 DEF Sound, LogSet
  <2>8. IF ReuseLogs' THEN vs'.manifest = Number(files')
        ELSE vs'.manifest = Full(files').next /\ Number(files') < vs'.manifest
    BY <1>0, <1>3, <1>4 DEF SoundView, ReuseLogs
  <2>9. ~has_mem_'
    BY <1>2
  <2> QED BY <1>3, <2>1, <2>2, <2>3, <2>4, <2>5, <2>6, <2>7, <2>8, <2>9, <2>10 DEF LogsOK, Exists
<1>13. ReadyOK' /\ ApplyingOK'
  BY <1>0 DEF ReadyOK, ApplyingOK, Ready, Applying
<1>14. PhaseOK'
  BY <1>0, <1>3 DEF IInv, PhaseOK, Ready, Applying, Fresh
<1>15. Keeps
  BY <1>0 DEF Keeps
<1> QED BY <1>5, <1>6, <1>7, <1>8, <1>9, <1>10, <1>11, <1>12, <1>13, <1>14, <1>15 DEF IInv
-----------------------------------------------------------------------------
(* The steps that apply an edit *)

LEMMA InstallStep == IInv /\ Install /\ options_' = options_ => IInv' /\ Keeps
<1> SUFFICES ASSUME IInv, Install, options_' = options_ PROVE IInv' /\ Keeps
  OBVIOUS
<1>0. /\ pc = "install" /\ pc' = "gc"
      /\ vs' = [vs EXCEPT !.version = NextVersion, !.log = job.edit.log]
      /\ IF ~job.opening /\ job.edit.log # vs.log THEN imm_' = {} /\ has_imm_' = FALSE
         ELSE imm_' = imm_ /\ has_imm_' = has_imm_
      /\ UNCHANGED <<options_, files, job, pending, mem_, has_mem_, logfile_number_, bg_error_, w, pinned,
                     crashes, faults, created>>
  BY DEF Install, NextVersion
<1>1. TypeOK /\ FilesOK(files) /\ NextVersion \in SUBSET TableSet /\ job.edit.log \in Nat
      /\ job.edit.next \in Nat /\ job.edit.last \in Nat /\ vs \in VersionsSet
  BY NextVersionType DEF IInv, TypeOK, JobSet, EditSet
<1>2. /\ vs' \in VersionsSet /\ vs'.version = NextVersion /\ vs'.log = job.edit.log /\ vs'.next = vs.next
      /\ vs'.last = vs.last /\ vs'.manifest = vs.manifest /\ vs'.descriptor = vs.descriptor
  BY <1>0, <1>1 DEF VersionsSet
<1>3. Applying /\ Ready /\ Running /\ Exists(CURRENT)
  BY <1>0 DEF IInv, OpenedOK, Applying, Ready, Running
<1>4. /\ Sound(files, NextVersion, job.edit.log, job.edit.next, job.edit.last)
      /\ job.edit.next <= vs.next /\ job.edit.last <= vs.last /\ job.edit.log < job.edit.next
      /\ job.edit.log <= logfile_number_
      /\ job.edit.log # vs.log => job.edit.log = logfile_number_
      /\ job.opening => job.edit.log = logfile_number_
  BY <1>0, <1>3 DEF IInv, ApplyingOK, NextNext, NextLast
<1>5. IsNext(Full(files))
  BY <1>0 DEF IInv, PhaseOK
<1>6. Opened' <=> Opened
  BY <1>0 DEF Opened
<1>7. TypeOK'
  BY <1>0, <1>1, <1>2 DEF TypeOK, PCs
<1>8. CreatingOK' /\ ManifestOK' /\ LogsAscend(files)'
  BY <1>0, <1>3 DEF IInv, CreatingOK, Creating, Exists, ManifestOK, ReuseLogs
<1>9. MemoryOK'
  BY <1>0, <1>6 DEF IInv, MemoryOK, Creating, Opened
<1>10. OpenedOK'
  BY <1>0, <1>2, <1>3, <1>6 DEF IInv, OpenedOK, Exists, Missing
<1>11. RunningOK'
  <2>1. Sound(files, NextVersion, job.edit.log, vs.next, vs.last)
    BY <1>1, <1>4, SoundWeaker DEF VersionsSet
  <2>2. job.edit.log < vs.next
    BY <1>1, <1>4 DEF VersionsSet
  <2>3. Full(files).has /\ Full(files).next <= vs.next /\ Full(files).last <= vs.last
        /\ Full(files).added = NextVersion
    BY <1>4, <1>5 DEF IsNext
  <2> QED BY <1>0, <1>2, <2>1, <2>2, <2>3 DEF RunningOK, Data
<1>12. LogsOK' /\ ApplyingOK'
  BY <1>0 DEF LogsOK, ApplyingOK, Applying
<1>13. ReadyOK'
  <2>1. imm_' = UNION {LogEntries(files, n) : n \in {n \in LogSet(files) : job.edit.log <= n /\ n < logfile_number_}}
    <3>1. CASE job.edit.log = logfile_number_
      <4>1. imm_' = {}
        <5>1. job.opening => imm_ = {}
          BY <1>0 DEF IInv, MemoryOK, Opened
        <5>2. job.edit.log = vs.log /\ ~job.opening => imm_ = {}
          <6> SUFFICES ASSUME job.edit.log = vs.log, ~job.opening PROVE imm_ = {}
            OBVIOUS
          <6>1. ~has_imm_
            BY <1>1, <1>3, <3>1 DEF IInv, ReadyOK, TypeOK
          <6> QED BY <6>1 DEF IInv, OpenedOK
        <5> QED BY <1>0, <5>1, <5>2
      <4>2. {n \in LogSet(files) : job.edit.log <= n /\ n < logfile_number_} = {}
        BY <1>1, <3>1 DEF LogSet
      <4> QED BY <4>1, <4>2
    <3>2. CASE job.edit.log # logfile_number_
      <4>1. ~job.opening /\ job.edit.log = vs.log
        BY <1>4, <3>2
      <4> QED BY <1>0, <1>3, <4>1 DEF IInv, ReadyOK
    <3> QED BY <3>1, <3>2
  <2>2. has_imm_' => job.edit.log < logfile_number_
    <3>1. job.opening => ~has_imm_
      BY <1>0 DEF IInv, MemoryOK, Opened
    <3> QED BY <1>0, <1>3, <3>1 DEF IInv, ReadyOK
  <2> QED BY <1>0, <1>2, <1>3, <1>4, <2>1, <2>2 DEF IInv, ReadyOK, Exists
<1>14. PhaseOK'
  <2>1. IsCurrent(Full(files))'
    BY <1>0, <1>2, <1>5 DEF IsCurrent, IsNext
  <2>2. vs.descriptor /\ (job.fresh => job.opening) /\ ~Fresh /\ Number(files) = vs.manifest
        /\ (~ReuseLogs => Len(Current(files).recs) = Current(files).synced)
    BY <1>0, <1>3 DEF IInv, PhaseOK, Fresh
  <2>3. ReuseLogs' = ReuseLogs
    BY <1>0 DEF ReuseLogs
  <2> QED BY <1>0, <1>2, <2>1, <2>2, <2>3 DEF PhaseOK, Fresh
<1>15. Keeps
  BY <1>0 DEF Keeps
<1> QED BY <1>7, <1>8, <1>9, <1>10, <1>11, <1>12, <1>13, <1>14, <1>15 DEF IInv
-----------------------------------------------------------------------------
(* Iterators and memtables *)

LEMMA OpenedReady ==
  ASSUME IInv, Opened
  PROVE  Ready /\ Running /\ Exists(CURRENT) /\ pc \notin {"tmp", "rename"} /\ ~Creating /\ ~Fresh
         /\ Full(files).has /\ created
<1>1. pc \in PCs /\ (pc \in {"tmp", "rename"} => job.opening)
  BY DEF IInv, TypeOK, PhaseOK
<1>2. Ready /\ pc \notin {"tmp", "rename"} /\ ~Creating
  BY <1>1 DEF PCs, Opened, Ready, Applying, Creating
<1>3. Running
  BY <1>2 DEF Running
<1>4. Exists(CURRENT) /\ Full(files).has /\ created
  BY <1>3 DEF IInv, OpenedOK, RunningOK
<1>5. ~Fresh
  BY DEF Opened, Fresh, IInv, PhaseOK
<1> QED BY <1>2, <1>3, <1>4, <1>5

LEMMA InsertIntoStep == IInv /\ InsertInto /\ options_' = options_ => IInv' /\ Keeps
<1> SUFFICES ASSUME IInv, InsertInto, options_' = options_ PROVE IInv' /\ Keeps
  OBVIOUS
<1>0. /\ w.at = "insert" /\ w' = NoWrite /\ mem_' = mem_ \cup {vs.last + 1}
      /\ vs' = [vs EXCEPT !.last = @ + 1]
      /\ UNCHANGED <<options_, files, pc, job, pending, imm_, has_mem_, has_imm_, logfile_number_, bg_error_,
                     pinned, crashes, faults, created>>
  BY DEF InsertInto
<1>1. TypeOK /\ FilesOK(files) /\ NextVersion \in SUBSET TableSet /\ job \in JobSet /\ vs \in VersionsSet
  BY NextVersionType DEF IInv, TypeOK
<1>2. /\ vs' \in VersionsSet /\ vs'.version = vs.version /\ vs'.log = vs.log /\ vs'.next = vs.next
      /\ vs'.last = vs.last + 1 /\ vs'.manifest = vs.manifest /\ vs'.descriptor = vs.descriptor
      /\ vs.last \in Nat /\ vs.next \in Nat /\ vs.log \in Nat /\ vs.version \in SUBSET TableSet
  BY <1>0, <1>1 DEF VersionsSet
<1>3. Opened
  BY <1>0 DEF IInv, MemoryOK
<1>4. Ready /\ Running /\ Exists(CURRENT) /\ pc \notin {"tmp", "rename"} /\ ~Creating /\ ~Fresh
  BY <1>3, OpenedReady
<1>5. Opened' /\ Ready' /\ Running' /\ ~Fresh' /\ (Applying' <=> Applying)
  BY <1>0, <1>3, <1>4 DEF Opened, Ready, Running, Fresh, Applying
<1>6. w'.at = "idle" /\ w' \in [at : {"idle", "sync", "insert"}, sync : BOOLEAN]
  BY <1>0 DEF NoWrite
<1>7. Full(files).has /\ Full(files).next \in Nat /\ Full(files).last \in Nat
  BY <1>3, <1>4, OpenedReady DEF IInv, ManifestOK, ManifestFine, EditSet
<1>8. TypeOK'
  BY <1>0, <1>1, <1>2, <1>6 DEF TypeOK
<1>9. CreatingOK' /\ ManifestOK' /\ LogsAscend(files)'
  BY <1>0, <1>4 DEF IInv, CreatingOK, Creating, Exists, ManifestOK, ReuseLogs
<1>10. MemoryOK'
  BY <1>0, <1>3, <1>4, <1>5 DEF MemoryOK, Opened, Creating
<1>11. OpenedOK'
  BY <1>0, <1>2, <1>3, <1>4, <1>6 DEF IInv, OpenedOK, Exists, Missing
<1>12. RunningOK'
  <2>1. Sound(files, vs.version, vs.log, vs.next, vs.last + 1)
    BY <1>1, <1>2, <1>4, SoundWeaker DEF IInv, RunningOK
  <2>2. Full(files).last <= vs.last + 1
    BY <1>2, <1>4, <1>7 DEF IInv, RunningOK
  <2> QED BY <1>0, <1>2, <1>4, <2>1, <2>2 DEF IInv, RunningOK
<1>13. LogsOK'
  BY <1>0, <1>3 DEF LogsOK, Opened
<1>14. ReadyOK'
  <2>1. LogEntries(files, logfile_number_) = mem_'
    BY <1>0, <1>4 DEF IInv, ReadyOK
  <2>2. \A e \in mem_' : e <= vs.last + 1
    BY <1>0, <1>1, <1>2, <1>4 DEF IInv, ReadyOK, TypeOK
  <2>3. \A n \in LogSet(files) : n # logfile_number_ => \A e \in LogEntries(files, n) : e <= vs.last + 1
    <3> SUFFICES ASSUME NEW n \in LogSet(files), n # logfile_number_, NEW e \in LogEntries(files, n)
                 PROVE  e <= vs.last + 1
      OBVIOUS
    <3>1. e <= vs.last
      BY <1>4 DEF IInv, ReadyOK
    <3>2. e \in Nat
      BY <1>1, LogTypes
    <3> QED BY <1>2, <3>1, <3>2
  <2> QED BY <1>0, <1>2, <1>4, <1>6, <2>1, <2>2, <2>3 DEF IInv, ReadyOK, Exists
<1>15. ApplyingOK'
  <2> SUFFICES ASSUME Applying PROVE ApplyingOK'
    BY <1>5 DEF ApplyingOK
  <2>1. NextVersion' = NextVersion /\ NextNext' = NextNext /\ job.edit.last \in Nat /\ job.edit.log \in Nat
        /\ job.edit.next \in Nat
    BY <1>0, <1>1, <1>2 DEF NextVersion, NextNext, JobSet, EditSet
  <2>2. /\ NextNext \in Nat /\ NextLast \in Nat /\ NextLast' \in Nat
        /\ NextLast <= NextLast' /\ NextLast' <= vs'.last
    BY <1>0, <1>1, <1>2, <2>1 DEF NextLast, IInv, ApplyingOK, NextNext
  <2>3. Sound(files, NextVersion, job.edit.log, NextNext, NextLast')
    BY <1>1, <2>1, <2>2, SoundWeaker DEF IInv, ApplyingOK
  <2>4. Full(files).last <= NextLast'
    BY <1>7, <2>2 DEF IInv, ApplyingOK
  <2> QED BY <1>0, <1>2, <2>1, <2>2, <2>3, <2>4 DEF IInv, ApplyingOK, Exists
<1>16. PhaseOK'
  <2>1. /\ IsCurrent(Full(files))' <=> IsCurrent(Full(files))
        /\ IsCurrent(Durable(files))' <=> IsCurrent(Durable(files))
        /\ IsNext(Full(files))' <=> IsNext(Full(files))
        /\ ReuseLogs' = ReuseLogs /\ Current(files)' = Current(files)
    BY <1>0, <1>2 DEF IsCurrent, IsNext, NextVersion, ReuseLogs
  <2> QED BY <1>0, <1>2, <1>4, <1>5, <2>1 DEF IInv, PhaseOK
<1>17. Keeps
  BY <1>0 DEF Keeps
<1> QED BY <1>8, <1>9, <1>10, <1>11, <1>12, <1>13, <1>14, <1>15, <1>16, <1>17 DEF IInv

LEMMA IteratorStep ==
  ASSUME IInv, NewIterator \/ CleanupIteratorState, options_' = options_
  PROVE  IInv' /\ Keeps
<1>0. UNCHANGED <<options_, files, pc, vs, job, pending, memory, bg_error_, w, crashes, faults, created>>
  BY DEF NewIterator, CleanupIteratorState
<1>1. TypeOK /\ pinned \in Seq(SUBSET TableSet) /\ vs.version \in SUBSET TableSet
  BY DEF IInv, TypeOK, VersionsSet
<1>2. /\ pinned' \in Seq(SUBSET TableSet)
      /\ \A i \in DOMAIN pinned' : Missing(pinned'[i]) = {}
      /\ pinned' = << >> \/ Opened
  <2>1. CASE NewIterator
    <3>1. Opened /\ pinned' = Append(pinned, vs.version)
      BY <2>1 DEF NewIterator
    <3>2. Missing(vs.version) = {}
      <4>1. Running
        BY <3>1, OpenedReady
      <4> QED BY <4>1 DEF IInv, RunningOK, Sound, Missing, Exists
    <3>3. \A i \in DOMAIN pinned' : pinned'[i] = vs.version \/ (i \in DOMAIN pinned /\ pinned'[i] = pinned[i])
      BY <1>1, <3>1
    <3>4. \A i \in DOMAIN pinned : Missing(pinned[i]) = {}
      BY DEF IInv, OpenedOK
    <3>5. pinned' \in Seq(SUBSET TableSet)
      BY <1>1, <3>1
    <3> QED BY <3>1, <3>2, <3>3, <3>4, <3>5
  <2>2. CASE CleanupIteratorState
    <3>1. PICK i \in DOMAIN pinned : pinned' = RemoveAt(pinned, i)
      BY <2>2 DEF CleanupIteratorState
    <3>2. /\ pinned' \in Seq(SUBSET TableSet)
          /\ \A k \in DOMAIN pinned' : \E j \in DOMAIN pinned : pinned'[k] = pinned[j]
      <4>1. pinned' = SubSeq(pinned, 1, i - 1) \o SubSeq(pinned, i + 1, Len(pinned))
        BY <3>1 DEF RemoveAt
      <4>2. i \in 1 .. Len(pinned) /\ Len(pinned) \in Nat
        BY <1>1, <3>1
      <4> DEFINE s == SubSeq(pinned, 1, i - 1)
                 t == SubSeq(pinned, i + 1, Len(pinned))
      <4>3. /\ s \in Seq(SUBSET TableSet) /\ Len(s) = i - 1
            /\ \A k \in 1 .. i - 1 : s[k] = pinned[k]
        BY <1>1, <4>2
      <4>4. /\ t \in Seq(SUBSET TableSet) /\ Len(t) = Len(pinned) - i
            /\ \A k \in 1 .. Len(pinned) - i : t[k] = pinned[k + i]
        BY <1>1, <4>2
      <4> HIDE DEF s, t
      <4>5. /\ pinned' \in Seq(SUBSET TableSet) /\ DOMAIN pinned' = 1 .. Len(pinned) - 1
            /\ \A k \in 1 .. Len(pinned) - 1 : pinned'[k] = IF k <= i - 1 THEN s[k] ELSE t[k - (i - 1)]
        <5>1. pinned' = s \o t
          BY <4>1 DEF s, t
        <5>2. pinned' \in Seq(SUBSET TableSet) /\ DOMAIN pinned' = 1 .. Len(pinned) - 1
          BY ONLY <5>1, <4>2, <4>3, <4>4
        <5>3. \A k \in 1 .. Len(pinned) - 1 : pinned'[k] = IF k <= i - 1 THEN s[k] ELSE t[k - (i - 1)]
          <6>1. \A k \in 1 .. Len(s) + Len(t) : (s \o t)[k] = IF k <= Len(s) THEN s[k] ELSE t[k - Len(s)]
            BY <4>3, <4>4, ConcatProperties
          <6>2. Len(s) + Len(t) = Len(pinned) - 1
            BY <4>2, <4>3, <4>4
          <6> QED BY ONLY <6>1, <6>2, <5>1, <4>3
        <5> QED BY <5>2, <5>3
      <4>6. \A k \in 1 .. Len(pinned) - 1 : pinned'[k] = IF k <= i - 1 THEN pinned[k] ELSE pinned[k + 1]
        <5> SUFFICES ASSUME NEW k \in 1 .. Len(pinned) - 1
                     PROVE  pinned'[k] = IF k <= i - 1 THEN pinned[k] ELSE pinned[k + 1]
          OBVIOUS
        <5>1. k > i - 1 => k - (i - 1) \in 1 .. Len(pinned) - i /\ (k - (i - 1)) + i = k + 1
          BY <4>2
        <5> QED BY <4>2, <4>3, <4>4, <4>5, <5>1
      <4>7. DOMAIN pinned = 1 .. Len(pinned)
        BY <1>1
      <4> QED BY <4>2, <4>5, <4>6, <4>7
    <3>3. \A j \in DOMAIN pinned : Missing(pinned[j]) = {}
      BY DEF IInv, OpenedOK
    <3>4. pinned # << >>
      BY <1>1, <3>1
    <3>5. Opened
      BY <3>4 DEF IInv, MemoryOK
    <3> QED BY <3>2, <3>3, <3>5
  <2> QED BY <2>1, <2>2
<1>3. Missing(pinned[1])' = Missing(pinned'[1]) /\ (Opened' <=> Opened)
  BY <1>0 DEF Missing, Exists, Opened
<1>4. TypeOK' /\ CreatingOK' /\ ManifestOK' /\ LogsAscend(files)'
  BY <1>0, <1>1, <1>2 DEF IInv, TypeOK, CreatingOK, Creating, Exists, ManifestOK, ReuseLogs, memory
<1>5. MemoryOK'
  BY <1>0, <1>2, <1>3 DEF IInv, MemoryOK, Creating, memory
<1>6. OpenedOK'
  BY <1>0, <1>2, <1>3 DEF IInv, OpenedOK, Exists, Missing, Running, Ready, Applying, memory
<1>7. RunningOK' /\ LogsOK' /\ ReadyOK'
  <2>1. (Running' <=> Running) /\ (Ready' <=> Ready)
    BY <1>0 DEF Running, Ready, Applying
  <2>2. RunningOK'
    BY <1>0, <2>1 DEF IInv, RunningOK
  <2>3. LogsOK'
    BY <1>0, <2>1 DEF IInv, LogsOK, IsCurrent, Exists, ReuseLogs, memory
  <2>4. ReadyOK'
    BY <1>0, <2>1 DEF IInv, ReadyOK, Exists, memory
  <2> QED BY <2>2, <2>3, <2>4
<1>8. ApplyingOK'
  BY <1>0 DEF IInv, ApplyingOK, Applying, NextVersion, NextNext, NextLast, Exists, memory
<1>9. PhaseOK'
  <2>1. (Ready' <=> Ready) /\ (Fresh' <=> Fresh) /\ Snapshot' = Snapshot
    BY <1>0 DEF Ready, Applying, Fresh, Snapshot
  <2>2. /\ IsCurrent(Full(files))' <=> IsCurrent(Full(files))
        /\ IsCurrent(Durable(files))' <=> IsCurrent(Durable(files))
        /\ IsNext(Full(files))' <=> IsNext(Full(files))
    BY <1>0 DEF IsCurrent, IsNext, NextVersion
  <2> QED BY <1>0, <2>1, <2>2 DEF IInv, PhaseOK, Exists, ReuseLogs, memory
<1>10. Keeps
  BY <1>0 DEF Keeps
<1> QED BY <1>4, <1>5, <1>6, <1>7, <1>8, <1>9, <1>10 DEF IInv
-----------------------------------------------------------------------------
(* Crashes *)

LEMMA LoseStep ==
  ASSUME IInv, NEW fs, Lose(fs), options_' = options_,
         FilesOK(fs), LogsAscend(fs), DOMAIN fs = DOMAIN files,
         CURRENT \in DOMAIN fs => ManifestFine(fs, created, ReuseLogs)
  PROVE  IInv'
<1>1. /\ pc' = "closed" /\ vs' = NoVersions /\ job' = NoJob /\ pending' = {} /\ w' = NoWrite
      /\ mem_' = {} /\ imm_' = {} /\ has_mem_' = FALSE /\ has_imm_' = FALSE /\ logfile_number_' = 0
      /\ bg_error_' = FALSE /\ pinned' = << >> /\ files' = fs /\ created' = created
  BY DEF Lose
<1>2. w'.at = "idle" /\ w' \in [at : {"idle", "sync", "insert"}, sync : BOOLEAN]
  BY <1>1 DEF NoWrite
<1>3. pinned' \in Seq(SUBSET TableSet) /\ DOMAIN pinned' = {}
  BY <1>1
<1>4. TypeOK'
  BY <1>1, <1>2, <1>3, Constants DEF IInv, TypeOK, PCs
<1>5. CreatingOK'
  BY <1>1 DEF IInv, CreatingOK, Creating, Exists
<1>6. ManifestOK' /\ LogsAscend(files)'
  BY <1>1 DEF ManifestOK, Exists, ReuseLogs
<1>7. MemoryOK'
  BY <1>1, <1>2 DEF MemoryOK
<1>8. OpenedOK'
  BY <1>1, <1>2, <1>3, Constants DEF OpenedOK, Opened, Running, Ready, Applying
<1>9. RunningOK' /\ LogsOK' /\ ReadyOK' /\ ApplyingOK'
  BY <1>1 DEF RunningOK, LogsOK, ReadyOK, ApplyingOK, Running, Ready, Applying
<1>10. PhaseOK'
  BY <1>1, Constants DEF PhaseOK, Ready, Applying, Fresh
<1> QED BY <1>4, <1>5, <1>6, <1>7, <1>8, <1>9, <1>10 DEF IInv

LEMMA LoseMemoryStep ==
  ASSUME IInv, Lose(files), options_' = options_
  PROVE  IInv' /\ Keeps
<1>1. IInv'
  BY LoseStep DEF IInv, TypeOK, ManifestOK, Exists
<1>2. Keeps
  BY DEF Lose, Keeps
<1> QED BY <1>1, <1>2

\* What reading nothing numbered says.
LEMMA ReadNothing ==
  ASSUME NEW recs, ~ReadManifest(recs).has
  PROVE  ReadManifest(recs).added = {}
<1> DEFINE numbered == {n \in DOMAIN recs : recs[n].has}
           latest == recs[Max(numbered)]
<1>1. CASE numbered = {}
  <2>1. ReadManifest(recs) = NoEdit
    BY <1>1 DEF ReadManifest
  <2> QED BY <2>1, Constants
<1>2. CASE numbered # {}
  <2>1. ReadManifest(recs) = [NoEdit EXCEPT !.has = TRUE, !.log = latest.log, !.next = latest.next,
                                            !.last = latest.last, !.added = Kept(recs)]
    BY <1>2 DEF ReadManifest, Kept
  <2> HIDE DEF latest
  <2>2. ASSUME NEW a, NEW b, NEW c, NEW d
        PROVE  [NoEdit EXCEPT !.has = TRUE, !.log = a, !.next = b, !.last = c, !.added = d].has
    BY DEF NoEdit
  <2> QED BY <2>1, <2>2
<1> QED BY <1>1, <1>2

\* A crash of the machine leaves of every file a prefix that holds what was synced.
Cut(fs, fs2) ==
  /\ DOMAIN fs2 = DOMAIN fs
  /\ \A f \in DOMAIN fs : \E k \in fs[f].synced .. Len(fs[f].recs) :
       fs2[f] = [recs |-> SubSeq(fs[f].recs, 1, k), synced |-> k]
\* The manifest that is left, where at most one record was not synced.
LEMMA CutManifest ==
  ASSUME NEW fs, NEW fs2, FilesOK(fs), Cut(fs, fs2), CURRENT \in DOMAIN fs,
         Descriptor(Number(fs)) \in DOMAIN fs, Len(Current(fs).recs) <= Current(fs).synced + 1
  PROVE  /\ Number(fs2) = Number(fs) /\ fs2[CURRENT] = fs[CURRENT]
         /\ Len(Current(fs2).recs) = Current(fs2).synced
         /\ Full(fs2) = Durable(fs2) /\ Full(fs2) \in {Full(fs), Durable(fs)}
<1>1. PICK n \in Nat : fs[CURRENT] = [recs |-> <<n>>, synced |-> 1]
  BY FileTypes
<1>2. fs2[CURRENT] = fs[CURRENT]
  <2>1. PICK k \in fs[CURRENT].synced .. Len(fs[CURRENT].recs) :
          fs2[CURRENT] = [recs |-> SubSeq(fs[CURRENT].recs, 1, k), synced |-> k]
    BY DEF Cut
  <2>2. fs[CURRENT].recs = <<n>> /\ fs[CURRENT].synced = 1 /\ Len(<<n>>) = 1
    BY <1>1
  <2>3. k = 1
    BY <2>2
  <2>4. <<n>> \in Seq(Nat)
    OBVIOUS
  <2>5. SubSeq(<<n>>, 1, 1) = <<n>>
    BY <2>2, <2>4, SubSeqFull
  <2> QED BY <1>1, <2>1, <2>2, <2>3, <2>5
<1>3. Number(fs2) = Number(fs) /\ Number(fs) \in Nat
  BY <1>1, <1>2 DEF Number
<1> DEFINE file == Current(fs)
<1>4. file \in [recs : Seq(EditSet), synced : Nat] /\ file.synced <= Len(file.recs)
  BY <1>3, FileTypes DEF Current
<1>5. PICK k \in file.synced .. Len(file.recs) :
        Current(fs2) = [recs |-> SubSeq(file.recs, 1, k), synced |-> k]
  BY <1>3 DEF Cut, Current
<1> HIDE DEF file
<1> DEFINE recs == file.recs
<1>6. recs \in Seq(EditSet) /\ file.synced \in Nat /\ Len(recs) <= file.synced + 1 /\ k \in Nat /\ k <= Len(recs)
      /\ (k = file.synced \/ k = Len(recs))
  BY <1>4, <1>5 DEF file
<1> HIDE DEF recs
<1> DEFINE s == SubSeq(recs, 1, k)
<1>7. /\ Len(s) = k /\ SubSeq(s, 1, k) = s /\ (k = Len(recs) => s = recs)
  BY ONLY <1>6
<1>8. Full(fs2) = ReadManifest(s) /\ Durable(fs2) = ReadManifest(SubSeq(s, 1, k))
      /\ Current(fs2).recs = s /\ Current(fs2).synced = k
  BY <1>5 DEF Full, Durable, recs
<1>9. Full(fs) = ReadManifest(recs) /\ Durable(fs) = ReadManifest(SubSeq(recs, 1, file.synced))
  BY DEF Full, Durable, file, recs
<1> QED BY <1>2, <1>3, <1>6, <1>7, <1>8, <1>9
LEMMA AnyFile ==
  ASSUME NEW fs, FilesOK(fs), NEW f \in DOMAIN fs
  PROVE  \E S : fs[f].recs \in Seq(S) /\ fs[f].synced \in Nat /\ fs[f].synced <= Len(fs[f].recs)
                /\ fs[f] = [recs |-> fs[f].recs, synced |-> fs[f].synced]
<1>1. CASE f = CURRENT
  <2>1. PICK n \in Nat : fs[f] = [recs |-> <<n>>, synced |-> 1]
    BY <1>1, FileTypes
  <2>2. <<n>> \in Seq(Nat) /\ Len(<<n>>) = 1
    OBVIOUS
  <2>3. fs[f].recs = <<n>> /\ fs[f].synced = 1
    BY ONLY <2>1
  <2>4. fs[f].recs \in Seq(Nat) /\ fs[f].synced \in Nat /\ fs[f].synced <= Len(fs[f].recs)
    BY ONLY <2>2, <2>3
  <2>5. fs[f] = [recs |-> fs[f].recs, synced |-> fs[f].synced]
    BY ONLY <2>1, <2>3
  <2> QED BY ONLY <2>4, <2>5
<1>2. ASSUME NEW n \in Nat, f = LogFile(n) \/ f = Descriptor(n)
      PROVE  \E S : fs[f].recs \in Seq(S) /\ fs[f].synced \in Nat /\ fs[f].synced <= Len(fs[f].recs)
                    /\ fs[f] = [recs |-> fs[f].recs, synced |-> fs[f].synced]
  <2>1. CASE f = LogFile(n)
    <3>1. fs[f] \in [recs : Seq(Nat), synced : Nat] /\ fs[f].synced <= Len(fs[f].recs)
      BY <2>1, FileTypes
    <3> QED BY <3>1
  <2>2. CASE f = Descriptor(n)
    <3>1. fs[f] \in [recs : Seq(EditSet), synced : Nat] /\ fs[f].synced <= Len(fs[f].recs)
      BY <2>2, FileTypes
    <3> QED BY <3>1
  <2> QED BY <1>2, <2>1, <2>2
<1>3. ASSUME NEW n \in Nat, f = TableFile(n)
      PROVE  \E S : fs[f].recs \in Seq(S) /\ fs[f].synced \in Nat /\ fs[f].synced <= Len(fs[f].recs)
                    /\ fs[f] = [recs |-> fs[f].recs, synced |-> fs[f].synced]
  <2>1. PICK S \in SUBSET Nat : fs[f] = [recs |-> <<S>>, synced |-> 1]
    BY <1>3, FileTypes
  <2>2. <<S>> \in Seq(SUBSET Nat) /\ Len(<<S>>) = 1
    OBVIOUS
  <2>3. fs[f].recs = <<S>> /\ fs[f].synced = 1
    BY <2>1
  <2>4. fs[f].recs \in Seq(SUBSET Nat) /\ fs[f].synced \in Nat /\ fs[f].synced <= Len(fs[f].recs)
        /\ fs[f] = [recs |-> fs[f].recs, synced |-> fs[f].synced]
    BY <2>1, <2>2, <2>3
  <2> QED BY <2>4, Zenon
<1>4. ASSUME NEW n \in Nat, f = TempFile(n)
      PROVE  \E S : fs[f].recs \in Seq(S) /\ fs[f].synced \in Nat /\ fs[f].synced <= Len(fs[f].recs)
                    /\ fs[f] = [recs |-> fs[f].recs, synced |-> fs[f].synced]
  <2>1. fs[f] = [recs |-> <<n>>, synced |-> 1]
    BY <1>4, FileTypes
  <2>2. <<n>> \in Seq(Nat) /\ Len(<<n>>) = 1
    OBVIOUS
  <2>3. fs[f].recs = <<n>> /\ fs[f].synced = 1
    BY <2>1
  <2>4. fs[f].recs \in Seq(Nat) /\ fs[f].synced \in Nat /\ fs[f].synced <= Len(fs[f].recs)
        /\ fs[f] = [recs |-> fs[f].recs, synced |-> fs[f].synced]
    BY <2>1, <2>2, <2>3
  <2> QED BY <2>4, Zenon
<1> QED BY <1>1, <1>2, <1>3, <1>4, Kinds

\* Files that hold one record, synced, stay whole.
LEMMA CutWhole ==
  ASSUME NEW fs, NEW fs2, Cut(fs, fs2), NEW f \in DOMAIN fs, NEW S, NEW x \in S, fs[f] = [recs |-> <<x>>, synced |-> 1]
  PROVE  fs2[f] = fs[f]
<1>1. PICK k \in fs[f].synced .. Len(fs[f].recs) : fs2[f] = [recs |-> SubSeq(fs[f].recs, 1, k), synced |-> k]
  BY DEF Cut
<1>2. fs[f].recs = <<x>> /\ fs[f].synced = 1 /\ Len(<<x>>) = 1 /\ <<x>> \in Seq(S)
  OBVIOUS
<1>3. k = 1
  BY <1>1, <1>2
<1>4. SubSeq(<<x>>, 1, 1) = <<x>>
  BY <1>2, SubSeqFull
<1> QED BY <1>1, <1>2, <1>3, <1>4

LEMMA CutLog ==
  ASSUME NEW fs, NEW fs2, FilesOK(fs), Cut(fs, fs2), NEW n \in LogSet(fs)
  PROVE  /\ fs2[LogFile(n)] \in [recs : Seq(Nat), synced : Nat]
         /\ fs2[LogFile(n)].synced = Len(fs2[LogFile(n)].recs)
         /\ DOMAIN fs2[LogFile(n)].recs \subseteq DOMAIN fs[LogFile(n)].recs
         /\ \A i \in DOMAIN fs2[LogFile(n)].recs : fs2[LogFile(n)].recs[i] = fs[LogFile(n)].recs[i]
         /\ LogEntries(fs2, n) \subseteq LogEntries(fs, n)
         /\ SyncedEntries(fs, n) \subseteq LogEntries(fs2, n)
         /\ SyncedEntries(fs2, n) = LogEntries(fs2, n)
<1> DEFINE file == fs[LogFile(n)]
           recs == file.recs
<1>1. LogFile(n) \in DOMAIN fs /\ file \in [recs : Seq(Nat), synced : Nat] /\ file.synced <= Len(recs)
  BY FileTypes DEF LogSet
<1>2. PICK k \in file.synced .. Len(recs) : fs2[LogFile(n)] = [recs |-> SubSeq(recs, 1, k), synced |-> k]
  BY <1>1 DEF Cut
<1>3. recs \in Seq(Nat) /\ k \in 0 .. Len(recs) /\ file.synced \in 0 .. k
  BY <1>1, <1>2
<1> HIDE DEF file
<1>4. /\ SubSeq(recs, 1, k) \in Seq(Nat) /\ Len(SubSeq(recs, 1, k)) = k
      /\ DOMAIN SubSeq(recs, 1, k) = 1 .. k /\ DOMAIN recs = 1 .. Len(recs)
      /\ \A i \in 1 .. k : SubSeq(recs, 1, k)[i] = recs[i]
  BY <1>3
<1>5. /\ Len(SubSeq(recs, 1, file.synced)) = file.synced
      /\ DOMAIN SubSeq(recs, 1, file.synced) = 1 .. file.synced
      /\ \A i \in 1 .. file.synced : SubSeq(recs, 1, file.synced)[i] = recs[i]
  BY <1>3, SMTT(40)
<1>6. SubSeq(SubSeq(recs, 1, k), 1, k) = SubSeq(recs, 1, k)
  BY <1>4, SubSeqFull
<1>7. fs2[LogFile(n)].recs = SubSeq(recs, 1, k) /\ fs2[LogFile(n)].synced = k
  BY <1>2
<1>8. fs2[LogFile(n)] \in [recs : Seq(Nat), synced : Nat]
  BY <1>2, <1>3, <1>4
<1>9. /\ LogEntries(fs2, n) = {recs[i] : i \in 1 .. k}
      /\ SyncedEntries(fs2, n) = {recs[i] : i \in 1 .. k}
  <2>1. ToSet(SubSeq(recs, 1, k)) = {recs[i] : i \in 1 .. k}
    BY ONLY <1>4 DEF ToSet
  <2>2. /\ LogEntries(fs2, n) = ToSet(SubSeq(recs, 1, k))
        /\ SyncedEntries(fs2, n) = ToSet(SubSeq(SubSeq(recs, 1, k), 1, k))
    BY <1>7 DEF LogEntries, SyncedEntries
  <2> QED BY <2>1, <2>2, <1>6
<1>10. /\ LogEntries(fs, n) = {recs[i] : i \in 1 .. Len(recs)}
       /\ SyncedEntries(fs, n) = {recs[i] : i \in 1 .. file.synced}
  BY <1>4, <1>5 DEF LogEntries, SyncedEntries, ToSet, file
<1>11. 1 .. k \subseteq 1 .. Len(recs) /\ 1 .. file.synced \subseteq 1 .. k
  BY <1>3
<1> QED BY <1>3, <1>4, <1>7, <1>8, <1>9, <1>10, <1>11 DEF file
LEMMA CutOK ==
  ASSUME IInv, NEW fs2, Cut(files, fs2), ~ReuseLogs
  PROVE  /\ FilesOK(fs2) /\ LogsAscend(fs2)
         /\ CURRENT \in DOMAIN fs2 => ManifestFine(fs2, created, ReuseLogs)
         /\ Store(fs2) \subseteq Store(files) /\ Stable(files) \subseteq Store(fs2)
         /\ Stable(files) \subseteq Stable(fs2)
<1>0. FilesOK(files) /\ DOMAIN fs2 = DOMAIN files
  BY DEF IInv, TypeOK, Cut
<1>1. SameTables(files, fs2)
  <2> SUFFICES ASSUME NEW n \in Nat, TableFile(n) \in DOMAIN files PROVE fs2[TableFile(n)] = files[TableFile(n)]
    BY <1>0 DEF SameTables
  <2>1. PICK S \in SUBSET Nat : files[TableFile(n)] = [recs |-> <<S>>, synced |-> 1]
    BY <1>0, FileTypes
  <2> QED BY <2>1, CutWhole
<1>2. LogSet(fs2) = LogSet(files)
  BY <1>0 DEF LogSet
<1>3. \A n \in LogSet(files) : /\ LogEntries(fs2, n) \subseteq LogEntries(files, n)
                               /\ SyncedEntries(files, n) \subseteq LogEntries(fs2, n)
                               /\ SyncedEntries(fs2, n) = LogEntries(fs2, n)
  BY <1>0, CutLog
<1>4. FilesOK(fs2)
  <2> SUFFICES ASSUME NEW f \in DOMAIN files PROVE fs2[f] = files[f] \/ FileOK(f, fs2[f])
    BY <1>0, FilesOKKept DEF FilesOK
  <2>1. CASE f = CURRENT
    <3>1. PICK n \in Nat : files[CURRENT] = [recs |-> <<n>>, synced |-> 1]
      BY <1>0, <2>1, FileTypes
    <3> QED BY <2>1, <3>1, CutWhole
  <2>2. ASSUME NEW n \in Nat, f = LogFile(n) PROVE FileOK(f, fs2[f])
    <3>1. fs2[f] \in [recs : Seq(Nat), synced : Nat] /\ fs2[f].synced = Len(fs2[f].recs)
      BY <1>0, <2>2, CutLog DEF LogSet
    <3> QED BY <2>2, <3>1, Parts DEF FileOK
  <2>3. ASSUME NEW n \in Nat, f = Descriptor(n) PROVE FileOK(f, fs2[f])
    <3>1. files[f] \in [recs : Seq(EditSet), synced : Nat] /\ files[f].synced <= Len(files[f].recs)
      BY <1>0, <2>3, FileTypes
    <3>2. PICK k \in files[f].synced .. Len(files[f].recs) :
            fs2[f] = [recs |-> SubSeq(files[f].recs, 1, k), synced |-> k]
      BY DEF Cut
    <3>3. files[f].recs \in Seq(EditSet) /\ k \in 0 .. Len(files[f].recs)
      BY <3>1
    <3>4. SubSeq(files[f].recs, 1, k) \in Seq(EditSet) /\ Len(SubSeq(files[f].recs, 1, k)) = k
      BY <3>3
    <3>5. fs2[f] \in [recs : Seq(EditSet), synced : Nat] /\ fs2[f].synced <= Len(fs2[f].recs)
      BY <3>2, <3>3, <3>4
    <3> QED BY <2>3, <3>5, Parts DEF FileOK
  <2>4. ASSUME NEW n \in Nat, f = TableFile(n) PROVE fs2[f] = files[f]
    BY <1>1, <2>4 DEF SameTables
  <2>5. ASSUME NEW n \in Nat, f = TempFile(n) PROVE fs2[f] = files[f]
    <3>1. files[TempFile(n)] = [recs |-> <<n>>, synced |-> 1]
      BY <1>0, <2>5, FileTypes
    <3> QED BY <2>5, <3>1, CutWhole
  <2> QED BY <1>0, <2>1, <2>2, <2>3, <2>4, <2>5, Kinds
<1>5. LogsAscend(fs2)
  <2>0. LogsAscend(files)
    BY DEF IInv
  <2>1. ASSUME NEW n \in LogSet(fs2), NEW i \in DOMAIN fs2[LogFile(n)].recs, NEW j \in DOMAIN fs2[LogFile(n)].recs, i < j
        PROVE  fs2[LogFile(n)].recs[i] < fs2[LogFile(n)].recs[j]
    <3>1. /\ i \in DOMAIN files[LogFile(n)].recs /\ j \in DOMAIN files[LogFile(n)].recs
          /\ fs2[LogFile(n)].recs[i] = files[LogFile(n)].recs[i]
          /\ fs2[LogFile(n)].recs[j] = files[LogFile(n)].recs[j]
      BY <1>0, <1>2, CutLog
    <3> QED BY <1>2, <2>0, <2>1, <3>1 DEF LogsAscend
  <2>2. \A m, n \in LogSet(fs2) : m < n => \A a \in LogEntries(fs2, m), b \in LogEntries(fs2, n) : a < b
    BY <1>2, <1>3, <2>0 DEF LogsAscend
  <2> QED BY <2>1, <2>2 DEF LogsAscend
<1>6. AllLogs(fs2) \subseteq AllLogs(files) /\ AllSynced(files) \subseteq AllSynced(fs2) /\ AllSynced(fs2) = AllLogs(fs2)
  BY <1>2, <1>3 DEF AllLogs, AllSynced
<1>7. ASSUME CURRENT \in DOMAIN files
      PROVE  /\ ManifestFine(fs2, created, ReuseLogs)
             /\ Store(fs2) \subseteq Store(files) /\ Stable(files) \subseteq Store(fs2)
             /\ Stable(files) \subseteq Stable(fs2)
  <2>0. ManifestFine(files, created, ReuseLogs)
    BY <1>7 DEF IInv, ManifestOK, Exists
  <2>1. /\ Number(fs2) = Number(files) /\ Len(Current(fs2).recs) = Current(fs2).synced
        /\ Full(fs2) = Durable(fs2) /\ Full(fs2) \in {Full(files), Durable(files)}
    BY <1>0, <1>7, <2>0, CutManifest DEF ManifestFine
  <2>2. Current(fs2).synced \in Nat /\ Descriptor(Number(fs2)) \in DOMAIN fs2
    <3>1. Descriptor(Number(fs2)) \in DOMAIN fs2
      BY <1>0, <2>0, <2>1 DEF ManifestFine
    <3>2. \E n \in Nat : fs2[CURRENT] = [recs |-> <<n>>, synced |-> 1]
      BY <1>0, <1>4, <1>7, FileTypes
    <3>3. Number(fs2) \in Nat
      BY <3>2 DEF Number
    <3> QED BY <1>4, <3>1, <3>3, FileTypes DEF Current
  <2>3. Full(fs2) \in EditSet
    BY <2>0, <2>1 DEF ManifestFine
  <2>4. Full(fs2).has => Full(fs2) \in Views(files, ReuseLogs)
    BY <2>1 DEF Views
  <2>5. ASSUME Full(fs2).has
        PROVE  SoundView(fs2, Full(fs2)) /\ Entries(fs2, Full(fs2).added) = Entries(files, Full(fs2).added)
    <3> DEFINE m == Full(fs2)
    <3>1. m \in EditSet /\ SoundView(files, m) /\ m.added \in SUBSET TableSet
          /\ \A t \in m.added : TableFile(t.num) \in DOMAIN files
      BY <2>0, <2>3, <2>4, <2>5 DEF ManifestFine, SoundView, Sound, EditSet
    <3>2. \A t \in m.added : t.num \in Nat
      BY <3>1 DEF TableSet
    <3>3. \A t \in m.added : TableFile(t.num) \in DOMAIN fs2 /\ fs2[TableFile(t.num)] = files[TableFile(t.num)]
      BY <1>0, <1>1, <3>1, <3>2 DEF SameTables
    <3>4. \A l \in LogSet(files) : \E k \in LogSet(fs2) : l <= k
      BY <1>2 DEF LogSet
    <3> HIDE DEF m
    <3>5. SoundView(fs2, m)
      BY <1>0, <1>2, <1>3, <2>1, <3>1, <3>3, <3>4, SoundViewKept
    <3>6. Entries(fs2, m.added) = Entries(files, m.added)
      BY <3>3, SameEntries
    <3> QED BY <3>5, <3>6 DEF m
  <2>6. created => Full(fs2).has
    BY <2>0, <2>1 DEF ManifestFine
  <2>7. ~Full(fs2).has => ~created /\ AllLogs(fs2) = {} /\ Full(fs2).added = {}
    <3> SUFFICES ASSUME ~Full(fs2).has PROVE ~created /\ AllLogs(fs2) = {} /\ Full(fs2).added = {}
      OBVIOUS
    <3>1. ~Durable(files).has
      BY <2>0, <2>1 DEF ManifestFine
    <3>2. ~created /\ AllLogs(files) = {}
      BY <2>0, <3>1 DEF ManifestFine
    <3>3. Full(fs2).added = {}
      BY ReadNothing DEF Full
    <3> QED BY <1>6, <3>2, <3>3
  <2>8. ManifestFine(fs2, created, ReuseLogs)
    <3>1. \A m \in Views(fs2, ReuseLogs) : SoundView(fs2, m)
      BY <2>1, <2>5 DEF Views
    <3>2. Full(fs2).next \in Nat /\ Full(fs2).last \in Nat
      BY <2>3 DEF EditSet
    <3>3. Entries(fs2, Full(fs2).added) \subseteq Data(fs2, Full(fs2).added)
      BY DEF Data
    <3>4. Len(Current(fs2).recs) <= Current(fs2).synced + 1
      BY <2>1, <2>2
    <3> QED BY <2>1, <2>2, <2>3, <2>6, <2>7, <3>1, <3>2, <3>3, <3>4 DEF ManifestFine
  <2>9. Store(fs2) \subseteq Store(files)
    <3>1. CASE Full(fs2).has
      <4>1. Full(files).has /\ Entries(files, Full(fs2).added) \subseteq Entries(files, Full(files).added)
        BY <2>0, <2>1, <3>1 DEF ManifestFine
      <4> QED BY <1>0, <1>6, <1>7, <2>5, <3>1, <4>1 DEF Store, Data
    <3>2. CASE ~Full(fs2).has
      BY <3>2 DEF Store
    <3> QED BY <3>1, <3>2
  <2>10. Stable(files) \subseteq Entries(fs2, Full(fs2).added) \cup AllSynced(fs2) /\ (Durable(files).has => Full(fs2).has)
    <3>1. CASE Durable(files).has
      <4>1. Full(fs2).has /\ Entries(files, Durable(files).added) \subseteq Entries(files, Full(fs2).added)
        BY <2>0, <2>1, <3>1 DEF ManifestFine
      <4> QED BY <1>6, <1>7, <2>5, <3>1, <4>1 DEF Stable
    <3>2. CASE ~Durable(files).has
      BY <3>2 DEF Stable
    <3> QED BY <3>1, <3>2
  <2>11. Stable(files) \subseteq Store(fs2) /\ Stable(files) \subseteq Stable(fs2)
    <3>1. CASE Durable(files).has
      BY <1>0, <1>6, <1>7, <2>1, <2>10, <3>1 DEF Store, Stable, Data
    <3>2. CASE ~Durable(files).has
      BY <3>2 DEF Stable
    <3> QED BY <3>1, <3>2
  <2> QED BY <2>8, <2>9, <2>11
<1>8. CURRENT \notin DOMAIN files => Store(fs2) = {} /\ Stable(files) = {}
  BY <1>0 DEF Store, Stable
<1> QED BY <1>0, <1>4, <1>5, <1>7, <1>8
\* What a crash of the machine may take.
Loses == /\ MachineCrashes /\ ~ReuseLogs
         /\ Store(files') \subseteq Store(files) /\ Stable(files) \subseteq Store(files')
         /\ Stable(files) \subseteq Stable(files')

LEMMA CrashStep == IInv /\ Crash /\ options_' = options_ => IInv' /\ (Keeps \/ Loses)
<1> SUFFICES ASSUME IInv, Crash, options_' = options_ PROVE IInv' /\ (Keeps \/ Loses)
  OBVIOUS
<1>1. CASE Lose(files)
  BY <1>1, LoseMemoryStep
<1>2. CASE ~Lose(files)
  <2> DEFINE U == {f \in DOMAIN files : files[f].synced < Len(files[f].recs)}
             Lost(keep) == [f \in DOMAIN files |->
                              IF f \in U THEN Content(SubSeq(files[f].recs, 1, keep[f])) ELSE files[f]]
  <2>1. /\ MachineCrashes
        /\ \E keep \in [U -> UNION {files[f].synced .. Len(files[f].recs) : f \in U}] :
             /\ \A f \in U : files[f].synced <= keep[f] /\ keep[f] <= Len(files[f].recs)
             /\ Lose(Lost(keep))
    BY <1>2 DEF Crash
  <2>2. PICK keep \in [U -> UNION {files[f].synced .. Len(files[f].recs) : f \in U}] :
             /\ \A f \in U : files[f].synced <= keep[f] /\ keep[f] <= Len(files[f].recs)
             /\ Lose(Lost(keep))
    BY <2>1
  <2>3. ASSUME NEW f \in DOMAIN files
        PROVE  \E k \in files[f].synced .. Len(files[f].recs) :
                 Lost(keep)[f] = [recs |-> SubSeq(files[f].recs, 1, k), synced |-> k]
    <3>1. PICK S : files[f].recs \in Seq(S) /\ files[f].synced \in Nat /\ files[f].synced <= Len(files[f].recs)
                   /\ files[f] = [recs |-> files[f].recs, synced |-> files[f].synced]
      BY AnyFile DEF IInv, TypeOK
    <3>2. CASE f \in U
      <4>1. keep[f] \in UNION {files[g].synced .. Len(files[g].recs) : g \in U}
        BY <3>2
      <4>2. keep[f] \in Int
        BY <4>1
      <4>3. keep[f] \in files[f].synced .. Len(files[f].recs)
        BY <2>2, <3>1, <3>2, <4>2
      <4>4. Len(SubSeq(files[f].recs, 1, keep[f])) = keep[f]
        BY <3>1, <4>3
      <4>5. Lost(keep)[f] = [recs |-> SubSeq(files[f].recs, 1, keep[f]), synced |-> keep[f]]
        BY <3>2, <4>4 DEF Content
      <4> QED BY <4>3, <4>5
    <3>3. CASE f \notin U
      <4>1. files[f].synced = Len(files[f].recs)
        BY <3>1, <3>3
      <4>2. SubSeq(files[f].recs, 1, Len(files[f].recs)) = files[f].recs
        BY <3>1, SubSeqFull
      <4>3. Lost(keep)[f] = files[f]
        BY <3>3
      <4>4. Len(files[f].recs) \in files[f].synced .. Len(files[f].recs)
        BY <3>1
      <4> QED BY <3>1, <4>1, <4>2, <4>3, <4>4
    <3> QED BY <3>2, <3>3
  <2> DEFINE fs == Lost(keep)
  <2>4. Cut(files, fs)
    BY <2>3 DEF Cut
  <2>5. Lose(fs)
    BY <2>2
  <2> HIDE DEF fs
  <2>6. ~ReuseLogs
    BY <2>1, NoReuseBeyondMachine DEF IInv, TypeOK, ReuseLogs, MachineCrashes
  <2>7. /\ FilesOK(fs) /\ LogsAscend(fs)
        /\ CURRENT \in DOMAIN fs => ManifestFine(fs, created, ReuseLogs)
        /\ Store(fs) \subseteq Store(files) /\ Stable(files) \subseteq Store(fs)
        /\ Stable(files) \subseteq Stable(fs)
    BY <2>4, <2>6, CutOK
  <2>8. IInv'
    BY <2>4, <2>5, <2>7, LoseStep DEF Cut
  <2>9. files' = fs
    BY <2>5 DEF Lose
  <2> QED BY <2>1, <2>6, <2>7, <2>8, <2>9 DEF Loses
<1> QED BY <1>1, <1>2

LEMMA GiveUpStep == IInv /\ GiveUp /\ options_' = options_ => IInv' /\ Keeps
BY LoseMemoryStep DEF GiveUp

LEMMA RestStep == IInv /\ UNCHANGED vars => IInv' /\ Keeps
<1> SUFFICES ASSUME IInv, UNCHANGED vars PROVE IInv' /\ Keeps
  OBVIOUS
<1>1. UNCHANGED <<options_, files, pc, vs, job, pending, mem_, imm_, has_mem_, has_imm_, logfile_number_, bg_error_,
                  w, pinned, created>>
  BY DEF vars
<1>2. TypeOK' /\ CreatingOK' /\ ManifestOK' /\ LogsAscend(files)' /\ MemoryOK'
  BY <1>1 DEF IInv, TypeOK, CreatingOK, Creating, Exists, ManifestOK, ReuseLogs, MemoryOK, Opened
<1>3. OpenedOK' /\ RunningOK' /\ ReadyOK'
  BY <1>1 DEF IInv, OpenedOK, Opened, Exists, Missing, RunningOK, Running, ReadyOK, Ready, Applying
<1>4. LogsOK' /\ ApplyingOK'
  BY <1>1 DEF IInv, LogsOK, IsCurrent, Exists, ReuseLogs, ApplyingOK, Applying, NextVersion, NextNext, NextLast
<1>5. PhaseOK'
  BY <1>1 DEF IInv, PhaseOK, Ready, Applying, Fresh, IsCurrent, IsNext, NextVersion, Snapshot, Exists, ReuseLogs
<1> QED BY <1>1, <1>2, <1>3, <1>4, <1>5 DEF IInv, Keeps
-----------------------------------------------------------------------------
(* Writing the manifest *)

\* While a new manifest is written next to the current one, only its own file changes.
LEMMA FreshSide ==
  ASSUME IInv, Ready, Fresh \/ ~vs.descriptor, NEW fs2,
         \A g : g \notin {Descriptor(vs.manifest)} =>
           (g \in DOMAIN fs2 <=> g \in DOMAIN files) /\ (g \in DOMAIN files => fs2[g] = files[g])
  PROVE  /\ Number(files) < vs.manifest /\ vs.manifest \in Nat
         /\ SideFile(files, fs2, vs.manifest)
         /\ SameLogs(files, fs2) /\ SameTables(files, fs2) /\ SameManifest(files, fs2)
         /\ Exists(CURRENT) /\ CURRENT \in DOMAIN fs2
         /\ Number(fs2) = Number(files) /\ Current(fs2) = Current(files)
         /\ Full(fs2) = Full(files) /\ Durable(fs2) = Durable(files)
         /\ \A n : n # vs.manifest => (Descriptor(n) \in DOMAIN fs2 <=> Descriptor(n) \in DOMAIN files)
<1>1. vs.manifest \in Nat
  BY DEF IInv, TypeOK, VersionsSet
<1>2. Number(files) < vs.manifest /\ Exists(CURRENT)
  BY DEF IInv, PhaseOK, OpenedOK, Running
<1>3. Number(files) # vs.manifest
  <2>1. \E n \in Nat : files[CURRENT] = [recs |-> <<n>>, synced |-> 1]
    BY <1>2, FileTypes DEF IInv, TypeOK, Exists
  <2>2. Number(files) \in Nat
    BY <2>1 DEF Number
  <2> QED BY <1>1, <1>2, <2>2
<1>4. SideFile(files, fs2, vs.manifest)
  BY <1>1, <1>3 DEF SideFile
<1>5. Descriptor(Number(files)) \in DOMAIN files
  BY <1>2 DEF IInv, ManifestOK, ManifestFine
<1>6. /\ SameLogs(files, fs2) /\ SameTables(files, fs2) /\ SameManifest(files, fs2) /\ CURRENT \in DOMAIN fs2
      /\ \A n : n # vs.manifest => (Descriptor(n) \in DOMAIN fs2 <=> Descriptor(n) \in DOMAIN files)
  BY <1>2, <1>4, <1>5, SideFileFacts DEF Exists
<1> QED BY <1>1, <1>2, <1>4, <1>6, SameManifestFacts

LEMMA ManifestFailsStep == IInv /\ ManifestFails /\ options_' = options_ => IInv' /\ Keeps
<1> SUFFICES ASSUME IInv, ManifestFails, options_' = options_ PROVE IInv' /\ Keeps
  OBVIOUS
<1>0. /\ pc \in {"add", "sync"} /\ job' = [NoJob EXCEPT !.opening = job.opening]
      /\ UNCHANGED <<options_, vs, pending, mem_, imm_, has_mem_, has_imm_, logfile_number_, w, pinned, created>>
  BY DEF ManifestFails, memory
<1>1. TypeOK /\ FilesOK(files) /\ Applying /\ Ready /\ Running /\ Exists(CURRENT) /\ job.opening \in BOOLEAN
  BY <1>0 DEF IInv, TypeOK, OpenedOK, Applying, Ready, Running, JobSet
<1>2. job' \in JobSet /\ job'.opening = job.opening /\ ~job'.fresh
  BY <1>0, <1>1, Constants DEF NoJob, JobSet
<1>3. CASE job.opening
  <2>1. /\ pc' = "failed" /\ bg_error_' = bg_error_
        /\ job.fresh => files' = Without(files, {Descriptor(vs.manifest)})
        /\ ~job.fresh => files' = files
    BY <1>3 DEF ManifestFails
  <2>2. job.fresh => /\ DOMAIN files' = DOMAIN files \ {Descriptor(vs.manifest)}
                     /\ \A g \in DOMAIN files' : files'[g] = files[g]
    <3> DEFINE k == Descriptor(vs.manifest)
    <3>1. /\ DOMAIN Without(files, {k}) = DOMAIN files \ {k}
          /\ \A g \in DOMAIN files \ {k} : Without(files, {k})[g] = files[g]
      BY WithoutFiles
    <3> HIDE DEF k
    <3>2. job.fresh => files' = Without(files, {k})
      BY <2>1 DEF k
    <3>3. job.fresh => DOMAIN files' = DOMAIN files \ {k} /\ \A g \in DOMAIN files' : files'[g] = files[g]
      BY ONLY <3>1, <3>2
    <3> QED BY <3>3 DEF k
  <2>3. /\ DOMAIN files' \subseteq DOMAIN files
        /\ \A g \in DOMAIN files' : files'[g] = files[g]
        /\ \A g : g # Descriptor(vs.manifest) \/ ~job.fresh =>
             (g \in DOMAIN files' <=> g \in DOMAIN files) /\ (g \in DOMAIN files => files'[g] = files[g])
    BY ONLY <2>1, <2>2
  <2>4. /\ SameLogs(files, files') /\ SameTables(files, files') /\ SameManifest(files, files')
        /\ CURRENT \in DOMAIN files'
    <3>1. CASE job.fresh
      <4>1. Fresh
        BY <1>0, <3>1 DEF Fresh
      <4> QED BY <1>1, <2>3, <4>1, FreshSide
    <3>2. CASE ~job.fresh
      <4>1. Descriptor(Number(files)) \in DOMAIN files
        BY <1>1 DEF IInv, ManifestOK, ManifestFine
      <4> QED BY <1>1, <2>1, <3>2, <4>1 DEF SameLogs, SameTables, SameManifest, Exists
    <3> QED BY <3>1, <3>2
  <2>5. FilesOK(files')
    BY <1>1, <2>3, FilesOKKept DEF FilesOK
  <2>6. ~Opened /\ ~Opened' /\ w.at = "idle" /\ ~bg_error_ /\ pinned = << >> /\ ~has_imm_ /\ imm_ = {}
    BY <1>0, <1>3, <2>1 DEF IInv, MemoryOK, Opened
  <2>7. TypeOK'
    BY <1>0, <1>1, <1>2, <2>1, <2>5 DEF TypeOK, PCs
  <2>8. CreatingOK'
    BY <2>1, <2>4 DEF CreatingOK, Creating, Exists
  <2>9. ManifestOK'
    <3>1. ManifestFine(files', created, ReuseLogs)
      BY <1>1, <2>3, <2>4, ManifestSame DEF IInv, ManifestOK
    <3> QED BY <1>0, <3>1 DEF ManifestOK, ReuseLogs
  <2>10. LogsAscend(files)'
    BY <2>4, SameLogsFacts DEF IInv
  <2>11. MemoryOK'
    BY <1>0, <2>1, <2>6 DEF MemoryOK, Creating
  <2>12. OpenedOK'
    BY <1>0, <1>2, <2>1, <2>6 DEF OpenedOK, Running, Ready, Applying
  <2>13. RunningOK' /\ LogsOK' /\ ReadyOK' /\ ApplyingOK'
    BY <2>1 DEF RunningOK, LogsOK, ReadyOK, ApplyingOK, Running, Ready, Applying
  <2>14. PhaseOK'
    BY <1>2, <2>1 DEF PhaseOK, Ready, Applying, Fresh
  <2>15. Keeps
    <3>1. Store(files') = Store(files) /\ (~ReuseLogs => Stable(files') = Stable(files))
      BY <1>1, <2>4, SameStore DEF IInv, ManifestOK, Exists
    <3> QED BY <3>1 DEF Keeps
  <2> QED BY <2>7, <2>8, <2>9, <2>10, <2>11, <2>12, <2>13, <2>14, <2>15 DEF IInv
<1>4. CASE ~job.opening
  <2>1. pc' \in {"gc", "open"} /\ bg_error_' = TRUE /\ files' = files
    BY <1>4 DEF ManifestFails
  <2>2. Opened /\ Opened' /\ Ready' /\ Running' /\ ~Fresh' /\ ~job.fresh /\ ~Fresh
    BY <1>0, <1>2, <1>4, <2>1 DEF IInv, PhaseOK, Opened, Ready, Running, Fresh
  <2>3. TypeOK'
    BY <1>0, <1>1, <1>2, <2>1 DEF TypeOK, PCs
  <2>4. CreatingOK' /\ ManifestOK' /\ LogsAscend(files)'
    BY <1>0, <1>1, <2>1 DEF IInv, CreatingOK, Creating, Exists, ManifestOK, ReuseLogs
  <2>5. MemoryOK'
    BY <2>1, <2>2 DEF MemoryOK, Creating
  <2>6. OpenedOK'
    BY <1>0, <1>1, <1>2, <2>1, <2>2 DEF IInv, OpenedOK, Exists, Missing
  <2>7. RunningOK'
    BY <1>0, <1>1, <2>1 DEF IInv, RunningOK
  <2>8. LogsOK' /\ ApplyingOK'
    BY <2>1 DEF LogsOK, ApplyingOK, Applying
  <2>9. ReadyOK'
    BY <1>0, <1>1, <1>4, <2>1 DEF IInv, ReadyOK, Exists
  <2>10. PhaseOK'
    BY <1>0, <1>1, <1>2, <2>1, <2>2 DEF IInv, PhaseOK
  <2>11. Keeps
    BY <2>1 DEF Keeps
  <2> QED BY <2>3, <2>4, <2>5, <2>6, <2>7, <2>8, <2>9, <2>10, <2>11 DEF IInv
<1> QED BY <1>1, <1>3, <1>4
\* A step on the way of an edit into the manifest, which leaves logs and tables alone.
LEMMA ApplyStep ==
  ASSUME IInv, Applying, Ready, Exists(CURRENT),
         pc' \in {"add", "sync", "tmp", "rename", "install"},
         UNCHANGED <<options_, pending, mem_, imm_, has_mem_, has_imm_, logfile_number_, bg_error_, w, pinned, created>>,
         vs' \in VersionsSet, vs'.version = vs.version, vs'.log = vs.log, vs'.next = vs.next,
         vs'.last = vs.last, vs'.manifest = vs.manifest,
         job' \in JobSet, job'.edit.has, job'.edit.added = job.edit.added, job'.edit.deleted = job.edit.deleted,
         job'.edit.log = job.edit.log, job'.edit.next = NextNext, job'.edit.last = NextLast,
         job'.opening = job.opening, job'.fresh => job'.opening,
         FilesOK(files'), SameLogs(files, files'), SameTables(files, files'), CURRENT \in DOMAIN files',
         ManifestFine(files', created, ReuseLogs),
         Full(files').has, Full(files').next <= NextNext, Full(files').last <= NextLast,
         Full(files').added = vs.version \/ Full(files').added = NextVersion,
         \A n \in Nat : Descriptor(n) \in DOMAIN files' => n < NextNext,
         \A n \in Nat : TempFile(n) \in DOMAIN files' => TempFile(n) \in DOMAIN files
  PROVE  /\ TypeOK' /\ CreatingOK' /\ ManifestOK' /\ LogsAscend(files)' /\ MemoryOK' /\ OpenedOK'
         /\ RunningOK' /\ LogsOK' /\ ReadyOK' /\ ApplyingOK'
<1>1. TypeOK /\ FilesOK(files) /\ NextVersion \in SUBSET TableSet /\ vs \in VersionsSet /\ job \in JobSet
  BY NextVersionType DEF IInv, TypeOK
<1>2. vs.next \in Nat /\ vs.last \in Nat /\ job.edit.next \in Nat /\ job.edit.last \in Nat /\ NextNext \in Nat
      /\ NextLast \in Nat
  BY <1>1 DEF VersionsSet, JobSet, EditSet, NextNext, NextLast
<1>3. /\ NextVersion' = NextVersion /\ NextNext' = NextNext /\ NextLast' = NextLast
      /\ Applying' /\ Ready' /\ Running' /\ Running
  BY DEF NextVersion, ApplyEdit, NextNext, NextLast, Applying, Ready, Running
<1>4. /\ Sound(files', vs.version, vs.log, vs.next, vs.last)
      /\ Entries(files', vs.version) = Entries(files, vs.version)
      /\ Data(files', vs.version) = Data(files, vs.version)
      /\ Sound(files', NextVersion, job.edit.log, NextNext, NextLast)
      /\ Entries(files', NextVersion) = Entries(files, NextVersion)
      /\ \A i \in DOMAIN pinned : \A t \in pinned[i] : TableFile(t.num) \in DOMAIN files'
  BY <1>3, SameDataStep
<1>5. /\ LogSet(files') = LogSet(files) /\ AllLogs(files') = AllLogs(files)
      /\ \A n \in LogSet(files) : LogEntries(files', n) = LogEntries(files, n)
      /\ \A n \in LogSet(files) : SyncedEntries(files', n) = SyncedEntries(files, n)
      /\ LogsAscend(files')
  BY SameLogsFacts DEF IInv
<1>6. /\ Entries(files, vs.version) \subseteq Entries(files, NextVersion)
      /\ Entries(files, NextVersion) \subseteq Data(files, vs.version)
      /\ NextNext <= vs.next /\ NextLast <= vs.last
  BY DEF IInv, ApplyingOK
<1>7. Opened' => Opened
  BY DEF Opened, Applying
<1>16. ~Opened' => ~Opened
  <2>1. pc \in {"apply", "add", "sync", "install", "tmp", "rename"}
    BY DEF Applying
  <2> QED BY <2>1 DEF Opened
<1>8. TypeOK'
  BY <1>1 DEF TypeOK, PCs
<1>9. CreatingOK' /\ ManifestOK' /\ LogsAscend(files)'
  BY <1>5 DEF CreatingOK, Creating, Exists, ManifestOK, ReuseLogs
<1>10. MemoryOK'
  BY <1>16 DEF IInv, MemoryOK, Creating
<1>11. OpenedOK'
  <2>1. Opened' => \A f \in DOMAIN files' : f[2] < vs.next
    <3> SUFFICES ASSUME Opened, NEW f \in DOMAIN files' PROVE f[2] < vs.next
      BY <1>7
    <3>0. \A g \in DOMAIN files : g[2] < vs.next
      BY DEF IInv, OpenedOK
    <3>1. CASE f = CURRENT
      BY <3>0, <3>1 DEF Exists
    <3>2. ASSUME NEW n \in Nat, f = LogFile(n) PROVE f[2] < vs.next
      BY <3>0, <3>2 DEF SameLogs, LogSet
    <3>3. ASSUME NEW n \in Nat, f = TableFile(n) PROVE f[2] < vs.next
      BY <3>0, <3>3 DEF SameTables
    <3>4. ASSUME NEW n \in Nat, f = Descriptor(n) PROVE f[2] < vs.next
      BY <1>2, <1>6, <3>4, Parts
    <3>5. ASSUME NEW n \in Nat, f = TempFile(n) PROVE f[2] < vs.next
      BY <3>0, <3>5
    <3> QED BY <3>1, <3>2, <3>3, <3>4, <3>5, Kinds
  <2>2. \A i \in DOMAIN pinned : Missing(pinned[i])' = {}
    BY <1>4 DEF Missing, Exists
  <2>3. w.at # "idle" => /\ vs.last + 1 \in LogEntries(files', logfile_number_)
                         /\ w.at = "insert" /\ w.sync => vs.last + 1 \in SyncedEntries(files', logfile_number_)
    <3>1. logfile_number_ \in LogSet(files)
      BY DEF IInv, ReadyOK
    <3> QED BY <1>5, <3>1 DEF IInv, OpenedOK
  <2>4. ~bg_error_ /\ (~has_imm_ => imm_ = {}) /\ (Opened => created)
    BY DEF IInv, OpenedOK, Applying
  <2> QED BY <1>7, <2>1, <2>2, <2>3, <2>4 DEF OpenedOK, Exists, Missing
<1>12. RunningOK'
  <2>1. /\ Entries(files', vs.version) \subseteq Data(files', Full(files').added)
        /\ Entries(files', Full(files').added) \subseteq Data(files', vs.version)
    <3>1. CASE Full(files').added = vs.version
      BY <3>1 DEF Data
    <3>2. CASE Full(files').added = NextVersion
      <4>1. Entries(files', vs.version) \subseteq Entries(files', NextVersion)
        BY <1>4, <1>6
      <4>2. Entries(files', NextVersion) \subseteq Data(files', vs.version)
        BY <1>4, <1>6
      <4> QED BY <3>2, <4>1, <4>2 DEF Data
    <3> QED BY <3>1, <3>2
  <2>2. Full(files').next <= vs.next /\ Full(files').last <= vs.last
    <3>1. Full(files') \in EditSet
      BY DEF ManifestFine
    <3>2. Full(files').next \in Nat /\ Full(files').last \in Nat
      BY <3>1 DEF EditSet
    <3> QED BY <1>2, <1>6, <3>2
  <2>3. vs.log < vs.next
    BY <1>3 DEF IInv, RunningOK
  <2> QED BY <1>4, <2>1, <2>2, <2>3 DEF RunningOK
<1>13. LogsOK'
  BY DEF LogsOK
<1>14. ReadyOK'
  <2>1. logfile_number_ \in LogSet(files)
    BY DEF IInv, ReadyOK
  <2>2. \A n \in Nat : Descriptor(n) \in DOMAIN files' => n < vs.next
    BY <1>2, <1>6
  <2>3. UNION {LogEntries(files', n) : n \in {n \in LogSet(files') : vs.log <= n /\ n < logfile_number_}} =
        UNION {LogEntries(files, n) : n \in {n \in LogSet(files) : vs.log <= n /\ n < logfile_number_}}
    BY <1>5
  <2>4. ~job.opening => imm_ = UNION {LogEntries(files, n) : n \in {n \in LogSet(files) : vs.log <= n /\ n < logfile_number_}}
    BY DEF IInv, ReadyOK
  <2>5. /\ has_mem_ /\ logfile_number_ < vs.next
        /\ \A n \in LogSet(files') : n <= logfile_number_
        /\ vs.log <= logfile_number_
        /\ LogEntries(files', logfile_number_) = mem_ \cup (IF w.at = "idle" THEN {} ELSE {vs.last + 1})
        /\ \A e \in mem_ : e <= vs.last
        /\ \A n \in LogSet(files') : n # logfile_number_ => \A e \in LogEntries(files', n) : e <= vs.last
        /\ vs.manifest < vs.next
        /\ has_imm_ => vs.log < logfile_number_
    BY <1>5, <2>1 DEF IInv, ReadyOK
  <2> QED BY <1>5, <2>1, <2>2, <2>3, <2>4, <2>5 DEF ReadyOK, Exists
<1>15. ApplyingOK'
  <2>1. Entries(files', NextVersion) \subseteq Data(files', vs.version)
        /\ Entries(files', vs.version) \subseteq Entries(files', NextVersion)
    BY <1>4, <1>6
  <2>2. /\ job.edit.log < NextNext /\ vs.log <= job.edit.log /\ job.edit.log <= logfile_number_
        /\ job.edit.log # vs.log => job.edit.log = logfile_number_ /\ (has_imm_ \/ job.opening)
        /\ job.opening => job.edit.log = logfile_number_
    BY DEF IInv, ApplyingOK
  <2> QED BY <1>3, <1>4, <1>6, <2>1, <2>2 DEF ApplyingOK, Exists
<1> QED BY <1>8, <1>9, <1>10, <1>11, <1>12, <1>13, <1>14, <1>15
LEMMA WriteSnapshotStep == IInv /\ WriteSnapshot /\ options_' = options_ => IInv' /\ Keeps
<1> SUFFICES ASSUME IInv, WriteSnapshot, options_' = options_ PROVE IInv' /\ Keeps
  OBVIOUS
<1>0. /\ pc = "apply" /\ pc' = "add" /\ vs' = [vs EXCEPT !.descriptor = TRUE]
      /\ job' = [job EXCEPT !.edit = Edit, !.fresh = ~vs.descriptor]
      /\ UNCHANGED <<options_, pending, mem_, imm_, has_mem_, has_imm_, logfile_number_, bg_error_, w, pinned, created>>
      /\ vs.descriptor => files' = files
      /\ ~vs.descriptor => NewFile(Descriptor(vs.manifest), <<Snapshot>>, 0)
  BY DEF WriteSnapshot, memory
<1>1. /\ TypeOK /\ FilesOK(files) /\ Applying /\ Ready /\ Running /\ Exists(CURRENT) /\ vs \in VersionsSet /\ job \in JobSet
      /\ job.edit \in EditSet
  BY <1>0 DEF IInv, TypeOK, OpenedOK, Applying, Ready, Running, JobSet
<1>2. /\ vs.version \in SUBSET TableSet /\ vs.next \in Nat /\ vs.last \in Nat /\ vs.manifest \in Nat
      /\ vs.descriptor \in BOOLEAN
  BY <1>1 DEF VersionsSet
<1>3. /\ Edit \in EditSet /\ Edit.has /\ Edit.added = job.edit.added /\ Edit.deleted = job.edit.deleted
      /\ Edit.log = job.edit.log /\ Edit.next = vs.next /\ Edit.last = vs.last
  BY <1>1, <1>2 DEF Edit, EditSet
<1>4. /\ job' \in JobSet /\ job'.edit = Edit /\ job'.fresh = ~vs.descriptor /\ job'.opening = job.opening
  BY <1>0, <1>1, <1>2, <1>3 DEF JobSet
<1>5. /\ vs' \in VersionsSet /\ vs'.version = vs.version /\ vs'.log = vs.log /\ vs'.next = vs.next
      /\ vs'.last = vs.last /\ vs'.manifest = vs.manifest /\ vs'.descriptor
  BY <1>0, <1>1 DEF VersionsSet
<1>6. NextNext = vs.next /\ NextLast = vs.last
  BY <1>0 DEF NextNext, NextLast
<1>7. /\ ManifestFine(files, created, ReuseLogs) /\ Full(files).has /\ Full(files).next <= vs.next
      /\ Full(files).last <= vs.last /\ IsCurrent(Full(files))
  BY <1>0, <1>1 DEF IInv, ManifestOK, RunningOK, PhaseOK
<1>8. ~vs.descriptor => /\ job.opening /\ ~ReuseLogs /\ vs.manifest < logfile_number_
                        /\ Number(files) < vs.manifest
  BY <1>0, <1>1 DEF IInv, PhaseOK
<1>9. vs.descriptor => Number(files) = vs.manifest
  BY <1>0, <1>1 DEF IInv, PhaseOK, Fresh
<1>10. /\ FilesOK(files') /\ SameLogs(files, files') /\ SameTables(files, files') /\ SameManifest(files, files')
       /\ CURRENT \in DOMAIN files' /\ Full(files') = Full(files) /\ Number(files') = Number(files)
       /\ Current(files') = Current(files)
       /\ \A n \in Nat : Descriptor(n) \in DOMAIN files' => Descriptor(n) \in DOMAIN files \/ (~vs.descriptor /\ n = vs.manifest)
       /\ \A n \in Nat : TempFile(n) \in DOMAIN files' => TempFile(n) \in DOMAIN files
       /\ ~vs.descriptor => /\ Descriptor(vs.manifest) \in DOMAIN files'
                            /\ files'[Descriptor(vs.manifest)].recs = <<Snapshot>>
  <2>1. CASE vs.descriptor
    <3>1. Descriptor(Number(files)) \in DOMAIN files
      BY <1>7 DEF ManifestFine
    <3> QED BY <1>0, <1>1, <2>1, <3>1 DEF SameLogs, SameTables, SameManifest, Exists
  <2>2. CASE ~vs.descriptor
    <3> DEFINE f == Descriptor(vs.manifest)
               file == [recs |-> <<Snapshot>>, synced |-> 0]
    <3>1. files' = With(f, file)
      BY <1>0, <2>2 DEF NewFile
    <3>2. /\ DOMAIN files' = DOMAIN files \cup {f}
          /\ files'[f] = file
          /\ \A g \in DOMAIN files : g # f => files'[g] = files[g]
      BY <3>1, WithFile
    <3>3. Snapshot \in EditSet
      BY <1>2 DEF Snapshot, NoEdit, EditSet
    <3>4. <<Snapshot>> \in Seq(EditSet) /\ Len(<<Snapshot>>) = 1
      BY <3>3
    <3>5. FileOK(f, file)
      BY <3>4, Parts DEF FileOK
    <3> HIDE DEF file
    <3>6. DOMAIN files' \subseteq {CURRENT} \cup {"MANIFEST", "log", "table", "dbtmp"} \X Nat
      BY <1>1, <1>2, <3>2 DEF FilesOK, Descriptor
    <3>7. FilesOK(files')
      BY <1>1, <3>2, <3>5, <3>6, FilesOKKept
    <3>8. \A g : g \notin {f} => (g \in DOMAIN files' <=> g \in DOMAIN files) /\ (g \in DOMAIN files => files'[g] = files[g])
      BY <3>2
    <3>9. /\ SameLogs(files, files') /\ SameTables(files, files') /\ SameManifest(files, files')
          /\ CURRENT \in DOMAIN files' /\ Full(files') = Full(files) /\ Number(files') = Number(files)
          /\ Current(files') = Current(files)
          /\ \A n : n # vs.manifest => (Descriptor(n) \in DOMAIN files' <=> Descriptor(n) \in DOMAIN files)
      BY <1>1, <2>2, <3>8, FreshSide
    <3>10. \A n \in Nat : TempFile(n) \in DOMAIN files' => TempFile(n) \in DOMAIN files
      BY <3>2, Names
    <3>11. files'[f].recs = <<Snapshot>>
      BY <3>2 DEF file
    <3> QED BY <2>2, <3>2, <3>7, <3>9, <3>10, <3>11
  <2> QED BY <2>1, <2>2
<1>11. \A n \in Nat : Descriptor(n) \in DOMAIN files' => n < NextNext
  BY <1>1, <1>6, <1>10 DEF IInv, ReadyOK, Exists
<1>12. ManifestFine(files', created, ReuseLogs)
  <2>1. \A n \in Nat : Descriptor(n) \in DOMAIN files' => Descriptor(n) \in DOMAIN files
                         \/ (~ReuseLogs /\ \E l \in LogSet(files') : n < l)
    <3>1. logfile_number_ \in LogSet(files)
      BY <1>1 DEF IInv, ReadyOK
    <3>2. LogSet(files') = LogSet(files)
      BY <1>10 DEF SameLogs
    <3> QED BY <1>8, <1>10, <3>1, <3>2
  <2> QED BY <1>1, <1>7, <1>10, <2>1, ManifestSame
<1>13. /\ TypeOK' /\ CreatingOK' /\ ManifestOK' /\ LogsAscend(files)' /\ MemoryOK' /\ OpenedOK'
       /\ RunningOK' /\ LogsOK' /\ ReadyOK' /\ ApplyingOK'
  <2>1. job'.fresh => job'.opening
    BY <1>4, <1>8
  <2>2. Full(files').added = vs.version
    BY <1>7, <1>10 DEF IsCurrent
  <2> QED BY <1>0, <1>1, <1>3, <1>4, <1>5, <1>6, <1>7, <1>10, <1>11, <1>12, <2>1, <2>2, ApplyStep
<1>14. PhaseOK'
  <2>1. IsCurrent(Full(files))' /\ Snapshot' = Snapshot /\ ReuseLogs' = ReuseLogs
    BY <1>0, <1>5, <1>7, <1>10 DEF IsCurrent, Snapshot, ReuseLogs
  <2>2. Fresh' <=> ~vs.descriptor
    BY <1>0, <1>2, <1>4 DEF Fresh
  <2>3. ~ReuseLogs /\ ~job.opening => Len(Current(files).recs) = Current(files).synced
    BY <1>0 DEF IInv, PhaseOK
  <2>4. ~ReuseLogs /\ job.opening => ~vs.descriptor
    BY <1>0 DEF IInv, PhaseOK
  <2> QED BY <1>0, <1>4, <1>5, <1>8, <1>9, <1>10, <2>1, <2>2, <2>3, <2>4 DEF PhaseOK, Exists
<1>15. Keeps
  <2>1. Store(files') = Store(files) /\ (~ReuseLogs => Stable(files') = Stable(files))
    BY <1>1, <1>7, <1>10, SameStore DEF Exists
  <2> QED BY <2>1 DEF Keeps
<1> QED BY <1>13, <1>14, <1>15 DEF IInv
LEMMA SoundViewSame ==
  ASSUME NEW fs, NEW fs2, SameLogs(fs, fs2), SameTables(fs, fs2), Number(fs2) = Number(fs),
         \A n \in Nat : Descriptor(n) \in DOMAIN fs2 => Descriptor(n) \in DOMAIN fs,
         NEW m \in EditSet, SoundView(fs, m)
  PROVE  SoundView(fs2, m) /\ Entries(fs2, m.added) = Entries(fs, m.added)
<1>1. m.added \in SUBSET TableSet /\ Sound(fs, m.added, m.log, m.next, m.last)
  BY DEF EditSet, SoundView
<1>2. \A t \in m.added : TableFile(t.num) \in DOMAIN fs2 /\ fs2[TableFile(t.num)] = fs[TableFile(t.num)]
  <2>1. \A t \in m.added : t.num \in Nat /\ TableFile(t.num) \in DOMAIN fs
    BY <1>1 DEF TableSet, Sound
  <2> QED BY <2>1 DEF SameTables
<1>3. /\ LogSet(fs2) = LogSet(fs)
      /\ \A n \in LogSet(fs) : LogEntries(fs2, n) = LogEntries(fs, n)
  BY SameLogsFacts
<1>4. \A l \in LogSet(fs) : \E k \in LogSet(fs2) : l <= k
  BY <1>3 DEF LogSet
<1>5. SoundView(fs2, m)
  BY <1>2, <1>3, <1>4, SoundViewKept
<1>6. Entries(fs2, m.added) = Entries(fs, m.added)
  BY <1>2, SameEntries
<1> QED BY <1>5, <1>6

\* The manifest an edit goes to.
LEMMA ManifestFile ==
  ASSUME IInv, Ready, Fresh \/ vs.descriptor
  PROVE  /\ Descriptor(vs.manifest) \in DOMAIN files /\ vs.manifest \in Nat
         /\ files[Descriptor(vs.manifest)] \in [recs : Seq(EditSet), synced : Nat]
         /\ files[Descriptor(vs.manifest)].synced <= Len(files[Descriptor(vs.manifest)].recs)
         /\ ~Fresh => Number(files) = vs.manifest /\ files[Descriptor(vs.manifest)] = Current(files)
<1>1. vs.manifest \in Nat /\ FilesOK(files)
  BY DEF IInv, TypeOK, VersionsSet
<1>2. CURRENT \in DOMAIN files
  BY DEF IInv, OpenedOK, Running, Exists
<1>3. ~Fresh => Number(files) = vs.manifest /\ files[Descriptor(vs.manifest)] = Current(files)
                /\ Descriptor(vs.manifest) \in DOMAIN files
  BY <1>2 DEF IInv, PhaseOK, Current, ManifestOK, ManifestFine, Exists
<1>4. Fresh => Descriptor(vs.manifest) \in DOMAIN files
  BY DEF IInv, PhaseOK, Exists
<1> QED BY <1>1, <1>3, <1>4, FileTypes

LEMMA SyncManifestStep == IInv /\ SyncManifest /\ options_' = options_ => IInv' /\ Keeps
<1> SUFFICES ASSUME IInv, SyncManifest, options_' = options_ PROVE IInv' /\ Keeps
  OBVIOUS
<1> DEFINE d == Descriptor(vs.manifest)
<1>0. /\ pc = "sync" /\ pc' \in {"tmp", "install"} /\ (job.fresh <=> pc' = "tmp")
      /\ files' = [files EXCEPT ![d].synced = Len(files[d].recs)]
      /\ UNCHANGED <<options_, vs, job, pending, mem_, imm_, has_mem_, has_imm_, logfile_number_, bg_error_, w, pinned, created>>
  BY DEF SyncManifest, memory
<1>1. /\ TypeOK /\ FilesOK(files) /\ Applying /\ Ready /\ Running /\ Exists(CURRENT) /\ vs \in VersionsSet /\ job \in JobSet
      /\ vs.descriptor /\ (Fresh <=> job.fresh)
  BY <1>0 DEF IInv, TypeOK, OpenedOK, Applying, Ready, Running, PhaseOK, Fresh
<1>2. /\ d \in DOMAIN files /\ vs.manifest \in Nat
      /\ files[d] \in [recs : Seq(EditSet), synced : Nat] /\ files[d].synced <= Len(files[d].recs)
      /\ ~job.fresh => Number(files) = vs.manifest /\ files[d] = Current(files)
  BY <1>1, ManifestFile
<1> DEFINE recs == files[d].recs
           file == [recs |-> recs, synced |-> Len(recs)]
<1>3. /\ DOMAIN files' = DOMAIN files /\ files'[d] = file
      /\ \A g \in DOMAIN files : g # d => files'[g] = files[g]
  BY <1>0, <1>2
<1>4. recs \in Seq(EditSet) /\ file \in [recs : Seq(EditSet), synced : Nat] /\ file.recs = recs /\ file.synced = Len(recs)
      /\ Len(recs) \in Nat /\ SubSeq(recs, 1, Len(recs)) = recs
  <2>1. recs \in Seq(EditSet)
    BY <1>2
  <2> QED BY <2>1, SubSeqFull
<1> HIDE DEF file, recs
<1>5. FilesOK(files')
  <2>1. FileOK(d, file)
    BY <1>4, Parts DEF FileOK
  <2>2. DOMAIN files' \subseteq {CURRENT} \cup {"MANIFEST", "log", "table", "dbtmp"} \X Nat
    BY <1>1, <1>3 DEF FilesOK
  <2> QED BY <1>1, <1>3, <2>1, <2>2, FilesOKKept
<1>6. /\ SameLogs(files, files') /\ SameTables(files, files')
      /\ CURRENT \in DOMAIN files' /\ files'[CURRENT] = files[CURRENT] /\ Number(files') = Number(files)
      /\ \A n \in Nat : Descriptor(n) \in DOMAIN files' => Descriptor(n) \in DOMAIN files
      /\ \A n \in Nat : TempFile(n) \in DOMAIN files' => TempFile(n) \in DOMAIN files
  <2>1. SameLogs(files, files')
    BY <1>3, Names DEF SameLogs, LogSet
  <2>2. SameTables(files, files')
    BY <1>3, Names DEF SameTables
  <2>3. CURRENT \in DOMAIN files' /\ files'[CURRENT] = files[CURRENT]
    BY <1>1, <1>3, Names DEF Exists
  <2> QED BY <1>3, <2>1, <2>2, <2>3 DEF Number
<1>7. ManifestFine(files, created, ReuseLogs) /\ Full(files).has
  BY <1>1 DEF IInv, ManifestOK, RunningOK
<1>8. job.fresh => SameManifest(files, files') /\ IsCurrent(Full(files))
  BY <1>1, <1>3, FreshSide DEF IInv, PhaseOK
<1>9. ~job.fresh => /\ Full(files') = Full(files) /\ Durable(files') = Full(files)
                    /\ Current(files').recs = recs /\ Current(files').synced = Len(recs)
                    /\ IsNext(Full(files))
  <2> SUFFICES ASSUME ~job.fresh
               PROVE  /\ Full(files') = Full(files) /\ Durable(files') = Full(files)
                      /\ Current(files').recs = recs /\ Current(files').synced = Len(recs)
                      /\ IsNext(Full(files))
    OBVIOUS
  <2>1. Current(files') = file /\ Current(files).recs = recs
    BY <1>2, <1>3, <1>6 DEF Current, recs
  <2>2. IsNext(Full(files))
    BY <1>0 DEF IInv, PhaseOK
  <2> QED BY <1>4, <2>1, <2>2 DEF Full, Durable
<1>10. Full(files') = Full(files)
  BY <1>8, <1>9, SameManifestFacts
<1>11. ManifestFine(files', created, ReuseLogs)
  <2>1. CASE job.fresh
    BY <1>1, <1>6, <1>7, <1>8, <2>1, ManifestSame
  <2>2. CASE ~job.fresh
    <3>1. Full(files) \in EditSet /\ SoundView(files, Full(files))
      BY <1>7, FullViews DEF ManifestFine
    <3>2. SoundView(files', Full(files))
      BY <1>6, <3>1, SoundViewSame
    <3>3. \A m \in Views(files', ReuseLogs) : m = Full(files)
      BY <1>9, <2>2 DEF Views
    <3>4. Full(files).next \in Nat /\ Full(files).last \in Nat
      BY <3>1 DEF EditSet
    <3>5. Descriptor(Number(files')) \in DOMAIN files'
      BY <1>2, <1>3, <1>6, <2>2
    <3>6. Entries(files', Full(files).added) \subseteq Data(files', Full(files).added)
      BY DEF Data
    <3>7. ReuseLogs => \A n \in Nat : Descriptor(n) \in DOMAIN files' => n = 1
      BY <1>6, <1>7 DEF ManifestFine
    <3>8. Len(Current(files').recs) <= Current(files').synced + 1
      BY <1>4, <1>9, <2>2
    <3> QED BY <1>7, <1>9, <2>2, <3>1, <3>2, <3>3, <3>4, <3>5, <3>6, <3>7, <3>8 DEF ManifestFine
  <2> QED BY <2>1, <2>2
<1>12. /\ TypeOK' /\ CreatingOK' /\ ManifestOK' /\ LogsAscend(files)' /\ MemoryOK' /\ OpenedOK'
       /\ RunningOK' /\ LogsOK' /\ ReadyOK' /\ ApplyingOK'
  <2>1. job.edit.has /\ NextNext = job.edit.next /\ NextLast = job.edit.last /\ (job.fresh => job.opening)
    BY <1>0, <1>1 DEF IInv, ApplyingOK, NextNext, NextLast, PhaseOK
  <2>2. /\ Full(files').next <= NextNext /\ Full(files').last <= NextLast
        /\ \A n \in Nat : Descriptor(n) \in DOMAIN files' => n < NextNext
    BY <1>1, <1>6, <1>10 DEF IInv, ApplyingOK, Exists
  <2>3. Full(files').added = vs.version \/ Full(files').added = NextVersion
    BY <1>8, <1>9, <1>10 DEF IsCurrent, IsNext
  <2> HIDE DEF d
  <2> QED BY <1>0, <1>1, <1>5, <1>6, <1>7, <1>10, <1>11, <2>1, <2>2, <2>3, ApplyStep
<1>13. PhaseOK'
  <2>1. /\ Snapshot' = Snapshot /\ ReuseLogs' = ReuseLogs
        /\ IsCurrent(Full(files))' <=> IsCurrent(Full(files))
        /\ IsNext(Full(files))' <=> IsNext(Full(files))
    BY <1>0, <1>10 DEF IsCurrent, IsNext, NextVersion, Snapshot, ReuseLogs
  <2>2. Fresh' <=> job.fresh
    BY <1>0 DEF Fresh
  <2>3. CASE job.fresh
    <3>1. /\ job.opening /\ ~ReuseLogs /\ recs = <<Snapshot, job.edit>>
          /\ Number(files) < vs.manifest /\ IsCurrent(Full(files))
      BY <1>0, <1>1, <2>3 DEF IInv, PhaseOK, recs
    <3>2. Len(recs) = 2
      BY <3>1
    <3>3. files'[d].recs = <<Snapshot, job.edit>> /\ files'[d].synced = 2 /\ Exists(d)'
      <4>1. files'[d].recs = <<Snapshot, job.edit>> /\ files'[d].synced = 2 /\ d \in DOMAIN files'
        BY <1>2, <1>3, <1>4, <3>1, <3>2
      <4>2. vs' = vs
        BY <1>0
      <4> QED BY <4>1, <4>2 DEF Exists
    <3> QED BY <1>0, <1>1, <1>6, <2>1, <2>2, <2>3, <3>1, <3>3 DEF PhaseOK
  <2>4. CASE ~job.fresh
    BY <1>0, <1>1, <1>2, <1>4, <1>6, <1>9, <2>1, <2>2, <2>4 DEF PhaseOK
  <2> QED BY <2>3, <2>4
<1>14. Keeps
  <2>1. CASE job.fresh
    <3>1. Store(files') = Store(files) /\ (~ReuseLogs => Stable(files') = Stable(files))
      BY <1>1, <1>6, <1>7, <1>8, <2>1, SameStore DEF Exists
    <3> QED BY <3>1 DEF Keeps
  <2>2. CASE ~job.fresh
    <3>1. Full(files) \in EditSet /\ SoundView(files, Full(files))
      BY <1>7, FullViews DEF ManifestFine
    <3>2. Entries(files', Full(files).added) = Entries(files, Full(files).added)
      BY <1>6, <3>1, SoundViewSame
    <3>3. AllLogs(files') = AllLogs(files) /\ AllSynced(files') = AllSynced(files)
      BY <1>6, SameLogsFacts
    <3>4. Store(files') = Store(files)
      BY <1>1, <1>6, <1>10, <3>2, <3>3 DEF Store, Data, Exists
    <3>5. ~ReuseLogs => Stable(files) \subseteq Stable(files')
      <4> SUFFICES ASSUME ~ReuseLogs, Durable(files).has PROVE Stable(files) \subseteq Stable(files')
        BY DEF Stable
      <4>1. Entries(files, Durable(files).added) \subseteq Entries(files, Full(files).added)
        BY <1>7 DEF ManifestFine
      <4> QED BY <1>1, <1>6, <1>7, <1>9, <2>2, <3>2, <3>3, <4>1 DEF Stable, Exists
    <3> QED BY <3>4, <3>5 DEF Keeps
  <2> QED BY <2>1, <2>2
<1> QED BY <1>12, <1>13, <1>14 DEF IInv
LEMMA AppendPrefix ==
  ASSUME NEW S, NEW s \in Seq(S), NEW e \in S, NEW k \in Nat, k <= Len(s)
  PROVE  SubSeq(Append(s, e), 1, k) = SubSeq(s, 1, k)
<1>1. Append(s, e) \in Seq(S) /\ Len(Append(s, e)) = Len(s) + 1 /\ \A i \in 1 .. Len(s) : Append(s, e)[i] = s[i]
  OBVIOUS
<1> DEFINE t == Append(s, e)
           a == SubSeq(t, 1, k)
           b == SubSeq(s, 1, k)
<1>2. t \in Seq(S) /\ Len(t) = Len(s) + 1 /\ \A i \in 1 .. Len(s) : t[i] = s[i]
  BY <1>1
<1> HIDE DEF t
<1>3. a \in Seq(S) /\ Len(a) = k /\ \A i \in 1 .. k : a[i] = t[i]
  BY <1>2
<1>4. b \in Seq(S) /\ Len(b) = k /\ \A i \in 1 .. k : b[i] = s[i]
  OBVIOUS
<1> HIDE DEF a, b
<1>5. Len(a) = Len(b) /\ \A i \in 1 .. Len(a) : a[i] = b[i]
  BY <1>2, <1>3, <1>4
<1>6. a = b
  BY <1>3, <1>4, <1>5
<1> QED BY <1>6 DEF a, b, t

LEMMA AppendPair ==
  ASSUME NEW a, NEW b
  PROVE  Append(<<a>>, b) = <<a, b>>
<1> DEFINE S == {a, b}
           s == <<a>>
           t == <<a, b>>
           r == Append(s, b)
<1>1. s \in Seq(S) /\ Len(s) = 1 /\ s[1] = a
  OBVIOUS
<1>2. t \in Seq(S) /\ Len(t) = 2 /\ t[1] = a /\ t[2] = b
  OBVIOUS
<1> HIDE DEF s, t
<1>3. r \in Seq(S) /\ Len(r) = 2 /\ r[1] = a /\ r[2] = b
  <2> HIDE DEF S
  <2>1. b \in S
    BY DEF S
  <2>2. /\ r \in Seq(S) /\ Len(r) = Len(s) + 1 /\ r[Len(s) + 1] = b
        /\ \A i \in 1 .. Len(s) : r[i] = s[i]
    BY <1>1, <2>1
  <2> HIDE DEF r
  <2>3. 1 \in 1 .. 1
    OBVIOUS
  <2> QED BY ONLY <1>1, <2>2, <2>3
<1> HIDE DEF r, S
<1>4. r = t
  <2>1. Len(r) = Len(t) /\ \A i \in 1 .. Len(r) : r[i] = t[i]
    <3>1. \A i \in 1 .. 2 : i = 1 \/ i = 2
      OBVIOUS
    <3> QED BY <1>2, <1>3, <3>1
  <2> QED BY <1>2, <1>3, <2>1
<1> QED BY <1>4 DEF r, s, t

LEMMA AddEditStep == IInv /\ AddEdit /\ ~Spoilt' /\ options_' = options_ => IInv' /\ Keeps
<1> SUFFICES ASSUME IInv, AddEdit, ~Spoilt', options_' = options_ PROVE IInv' /\ Keeps
  OBVIOUS
<1> DEFINE d == Descriptor(vs.manifest)
<1>0. /\ pc = "add" /\ pc' = "sync"
      /\ files' = [files EXCEPT ![d].recs = Append(@, job.edit)]
      /\ UNCHANGED <<options_, vs, job, pending, mem_, imm_, has_mem_, has_imm_, logfile_number_, bg_error_, w, pinned, created>>
  <2>1. Descriptor(vs.manifest) \notin torn
    BY DEF AddEdit, AppendTo, Spoilt
  <2> QED BY <2>1 DEF AddEdit, AppendTo, memory
<1>1. /\ TypeOK /\ FilesOK(files) /\ Applying /\ Ready /\ Running /\ Exists(CURRENT) /\ vs \in VersionsSet /\ job \in JobSet
      /\ vs.descriptor /\ (Fresh <=> job.fresh) /\ job.edit \in EditSet /\ job.edit.has
      /\ NextNext = job.edit.next /\ NextLast = job.edit.last
  BY <1>0 DEF IInv, TypeOK, OpenedOK, Applying, Ready, Running, PhaseOK, Fresh, JobSet, ApplyingOK, NextNext, NextLast
<1>2. /\ d \in DOMAIN files /\ vs.manifest \in Nat
      /\ files[d] \in [recs : Seq(EditSet), synced : Nat] /\ files[d].synced <= Len(files[d].recs)
      /\ ~job.fresh => Number(files) = vs.manifest /\ files[d] = Current(files)
  BY <1>1, ManifestFile
<1> DEFINE recs == files[d].recs
           synced == files[d].synced
           file == [recs |-> Append(recs, job.edit), synced |-> synced]
<1>3. /\ DOMAIN files' = DOMAIN files /\ files'[d] = file
      /\ \A g \in DOMAIN files : g # d => files'[g] = files[g]
  BY <1>0, <1>2
<1>4. /\ recs \in Seq(EditSet) /\ Len(recs) \in Nat /\ synced \in Nat /\ synced <= Len(recs)
      /\ file.recs = Append(recs, job.edit) /\ file.synced = synced
      /\ file \in [recs : Seq(EditSet), synced : Nat]
      /\ Len(Append(recs, job.edit)) = Len(recs) + 1
  <2>1. recs \in Seq(EditSet) /\ synced \in Nat /\ synced <= Len(recs)
    BY <1>2
  <2> HIDE DEF recs, synced
  <2>2. Append(recs, job.edit) \in Seq(EditSet) /\ Len(Append(recs, job.edit)) = Len(recs) + 1 /\ Len(recs) \in Nat
    BY <1>1, <2>1
  <2> QED BY <2>1, <2>2
<1> HIDE DEF file, recs, synced
<1>5. FilesOK(files')
  <2>1. FileOK(d, file)
    BY <1>4, Parts DEF FileOK
  <2>2. DOMAIN files' \subseteq {CURRENT} \cup {"MANIFEST", "log", "table", "dbtmp"} \X Nat
    BY <1>1, <1>3 DEF FilesOK
  <2> QED BY <1>1, <1>3, <2>1, <2>2, FilesOKKept
<1>6. /\ SameLogs(files, files') /\ SameTables(files, files')
      /\ CURRENT \in DOMAIN files' /\ files'[CURRENT] = files[CURRENT] /\ Number(files') = Number(files)
      /\ \A n \in Nat : Descriptor(n) \in DOMAIN files' => Descriptor(n) \in DOMAIN files
      /\ \A n \in Nat : TempFile(n) \in DOMAIN files' => TempFile(n) \in DOMAIN files
  <2>1. SameLogs(files, files')
    BY <1>3, Names DEF SameLogs, LogSet
  <2>2. SameTables(files, files')
    BY <1>3, Names DEF SameTables
  <2>3. CURRENT \in DOMAIN files' /\ files'[CURRENT] = files[CURRENT]
    BY <1>1, <1>3, Names DEF Exists
  <2> QED BY <1>3, <2>1, <2>2, <2>3 DEF Number
<1>7. ManifestFine(files, created, ReuseLogs) /\ Full(files).has /\ IsCurrent(Full(files))
  BY <1>0, <1>1 DEF IInv, ManifestOK, RunningOK, PhaseOK
<1>8. job.fresh => SameManifest(files, files')
  BY <1>1, <1>3, FreshSide
<1>9. ~job.fresh => /\ Says(Full(files'), vs.version, job.edit) /\ Durable(files') = Durable(files)
                    /\ Current(files').recs = Append(recs, job.edit) /\ Current(files').synced = synced
                    /\ (~ReuseLogs => Len(recs) = synced /\ Durable(files) = Full(files))
  <2> SUFFICES ASSUME ~job.fresh
               PROVE  /\ Says(Full(files'), vs.version, job.edit) /\ Durable(files') = Durable(files)
                      /\ Current(files').recs = Append(recs, job.edit) /\ Current(files').synced = synced
                      /\ (~ReuseLogs => Len(recs) = synced /\ Durable(files) = Full(files))
    OBVIOUS
  <2>1. Current(files') = file /\ Current(files).recs = recs /\ Current(files).synced = synced
    BY <1>2, <1>3, <1>6 DEF Current, recs, synced
  <2>2. Says(ReadManifest(Append(recs, job.edit)), Kept(recs), job.edit)
    BY <1>1, <1>4, ReadAppend
  <2>3. Kept(recs) = vs.version
    BY <1>7, <2>1, ReadHas DEF Full, IsCurrent
  <2>4. Durable(files') = Durable(files)
    <3>1. SubSeq(Append(recs, job.edit), 1, synced) = SubSeq(recs, 1, synced)
      BY <1>1, <1>4, AppendPrefix
    <3> QED BY <1>4, <2>1, <3>1 DEF Durable
  <2>5. ~ReuseLogs => Len(recs) = synced
    BY <1>0, <2>1 DEF IInv, PhaseOK
  <2>6. Len(recs) = synced => Durable(files) = Full(files)
    BY <1>4, <2>1, SubSeqFull DEF Durable, Full
  <2> QED BY <1>4, <2>1, <2>2, <2>3, <2>4, <2>5, <2>6 DEF Full
<1>10. ~job.fresh => /\ IsNext(Full(files')) /\ Full(files') \in EditSet
  BY <1>9 DEF Says, IsNext, NextVersion
<1>11. /\ Sound(files, NextVersion, job.edit.log, job.edit.next, job.edit.last)
       /\ job.edit.log < job.edit.next /\ NextVersion \in SUBSET TableSet
       /\ job.edit.log \in Nat /\ job.edit.next \in Nat /\ job.edit.last \in Nat
       /\ \A n \in Nat : Descriptor(n) \in DOMAIN files => n < job.edit.next
       /\ Entries(files, vs.version) \subseteq Entries(files, NextVersion)
       /\ Entries(files, NextVersion) \subseteq Data(files, vs.version)
       /\ Full(files).next <= job.edit.next /\ Full(files).last <= job.edit.last
  BY <1>1, NextVersionType DEF IInv, ApplyingOK, EditSet, Exists
<1>12. /\ Entries(files', vs.version) = Entries(files, vs.version)
       /\ Data(files', vs.version) = Data(files, vs.version)
       /\ Sound(files', NextVersion, job.edit.log, job.edit.next, job.edit.last)
       /\ Entries(files', NextVersion) = Entries(files, NextVersion)
       /\ AllLogs(files') = AllLogs(files) /\ AllSynced(files') = AllSynced(files)
  BY <1>1, <1>6, SameDataStep, SameLogsFacts
<1>13. ManifestFine(files', created, ReuseLogs)
  <2>1. CASE job.fresh
    BY <1>1, <1>6, <1>7, <1>8, <2>1, ManifestSame
  <2>2. CASE ~job.fresh
    <3>1. SoundView(files', Full(files'))
      <4>1. Number(files') < job.edit.next
        BY <1>2, <1>6, <1>11, <2>2
      <4>2. \A n \in Nat : Descriptor(n) \in DOMAIN files' => n <= job.edit.next
        BY <1>6, <1>11
      <4> QED BY <1>10, <1>11, <1>12, <2>2, <4>1, <4>2 DEF SoundView, IsNext
    <3>2. Durable(files) \in EditSet /\ (~ReuseLogs /\ Durable(files).has => SoundView(files, Durable(files)))
      BY <1>7 DEF ManifestFine, Views
    <3>3. ~ReuseLogs /\ Durable(files).has => SoundView(files', Durable(files))
      BY <1>6, <3>2, SoundViewSame
    <3>4. \A m \in Views(files', ReuseLogs) : SoundView(files', m)
      BY <1>9, <2>2, <3>1, <3>3 DEF Views
    <3>5. Descriptor(Number(files')) \in DOMAIN files'
      BY <1>2, <1>3, <1>6, <2>2
    <3>6. ReuseLogs => \A n \in Nat : Descriptor(n) \in DOMAIN files' => n = 1
      BY <1>6, <1>7 DEF ManifestFine
    <3>7. ~ReuseLogs => Len(Current(files').recs) <= Current(files').synced + 1
      BY <1>4, <1>9, <2>2
    <3>8. /\ Full(files').has /\ Full(files').added = NextVersion /\ Full(files').next = job.edit.next
          /\ Full(files').last = job.edit.last
      BY <1>10, <2>2 DEF IsNext
    <3>9. ~ReuseLogs => /\ Durable(files').has /\ Durable(files').added = vs.version
                        /\ Durable(files').next <= job.edit.next /\ Durable(files').last <= job.edit.last
      BY <1>7, <1>9, <1>11, <2>2 DEF IsCurrent
    <3>10. /\ Entries(files', vs.version) \subseteq Entries(files', NextVersion)
           /\ Entries(files', NextVersion) \subseteq Data(files', vs.version)
      BY <1>11, <1>12
    <3> QED BY <1>9, <1>10, <2>2, <3>2, <3>4, <3>5, <3>6, <3>7, <3>8, <3>9, <3>10 DEF ManifestFine
  <2> QED BY <2>1, <2>2
<1>14. /\ Full(files').has /\ Full(files').next <= NextNext /\ Full(files').last <= NextLast
       /\ (Full(files').added = vs.version \/ Full(files').added = NextVersion)
  <2>1. CASE job.fresh
    BY <1>1, <1>7, <1>8, <1>11, <2>1, SameManifestFacts DEF IsCurrent
  <2>2. CASE ~job.fresh
    BY <1>1, <1>10, <1>11, <2>2 DEF IsNext
  <2> QED BY <2>1, <2>2
<1>15. /\ TypeOK' /\ CreatingOK' /\ ManifestOK' /\ LogsAscend(files)' /\ MemoryOK' /\ OpenedOK'
       /\ RunningOK' /\ LogsOK' /\ ReadyOK' /\ ApplyingOK'
  <2>1. job.fresh => job.opening
    BY DEF IInv, PhaseOK
  <2>2. \A n \in Nat : Descriptor(n) \in DOMAIN files' => n < NextNext
    BY <1>1, <1>6, <1>11
  <2> HIDE DEF d
  <2> QED BY <1>0, <1>1, <1>5, <1>6, <1>13, <1>14, <2>1, <2>2, ApplyStep
<1>16. PhaseOK'
  <2>1. /\ Snapshot' = Snapshot /\ ReuseLogs' = ReuseLogs
        /\ IsCurrent(Full(files))' <=> IsCurrent(Full(files'))
        /\ IsCurrent(Durable(files))' <=> IsCurrent(Durable(files'))
        /\ IsNext(Full(files))' <=> IsNext(Full(files'))
    BY <1>0 DEF IsCurrent, IsNext, NextVersion, Snapshot, ReuseLogs
  <2>2. Fresh' <=> job.fresh
    BY <1>0 DEF Fresh
  <2>3. CASE job.fresh
    <3>1. /\ job.opening /\ ~ReuseLogs /\ recs = <<Snapshot>> /\ Number(files) < vs.manifest
      BY <1>0, <1>1, <2>3 DEF IInv, PhaseOK, recs
    <3>2. Append(<<Snapshot>>, job.edit) = <<Snapshot, job.edit>>
      BY AppendPair
    <3>3. files'[d].recs = <<Snapshot, job.edit>> /\ Exists(d)'
      <4>1. files'[d].recs = <<Snapshot, job.edit>> /\ d \in DOMAIN files'
        BY <1>2, <1>3, <1>4, <3>1, <3>2
      <4>2. vs' = vs
        BY <1>0
      <4> QED BY <4>1, <4>2 DEF Exists
    <3>4. IsCurrent(Full(files'))
      BY <1>7, <1>8, <2>3, SameManifestFacts
    <3> QED BY <1>0, <1>1, <1>6, <2>1, <2>2, <2>3, <3>1, <3>3, <3>4 DEF PhaseOK
  <2>4. CASE ~job.fresh
    <3>1. ~ReuseLogs => IsCurrent(Durable(files')) /\ Len(Current(files').recs) = Current(files').synced + 1
      BY <1>4, <1>7, <1>9, <2>4
    <3> QED BY <1>0, <1>1, <1>2, <1>6, <1>10, <2>1, <2>2, <2>4, <3>1 DEF PhaseOK
  <2> QED BY <2>3, <2>4
<1>17. Keeps
  <2>1. CASE job.fresh
    <3>1. Store(files') = Store(files) /\ (~ReuseLogs => Stable(files') = Stable(files))
      BY <1>1, <1>6, <1>7, <1>8, <2>1, SameStore DEF Exists
    <3> QED BY <3>1 DEF Keeps
  <2>2. CASE ~job.fresh
    <3>1. Store(files) = Data(files, vs.version)
      BY <1>1, <1>7 DEF Store, Exists, IsCurrent
    <3>2. Store(files') = Data(files', NextVersion)
      BY <1>6, <1>10, <2>2 DEF Store, IsNext
    <3>3. Store(files') = Store(files)
      BY <1>11, <1>12, <3>1, <3>2 DEF Data
    <3>4. ~ReuseLogs => Stable(files') = Stable(files)
      BY <1>1, <1>6, <1>7, <1>9, <1>12, <2>2 DEF Stable, Exists, IsCurrent
    <3> QED BY <3>3, <3>4 DEF Keeps
  <2> QED BY <2>1, <2>2
<1> QED BY <1>15, <1>16, <1>17 DEF IInv
\* What a manifest of one record says.
LEMMA ReadOne ==
  ASSUME NEW e \in EditSet
  PROVE  /\ e.has => Says(ReadManifest(<<e>>), {}, e)
         /\ e.deleted = {} => Kept(<<e>>) = e.added
<1>1. << >> \in Seq(EditSet) /\ Append(<< >>, e) = <<e>>
  OBVIOUS
<1>2. e.has => Says(ReadManifest(Append(<< >>, e)), Kept(<< >>), e)
  BY <1>1, ReadAppend
<1>3. Kept(Append(<< >>, e)) = ApplyEdit(Kept(<< >>), e)
  BY <1>1, KeptAppend
<1>4. Kept(<< >>) = {}
  BY KeptEmpty
<1>5. ApplyEdit({}, e) = e.added
  BY DEF ApplyEdit
<1> QED BY <1>1, <1>2, <1>3, <1>4, <1>5

LEMMA ReadEmpty == ReadManifest(<< >>) = NoEdit
<1>1. {n \in DOMAIN << >> : << >>[n].has} = {}
  OBVIOUS
<1> QED BY <1>1 DEF ReadManifest

\* The rename makes the manifest current that the temporary file names.
LEMMA RenameFiles ==
  ASSUME IInv, RenameCurrent
  PROVE  /\ vs.manifest \in Nat /\ TempFile(vs.manifest) \in DOMAIN files
         /\ DOMAIN files' = (DOMAIN files \cup {CURRENT}) \ {TempFile(vs.manifest)}
         /\ files'[CURRENT] = [recs |-> <<vs.manifest>>, synced |-> 1] /\ Number(files') = vs.manifest
         /\ \A g \in DOMAIN files : g # CURRENT /\ g # TempFile(vs.manifest) => files'[g] = files[g]
         /\ FilesOK(files') /\ SameLogs(files, files') /\ SameTables(files, files')
<1> DEFINE temp == TempFile(vs.manifest)
           fs == With(CURRENT, files[temp])
<1>0. pc = "rename" /\ files' = Without(fs, {temp})
  BY DEF RenameCurrent
<1>1. FilesOK(files) /\ vs.manifest \in Nat
  BY DEF IInv, TypeOK, VersionsSet
<1>2. temp \in DOMAIN files
  <2>1. Creating => vs.manifest = 1
    BY Constants DEF IInv, CreatingOK, NoVersions
  <2>2. ~Creating => Ready /\ Fresh
    BY <1>0 DEF IInv, PhaseOK, Creating, Ready, Applying, Fresh
  <2> QED BY <1>0, <2>1, <2>2 DEF IInv, CreatingOK, PhaseOK, Exists
<1>3. files[temp] = [recs |-> <<vs.manifest>>, synced |-> 1]
  BY <1>1, <1>2, FileTypes
<1>4. /\ DOMAIN fs = DOMAIN files \cup {CURRENT} /\ fs[CURRENT] = files[temp]
      /\ \A g \in DOMAIN files : g # CURRENT => fs[g] = files[g]
  BY DEF With
<1> HIDE DEF fs
<1>5. /\ DOMAIN files' = DOMAIN fs \ {temp}
      /\ \A g \in DOMAIN fs \ {temp} : files'[g] = fs[g]
  BY <1>0, WithoutFiles
<1>6. temp # CURRENT
  BY Names
<1>7. /\ DOMAIN files' = (DOMAIN files \cup {CURRENT}) \ {temp}
      /\ files'[CURRENT] = [recs |-> <<vs.manifest>>, synced |-> 1]
      /\ \A g \in DOMAIN files : g # CURRENT /\ g # temp => files'[g] = files[g]
  BY <1>3, <1>4, <1>5, <1>6
<1>8. FilesOK(files')
  <2>1. FileOK(CURRENT, files'[CURRENT])
    <3>1. CURRENT[1] = "CURRENT"
      BY Parts
    <3>2. <<vs.manifest>> \in Seq(Nat) /\ Len(<<vs.manifest>>) = 1
      BY <1>1
    <3> QED BY <1>1, <1>7, <3>1, <3>2 DEF FileOK
  <2>2. DOMAIN files' \subseteq {CURRENT} \cup {"MANIFEST", "log", "table", "dbtmp"} \X Nat
    BY <1>1, <1>7 DEF FilesOK
  <2> QED BY <1>1, <1>7, <2>1, <2>2, FilesOKKept
<1>9. SameLogs(files, files') /\ SameTables(files, files')
  BY <1>7, Names DEF SameLogs, LogSet, SameTables
<1>10. Number(files') = vs.manifest
  BY <1>7 DEF Number
<1> QED BY <1>1, <1>2, <1>7, <1>8, <1>9, <1>10

LEMMA RenameFirstStep ==
  ASSUME IInv, RenameCurrent, options_' = options_, ~job.edit.has
  PROVE  IInv' /\ Keeps
<1>0. /\ pc = "rename" /\ pc' = "recover"
      /\ UNCHANGED <<options_, vs, job, pending, mem_, imm_, has_mem_, has_imm_, logfile_number_, bg_error_, w, pinned, created>>
  BY DEF RenameCurrent, memory
<1>1. Creating /\ ~Exists(CURRENT) /\ ~created /\ DOMAIN files \subseteq {Descriptor(1), TempFile(1)}
      /\ TypeOK /\ vs.manifest = 1 /\ Descriptor(1) \in DOMAIN files
      /\ files[Descriptor(1)] = [recs |-> <<NewDBEdit>>, synced |-> 0]
  BY <1>0, Constants DEF IInv, CreatingOK, Creating, Exists, NoVersions
<1>2. /\ DOMAIN files' = (DOMAIN files \cup {CURRENT}) \ {TempFile(1)}
      /\ Number(files') = 1 /\ FilesOK(files') /\ SameLogs(files, files')
      /\ \A g \in DOMAIN files : g # CURRENT /\ g # TempFile(1) => files'[g] = files[g]
  BY <1>1, RenameFiles
<1>3. /\ CURRENT \in DOMAIN files' /\ Descriptor(1) \in DOMAIN files' /\ files'[Descriptor(1)] = files[Descriptor(1)]
      /\ \A n \in Nat : Descriptor(n) \in DOMAIN files' => n = 1
  BY <1>1, <1>2, Names
<1>4. LogSet(files') = {} /\ AllLogs(files') = {} /\ LogsAscend(files')
  BY <1>1, <1>2, NoLogs, SameLogsFacts
<1>5. /\ Says(Full(files'), {}, NewDBEdit) /\ Durable(files') = NoEdit
      /\ Len(Current(files').recs) = 1 /\ Current(files').synced = 0
  <2>1. Current(files') = [recs |-> <<NewDBEdit>>, synced |-> 0]
    BY <1>1, <1>2, <1>3 DEF Current
  <2>2. SubSeq(<<NewDBEdit>>, 1, 0) = << >> /\ Len(<<NewDBEdit>>) = 1
    OBVIOUS
  <2>3. NewDBEdit \in EditSet /\ NewDBEdit.has
    BY Constants
  <2>4. Says(ReadManifest(<<NewDBEdit>>), {}, NewDBEdit)
    BY <2>3, ReadOne
  <2>5. Full(files') = ReadManifest(<<NewDBEdit>>) /\ Durable(files') = ReadManifest(<< >>)
    <3>1. Current(files').recs = <<NewDBEdit>> /\ SubSeq(Current(files').recs, 1, Current(files').synced) = << >>
      BY <2>1, <2>2
    <3> QED BY ONLY <3>1, Zenon DEF Full, Durable
  <2> QED BY <2>1, <2>2, <2>4, <2>5, ReadEmpty
<1>6. /\ Full(files').added = {} /\ Full(files').log = 0 /\ Full(files').next = 2 /\ Full(files').last = 0
      /\ Full(files').has /\ Full(files') \in EditSet
  BY <1>5, Constants DEF Says, ApplyEdit
<1>7. ManifestFine(files', created, ReuseLogs)
  <2>1. Entries(files', {}) = {}
    BY DEF Entries
  <2>2. Sound(files', {}, 0, 2, 0)
    BY <1>4, <2>1 DEF Sound, LevelsAscend
  <2>3. SoundView(files', Full(files'))
    BY <1>2, <1>3, <1>6, <2>2 DEF SoundView
  <2>4. Durable(files') \in EditSet /\ ~Durable(files').has
    BY <1>5, Constants
  <2>5. \A m \in Views(files', ReuseLogs) : m = Full(files')
    BY <2>4 DEF Views
  <2> QED BY <1>1, <1>2, <1>3, <1>4, <1>5, <1>6, <2>3, <2>4, <2>5 DEF ManifestFine
<1>8. TypeOK'
  BY <1>0, <1>1, <1>2 DEF TypeOK, PCs
<1>9. CreatingOK' /\ ManifestOK' /\ LogsAscend(files)'
  BY <1>0, <1>3, <1>4, <1>7 DEF CreatingOK, Creating, Exists, ManifestOK, ReuseLogs
<1>15. ~Opened /\ ~Opened'
  BY <1>0, <1>1, Constants DEF IInv, CreatingOK, Opened, NoJob
<1>10. MemoryOK'
  BY <1>0, <1>1, <1>15 DEF IInv, MemoryOK, Creating
<1>11. OpenedOK'
  <2> QED BY <1>0, <1>3, <1>15 DEF IInv, OpenedOK, MemoryOK, Exists, Missing
<1>12. RunningOK' /\ LogsOK' /\ ReadyOK' /\ ApplyingOK'
  BY <1>0 DEF RunningOK, LogsOK, ReadyOK, ApplyingOK, Running, Ready, Applying
<1>13. PhaseOK'
  BY <1>0 DEF IInv, PhaseOK, Ready, Applying, Fresh
<1>14. Keeps
  <2>1. Store(files) = {} /\ Stable(files) = {}
    BY <1>1 DEF Store, Stable, Exists
  <2>2. Entries(files', {}) = {}
    BY DEF Entries
  <2>3. Store(files') = {}
    BY <1>3, <1>4, <1>6, <2>2 DEF Store, Data
  <2> QED BY <2>1, <2>3 DEF Keeps
<1> QED BY <1>8, <1>9, <1>10, <1>11, <1>12, <1>13, <1>14 DEF IInv
LEMMA RenameNextStep ==
  ASSUME IInv, RenameCurrent, options_' = options_, job.edit.has
  PROVE  IInv' /\ Keeps
<1> DEFINE d == Descriptor(vs.manifest)
<1>0. /\ pc = "rename" /\ pc' = "install"
      /\ UNCHANGED <<options_, vs, job, pending, mem_, imm_, has_mem_, has_imm_, logfile_number_, bg_error_, w, pinned, created>>
  BY DEF RenameCurrent, memory
<1>1. /\ TypeOK /\ FilesOK(files) /\ Applying /\ Ready /\ Running /\ Exists(CURRENT) /\ vs \in VersionsSet /\ job \in JobSet
      /\ vs.descriptor /\ Fresh /\ job.fresh /\ job.opening /\ ~ReuseLogs /\ job.edit \in EditSet
      /\ NextNext = job.edit.next /\ NextLast = job.edit.last
  BY <1>0 DEF IInv, TypeOK, OpenedOK, Applying, Ready, Running, PhaseOK, Fresh, JobSet, NextNext, NextLast
<1>2. /\ IsCurrent(Full(files)) /\ d \in DOMAIN files
      /\ files[d].recs = <<Snapshot, job.edit>> /\ files[d].synced = 2
  BY <1>0, <1>1 DEF IInv, PhaseOK, Exists
<1>3. /\ vs.manifest \in Nat
      /\ DOMAIN files' = (DOMAIN files \cup {CURRENT}) \ {TempFile(vs.manifest)}
      /\ Number(files') = vs.manifest
      /\ \A g \in DOMAIN files : g # CURRENT /\ g # TempFile(vs.manifest) => files'[g] = files[g]
      /\ FilesOK(files') /\ SameLogs(files, files') /\ SameTables(files, files')
  BY <1>1, RenameFiles
<1>4. /\ CURRENT \in DOMAIN files' /\ d \in DOMAIN files' /\ files'[d] = files[d]
      /\ \A n \in Nat : Descriptor(n) \in DOMAIN files' => Descriptor(n) \in DOMAIN files
      /\ \A n \in Nat : TempFile(n) \in DOMAIN files' => TempFile(n) \in DOMAIN files
  BY <1>2, <1>3, Names
<1>5. /\ Says(Full(files'), vs.version, job.edit) /\ Durable(files') = Full(files')
      /\ Len(Current(files').recs) = 2 /\ Current(files').synced = 2
  <2> DEFINE recs == <<Snapshot, job.edit>>
  <2>1. Current(files').recs = recs /\ Current(files').synced = 2
    BY <1>2, <1>3, <1>4 DEF Current
  <2>2. Snapshot \in EditSet /\ Snapshot.deleted = {} /\ Snapshot.added = vs.version
    <3>1. vs.version \in SUBSET TableSet
      BY <1>1 DEF VersionsSet
    <3> QED BY <3>1 DEF Snapshot, NoEdit, EditSet
  <2>3. <<Snapshot>> \in Seq(EditSet)
    BY <2>2
  <2>4. Says(ReadManifest(Append(<<Snapshot>>, job.edit)), Kept(<<Snapshot>>), job.edit)
    BY <1>1, <2>3, ReadAppend
  <2>5. Kept(<<Snapshot>>) = vs.version
    BY <2>2, ReadOne
  <2>6. Append(<<Snapshot>>, job.edit) = recs
    BY AppendPair
  <2>7. recs \in Seq(EditSet) /\ Len(recs) = 2
    BY <1>1, <2>2
  <2> HIDE DEF recs
  <2>8. SubSeq(recs, 1, 2) = recs
    BY <2>7, SubSeqFull
  <2>9. Full(files') = ReadManifest(recs) /\ Durable(files') = ReadManifest(recs)
    BY <2>1, <2>8 DEF Full, Durable
  <2> QED BY <2>1, <2>4, <2>5, <2>6, <2>7, <2>9
<1>6. IsNext(Full(files')) /\ Full(files') \in EditSet
  BY <1>5 DEF Says, IsNext, NextVersion
<1>7. /\ Sound(files, NextVersion, job.edit.log, job.edit.next, job.edit.last)
      /\ job.edit.log < job.edit.next /\ NextVersion \in SUBSET TableSet
      /\ job.edit.log \in Nat /\ job.edit.next \in Nat /\ job.edit.last \in Nat
      /\ \A n \in Nat : Descriptor(n) \in DOMAIN files => n < job.edit.next
      /\ Entries(files, vs.version) \subseteq Entries(files, NextVersion)
      /\ Entries(files, NextVersion) \subseteq Data(files, vs.version)
  BY <1>1, NextVersionType DEF IInv, ApplyingOK, EditSet, Exists
<1>8. /\ Sound(files', NextVersion, job.edit.log, job.edit.next, job.edit.last)
      /\ Entries(files', NextVersion) = Entries(files, NextVersion)
      /\ AllLogs(files') = AllLogs(files) /\ AllSynced(files') = AllSynced(files)
  BY <1>1, <1>3, SameDataStep, SameLogsFacts
<1>9. ManifestFine(files', created, ReuseLogs)
  <2>1. SoundView(files', Full(files'))
    <3>1. Number(files') < job.edit.next
      BY <1>2, <1>3, <1>7
    <3>2. \A n \in Nat : Descriptor(n) \in DOMAIN files' => n <= job.edit.next
      BY <1>4, <1>7
    <3> QED BY <1>6, <1>7, <1>8, <3>1, <3>2 DEF SoundView, IsNext
  <2>2. \A m \in Views(files', ReuseLogs) : SoundView(files', m)
    BY <1>5, <2>1 DEF Views
  <2>3. Descriptor(Number(files')) \in DOMAIN files'
    BY <1>3, <1>4
  <2>4. Full(files').next <= Full(files').next /\ Full(files').last <= Full(files').last
    BY <1>6 DEF EditSet
  <2>5. Full(files').has /\ Entries(files', Full(files').added) \subseteq Data(files', Full(files').added)
    BY <1>6 DEF IsNext, Data
  <2> QED BY <1>1, <1>5, <1>6, <2>2, <2>3, <2>4, <2>5 DEF ManifestFine
<1>10. /\ TypeOK' /\ CreatingOK' /\ ManifestOK' /\ LogsAscend(files)' /\ MemoryOK' /\ OpenedOK'
       /\ RunningOK' /\ LogsOK' /\ ReadyOK' /\ ApplyingOK'
  <2>1. /\ Full(files').has /\ Full(files').next <= NextNext /\ Full(files').last <= NextLast
        /\ Full(files').added = NextVersion
    BY <1>1, <1>6, <1>7 DEF IsNext
  <2>2. \A n \in Nat : Descriptor(n) \in DOMAIN files' => n < NextNext
    BY <1>1, <1>4, <1>7
  <2> HIDE DEF d
  <2> QED BY <1>0, <1>1, <1>3, <1>4, <1>9, <2>1, <2>2, ApplyStep
<1>11. PhaseOK'
  <2>1. /\ ReuseLogs' = ReuseLogs /\ (IsNext(Full(files))' <=> IsNext(Full(files')))
        /\ Current(files)' = Current(files')
    BY <1>0 DEF IsNext, NextVersion, ReuseLogs
  <2>2. ~Fresh'
    BY <1>0 DEF Fresh
  <2> QED BY <1>0, <1>1, <1>3, <1>5, <1>6, <2>1, <2>2 DEF PhaseOK
<1>12. Keeps
  <2>1. Store(files) = Data(files, vs.version) /\ Full(files).has
    BY <1>1, <1>2 DEF Store, Exists, IsCurrent
  <2>2. Store(files') = Data(files', NextVersion)
    BY <1>4, <1>6 DEF Store, IsNext
  <2>3. Store(files') = Store(files)
    BY <1>7, <1>8, <2>1, <2>2 DEF Data
  <2>4. Durable(files).has => Entries(files, Durable(files).added) \subseteq Entries(files, vs.version)
    BY <1>1, <1>2 DEF IInv, ManifestOK, ManifestFine, IsCurrent
  <2>5. Stable(files') = Entries(files', NextVersion) \cup AllSynced(files')
    BY <1>4, <1>5, <1>6 DEF Stable, IsNext
  <2>6. Stable(files) \subseteq Stable(files')
    BY <1>7, <1>8, <2>4, <2>5 DEF Stable
  <2> QED BY <2>3, <2>6 DEF Keeps
<1> QED BY <1>10, <1>11, <1>12 DEF IInv

LEMMA RenameCurrentStep == IInv /\ RenameCurrent /\ options_' = options_ => IInv' /\ Keeps
BY RenameFirstStep, RenameNextStep
-----------------------------------------------------------------------------
(* Logs and tables that are written *)

\* The tables in use stay, and logs get no entry but the one of the write under way.
Grows ==
  /\ SameManifest(files, files')
  /\ \A n \in Nat : Descriptor(n) \in DOMAIN files' => Descriptor(n) \in DOMAIN files
  /\ \A n \in Nat : n < vs.next /\ TableFile(n) \in DOMAIN files =>
       TableFile(n) \in DOMAIN files' /\ files'[TableFile(n)] = files[TableFile(n)]
  /\ \A n \in LogSet(files) : n \in LogSet(files') /\ LogEntries(files, n) \subseteq LogEntries(files', n)
  /\ \A n \in LogSet(files') : \A x \in LogEntries(files', n) :
       \/ n \in LogSet(files) /\ x \in LogEntries(files, n)
       \/ Opened /\ ~bg_error_ /\ n = logfile_number_ /\ x = vs.last + 1

\* The tables of the versions in use, and the views of the manifest.
LEMMA InUse ==
  ASSUME IInv, Running
  PROVE  /\ vs.next \in Nat /\ vs.last \in Nat /\ Exists(CURRENT) /\ Full(files).has
         /\ \A m \in Views(files, ReuseLogs) :
              /\ m \in EditSet /\ m.next <= vs.next /\ m.last <= vs.last
              /\ \A t \in m.added : t.num \in Nat /\ t.num < vs.next /\ TableFile(t.num) \in DOMAIN files
              /\ \A a \in Entries(files, m.added) : a \in Nat /\ a <= vs.last
         /\ \A t \in vs.version : t.num \in Nat /\ t.num < vs.next /\ TableFile(t.num) \in DOMAIN files
         /\ \A a \in Entries(files, vs.version) : a \in Nat /\ a <= vs.last
         /\ Applying => /\ \A t \in NextVersion : t.num \in Nat /\ t.num < vs.next /\ TableFile(t.num) \in DOMAIN files
                        /\ \A a \in Entries(files, NextVersion) : a \in Nat /\ a <= vs.last
<1>1. /\ FilesOK(files) /\ vs.next \in Nat /\ vs.last \in Nat /\ vs.version \in SUBSET TableSet
      /\ NextVersion \in SUBSET TableSet /\ NextNext \in Nat /\ NextLast \in Nat
  BY NextVersionType DEF IInv, TypeOK, VersionsSet, NextNext, NextLast, JobSet, EditSet
<1>2. /\ Exists(CURRENT) /\ Full(files).has /\ Full(files).next <= vs.next /\ Full(files).last <= vs.last
      /\ ManifestFine(files, created, ReuseLogs) /\ Sound(files, vs.version, vs.log, vs.next, vs.last)
  BY DEF IInv, OpenedOK, RunningOK, ManifestOK
<1>3. ASSUME NEW m \in Views(files, ReuseLogs)
      PROVE  /\ m \in EditSet /\ m.next <= vs.next /\ m.last <= vs.last
             /\ \A t \in m.added : t.num \in Nat /\ t.num < vs.next /\ TableFile(t.num) \in DOMAIN files
             /\ \A a \in Entries(files, m.added) : a \in Nat /\ a <= vs.last
  <2>1. /\ m \in EditSet /\ m.added \in SUBSET TableSet /\ m.next \in Nat /\ m.last \in Nat
        /\ Sound(files, m.added, m.log, m.next, m.last)
    BY <1>2, ViewFacts
  <2>2. Full(files).next \in Nat /\ Full(files).last \in Nat
    BY <1>2 DEF ManifestFine, EditSet
  <2>3. m.next <= Full(files).next /\ m.last <= Full(files).last
    <3>1. CASE m = Full(files)
      BY <2>2, <3>1
    <3>2. CASE m # Full(files)
      <4>1. ~ReuseLogs /\ m = Durable(files) /\ m.has
        BY <3>2 DEF Views
      <4> QED BY <1>2, <4>1 DEF ManifestFine
    <3> QED BY <3>1, <3>2
  <2>4. m.next <= vs.next /\ m.last <= vs.last
    BY <1>1, <1>2, <2>1, <2>2, <2>3
  <2>5. \A t \in m.added : t.num \in Nat /\ t.num < m.next /\ TableFile(t.num) \in DOMAIN files
    BY <2>1 DEF Sound, TableSet
  <2>6. \A a \in Entries(files, m.added) : a \in Nat /\ a <= m.last
    BY <1>1, <2>1, <2>5, EntriesTypes DEF Sound
  <2> QED BY <1>1, <2>1, <2>4, <2>5, <2>6
<1>4. \A t \in vs.version : t.num \in Nat /\ t.num < vs.next /\ TableFile(t.num) \in DOMAIN files
  BY <1>1, <1>2 DEF Sound, TableSet
<1>5. \A a \in Entries(files, vs.version) : a \in Nat /\ a <= vs.last
  BY <1>1, <1>2, <1>4, EntriesTypes DEF Sound
<1>6. ASSUME Applying
      PROVE  /\ \A t \in NextVersion : t.num \in Nat /\ t.num < vs.next /\ TableFile(t.num) \in DOMAIN files
             /\ \A a \in Entries(files, NextVersion) : a \in Nat /\ a <= vs.last
  <2>1. /\ Sound(files, NextVersion, job.edit.log, NextNext, NextLast)
        /\ NextNext <= vs.next /\ NextLast <= vs.last
    BY <1>6 DEF IInv, ApplyingOK
  <2>2. \A t \in NextVersion : t.num \in Nat /\ t.num < NextNext /\ TableFile(t.num) \in DOMAIN files
    BY <1>1, <2>1 DEF Sound, TableSet
  <2>3. \A a \in Entries(files, NextVersion) : a \in Nat /\ a <= NextLast
    BY <1>1, <2>1, <2>2, EntriesTypes DEF Sound
  <2> QED BY <1>1, <2>1, <2>2, <2>3
<1> QED BY <1>1, <1>2, <1>3, <1>4, <1>5, <1>6
\* While writes go on, what the manifest says is the version before the edit or after it.
LEMMA OpenViews ==
  ASSUME IInv, Opened, ~bg_error_
  PROVE  /\ \A m \in Views(files, ReuseLogs) : m.log <= logfile_number_
         /\ ~ReuseLogs => Durable(files).has
<1>1. Ready /\ Running /\ Exists(CURRENT) /\ ~Fresh /\ Full(files).has /\ created
      /\ pc \in {"gc", "open", "apply", "add", "sync", "install"} /\ (pc = "open" \/ ~job.opening)
  <2>1. pc \in PCs /\ pc \notin {"tmp", "rename"}
    BY OpenedReady DEF IInv, TypeOK
  <2> QED BY <2>1, OpenedReady DEF PCs, Opened
<1>2. vs.log <= logfile_number_ /\ (Applying => job.edit.log <= logfile_number_)
  BY <1>1 DEF IInv, ReadyOK, ApplyingOK
<1>3. ManifestFine(files, created, ReuseLogs)
  BY <1>1 DEF IInv, ManifestOK
<1>4. /\ pc \in {"gc", "open", "apply", "add"} => IsCurrent(Full(files))
      /\ pc \in {"sync", "install"} => IsNext(Full(files)) /\ Applying
      /\ ~ReuseLogs => IF pc = "sync" THEN IsCurrent(Durable(files))
                       ELSE Len(Current(files).recs) = Current(files).synced
  BY <1>1 DEF IInv, PhaseOK, Applying, Fresh
<1>5. Full(files).log <= logfile_number_
  BY <1>1, <1>2, <1>4 DEF IsCurrent, IsNext
<1>6. Len(Current(files).recs) = Current(files).synced => Durable(files) = Full(files)
  <2>1. CURRENT \in DOMAIN files /\ Descriptor(Number(files)) \in DOMAIN files /\ FilesOK(files)
    BY <1>1, <1>3 DEF ManifestFine, IInv, TypeOK, Exists
  <2>2. \E n \in Nat : files[CURRENT] = [recs |-> <<n>>, synced |-> 1]
    BY <2>1, FileTypes
  <2>3. Number(files) \in Nat
    BY <2>2 DEF Number
  <2>4. Current(files).recs \in Seq(EditSet)
    BY <2>1, <2>3, FileTypes DEF Current
  <2> QED BY <2>4, SubSeqFull DEF Durable, Full
<1>7. ~ReuseLogs => Durable(files).has /\ Durable(files).log <= logfile_number_
  <2>1. CASE pc = "sync"
    BY <1>2, <1>4, <2>1 DEF IsCurrent
  <2>2. CASE pc # "sync"
    BY <1>1, <1>4, <1>5, <1>6, <2>2
  <2> QED BY <2>1, <2>2
<1> QED BY <1>5, <1>7 DEF Views

\* Then what the invariant says of tables and manifest stays true.
LEMMA GrowStep ==
  ASSUME IInv, Running, Grows
  PROVE  /\ Sound(files', vs.version, vs.log, vs.next, vs.last)
         /\ Entries(files', vs.version) = Entries(files, vs.version)
         /\ Applying => /\ Sound(files', NextVersion, job.edit.log, NextNext, NextLast)
                        /\ Entries(files', NextVersion) = Entries(files, NextVersion)
         /\ ManifestFine(files', created, ReuseLogs)
         /\ \A m \in Views(files, ReuseLogs) : Entries(files', m.added) = Entries(files, m.added)
         /\ CURRENT \in DOMAIN files' /\ Number(files') = Number(files) /\ Current(files') = Current(files)
         /\ Full(files') = Full(files) /\ Durable(files') = Durable(files)
         /\ AllLogs(files) \subseteq AllLogs(files')
         /\ Entries(files', vs.version) \subseteq Data(files', Full(files').added)
         /\ Entries(files', Full(files').added) \subseteq Data(files', vs.version)
         /\ Applying => /\ Entries(files', vs.version) \subseteq Entries(files', NextVersion)
                        /\ Entries(files', NextVersion) \subseteq Data(files', vs.version)
<1>1. /\ FilesOK(files) /\ vs.next \in Nat /\ vs.last \in Nat /\ Exists(CURRENT) /\ Full(files).has
      /\ ManifestFine(files, created, ReuseLogs)
      /\ Sound(files, vs.version, vs.log, vs.next, vs.last)
  BY InUse DEF IInv, TypeOK, ManifestOK, RunningOK
<1>2. /\ CURRENT \in DOMAIN files' /\ Number(files') = Number(files) /\ Current(files') = Current(files)
      /\ Full(files') = Full(files) /\ Durable(files') = Durable(files)
  <2>1. SameManifest(files, files')
    BY DEF Grows
  <2> QED BY <2>1, SameManifestFacts DEF SameManifest
<1> DEFINE Stays(T) == \A t \in T : TableFile(t.num) \in DOMAIN files' /\ files'[TableFile(t.num)] = files[TableFile(t.num)]
<1>3. /\ Stays(vs.version) /\ (Applying => Stays(NextVersion))
      /\ \A m \in Views(files, ReuseLogs) : Stays(m.added)
  BY InUse DEF Grows
<1>4. ASSUME Opened, ~bg_error_
      PROVE  /\ logfile_number_ \in Nat /\ vs.log \in Nat /\ vs.log <= logfile_number_
             /\ Applying => job.edit.log \in Nat /\ job.edit.log <= logfile_number_
  <2>1. Ready
    BY <1>4, OpenedReady
  <2> QED BY <2>1 DEF IInv, TypeOK, ReadyOK, ApplyingOK, VersionsSet, JobSet, EditSet
<1>5. Sound(files', vs.version, vs.log, vs.next, vs.last)
  <2>1. ASSUME NEW n \in LogSet(files'), NEW x \in LogEntries(files', n)
        PROVE  \/ n \in LogSet(files) /\ x \in LogEntries(files, n)
               \/ n >= vs.log /\ ~(n < vs.log) /\ \A a \in Entries(files, vs.version) : a < x
    <3>1. CASE n \in LogSet(files) /\ x \in LogEntries(files, n)
      BY <3>1
    <3>2. CASE Opened /\ ~bg_error_ /\ n = logfile_number_ /\ x = vs.last + 1
      BY <1>1, <1>4, <3>2, InUse
    <3> QED BY <3>1, <3>2 DEF Grows
  <2> QED BY <1>1, <1>3, <2>1, SoundKept
<1>6. ASSUME Applying PROVE Sound(files', NextVersion, job.edit.log, NextNext, NextLast)
  <2>0. Sound(files, NextVersion, job.edit.log, NextNext, NextLast)
    BY <1>6 DEF IInv, ApplyingOK
  <2>1. ASSUME NEW n \in LogSet(files'), NEW x \in LogEntries(files', n)
        PROVE  \/ n \in LogSet(files) /\ x \in LogEntries(files, n)
               \/ n >= job.edit.log /\ ~(n < job.edit.log) /\ \A a \in Entries(files, NextVersion) : a < x
    <3>1. CASE n \in LogSet(files) /\ x \in LogEntries(files, n)
      BY <3>1
    <3>2. CASE Opened /\ ~bg_error_ /\ n = logfile_number_ /\ x = vs.last + 1
      BY <1>1, <1>4, <1>6, <3>2, InUse
    <3> QED BY <3>1, <3>2 DEF Grows
  <2> QED BY <1>3, <1>6, <2>0, <2>1, SoundKept
<1>7. /\ Entries(files', vs.version) = Entries(files, vs.version)
      /\ Applying => Entries(files', NextVersion) = Entries(files, NextVersion)
      /\ \A m \in Views(files, ReuseLogs) : Entries(files', m.added) = Entries(files, m.added)
  <2>1. ASSUME NEW T, Stays(T) PROVE Entries(files', T) = Entries(files, T)
    BY <2>1, SameEntries
  <2> HIDE DEF Stays
  <2> QED BY <1>3, <2>1
<1>8. AllLogs(files) \subseteq AllLogs(files')
  BY DEF Grows, AllLogs
<1>9. ManifestFine(files', created, ReuseLogs)
  <2>1. \A m \in Views(files, ReuseLogs) : \A n \in LogSet(files') : \A x \in LogEntries(files', n) :
           \/ n \in LogSet(files) /\ x \in LogEntries(files, n)
           \/ n >= m.log /\ \A a \in Entries(files, m.added) : a < x
    <3> SUFFICES ASSUME NEW m \in Views(files, ReuseLogs), NEW n \in LogSet(files'), NEW x \in LogEntries(files', n),
                        Opened, ~bg_error_, n = logfile_number_, x = vs.last + 1
                 PROVE  n >= m.log /\ \A a \in Entries(files, m.added) : a < x
      BY DEF Grows
    <3>1. m.log <= logfile_number_
      BY OpenViews
    <3>2. m.log \in Nat /\ logfile_number_ \in Nat
      BY <1>1, <1>4, ViewFacts
    <3> QED BY <1>1, <3>1, <3>2, InUse
  <2>2. \A l \in LogSet(files) : \E k \in LogSet(files') : l <= k
    <3>1. \A l \in LogSet(files) : l <= l /\ l \in LogSet(files')
      BY DEF LogSet, Grows
    <3> QED BY <3>1
  <2>3. ~ReuseLogs /\ ~Durable(files).has => AllLogs(files') = {}
    <3> SUFFICES ASSUME ~ReuseLogs, ~Durable(files).has PROVE AllLogs(files') = {}
      OBVIOUS
    <3>1. AllLogs(files) = {} /\ ~(Opened /\ ~bg_error_)
      BY <1>1, OpenViews DEF ManifestFine
    <3> QED BY <3>1 DEF Grows, AllLogs
  <2>4. AllLogs(files) \subseteq Data(files', Durable(files).added)
    BY <1>8 DEF Data
  <2>5. \A n \in Nat : Descriptor(n) \in DOMAIN files' => Descriptor(n) \in DOMAIN files
    BY DEF Grows
  <2>6. SameManifest(files, files')
    BY DEF Grows
  <2> QED BY <1>1, <1>3, <2>1, <2>2, <2>3, <2>4, <2>5, <2>6, ManifestKept
<1>10. /\ Entries(files', vs.version) \subseteq Data(files', Full(files').added)
       /\ Entries(files', Full(files').added) \subseteq Data(files', vs.version)
  <2>1. Entries(files', Full(files).added) = Entries(files, Full(files).added)
    BY <1>1, <1>7, FullViews
  <2>2. /\ Entries(files, vs.version) \subseteq Data(files, Full(files).added)
        /\ Entries(files, Full(files).added) \subseteq Data(files, vs.version)
    BY DEF IInv, RunningOK
  <2> QED BY <1>2, <1>7, <1>8, <2>1, <2>2 DEF Data
<1>11. Applying => /\ Entries(files', vs.version) \subseteq Entries(files', NextVersion)
                   /\ Entries(files', NextVersion) \subseteq Data(files', vs.version)
  BY <1>7, <1>8 DEF IInv, ApplyingOK, Data
<1> QED BY <1>2, <1>5, <1>6, <1>7, <1>8, <1>9, <1>10, <1>11
\* What can be recovered then.
LEMMA GrowStore ==
  ASSUME IInv, Running, Grows
  PROVE  /\ Store(files) = Entries(files, Full(files).added) \cup AllLogs(files)
         /\ Store(files') = Entries(files, Full(files).added) \cup AllLogs(files')
         /\ ~ReuseLogs /\ AllSynced(files) \subseteq AllSynced(files') => Stable(files) \subseteq Stable(files')
<1>1. /\ Exists(CURRENT) /\ CURRENT \in DOMAIN files' /\ Full(files).has
      /\ Full(files') = Full(files) /\ Durable(files') = Durable(files)
      /\ \A m \in Views(files, ReuseLogs) : Entries(files', m.added) = Entries(files, m.added)
  BY InUse, GrowStep
<1>2. Entries(files', Full(files).added) = Entries(files, Full(files).added)
  BY <1>1, FullViews
<1>3. ~ReuseLogs /\ Durable(files).has => Entries(files', Durable(files).added) = Entries(files, Durable(files).added)
  BY <1>1 DEF Views
<1> QED BY <1>1, <1>2, <1>3 DEF Store, Data, Stable, Exists

LEMMA AppendSet ==
  ASSUME NEW S, NEW s \in Seq(S), NEW e \in S
  PROVE  ToSet(Append(s, e)) = ToSet(s) \cup {e}
<1> DEFINE t == Append(s, e)
<1>1. /\ DOMAIN s = 1 .. Len(s) /\ DOMAIN t = 1 .. Len(s) + 1 /\ Len(s) \in Nat
      /\ t[Len(s) + 1] = e /\ \A i \in 1 .. Len(s) : t[i] = s[i]
  OBVIOUS
<1> HIDE DEF t
<1>2. 1 .. Len(s) + 1 = (1 .. Len(s)) \cup {Len(s) + 1}
  BY <1>1
<1>3. ToSet(t) = ToSet(s) \cup {e}
  BY ONLY <1>1, <1>2 DEF ToSet
<1> QED BY <1>3 DEF t

\* The log in use gets a record, or what it has is synced.
LEMMA LogWriteStep ==
  ASSUME IInv, Opened, NEW file \in [recs : Seq(Nat), synced : Nat], file.synced <= Len(file.recs),
         UNCHANGED <<options_, pc, vs, job, pending, mem_, imm_, has_mem_, has_imm_, logfile_number_, bg_error_, pinned, created>>,
         w' \in [at : {"idle", "sync", "insert"}, sync : BOOLEAN], w'.at # "idle",
         DOMAIN files' = DOMAIN files, files'[LogFile(logfile_number_)] = file,
         \A g \in DOMAIN files : g # LogFile(logfile_number_) => files'[g] = files[g],
         \/ w.at # "idle" /\ file.recs = files[LogFile(logfile_number_)].recs
         \/ w.at = "idle" /\ ~bg_error_ /\ file.recs = Append(files[LogFile(logfile_number_)].recs, vs.last + 1),
         SyncedEntries(files, logfile_number_) \subseteq SyncedEntries(files', logfile_number_),
         w'.at = "insert" /\ w'.sync => vs.last + 1 \in SyncedEntries(files', logfile_number_)
  PROVE  /\ IInv' /\ (~ReuseLogs => Stable(files) \subseteq Stable(files'))
         /\ Store(files') = IF w.at = "idle" THEN Store(files) \cup {vs.last + 1} ELSE Store(files)
<1> DEFINE num == logfile_number_
<1>1. /\ Ready /\ Running /\ Exists(CURRENT) /\ pc \notin {"tmp", "rename"} /\ ~Creating /\ ~Fresh /\ created
      /\ TypeOK /\ FilesOK(files) /\ vs.last \in Nat /\ vs.next \in Nat
      /\ pc \notin {"closed", "newdb", "recover"}
  BY OpenedReady, InUse DEF IInv, TypeOK, Opened
<1>2. /\ num \in LogSet(files) /\ num \in Nat /\ LogFile(num) \in DOMAIN files
      /\ files[LogFile(num)].recs \in Seq(Nat)
  <2>1. num \in LogSet(files)
    BY <1>1 DEF IInv, ReadyOK
  <2>2. num \in Nat /\ LogFile(num) \in DOMAIN files
    BY <2>1 DEF LogSet
  <2> QED BY <1>1, <2>1, <2>2, FileTypes
<1>3. /\ \A n \in LogSet(files) : n \in Nat /\ n <= num /\ LogEntries(files, n) \in SUBSET Nat
      /\ \A n \in LogSet(files) : n # num => \A e \in LogEntries(files, n) : e <= vs.last
      /\ w.at = "idle" => \A e \in LogEntries(files, num) : e <= vs.last
      /\ LogEntries(files, num) = mem_ \cup (IF w.at = "idle" THEN {} ELSE {vs.last + 1})
  BY <1>1, LogTypes DEF IInv, ReadyOK
<1>4. /\ LogSet(files') = LogSet(files)
      /\ \A n \in LogSet(files) : n # num => files'[LogFile(n)] = files[LogFile(n)]
      /\ \A n \in LogSet(files) : n # num => LogEntries(files', n) = LogEntries(files, n)
      /\ \A n \in LogSet(files) : n # num => SyncedEntries(files', n) = SyncedEntries(files, n)
  <2>1. LogSet(files') = LogSet(files)
    BY DEF LogSet
  <2>2. ASSUME NEW n \in LogSet(files), n # num PROVE files'[LogFile(n)] = files[LogFile(n)]
    <3>1. LogFile(n) \in DOMAIN files /\ LogFile(n) # LogFile(num)
      BY <2>2, Names DEF LogSet
    <3> QED BY <3>1
  <2> QED BY <2>1, <2>2 DEF LogEntries, SyncedEntries
<1>5. LogEntries(files', num) = mem_ \cup {vs.last + 1}
  <2> DEFINE old == files[LogFile(num)].recs
  <2>1. LogEntries(files', num) = ToSet(file.recs) /\ LogEntries(files, num) = ToSet(old)
    BY DEF LogEntries
  <2>2. ToSet(Append(old, vs.last + 1)) = ToSet(old) \cup {vs.last + 1}
    <3>1. old \in Seq(Nat) /\ vs.last + 1 \in Nat
      BY <1>1, <1>2
    <3> DEFINE e == vs.last + 1
    <3> HIDE DEF old, e
    <3>2. old \in Seq(Nat) /\ e \in Nat
      BY <3>1 DEF e
    <3>3. ToSet(Append(old, e)) = ToSet(old) \cup {e}
      BY ONLY <3>2, AppendSet
    <3> QED BY <3>3 DEF e
  <2> QED BY <1>3, <2>1, <2>2
<1>6. \A x \in LogEntries(files', num) : x \in LogEntries(files, num) \/ (w.at = "idle" /\ ~bg_error_ /\ x = vs.last + 1)
  BY <1>3, <1>5
<1>7. Grows
  <2>1. SameManifest(files, files')
    <3>1. Descriptor(Number(files)) \in DOMAIN files
      BY <1>1 DEF IInv, ManifestOK, ManifestFine
    <3> QED BY <1>1, <3>1, Names DEF SameManifest, Exists
  <2>2. \A n \in Nat : TableFile(n) \in DOMAIN files => files'[TableFile(n)] = files[TableFile(n)]
    BY Names
  <2>3. LogEntries(files, num) \subseteq LogEntries(files', num)
    BY <1>3, <1>5
  <2> QED BY <1>2, <1>4, <1>6, <2>1, <2>2, <2>3 DEF Grows
<1>8. FilesOK(files')
  <2>1. FileOK(LogFile(num), file)
    BY Parts DEF FileOK
  <2>2. DOMAIN files' \subseteq {CURRENT} \cup {"MANIFEST", "log", "table", "dbtmp"} \X Nat
    BY <1>1 DEF FilesOK
  <2> QED BY <1>1, <2>1, <2>2, FilesOKKept
<1>9. TypeOK'
  BY <1>1, <1>8 DEF TypeOK
<1>10. CreatingOK' /\ ManifestOK'
  <2>1. CURRENT \in DOMAIN files' /\ ManifestFine(files', created, ReuseLogs)
    BY <1>1, <1>7, GrowStep
  <2> QED BY <1>1, <2>1 DEF CreatingOK, ManifestOK, Exists, Creating, ReuseLogs
<1>11. LogsAscend(files')
  <2>1. \A n \in LogSet(files') : \A i, j \in DOMAIN files'[LogFile(n)].recs :
          i < j => files'[LogFile(n)].recs[i] < files'[LogFile(n)].recs[j]
    <3> SUFFICES ASSUME NEW n \in LogSet(files)
                 PROVE  \A i, j \in DOMAIN files'[LogFile(n)].recs :
                          i < j => files'[LogFile(n)].recs[i] < files'[LogFile(n)].recs[j]
      BY <1>4
    <3>1. \A i, j \in DOMAIN files[LogFile(n)].recs : i < j => files[LogFile(n)].recs[i] < files[LogFile(n)].recs[j]
      BY DEF IInv, LogsAscend
    <3>2. CASE n # num \/ w.at # "idle"
      BY <1>4, <3>1, <3>2
    <3>3. CASE n = num /\ w.at = "idle"
      <4> DEFINE old == files[LogFile(num)].recs
                 new == Append(old, vs.last + 1)
      <4>1. old \in Seq(Nat) /\ \A i \in DOMAIN old : old[i] \in Nat /\ old[i] <= vs.last
        <5>1. \A i \in DOMAIN old : old[i] \in LogEntries(files, num)
          BY DEF LogEntries, ToSet
        <5> QED BY <1>2, <1>3, <3>3, <5>1
      <4>2. \A i, j \in DOMAIN old : i < j => old[i] < old[j]
        BY <3>1, <3>3
      <4>3. files'[LogFile(n)].recs = new
        BY <3>3
      <4> HIDE DEF old
      <4>4. \A i, j \in DOMAIN new : i < j => new[i] < new[j]
        <5>1. /\ Len(old) \in Nat /\ DOMAIN old = 1 .. Len(old) /\ DOMAIN new = 1 .. Len(old) + 1
              /\ new[Len(old) + 1] = vs.last + 1 /\ \A i \in 1 .. Len(old) : new[i] = old[i]
          BY <1>1, <4>1
        <5> HIDE DEF new
        <5> SUFFICES ASSUME NEW i \in DOMAIN new, NEW j \in DOMAIN new, i < j PROVE new[i] < new[j]
          OBVIOUS
        <5>2. i \in 1 .. Len(old) /\ new[i] = old[i]
          BY <5>1
        <5>3. CASE j \in 1 .. Len(old)
          BY <4>2, <5>1, <5>2, <5>3
        <5>4. CASE j = Len(old) + 1
          BY <1>1, <4>1, <5>1, <5>2, <5>4
        <5> QED BY <5>1, <5>3, <5>4
      <4> QED BY <4>3, <4>4
    <3> QED BY <3>2, <3>3
  <2>2. ASSUME NEW m \in LogSet(files'), NEW n \in LogSet(files'), m < n,
               NEW a \in LogEntries(files', m), NEW b \in LogEntries(files', n)
        PROVE  a < b
    <3>1. m \in LogSet(files) /\ n \in LogSet(files) /\ m # num
      BY <1>2, <1>3, <1>4, <2>2
    <3>2. a \in LogEntries(files, m) /\ a \in Nat /\ a <= vs.last
      BY <1>3, <1>4, <3>1
    <3>3. CASE b \in LogEntries(files, n)
      BY <2>2, <3>1, <3>2, <3>3 DEF IInv, LogsAscend
    <3>4. CASE b \notin LogEntries(files, n)
      <4>1. b = vs.last + 1
        BY <1>4, <1>6, <3>1, <3>4
      <4> QED BY <1>1, <3>2, <4>1
    <3> QED BY <3>3, <3>4
  <2> QED BY <2>1, <2>2 DEF LogsAscend
<1>12. MemoryOK'
  <2>1. Opened'
    BY DEF Opened
  <2> QED BY <1>1, <2>1 DEF MemoryOK, Creating
<1>13. OpenedOK'
  <2>1. /\ \A f \in DOMAIN files : f[2] < vs.next
        /\ \A i \in DOMAIN pinned : Missing(pinned[i]) = {}
        /\ (bg_error_ => pc \in {"gc", "open"}) /\ (job.fresh => job.opening) /\ (~has_imm_ => imm_ = {})
    BY DEF IInv, OpenedOK
  <2>2. \A i \in DOMAIN pinned' : Missing(pinned[i])' = {}
    BY <2>1 DEF Missing, Exists
  <2>3. vs.last + 1 \in LogEntries(files', num)
    BY <1>5
  <2> QED BY <1>1, <2>1, <2>2, <2>3 DEF OpenedOK, Exists, Missing
<1>14. RunningOK'
  <2>1. /\ Sound(files', vs.version, vs.log, vs.next, vs.last) /\ Full(files') = Full(files)
        /\ Entries(files', vs.version) \subseteq Data(files', Full(files').added)
        /\ Entries(files', Full(files').added) \subseteq Data(files', vs.version)
    BY <1>1, <1>7, GrowStep
  <2> QED BY <1>1, <2>1 DEF IInv, RunningOK
<1>15. LogsOK'
  BY <1>1 DEF LogsOK, Ready, Applying
<1>16. ReadyOK'
  <2>1. \A n \in LogSet(files') : n # num => \A e \in LogEntries(files', n) : e <= vs.last
    BY <1>3, <1>4
  <2>2. pc \in {"gc", "open"} \/ ~job.opening =>
          imm_ = UNION {LogEntries(files', n) : n \in {n \in LogSet(files') : vs.log <= n /\ n < num}}
    <3>1. UNION {LogEntries(files', n) : n \in {n \in LogSet(files') : vs.log <= n /\ n < num}} =
          UNION {LogEntries(files, n) : n \in {n \in LogSet(files) : vs.log <= n /\ n < num}}
      <4> DEFINE B == {n \in LogSet(files) : vs.log <= n /\ n < num}
      <4>1. {n \in LogSet(files') : vs.log <= n /\ n < num} = B
        BY <1>4
      <4>2. \A n \in B : LogEntries(files', n) = LogEntries(files, n)
        BY <1>2, <1>4
      <4> QED BY <4>1, <4>2
    <3> QED BY <1>1, <3>1 DEF IInv, ReadyOK
  <2>3. LogEntries(files', num) = mem_ \cup (IF w'.at = "idle" THEN {} ELSE {vs.last + 1})
    BY <1>5
  <2>4. /\ has_mem_ /\ num < vs.next /\ (\A n \in LogSet(files) : n <= num) /\ vs.log <= num
        /\ (\A e \in mem_ : e <= vs.last) /\ (\A n \in Nat : Exists(Descriptor(n)) => n < vs.next)
        /\ vs.manifest < vs.next /\ (has_imm_ => vs.log < num)
    BY <1>1 DEF IInv, ReadyOK
  <2> QED BY <1>2, <1>4, <2>1, <2>2, <2>3, <2>4 DEF ReadyOK, Exists
<1>17. ApplyingOK'
  <2> SUFFICES ASSUME Applying PROVE ApplyingOK'
    BY DEF ApplyingOK, Applying
  <2>1. /\ Sound(files', NextVersion, job.edit.log, NextNext, NextLast)
        /\ Entries(files', vs.version) \subseteq Entries(files', NextVersion)
        /\ Entries(files', NextVersion) \subseteq Data(files', vs.version)
        /\ Full(files') = Full(files)
    BY <1>1, <1>7, GrowStep
  <2>2. NextVersion' = NextVersion /\ NextNext' = NextNext /\ NextLast' = NextLast
    BY DEF NextVersion, NextNext, NextLast
  <2> QED BY <2>1, <2>2 DEF IInv, ApplyingOK, Exists
<1>18. PhaseOK'
  <2>1. /\ Full(files') = Full(files) /\ Durable(files') = Durable(files)
        /\ Number(files') = Number(files) /\ Current(files') = Current(files)
    BY <1>1, <1>7, GrowStep
  <2>2. /\ IsCurrent(Full(files))' <=> IsCurrent(Full(files))
        /\ IsCurrent(Durable(files))' <=> IsCurrent(Durable(files))
        /\ IsNext(Full(files))' <=> IsNext(Full(files))
        /\ ReuseLogs' = ReuseLogs /\ (Fresh' <=> Fresh) /\ (Ready' <=> Ready)
    BY <2>1 DEF IsCurrent, IsNext, NextVersion, ReuseLogs, Fresh, Ready, Applying
  <2> QED BY <1>1, <2>1, <2>2 DEF IInv, PhaseOK
<1>19. /\ ~ReuseLogs => Stable(files) \subseteq Stable(files')
       /\ Store(files') = IF w.at = "idle" THEN Store(files) \cup {vs.last + 1} ELSE Store(files)
  <2>1. AllSynced(files) \subseteq AllSynced(files')
    BY <1>4 DEF AllSynced
  <2>2. AllLogs(files') = AllLogs(files) \cup {vs.last + 1}
    <3>1. AllLogs(files) \subseteq AllLogs(files')
      BY <1>1, <1>7, GrowStep
    <3>2. vs.last + 1 \in AllLogs(files')
      BY <1>2, <1>4, <1>5 DEF AllLogs
    <3>3. ASSUME NEW x \in AllLogs(files') PROVE x \in AllLogs(files) \cup {vs.last + 1}
      <4>1. PICK n \in LogSet(files') : x \in LogEntries(files', n)
        BY DEF AllLogs
      <4>2. x \in LogEntries(files, n) \/ x = vs.last + 1
        BY <1>4, <1>6, <4>1
      <4> QED BY <1>4, <4>1, <4>2 DEF AllLogs
    <3> QED BY <3>1, <3>2, <3>3
  <2>3. w.at # "idle" => vs.last + 1 \in AllLogs(files)
    BY <1>2, <1>3 DEF AllLogs
  <2>4. /\ Store(files) = Entries(files, Full(files).added) \cup AllLogs(files)
        /\ Store(files') = Entries(files, Full(files).added) \cup AllLogs(files')
        /\ ~ReuseLogs => Stable(files) \subseteq Stable(files')
    BY <1>1, <1>7, <2>1, GrowStore
  <2> QED BY ONLY <2>2, <2>3, <2>4
<1> QED BY <1>9, <1>10, <1>11, <1>12, <1>13, <1>14, <1>15, <1>16, <1>17, <1>18, <1>19 DEF IInv
LEMMA SyncLogStep == IInv /\ SyncLog /\ options_' = options_ => IInv' /\ Keeps
<1> SUFFICES ASSUME IInv, SyncLog, options_' = options_ PROVE IInv' /\ Keeps
  OBVIOUS
<1> DEFINE f == LogFile(logfile_number_)
           file == [recs |-> files[f].recs, synced |-> Len(files[f].recs)]
<1>0. /\ w.at = "sync" /\ w' = [w EXCEPT !.at = "insert"]
      /\ files' = [files EXCEPT ![f].synced = Len(files[f].recs)]
      /\ UNCHANGED <<options_, pc, vs, job, pending, mem_, imm_, has_mem_, has_imm_, logfile_number_, bg_error_, pinned, created>>
  BY DEF SyncLog, memory
<1>1. Opened /\ TypeOK
  BY <1>0 DEF IInv, MemoryOK
<1>2. Ready
  BY <1>1, OpenedReady
<1>3. logfile_number_ \in LogSet(files) /\ vs.last + 1 \in LogEntries(files, logfile_number_)
  BY <1>0, <1>2 DEF IInv, ReadyOK, OpenedOK
<1>4. f \in DOMAIN files /\ files[f] \in [recs : Seq(Nat), synced : Nat] /\ files[f].synced <= Len(files[f].recs)
  BY <1>1, <1>3, FileTypes DEF LogSet, TypeOK
<1>5. /\ DOMAIN files' = DOMAIN files /\ files'[f] = file
      /\ \A g \in DOMAIN files : g # f => files'[g] = files[g]
  BY <1>0, <1>4
<1>6. /\ file \in [recs : Seq(Nat), synced : Nat] /\ file.recs = files[f].recs /\ file.synced = Len(file.recs)
      /\ SubSeq(file.recs, 1, file.synced) = file.recs
  <2>1. files[f].recs \in Seq(Nat)
    BY <1>4
  <2> QED BY <2>1, SubSeqFull
<1> HIDE DEF file
<1>7. SyncedEntries(files', logfile_number_) = LogEntries(files, logfile_number_)
  BY <1>5, <1>6 DEF SyncedEntries, LogEntries
<1>8. SyncedEntries(files, logfile_number_) \subseteq LogEntries(files, logfile_number_)
  BY <1>1, <1>3, LogTypes DEF TypeOK
<1>9. w' \in [at : {"idle", "sync", "insert"}, sync : BOOLEAN] /\ w'.at = "insert"
  BY <1>0, <1>1 DEF TypeOK
<1>10. file.synced <= Len(file.recs)
  BY <1>4, <1>6
<1>11. /\ IInv' /\ (~ReuseLogs => Stable(files) \subseteq Stable(files'))
       /\ Store(files') = IF w.at = "idle" THEN Store(files) \cup {vs.last + 1} ELSE Store(files)
  <2>1. /\ w.at # "idle" /\ w'.at # "idle"
        /\ file \in [recs : Seq(Nat), synced : Nat] /\ file.recs = files[f].recs
        /\ SyncedEntries(files, logfile_number_) \subseteq SyncedEntries(files', logfile_number_)
        /\ vs.last + 1 \in SyncedEntries(files', logfile_number_)
    BY <1>0, <1>3, <1>6, <1>7, <1>8, <1>9
  <2> QED BY <1>0, <1>1, <1>5, <1>9, <1>10, <2>1, LogWriteStep
<1> QED BY <1>0, <1>11 DEF Keeps

\* The step of a write: its number was nowhere before, and is in the log now.
Writes1 == /\ vs.last + 1 \in 1 .. MaxWrites /\ vs.last + 1 \notin Store(files)
           /\ Store(files') = Store(files) \cup {vs.last + 1}
           /\ ~ReuseLogs => Stable(files) \subseteq Stable(files')
LEMMA AddRecordStep ==
  ASSUME IInv, NEW sync \in BOOLEAN, AddRecord(sync), ~Spoilt', options_' = options_
  PROVE  IInv' /\ Writes1
<1> DEFINE f == LogFile(logfile_number_)
           x == vs.last + 1
           file == [recs |-> Append(files[f].recs, x), synced |-> files[f].synced]
<1>0. /\ Opened /\ w.at = "idle" /\ ~bg_error_ /\ vs.last < options_.writes
      /\ w' = [at |-> IF sync THEN "sync" ELSE "insert", sync |-> sync]
      /\ files' = [files EXCEPT ![f].recs = Append(@, vs.last + 1)]
      /\ UNCHANGED <<options_, pc, vs, job, pending, mem_, imm_, has_mem_, has_imm_, logfile_number_, bg_error_, pinned, created>>
  <2>1. LogFile(logfile_number_) \notin torn
    BY DEF AddRecord, LogRecord, AppendTo, Spoilt
  <2> QED BY <2>1 DEF AddRecord, LogRecord, MayWrite, AppendTo, memory
<1>1. /\ TypeOK /\ Ready /\ Running /\ vs.last \in Nat /\ Full(files).has /\ Exists(CURRENT)
  BY <1>0, OpenedReady, InUse DEF IInv
<1>2. logfile_number_ \in LogSet(files)
  BY <1>1 DEF IInv, ReadyOK
<1>3. f \in DOMAIN files /\ files[f] \in [recs : Seq(Nat), synced : Nat] /\ files[f].synced <= Len(files[f].recs)
  BY <1>1, <1>2, FileTypes DEF LogSet, TypeOK
<1>4. /\ DOMAIN files' = DOMAIN files /\ files'[f] = file
      /\ \A g \in DOMAIN files : g # f => files'[g] = files[g]
  BY <1>0, <1>3
<1> DEFINE recs == files[f].recs
           synced == files[f].synced
<1>5. /\ recs \in Seq(Nat) /\ synced \in Nat /\ synced <= Len(recs) /\ x \in Nat /\ Len(recs) \in Nat
  BY <1>1, <1>3
<1>6. file = [recs |-> Append(recs, x), synced |-> synced]
  OBVIOUS
<1>12. SyncedEntries(files, logfile_number_) = ToSet(SubSeq(recs, 1, synced))
  BY DEF SyncedEntries
<1>13. SyncedEntries(files', logfile_number_) = ToSet(SubSeq(file.recs, 1, file.synced))
  BY <1>4 DEF SyncedEntries
<1> HIDE DEF file, recs, synced, x
<1>7. Append(recs, x) \in Seq(Nat) /\ Len(Append(recs, x)) = Len(recs) + 1
  BY <1>5
<1>8. /\ file \in [recs : Seq(Nat), synced : Nat] /\ file.recs = Append(recs, x) /\ file.synced = synced
      /\ file.synced <= Len(file.recs)
  BY <1>5, <1>6, <1>7
<1>9. SyncedEntries(files', logfile_number_) = SyncedEntries(files, logfile_number_)
  <2>1. SubSeq(Append(recs, x), 1, synced) = SubSeq(recs, 1, synced)
    BY <1>5, AppendPrefix
  <2> QED BY <1>8, <1>12, <1>13, <2>1
<1>10. w' \in [at : {"idle", "sync", "insert"}, sync : BOOLEAN] /\ w'.at # "idle" /\ ~(w'.at = "insert" /\ w'.sync)
  BY <1>0
<1>14. file.recs = Append(files[f].recs, vs.last + 1)
  BY <1>8 DEF recs, x
<1>11. /\ IInv' /\ (~ReuseLogs => Stable(files) \subseteq Stable(files'))
       /\ Store(files') = IF w.at = "idle" THEN Store(files) \cup {vs.last + 1} ELSE Store(files)
  BY <1>0, <1>4, <1>8, <1>9, <1>10, <1>14, LogWriteStep
<1>15. vs.last + 1 \in 1 .. MaxWrites
  <2>1. options_ \in Settings /\ MaxWrites \in Nat /\ options_.writes \in 0 .. MaxWrites
    BY <1>1, RecoveryAssumption DEF TypeOK
  <2> QED BY <1>0, <1>1, <2>1
<1>16. \A e \in Store(files) : e <= vs.last
  <2>1. Store(files) = Entries(files, Full(files).added) \cup AllLogs(files)
    BY <1>1 DEF Store, Data, Exists
  <2>2. \A e \in Entries(files, Full(files).added) : e <= vs.last
    BY <1>1, InUse, FullViews
  <2>3. \A n \in LogSet(files) : \A e \in LogEntries(files, n) : e <= vs.last
    BY <1>0, <1>1 DEF IInv, ReadyOK
  <2> QED BY <2>1, <2>2, <2>3 DEF AllLogs
<1>17. vs.last + 1 \notin Store(files)
  BY <1>1, <1>16
<1> QED BY <1>0, <1>11, <1>15, <1>17 DEF Writes1
\* A new log, with a number that none has.
LEMMA NewLogFacts ==
  ASSUME IInv, Running, vs.next \notin LogSet(files), NewFile(LogFile(vs.next), << >>, 0)
  PROVE  /\ FilesOK(files') /\ DOMAIN files' = DOMAIN files \cup {LogFile(vs.next)}
         /\ \A g \in DOMAIN files : files'[g] = files[g]
         /\ LogSet(files') = LogSet(files) \cup {vs.next}
         /\ LogEntries(files', vs.next) = {} /\ SyncedEntries(files', vs.next) = {}
         /\ \A n \in LogSet(files) : /\ LogEntries(files', n) = LogEntries(files, n)
                                     /\ SyncedEntries(files', n) = SyncedEntries(files, n)
         /\ LogsAscend(files') /\ Grows
         /\ AllLogs(files') = AllLogs(files) /\ AllSynced(files') = AllSynced(files)
         /\ Keeps
         /\ \A i \in DOMAIN pinned : \A t \in pinned[i] : TableFile(t.num) \in DOMAIN files'
<1> DEFINE f == LogFile(vs.next)
           file == [recs |-> << >>, synced |-> 0]
<1>0. files' = With(f, file)
  BY DEF NewFile
<1>1. FilesOK(files) /\ vs.next \in Nat /\ Exists(CURRENT)
  BY InUse DEF IInv, TypeOK
<1>2. f \notin DOMAIN files
  BY <1>1 DEF LogSet
<1>3. DOMAIN files' = DOMAIN files \cup {f} /\ files'[f] = file /\ \A g \in DOMAIN files : files'[g] = files[g]
  <2> HIDE DEF f, file
  <2> QED BY <1>0, <1>2, WithFile
<1>4. /\ file \in [recs : Seq(Nat), synced : Nat] /\ file.recs = << >> /\ file.synced = 0 /\ Len(file.recs) = 0
      /\ ToSet(file.recs) = {} /\ ToSet(SubSeq(file.recs, 1, file.synced)) = {}
  <2>1. SubSeq(<< >>, 1, 0) = << >> /\ << >> \in Seq(Nat) /\ Len(<< >>) = 0
    OBVIOUS
  <2>2. ToSet(<< >>) = {}
    BY DEF ToSet
  <2> QED BY <2>1, <2>2
<1> HIDE DEF file
<1>5. FilesOK(files')
  <2>1. FileOK(f, file)
    BY <1>4, Parts DEF FileOK
  <2>2. f \in {"MANIFEST", "log", "table", "dbtmp"} \X Nat
    BY <1>1 DEF LogFile
  <2>3. DOMAIN files' \subseteq {CURRENT} \cup {"MANIFEST", "log", "table", "dbtmp"} \X Nat
    BY <1>1, <1>3, <2>2 DEF FilesOK
  <2> QED BY <1>1, <1>3, <2>1, <2>3, FilesOKKept
<1>6. LogSet(files') = LogSet(files) \cup {vs.next}
  BY <1>1, <1>3, Names DEF LogSet
<1>7. \A n \in LogSet(files) : /\ n \in Nat /\ LogFile(n) \in DOMAIN files /\ files'[LogFile(n)] = files[LogFile(n)]
                               /\ LogEntries(files', n) = LogEntries(files, n)
                               /\ SyncedEntries(files', n) = SyncedEntries(files, n)
  BY <1>3 DEF LogSet, LogEntries, SyncedEntries
<1>8. LogEntries(files', vs.next) = {} /\ SyncedEntries(files', vs.next) = {}
  BY <1>3, <1>4 DEF LogEntries, SyncedEntries
<1>9. LogsAscend(files')
  <2>1. \A n \in LogSet(files') : \A i, j \in DOMAIN files'[LogFile(n)].recs :
          i < j => files'[LogFile(n)].recs[i] < files'[LogFile(n)].recs[j]
    <3>1. DOMAIN files'[f].recs = {}
      BY <1>3, <1>4
    <3> QED BY <1>6, <1>7, <3>1 DEF IInv, LogsAscend
  <2>2. \A m, n \in LogSet(files') : m < n => \A a \in LogEntries(files', m), b \in LogEntries(files', n) : a < b
    BY <1>6, <1>7, <1>8 DEF IInv, LogsAscend
  <2> QED BY <2>1, <2>2 DEF LogsAscend
<1>10. Grows
  <2>1. SameManifest(files, files')
    <3>1. Descriptor(Number(files)) \in DOMAIN files
      BY <1>1 DEF IInv, ManifestOK, ManifestFine
    <3> QED BY <1>1, <1>3, <3>1 DEF SameManifest, Exists
  <2>2. \A n \in Nat : Descriptor(n) \in DOMAIN files' => Descriptor(n) \in DOMAIN files
    BY <1>3, Names
  <2> QED BY <1>3, <1>6, <1>7, <1>8, <2>1, <2>2 DEF Grows
<1>11. AllLogs(files') = AllLogs(files)
  BY <1>6, <1>7, <1>8 DEF AllLogs
<1>12. AllSynced(files') = AllSynced(files)
  BY <1>6, <1>7, <1>8 DEF AllSynced
<1>13. Keeps
  <2>1. /\ Store(files) = Entries(files, Full(files).added) \cup AllLogs(files)
        /\ Store(files') = Entries(files, Full(files).added) \cup AllLogs(files')
        /\ ~ReuseLogs => Stable(files) \subseteq Stable(files')
    BY <1>10, <1>12, GrowStore
  <2> QED BY <1>11, <2>1 DEF Keeps
<1>14. \A i \in DOMAIN pinned : \A t \in pinned[i] : TableFile(t.num) \in DOMAIN files'
  BY <1>3 DEF IInv, OpenedOK, Missing, Exists
<1> QED BY <1>3, <1>5, <1>6, <1>7, <1>8, <1>9, <1>10, <1>11, <1>12, <1>13, <1>14

LEMMA MakeRoomStep == IInv /\ MakeRoomForWrite /\ options_' = options_ => IInv' /\ Keeps
<1> SUFFICES ASSUME IInv, MakeRoomForWrite, options_' = options_ PROVE IInv' /\ Keeps
  OBVIOUS
<1>0. /\ Opened /\ w.at = "idle" /\ ~bg_error_ /\ ~has_imm_ /\ NewFile(LogFile(vs.next), << >>, 0)
      /\ imm_' = mem_ /\ has_imm_' = TRUE /\ mem_' = {} /\ logfile_number_' = vs.next
      /\ vs' = [vs EXCEPT !.next = @ + 1]
      /\ UNCHANGED <<options_, pc, job, pending, has_mem_, bg_error_, w, pinned, created>>
  BY DEF MakeRoomForWrite
<1>1. /\ Ready /\ Running /\ Exists(CURRENT) /\ pc \notin {"tmp", "rename", "closed", "newdb", "recover", "logs"}
      /\ ~Creating /\ ~Fresh /\ created /\ TypeOK /\ FilesOK(files) /\ (Applying => ~job.opening)
      /\ (pc \in {"gc", "open"} \/ ~job.opening)
  BY <1>0, OpenedReady DEF IInv, TypeOK, Opened, Applying
<1>2. /\ vs' \in VersionsSet /\ vs'.version = vs.version /\ vs'.log = vs.log /\ vs'.next = vs.next + 1
      /\ vs'.last = vs.last /\ vs'.manifest = vs.manifest /\ vs'.descriptor = vs.descriptor
      /\ vs.last \in Nat /\ vs.next \in Nat /\ vs.log \in Nat /\ vs.version \in SUBSET TableSet /\ vs.manifest \in Nat
  BY <1>0, <1>1 DEF TypeOK, VersionsSet
<1>3. \A f \in DOMAIN files : f[2] < vs.next
  BY <1>0 DEF IInv, OpenedOK
<1>4. vs.next \notin LogSet(files)
  BY <1>2, <1>3, Parts DEF LogSet
<1>5. /\ FilesOK(files') /\ DOMAIN files' = DOMAIN files \cup {LogFile(vs.next)}
      /\ LogSet(files') = LogSet(files) \cup {vs.next}
      /\ LogEntries(files', vs.next) = {}
      /\ \A n \in LogSet(files) : LogEntries(files', n) = LogEntries(files, n)
      /\ LogsAscend(files') /\ Grows /\ Keeps
      /\ \A i \in DOMAIN pinned : \A t \in pinned[i] : TableFile(t.num) \in DOMAIN files'
  BY <1>0, <1>1, <1>4, NewLogFacts
<1>6. /\ Sound(files', vs.version, vs.log, vs.next, vs.last)
      /\ Applying => Sound(files', NextVersion, job.edit.log, NextNext, NextLast)
      /\ ManifestFine(files', created, ReuseLogs) /\ CURRENT \in DOMAIN files'
      /\ Number(files') = Number(files) /\ Current(files') = Current(files)
      /\ Full(files') = Full(files) /\ Durable(files') = Durable(files)
      /\ Entries(files', vs.version) \subseteq Data(files', Full(files').added)
      /\ Entries(files', Full(files').added) \subseteq Data(files', vs.version)
      /\ Applying => /\ Entries(files', vs.version) \subseteq Entries(files', NextVersion)
                     /\ Entries(files', NextVersion) \subseteq Data(files', vs.version)
  BY <1>1, <1>5, GrowStep
<1>7. Opened' /\ Ready' /\ ~Fresh' /\ (Applying' <=> Applying) /\ ReuseLogs' = ReuseLogs
  BY <1>0, <1>1 DEF Opened, Ready, Applying, Fresh, ReuseLogs
<1>8. /\ \A n \in LogSet(files) : n \in Nat /\ n <= logfile_number_ /\ n < vs.next
      /\ logfile_number_ \in LogSet(files) /\ logfile_number_ < vs.next
      /\ LogEntries(files, logfile_number_) = mem_ /\ \A e \in mem_ : e <= vs.last
      /\ \A n \in LogSet(files) : \A e \in LogEntries(files, n) : e <= vs.last
  <2>1. /\ \A n \in LogSet(files) : n \in Nat /\ n <= logfile_number_
        /\ logfile_number_ \in LogSet(files) /\ logfile_number_ < vs.next
        /\ LogEntries(files, logfile_number_) = mem_ /\ \A e \in mem_ : e <= vs.last
        /\ \A n \in LogSet(files) : n # logfile_number_ => \A e \in LogEntries(files, n) : e <= vs.last
    BY <1>0, <1>1 DEF IInv, ReadyOK, LogSet
  <2> QED BY <1>2, <2>1
<1>9. TypeOK'
  BY <1>0, <1>1, <1>2, <1>5 DEF TypeOK
<1>10. CreatingOK' /\ ManifestOK' /\ LogsAscend(files)' /\ MemoryOK'
  BY <1>0, <1>1, <1>5, <1>6, <1>7 DEF CreatingOK, ManifestOK, MemoryOK, Exists, Creating
<1>11. OpenedOK'
  <2>1. \A f \in DOMAIN files' : f[2] < vs'.next
    <3> SUFFICES ASSUME NEW f \in DOMAIN files' PROVE f[2] < vs.next + 1
      BY <1>2
    <3>1. CASE f = LogFile(vs.next)
      BY <1>2, <3>1, Parts
    <3>2. CASE f # LogFile(vs.next)
      <4>1. f \in DOMAIN files /\ f[2] < vs.next
        BY <1>3, <1>5, <3>2
      <4>2. f[2] \in Int
        <5>1. \/ f = CURRENT
              \/ \E n \in Nat : f = LogFile(n) \/ f = Descriptor(n) \/ f = TableFile(n) \/ f = TempFile(n)
          BY <1>1, <4>1, Kinds
        <5> QED BY <5>1, Parts
      <4> QED BY <1>2, <4>1, <4>2
    <3> QED BY <3>1, <3>2
  <2>2. \A i \in DOMAIN pinned' : Missing(pinned[i])' = {}
    BY <1>0, <1>5 DEF Missing, Exists
  <2> QED BY <1>0, <1>1, <1>6, <2>1, <2>2 DEF IInv, OpenedOK, Exists, Missing
<1>12. RunningOK'
  <2>1. Sound(files', vs.version, vs.log, vs.next + 1, vs.last)
    BY <1>2, <1>5, <1>6, SoundWeaker
  <2>2. /\ vs.log < vs.next /\ Full(files).has /\ Full(files).next <= vs.next /\ Full(files).last <= vs.last
        /\ Full(files) \in EditSet
    BY <1>1 DEF IInv, RunningOK, ManifestOK, ManifestFine
  <2>3. vs.log < vs.next + 1 /\ Full(files).next <= vs.next + 1
    BY <1>2, <2>2 DEF EditSet
  <2> QED BY <1>0, <1>2, <1>6, <2>1, <2>2, <2>3 DEF RunningOK
<1>13. LogsOK'
  BY <1>0, <1>1 DEF LogsOK
<1>14. ReadyOK'
  <2>1. UNION {LogEntries(files', n) : n \in {n \in LogSet(files') : vs.log <= n /\ n < vs.next}} = mem_
    <3>1. imm_ = UNION {LogEntries(files, n) : n \in {n \in LogSet(files) : vs.log <= n /\ n < logfile_number_}}
      BY <1>1 DEF IInv, ReadyOK
    <3>2. imm_ = {}
      BY <1>0 DEF IInv, OpenedOK
    <3>3. vs.log <= logfile_number_
      BY <1>1 DEF IInv, ReadyOK
    <3>4. {n \in LogSet(files') : vs.log <= n /\ n < vs.next} =
            {n \in LogSet(files) : vs.log <= n /\ n < logfile_number_} \cup {logfile_number_}
      BY <1>2, <1>5, <1>8, <3>3
    <3>5. \A n \in LogSet(files) : vs.log <= n /\ n < logfile_number_ => LogEntries(files', n) = {}
      BY <1>5, <3>1, <3>2
    <3>6. LogEntries(files', logfile_number_) = mem_
      BY <1>5, <1>8
    <3> QED BY <3>4, <3>5, <3>6
  <2>2. /\ \A n \in LogSet(files') : n <= vs.next
        /\ \A n \in LogSet(files') : \A e \in LogEntries(files', n) : e <= vs.last
    BY <1>2, <1>5, <1>8
  <2>3. \A n \in Nat : Descriptor(n) \in DOMAIN files' => n < vs.next + 1
    <3>1. \A n \in Nat : Descriptor(n) \in DOMAIN files' => Descriptor(n) \in DOMAIN files
      BY <1>5 DEF Grows
    <3>2. \A n \in Nat : Descriptor(n) \in DOMAIN files => n < vs.next
      BY <1>1 DEF IInv, ReadyOK, Exists
    <3> QED BY <1>2, <3>1, <3>2
  <2>4. has_mem_ /\ vs.manifest < vs.next /\ vs.log < vs.next
    BY <1>1 DEF IInv, ReadyOK, RunningOK
  <2>5. vs.next < vs.next + 1 /\ vs.manifest < vs.next + 1 /\ vs.log <= vs.next
    BY <1>2, <2>4
  <2>6. vs.next \in LogSet(files')
    BY <1>5
  <2> QED BY <1>0, <1>2, <1>5, <2>1, <2>2, <2>3, <2>4, <2>5, <2>6 DEF ReadyOK, Exists
<1>15. ApplyingOK'
  <2> SUFFICES ASSUME Applying PROVE ApplyingOK'
    BY <1>7 DEF ApplyingOK
  <2>1. NextVersion' = NextVersion /\ NextLast' = NextLast
        /\ NextNext' = IF pc = "apply" THEN vs.next + 1 ELSE NextNext
    BY <1>0, <1>2 DEF NextVersion, NextNext, NextLast
  <2>2. /\ NextNext \in Nat /\ NextLast \in Nat /\ NextVersion \in SUBSET TableSet /\ job.edit.log \in Nat
        /\ logfile_number_ \in Nat
    BY <1>1, NextVersionType DEF TypeOK, NextNext, NextLast, VersionsSet, JobSet, EditSet
  <2>3. /\ NextNext <= vs.next /\ NextLast <= vs.last /\ job.edit.log < NextNext
        /\ \A n \in Nat : Exists(Descriptor(n)) => n < NextNext
        /\ vs.log <= job.edit.log /\ job.edit.log <= logfile_number_
        /\ job.edit.log # vs.log => has_imm_ \/ job.opening
        /\ pc # "apply" => job.edit.has
        /\ Full(files).next <= NextNext /\ Full(files).last <= NextLast
    BY DEF IInv, ApplyingOK
  <2>4. NextNext' \in Nat /\ NextNext <= NextNext' /\ NextNext' <= vs.next + 1
    BY <1>2, <2>1, <2>2, <2>3
  <2>5. Sound(files', NextVersion, job.edit.log, NextNext', NextLast)
    BY <1>5, <1>6, <2>2, <2>4, SoundWeaker
  <2>6. Full(files) \in EditSet
    BY <1>1 DEF IInv, ManifestOK, ManifestFine
  <2>7. job.edit.log < NextNext' /\ Full(files).next <= NextNext' /\ job.edit.log <= vs.next
    BY <1>2, <1>8, <2>2, <2>3, <2>4, <2>6 DEF EditSet
  <2>8. \A n \in Nat : Descriptor(n) \in DOMAIN files' => n < NextNext'
    <3>1. \A n \in Nat : Descriptor(n) \in DOMAIN files' => Descriptor(n) \in DOMAIN files
      BY <1>5 DEF Grows
    <3> QED BY <2>2, <2>3, <2>4, <3>1 DEF Exists
  <2>9. job.edit.log = vs.log /\ ~job.opening
    BY <1>0, <1>1, <2>3
  <2> QED BY <1>0, <1>2, <1>6, <2>1, <2>3, <2>4, <2>5, <2>7, <2>8, <2>9 DEF ApplyingOK, Exists
<1>16. PhaseOK'
  <2>1. /\ IsCurrent(Full(files))' <=> IsCurrent(Full(files))
        /\ IsCurrent(Durable(files))' <=> IsCurrent(Durable(files))
        /\ IsNext(Full(files))' <=> IsNext(Full(files))
    BY <1>0, <1>2, <1>6 DEF IsCurrent, IsNext, NextVersion
  <2>2. vs.descriptor
    BY <1>0, <1>1 DEF IInv, PhaseOK
  <2> QED BY <1>0, <1>1, <1>2, <1>6, <1>7, <2>1, <2>2 DEF IInv, PhaseOK
<1> QED BY <1>5, <1>9, <1>10, <1>11, <1>12, <1>13, <1>14, <1>15, <1>16 DEF IInv
-----------------------------------------------------------------------------
(* The logs are recovered *)

LEMMA OpenLogStep == IInv /\ OpenLog /\ options_' = options_ => IInv' /\ Keeps
<1> SUFFICES ASSUME IInv, OpenLog, options_' = options_ PROVE IInv' /\ Keeps
  OBVIOUS
<1> DEFINE num == logfile_number_'
           tables == vs.version \cup job.edit.added
<1>0. /\ pc = "logs" /\ pending = {} /\ job' = [job EXCEPT !.edit.log = num]
      /\ pc' = IF job.save THEN "apply" ELSE "gc"
      /\ UNCHANGED <<options_, pending, imm_, has_imm_, bg_error_, w, pinned, created>>
      /\ has_mem_ => UNCHANGED <<files, vs, mem_, has_mem_, logfile_number_>>
      /\ ~has_mem_ => /\ NewFile(LogFile(vs.next), << >>, 0)
                      /\ num = vs.next /\ has_mem_' = TRUE /\ mem_' = {}
                      /\ vs' = [vs EXCEPT !.next = @ + 1]
  BY DEF OpenLog, memory
<1>1. /\ TypeOK /\ FilesOK(files) /\ Running /\ Exists(CURRENT) /\ Full(files).has
      /\ vs.next \in Nat /\ vs.last \in Nat /\ vs.log \in Nat /\ vs.manifest \in Nat
      /\ vs \in VersionsSet /\ vs.version \in SUBSET TableSet /\ job \in JobSet
      /\ job.edit \in EditSet /\ job.edit.added \in SUBSET TableSet /\ has_mem_ \in BOOLEAN
  BY <1>0, InUse DEF IInv, TypeOK, Running, VersionsSet, JobSet, EditSet
<1>2. /\ ~Opened /\ ~bg_error_ /\ w.at = "idle" /\ pinned = << >> /\ ~has_imm_ /\ imm_ = {}
  BY <1>0 DEF IInv, MemoryOK, Opened
<1>3. /\ IsCurrent(Full(files)) /\ Full(files).next < vs.next
      /\ job.opening /\ ~job.fresh /\ job.edit.has /\ job.edit.deleted = {}
      /\ \A n \in LogSet(files) : n < vs.next
      /\ \A n \in Nat : Descriptor(n) \in DOMAIN files => n < vs.next
      /\ \A t \in job.edit.added : TableFile(t.num) \in DOMAIN files /\ t.num < vs.next /\ t.level = 0
      /\ LevelsAscend(files, tables)
      /\ Entries(files, job.edit.added) \subseteq AllLogs(files)
      /\ \A n \in LogSet(files) : \A a \in LogEntries(files, n) : a <= vs.last
      /\ ~job.save => job.edit.added = {} /\ ReuseLogs
      /\ vs.descriptor = ReuseLogs
      /\ ReuseLogs => vs.manifest = Number(files)
      /\ ~ReuseLogs => vs.manifest = Full(files).next /\ Number(files) < vs.manifest
  BY <1>0 DEF IInv, LogsOK, Exists
<1>4. /\ \A n \in LogSet(files) : has_mem_ /\ n = logfile_number_ =>
            \A a \in Entries(files, tables), b \in LogEntries(files, n) : a < b
      /\ \A n \in LogSet(files) : \/ n < vs.log \/ (has_mem_ /\ n = logfile_number_)
                                  \/ LogEntries(files, n) \subseteq Entries(files, job.edit.added)
      /\ has_mem_ => /\ ReuseLogs /\ logfile_number_ \in LogSet(files)
                     /\ \A n \in LogSet(files) : n <= logfile_number_
                     /\ vs.log <= logfile_number_ /\ mem_ = LogEntries(files, logfile_number_)
  BY <1>0 DEF IInv, LogsOK
<1>5. /\ vs' \in VersionsSet /\ vs'.version = vs.version /\ vs'.log = vs.log /\ vs'.last = vs.last
      /\ vs'.manifest = vs.manifest /\ vs'.descriptor = vs.descriptor
      /\ vs'.next \in Nat /\ vs.next <= vs'.next
      /\ ~has_mem_ => vs'.next = vs.next + 1
  <2>1. CASE has_mem_
    BY <1>0, <1>1, <2>1
  <2>2. CASE ~has_mem_
    BY <1>0, <1>1, <2>2 DEF VersionsSet
  <2> QED BY <2>1, <2>2
<1>6. /\ FilesOK(files') /\ DOMAIN files \subseteq DOMAIN files'
      /\ \A g \in DOMAIN files : files'[g] = files[g]
      /\ LogsAscend(files') /\ Grows /\ Keeps /\ AllLogs(files') = AllLogs(files)
      /\ \A n \in LogSet(files) : LogEntries(files', n) = LogEntries(files, n)
      /\ LogSet(files') = LogSet(files) \cup {num} /\ num \in Nat
      /\ LogEntries(files', num) = mem_' /\ has_mem_'
      /\ \A n \in LogSet(files') : n <= num
      /\ num < vs'.next /\ vs.log <= num
  <2>1. CASE has_mem_
    <3>1. files' = files /\ num = logfile_number_ /\ mem_' = mem_ /\ has_mem_' /\ vs' = vs
      BY <1>0, <2>1
    <3>2. LogSet(files') = LogSet(files) \cup {num} /\ num \in Nat
      BY <1>4, <2>1, <3>1 DEF LogSet
    <3>3. Descriptor(Number(files)) \in DOMAIN files
      BY <1>1 DEF IInv, ManifestOK, ManifestFine
    <3>4. Grows
      BY <1>1, <3>1, <3>3 DEF Grows, SameManifest, Exists
    <3>5. LogsAscend(files') /\ Keeps
      BY <3>1 DEF IInv, Keeps
    <3> QED BY <1>1, <1>3, <1>4, <2>1, <3>1, <3>2, <3>4, <3>5
  <2>2. CASE ~has_mem_
    <3>1. vs.next \notin LogSet(files) /\ NewFile(LogFile(vs.next), << >>, 0)
      BY <1>0, <1>1, <1>3, <2>2
    <3>2. /\ FilesOK(files') /\ DOMAIN files \subseteq DOMAIN files'
          /\ \A g \in DOMAIN files : files'[g] = files[g]
          /\ LogSet(files') = LogSet(files) \cup {vs.next}
          /\ LogEntries(files', vs.next) = {}
          /\ \A n \in LogSet(files) : LogEntries(files', n) = LogEntries(files, n)
          /\ LogsAscend(files') /\ Grows /\ AllLogs(files') = AllLogs(files) /\ Keeps
      BY <1>1, <3>1, NewLogFacts
    <3>3. \A n \in LogSet(files') : n <= vs.next
      BY <1>1, <1>3, <3>2 DEF LogSet
    <3>4. vs.log <= vs.next /\ vs.next < vs.next + 1
      BY <1>1 DEF IInv, RunningOK
    <3> QED BY <1>0, <1>1, <1>5, <2>2, <3>2, <3>3, <3>4
  <2> QED BY <1>1, <2>1, <2>2
<1>7. /\ Sound(files', vs.version, vs.log, vs.next, vs.last)
      /\ Entries(files', vs.version) = Entries(files, vs.version)
      /\ ManifestFine(files', created, ReuseLogs) /\ CURRENT \in DOMAIN files'
      /\ Number(files') = Number(files) /\ Current(files') = Current(files)
      /\ Full(files') = Full(files) /\ Durable(files') = Durable(files)
      /\ Entries(files', vs.version) \subseteq Data(files', Full(files').added)
      /\ Entries(files', Full(files').added) \subseteq Data(files', vs.version)
  BY <1>1, <1>6, GrowStep
<1>8. Entries(files', job.edit.added) = Entries(files, job.edit.added)
  BY <1>3, <1>6, SameEntries
<1>9. /\ job' \in JobSet /\ job'.edit.log = num /\ job'.edit.added = job.edit.added /\ job'.edit.deleted = {}
      /\ job'.edit.has /\ job'.opening /\ ~job'.fresh
  BY <1>0, <1>1, <1>3, <1>6 DEF JobSet, EditSet
<1>10. /\ pc' \in {"apply", "gc"} /\ ~Opened' /\ Ready' /\ Running' /\ ~Fresh' /\ ReuseLogs' = ReuseLogs /\ ~Creating'
       /\ (pc' = "gc" => ReuseLogs /\ job.edit.added = {}) /\ (Applying' => pc' = "apply")
  BY <1>0, <1>3, <1>9 DEF Opened, Ready, Running, Applying, Fresh, ReuseLogs, Creating
<1>11. TypeOK'
  <2>1. has_mem_' \in BOOLEAN /\ mem_' \in SUBSET Nat
    BY <1>0, <1>1 DEF TypeOK
  <2> QED BY <1>0, <1>1, <1>5, <1>6, <1>9, <1>10, <2>1 DEF TypeOK, PCs
<1>12. CreatingOK' /\ ManifestOK' /\ LogsAscend(files)' /\ MemoryOK'
  BY <1>0, <1>2, <1>6, <1>7, <1>10 DEF CreatingOK, ManifestOK, MemoryOK, Exists
<1>13. OpenedOK'
  BY <1>0, <1>2, <1>7, <1>9, <1>10 DEF OpenedOK, Exists, Missing
<1>14. Full(files) \in EditSet /\ Full(files).last <= vs.last /\ SoundView(files, Full(files))
  BY <1>1, FullViews DEF IInv, RunningOK, ManifestOK, ManifestFine
<1>15. RunningOK'
  <2>1. Sound(files', vs.version, vs.log, vs'.next, vs.last)
    BY <1>1, <1>5, <1>6, <1>7, SoundWeaker
  <2>2. vs.log < vs'.next /\ Full(files).next <= vs'.next
    BY <1>1, <1>3, <1>5, <1>6, <1>14 DEF EditSet
  <2> QED BY <1>1, <1>5, <1>7, <1>14, <2>1, <2>2 DEF RunningOK
<1>16. LogsOK'
  BY <1>10 DEF LogsOK
<1>17. /\ \A n \in LogSet(files') : \A a \in LogEntries(files', n) : a <= vs.last
       /\ \A n \in LogSet(files') : n # num /\ n >= vs.log => LogEntries(files', n) \subseteq Entries(files', job.edit.added)
  <2>1. \A a \in LogEntries(files', num) : a <= vs.last
    BY <1>0, <1>3, <1>4, <1>6
  <2>2. ASSUME NEW n \in LogSet(files'), n # num, n >= vs.log
        PROVE  LogEntries(files', n) \subseteq Entries(files', job.edit.added)
    <3>1. n \in LogSet(files) /\ n \in Nat /\ ~(n < vs.log)
      BY <1>1, <1>6, <2>2 DEF LogSet
    <3>2. ~(has_mem_ /\ n = logfile_number_)
      BY <1>0, <2>2
    <3> QED BY <1>4, <1>6, <1>8, <3>1, <3>2
  <2> QED BY <1>3, <1>6, <2>1, <2>2
<1>18. \A n \in Nat : Descriptor(n) \in DOMAIN files' => n < vs'.next
  <2>1. \A n \in Nat : Descriptor(n) \in DOMAIN files' => Descriptor(n) \in DOMAIN files
    BY <1>6 DEF Grows
  <2> QED BY <1>1, <1>3, <1>5, <2>1
<1>19. ReadyOK'
  <2>1. vs.manifest < vs'.next
    <3>1. Full(files).next \in Nat /\ Number(files) < Full(files).next
      BY <1>14 DEF SoundView, EditSet
    <3>2. \E n \in Nat : files[CURRENT] = [recs |-> <<n>>, synced |-> 1]
      BY <1>1, FileTypes DEF Exists
    <3>3. Number(files) \in Nat
      BY <3>2 DEF Number
    <3>4. vs.manifest < vs.next
      BY <1>1, <1>3, <3>1, <3>3
    <3> QED BY <1>1, <1>5, <3>4
  <2>2. pc' = "gc" => {} = UNION {LogEntries(files', n) : n \in {n \in LogSet(files') : vs.log <= n /\ n < num}}
    <3> SUFFICES ASSUME pc' = "gc", NEW n \in LogSet(files'), vs.log <= n, n < num PROVE LogEntries(files', n) = {}
      OBVIOUS
    <3>1. n \in Nat
      BY DEF LogSet
    <3>2. Entries(files', job.edit.added) = {}
      BY <1>10 DEF Entries
    <3> QED BY <1>1, <1>6, <1>17, <3>1, <3>2
  <2>3. num \in LogSet(files')
    BY <1>6
  <2>4. \A e \in mem_' : e <= vs.last
    BY <1>6, <1>17, <2>3
  <2> QED BY <1>0, <1>2, <1>5, <1>6, <1>9, <1>10, <1>17, <1>18, <2>1, <2>2, <2>3, <2>4 DEF ReadyOK, Exists
<1>20. ApplyingOK'
  <2> SUFFICES ASSUME pc' = "apply" PROVE ApplyingOK'
    BY <1>10 DEF ApplyingOK
  <2>1. NextVersion' = tables /\ NextNext' = vs'.next /\ NextLast' = vs.last
    BY <1>5, <1>9 DEF NextVersion, ApplyEdit, NextNext, NextLast
  <2>2. /\ \A t \in tables : t.num \in Nat /\ t.num < vs.next /\ TableFile(t.num) \in DOMAIN files
        /\ \A a \in Entries(files, vs.version) : a \in Nat /\ a <= vs.last
    BY <1>1, <1>3, InUse DEF TableSet
  <2>3. \A t \in tables : /\ t.num < vs'.next /\ TableFile(t.num) \in DOMAIN files'
                          /\ files'[TableFile(t.num)] = files[TableFile(t.num)]
    BY <1>1, <1>5, <1>6, <2>2
  <2>4. /\ Entries(files', tables) = Entries(files', vs.version) \cup Entries(files', job.edit.added)
        /\ Entries(files', tables) = Entries(files, tables)
    <3>1. Entries(files', tables) = Entries(files, tables)
      BY <2>3, SameEntries
    <3> QED BY <3>1 DEF Entries
  <2>5. LevelsAscend(files', tables)
    BY <1>3, <2>3 DEF LevelsAscend
  <2>6. \A n \in LogSet(files') : n >= num => \A a \in Entries(files', tables), b \in LogEntries(files', n) : a < b
    <3> SUFFICES ASSUME NEW n \in LogSet(files'), n >= num
                 PROVE  \A a \in Entries(files', tables), b \in LogEntries(files', n) : a < b
      OBVIOUS
    <3>1. n = num
      BY <1>6 DEF LogSet
    <3>2. CASE has_mem_
      BY <1>0, <1>4, <1>6, <2>4, <3>1, <3>2
    <3>3. CASE ~has_mem_
      BY <1>0, <1>6, <3>1, <3>3
    <3> QED BY <3>2, <3>3
  <2>7. \A n \in LogSet(files') : n < num => LogEntries(files', n) \subseteq Entries(files', tables)
    <3> SUFFICES ASSUME NEW n \in LogSet(files'), n < num PROVE LogEntries(files', n) \subseteq Entries(files', tables)
      OBVIOUS
    <3>1. n \in Nat /\ n # num
      BY <1>6 DEF LogSet
    <3>2. CASE n >= vs.log
      BY <1>17, <2>4, <3>1, <3>2
    <3>3. CASE n < vs.log
      BY <1>7, <2>4, <3>3 DEF Sound
    <3> QED BY <1>1, <3>1, <3>2, <3>3, SMTT(40)
  <2>8. \A a \in Entries(files', job.edit.added) : a <= vs.last
    BY <1>3, <1>8 DEF AllLogs
  <2>9. \A a \in Entries(files', tables) : a <= vs.last
    BY <1>7, <2>2, <2>4, <2>8
  <2>10. Sound(files', tables, num, vs'.next, vs.last)
    BY <2>3, <2>5, <2>6, <2>7, <2>9 DEF Sound
  <2>11. Entries(files', tables) \subseteq Data(files', vs.version)
    BY <1>3, <1>6, <1>8, <2>4 DEF Data
  <2>12. vs'.next <= vs'.next /\ vs.last <= vs.last /\ Full(files').next <= vs'.next /\ num <= num
    BY <1>1, <1>3, <1>5, <1>6, <1>7, <1>14 DEF EditSet
  <2>13. Entries(files', vs.version) \subseteq Entries(files', tables)
    BY <2>4
  <2> HIDE DEF tables
  <2> QED BY <1>5, <1>6, <1>7, <1>9, <1>14, <1>18, <2>1, <2>10, <2>11, <2>12, <2>13 DEF ApplyingOK, Exists
<1>21. PhaseOK'
  <2>1. IsCurrent(Full(files))'
    BY <1>3, <1>5, <1>7 DEF IsCurrent
  <2>2. ~ReuseLogs => vs.manifest < num
    BY <1>0, <1>3, <1>4
  <2>3. vs'.descriptor = ReuseLogs
    BY <1>3, <1>5
  <2>4. /\ ReuseLogs => Number(files') = vs'.manifest
        /\ ~ReuseLogs => Number(files') < vs'.manifest
    BY <1>3, <1>5, <1>7
  <2> QED BY <1>5, <1>9, <1>10, <2>1, <2>2, <2>3, <2>4 DEF PhaseOK
<1> QED BY <1>6, <1>11, <1>12, <1>13, <1>15, <1>16, <1>19, <1>20, <1>21 DEF IInv
-----------------------------------------------------------------------------
(* Compactions *)

LEMMA NewTableFacts ==
  ASSUME IInv, Opened, NEW entries \in SUBSET Nat, BuildTable(vs.next, entries)
  PROVE  /\ FilesOK(files') /\ Grows /\ SameLogs(files, files') /\ Keeps
         /\ TableFile(vs.next) \in DOMAIN files' /\ files'[TableFile(vs.next)].recs[1] = entries
         /\ \A g \in DOMAIN files : g \in DOMAIN files' /\ files'[g] = files[g]
         /\ \A f \in DOMAIN files' : f[2] < vs.next + 1
<1> DEFINE f == TableFile(vs.next)
           file == [recs |-> <<entries>>, synced |-> 1]
<1>0. files' = With(f, file)
  BY DEF BuildTable, NewFile
<1>1. FilesOK(files) /\ vs.next \in Nat /\ Exists(CURRENT) /\ Running /\ \A g \in DOMAIN files : g[2] < vs.next
  BY OpenedReady, InUse DEF IInv, TypeOK, OpenedOK
<1>2. f \notin DOMAIN files
  BY <1>1, Parts
<1>3. DOMAIN files' = DOMAIN files \cup {f} /\ files'[f] = file /\ \A g \in DOMAIN files : files'[g] = files[g]
  <2> HIDE DEF f, file
  <2> QED BY <1>0, <1>2, WithFile
<1>4. FilesOK(files')
  <2>1. FileOK(f, file)
    <3>1. f[1] = "table" /\ file.synced <= Len(file.recs)
      BY Parts
    <3> QED BY <3>1 DEF FileOK
  <2>2. f \in {"MANIFEST", "log", "table", "dbtmp"} \X Nat
    BY <1>1 DEF TableFile
  <2>3. DOMAIN files' \subseteq {CURRENT} \cup {"MANIFEST", "log", "table", "dbtmp"} \X Nat
    BY <1>1, <1>3, <2>2 DEF FilesOK
  <2> HIDE DEF f, file
  <2> QED BY <1>1, <1>3, <2>1, <2>3, FilesOKKept
<1>5. SameLogs(files, files')
  BY <1>3, Names DEF SameLogs, LogSet
<1>6. /\ LogSet(files') = LogSet(files) /\ AllLogs(files') = AllLogs(files) /\ AllSynced(files') = AllSynced(files)
      /\ \A n \in LogSet(files) : LogEntries(files', n) = LogEntries(files, n)
  BY <1>5, SameLogsFacts
<1>7. Grows
  <2>1. SameManifest(files, files')
    <3>1. Descriptor(Number(files)) \in DOMAIN files
      BY <1>1 DEF IInv, ManifestOK, ManifestFine
    <3> QED BY <1>1, <1>3, <3>1 DEF SameManifest, Exists
  <2>2. \A n \in Nat : Descriptor(n) \in DOMAIN files' => Descriptor(n) \in DOMAIN files
    BY <1>3, Names
  <2> QED BY <1>3, <1>6, <2>1, <2>2 DEF Grows
<1>8. Keeps
  <2>1. /\ Store(files) = Entries(files, Full(files).added) \cup AllLogs(files)
        /\ Store(files') = Entries(files, Full(files).added) \cup AllLogs(files')
        /\ ~ReuseLogs => Stable(files) \subseteq Stable(files')
    BY <1>1, <1>6, <1>7, GrowStore
  <2> QED BY <1>6, <2>1 DEF Keeps
<1>9. \A g \in DOMAIN files' : g[2] < vs.next + 1
  <2> SUFFICES ASSUME NEW g \in DOMAIN files' PROVE g[2] < vs.next + 1
    OBVIOUS
  <2>1. CASE g = f
    BY <1>1, <2>1, Parts
  <2>2. CASE g # f
    <3>1. g \in DOMAIN files /\ g[2] < vs.next
      BY <1>1, <1>3, <2>2
    <3>2. g[2] \in Int
      <4>1. \/ g = CURRENT
            \/ \E n \in Nat : g = LogFile(n) \/ g = Descriptor(n) \/ g = TableFile(n) \/ g = TempFile(n)
        BY <1>1, <3>1, Kinds
      <4> QED BY <4>1, Parts
    <3> QED BY <1>1, <3>1, <3>2
  <2> QED BY <2>1, <2>2
<1> QED BY <1>3, <1>4, <1>5, <1>7, <1>8, <1>9

\* An edit starts on its way: what must hold of the version it makes.
LEMMA StartApplyStep ==
  ASSUME IInv, pc = "open", ~bg_error_, pc' = "apply",
         UNCHANGED <<options_, pending, mem_, imm_, has_mem_, has_imm_, logfile_number_, bg_error_, w, pinned, created>>,
         vs' \in VersionsSet, vs'.version = vs.version, vs'.log = vs.log, vs'.last = vs.last,
         vs'.manifest = vs.manifest, vs'.descriptor = vs.descriptor, vs.next <= vs'.next,
         job' \in JobSet, ~job'.fresh, ~job'.opening,
         job'.edit.log = vs.log \/ (job'.edit.log = logfile_number_ /\ has_imm_),
         FilesOK(files'), Grows, SameLogs(files, files'),
         \A g \in DOMAIN files : g \in DOMAIN files',
         \A f \in DOMAIN files' : f[2] < vs'.next,
         NEW tables, tables = ApplyEdit(vs.version, job'.edit),
         Sound(files', tables, job'.edit.log, vs'.next, vs.last),
         Entries(files', vs.version) \subseteq Entries(files', tables),
         Entries(files', tables) \subseteq Data(files', vs.version)
  PROVE  IInv'
<1>1. /\ Opened /\ Ready /\ Running /\ Exists(CURRENT) /\ ~Creating /\ ~Fresh /\ created
      /\ TypeOK /\ Full(files).has
      /\ vs.next \in Nat /\ vs.last \in Nat /\ vs.log \in Nat /\ vs.version \in SUBSET TableSet
      /\ vs.manifest \in Nat /\ vs'.next \in Nat /\ logfile_number_ \in Nat
  <2>1. Opened
    BY DEF Opened
  <2> QED BY <2>1, OpenedReady, InUse DEF IInv, TypeOK, VersionsSet
<1>2. /\ Sound(files', vs.version, vs.log, vs.next, vs.last)
      /\ ManifestFine(files', created, ReuseLogs) /\ CURRENT \in DOMAIN files'
      /\ Number(files') = Number(files) /\ Current(files') = Current(files)
      /\ Full(files') = Full(files) /\ Durable(files') = Durable(files)
      /\ Entries(files', vs.version) \subseteq Data(files', Full(files').added)
      /\ Entries(files', Full(files').added) \subseteq Data(files', vs.version)
  BY <1>1, GrowStep
<1>3. /\ LogSet(files') = LogSet(files) /\ LogsAscend(files')
      /\ \A n \in LogSet(files) : LogEntries(files', n) = LogEntries(files, n)
      /\ \A n \in LogSet(files) : SyncedEntries(files', n) = SyncedEntries(files, n)
  BY SameLogsFacts DEF IInv
<1>4. /\ Opened' /\ Ready' /\ Running' /\ ~Fresh' /\ Applying' /\ ReuseLogs' = ReuseLogs /\ ~Creating'
  BY DEF Opened, Ready, Running, Applying, Fresh, ReuseLogs, Creating
<1>5. TypeOK'
  BY <1>1 DEF TypeOK, PCs
<1>6. CreatingOK' /\ ManifestOK' /\ LogsAscend(files)' /\ MemoryOK'
  BY <1>2, <1>3, <1>4 DEF CreatingOK, ManifestOK, MemoryOK, Exists
<1>7. logfile_number_ \in LogSet(files) /\ logfile_number_ < vs.next /\ vs.log <= logfile_number_
  BY <1>1 DEF IInv, ReadyOK
<1>8. OpenedOK'
  <2>1. \A i \in DOMAIN pinned' : Missing(pinned[i])' = {}
    BY DEF IInv, OpenedOK, Missing, Exists
  <2>2. w.at # "idle" => /\ vs.last + 1 \in LogEntries(files', logfile_number_)
                         /\ w.at = "insert" /\ w.sync => vs.last + 1 \in SyncedEntries(files', logfile_number_)
    BY <1>3, <1>7 DEF IInv, OpenedOK
  <2>3. ~has_imm_ => imm_ = {}
    BY DEF IInv, OpenedOK
  <2> QED BY <1>1, <1>2, <1>4, <2>1, <2>2, <2>3 DEF OpenedOK, Exists, Missing
<1>9. /\ Full(files) \in EditSet /\ Full(files).next <= vs.next /\ Full(files).last <= vs.last /\ vs.log < vs.next
  BY <1>1 DEF IInv, RunningOK, ManifestOK, ManifestFine
<1>10. vs.log < vs'.next /\ Full(files).next <= vs'.next /\ logfile_number_ < vs'.next /\ job'.edit.log < vs'.next
       /\ vs.log <= vs.log /\ vs'.next <= vs'.next /\ vs.last <= vs.last /\ logfile_number_ <= logfile_number_
  BY <1>1, <1>7, <1>9 DEF EditSet
<1>11. RunningOK'
  <2>1. Sound(files', vs.version, vs.log, vs'.next, vs.last)
    BY <1>1, <1>2, SoundWeaker
  <2> QED BY <1>1, <1>2, <1>9, <1>10, <2>1 DEF RunningOK
<1>12. LogsOK'
  BY DEF LogsOK
<1>13. \A n \in Nat : Descriptor(n) \in DOMAIN files' => n < vs'.next
  BY Parts
<1>14. ReadyOK'
  <2>1. UNION {LogEntries(files', n) : n \in {n \in LogSet(files') : vs.log <= n /\ n < logfile_number_}} =
        UNION {LogEntries(files, n) : n \in {n \in LogSet(files) : vs.log <= n /\ n < logfile_number_}}
    BY <1>3
  <2>2. imm_ = UNION {LogEntries(files', n) : n \in {n \in LogSet(files') : vs.log <= n /\ n < logfile_number_}}
    BY <1>1, <2>1 DEF IInv, ReadyOK
  <2>3. vs.manifest < vs'.next
    <3>1. vs.manifest < vs.next
      BY <1>1 DEF IInv, ReadyOK
    <3> QED BY <1>1, <3>1
  <2>4. /\ has_mem_
        /\ \A n \in LogSet(files') : n <= logfile_number_
        /\ LogEntries(files', logfile_number_) = mem_ \cup (IF w.at = "idle" THEN {} ELSE {vs.last + 1})
        /\ \A e \in mem_ : e <= vs.last
        /\ \A n \in LogSet(files') : n # logfile_number_ => \A e \in LogEntries(files', n) : e <= vs.last
        /\ has_imm_ => vs.log < logfile_number_
    BY <1>1, <1>3, <1>7 DEF IInv, ReadyOK
  <2> QED BY <1>3, <1>7, <1>10, <1>13, <2>2, <2>3, <2>4 DEF ReadyOK, Exists
<1>15. NextVersion' = tables /\ NextNext' = vs'.next /\ NextLast' = vs.last
  BY DEF NextVersion, NextNext, NextLast
<1>16. ApplyingOK'
  BY <1>2, <1>7, <1>9, <1>10, <1>13, <1>15 DEF ApplyingOK, Exists
<1>17. PhaseOK'
  <2>1. IsCurrent(Full(files)) /\ vs.descriptor /\ Number(files) = vs.manifest
        /\ (~ReuseLogs => Len(Current(files).recs) = Current(files).synced)
    BY <1>1 DEF IInv, PhaseOK
  <2>2. IsCurrent(Full(files))'
    BY <1>2, <2>1 DEF IsCurrent
  <2> QED BY <1>2, <1>4, <2>1, <2>2 DEF PhaseOK
<1> QED BY <1>5, <1>6, <1>8, <1>11, <1>12, <1>14, <1>16, <1>17 DEF IInv
LEMMA CompactMemTableStep == IInv /\ CompactMemTable /\ options_' = options_ => IInv' /\ Keeps
<1> SUFFICES ASSUME IInv, CompactMemTable, options_' = options_ PROVE IInv' /\ Keeps
  OBVIOUS
<1> DEFINE t0 == [num |-> vs.next, level |-> 0]
           tables == vs.version \cup {t0}
           log == logfile_number_
           edit == [NoEdit EXCEPT !.added = {t0}, !.deleted = {}, !.log = log]
<1>0. /\ pc = "open" /\ pc' = "apply" /\ has_imm_ /\ ~bg_error_
      /\ BuildTable(vs.next, imm_) /\ vs' = [vs EXCEPT !.next = @ + 1]
      /\ job' = [edit |-> edit, save |-> TRUE, fresh |-> FALSE, opening |-> FALSE, output |-> FALSE]
      /\ UNCHANGED <<options_, pending, mem_, imm_, has_mem_, has_imm_, logfile_number_, bg_error_, w, pinned, created>>
  BY DEF CompactMemTable, FlushTo, StartApply, memory
<1>1. /\ Opened /\ Ready /\ Running /\ TypeOK
      /\ vs.next \in Nat /\ vs.last \in Nat /\ vs.log \in Nat /\ vs.version \in SUBSET TableSet
      /\ log \in Nat /\ vs \in VersionsSet /\ imm_ \in SUBSET Nat
  <2>1. Opened
    BY <1>0 DEF Opened
  <2> QED BY <2>1, OpenedReady, InUse DEF IInv, TypeOK, VersionsSet
<1>2. /\ vs' \in VersionsSet /\ vs'.version = vs.version /\ vs'.log = vs.log /\ vs'.next = vs.next + 1
      /\ vs'.last = vs.last /\ vs'.manifest = vs.manifest /\ vs'.descriptor = vs.descriptor /\ vs.next <= vs'.next
  BY <1>0, <1>1 DEF VersionsSet
<1>3. t0 \in TableSet /\ t0.num = vs.next /\ t0.level = 0
  BY <1>1 DEF TableSet
<1>4. edit \in EditSet /\ edit.added = {t0} /\ edit.deleted = {} /\ edit.log = log
  <2> HIDE DEF t0
  <2> QED BY <1>1, <1>3 DEF NoEdit, EditSet
<1> HIDE DEF edit
<1>5. job' \in JobSet /\ job'.edit = edit /\ ~job'.fresh /\ ~job'.opening
  BY <1>0, <1>4 DEF JobSet
<1>6. /\ FilesOK(files') /\ Grows /\ SameLogs(files, files') /\ Keeps
      /\ TableFile(vs.next) \in DOMAIN files' /\ files'[TableFile(vs.next)].recs[1] = imm_
      /\ \A g \in DOMAIN files : g \in DOMAIN files' /\ files'[g] = files[g]
      /\ \A f \in DOMAIN files' : f[2] < vs.next + 1
  BY <1>0, <1>1, NewTableFacts
<1>7. /\ Sound(files', vs.version, vs.log, vs.next, vs.last)
      /\ \A t \in vs.version : t.num \in Nat /\ t.num < vs.next /\ TableFile(t.num) \in DOMAIN files'
      /\ \A a \in Entries(files', vs.version) : a \in Nat /\ a <= vs.last
  BY <1>1, <1>6, GrowStep, InUse
<1>8. /\ LogSet(files') = LogSet(files) /\ LogsAscend(files') /\ AllLogs(files') = AllLogs(files)
      /\ \A n \in LogSet(files) : LogEntries(files', n) = LogEntries(files, n)
  BY <1>6, SameLogsFacts DEF IInv
<1>9. Entries(files', tables) = Entries(files', vs.version) \cup imm_
  <2>1. Entries(files', {t0}) = imm_
    BY <1>3, <1>6 DEF Entries
  <2>2. Entries(files', tables) = Entries(files', vs.version) \cup Entries(files', {t0})
    BY DEF Entries
  <2> QED BY <2>1, <2>2
<1>10. /\ log \in LogSet(files) /\ vs.log < log /\ log < vs.next
       /\ \A n \in LogSet(files) : n \in Nat /\ n <= log
       /\ \A n \in LogSet(files) : n # log => \A e \in LogEntries(files, n) : e <= vs.last
       /\ imm_ = UNION {LogEntries(files, n) : n \in {n \in LogSet(files) : vs.log <= n /\ n < log}}
  BY <1>0, <1>1 DEF IInv, ReadyOK, LogSet
<1>11. \A x \in imm_ : \E n \in LogSet(files') : vs.log <= n /\ n < log /\ x \in LogEntries(files', n)
  BY <1>8, <1>10
<1>12. \A a \in Entries(files', vs.version), b \in imm_ : a < b
  <2> SUFFICES ASSUME NEW a \in Entries(files', vs.version), NEW b \in imm_ PROVE a < b
    OBVIOUS
  <2>1. PICK n \in LogSet(files') : vs.log <= n /\ n < log /\ b \in LogEntries(files', n)
    BY <1>11
  <2>2. n >= vs.log
    BY <1>1, <1>8, <1>10, <2>1
  <2> QED BY <1>7, <2>1, <2>2 DEF Sound
<1>13. Sound(files', tables, log, vs.next + 1, vs.last)
  <2>1. \A t \in tables : TableFile(t.num) \in DOMAIN files' /\ t.num < vs.next + 1
    BY <1>1, <1>3, <1>6, <1>7
  <2>2. LevelsAscend(files', tables)
    <3> SUFFICES ASSUME NEW s \in tables, NEW t \in tables,
                        (s.level = 1 /\ t.level = 0) \/ (s.level = 0 /\ t.level = 0 /\ s.num < t.num),
                        NEW a \in files'[TableFile(s.num)].recs[1], NEW b \in files'[TableFile(t.num)].recs[1]
                 PROVE  a < b
      BY DEF LevelsAscend
    <3>1. CASE s \in vs.version /\ t \in vs.version
      BY <1>7, <3>1 DEF Sound, LevelsAscend
    <3>2. CASE s \in vs.version /\ t = t0
      <4>1. a \in Entries(files', vs.version) /\ b \in imm_
        BY <1>3, <1>6, <3>2 DEF Entries
      <4> QED BY <1>12, <4>1
    <3>3. CASE s = t0
      <4>1. s.level = 0 /\ s.num = vs.next /\ s.num < t.num
        BY <1>3, <3>3
      <4>2. t.num \in Nat /\ t.num <= vs.next
        BY <1>1, <1>3, <1>7
      <4> QED BY <1>1, <4>1, <4>2
    <3> QED BY <3>1, <3>2, <3>3
  <2>3. \A n \in LogSet(files') : n >= log => \A a \in Entries(files', tables), b \in LogEntries(files', n) : a < b
    <3> SUFFICES ASSUME NEW n \in LogSet(files'), n >= log, NEW a \in Entries(files', tables), NEW b \in LogEntries(files', n)
                 PROVE  a < b
      OBVIOUS
    <3>1. n = log /\ n >= vs.log
      <4>1. n \in Nat /\ n <= log /\ n >= log /\ log \in Nat /\ vs.log \in Nat /\ vs.log < log
        BY <1>1, <1>8, <1>10
      <4> HIDE DEF log
      <4> QED BY ONLY <4>1
    <3>2. CASE a \in Entries(files', vs.version)
      BY <1>7, <3>1, <3>2 DEF Sound
    <3>3. CASE a \in imm_
      <4>1. PICK k \in LogSet(files') : k < log /\ a \in LogEntries(files', k)
        BY <1>11, <3>3
      <4> QED BY <1>8, <3>1, <4>1 DEF LogsAscend
    <3> QED BY <1>9, <3>2, <3>3
  <2>4. \A n \in LogSet(files') : n < log => LogEntries(files', n) \subseteq Entries(files', tables)
    <3> SUFFICES ASSUME NEW n \in LogSet(files'), n < log PROVE LogEntries(files', n) \subseteq Entries(files', tables)
      OBVIOUS
    <3>1. n \in Nat /\ n \in LogSet(files) /\ LogEntries(files', n) = LogEntries(files, n)
      BY <1>8, <1>10
    <3>2. CASE n < vs.log
      BY <1>7, <1>9, <3>2 DEF Sound
    <3>3. CASE vs.log <= n
      BY <1>9, <1>10, <3>1, <3>3
    <3> QED BY <1>1, <3>1, <3>2, <3>3
  <2>5. \A a \in Entries(files', tables) : a <= vs.last
    <3>1. \A a \in imm_ : a <= vs.last
      BY <1>10
    <3> QED BY <1>7, <1>9, <3>1
  <2> HIDE DEF tables
  <2> QED BY <2>1, <2>2, <2>3, <2>4, <2>5 DEF Sound
<1>14. /\ Entries(files', vs.version) \subseteq Entries(files', tables)
       /\ Entries(files', tables) \subseteq Data(files', vs.version)
  <2>1. imm_ \subseteq AllLogs(files')
    BY <1>11 DEF AllLogs
  <2> QED BY <1>9, <2>1 DEF Data
<1>15. tables = ApplyEdit(vs.version, job'.edit)
  BY <1>4, <1>5 DEF ApplyEdit
<1> HIDE DEF tables
<1>16. IInv'
  BY <1>0, <1>2, <1>4, <1>5, <1>6, <1>13, <1>14, <1>15, StartApplyStep
<1> QED BY <1>6, <1>16
\* A set of tables with bounded numbers is finite; one of a single table is that table.
LEMMA TablesFinite ==
  ASSUME NEW T \in SUBSET TableSet, NEW n \in Nat, \A t \in T : t.num < n
  PROVE  /\ IsFiniteSet(T)
         /\ Cardinality(T) = 1 => \E x : T = {x}
<1> DEFINE f == [t \in T |-> <<t.num, t.level>>]
<1>1. IsFiniteSet(0 .. n - 1) /\ IsFiniteSet(0 .. 1) /\ 0 .. 1 = {0, 1}
  <2>1. 0 \in Int /\ 1 \in Int /\ n - 1 \in Int /\ 0 .. 1 = {0, 1}
    OBVIOUS
  <2> QED BY <2>1, FS_Interval
<1>2. IsFiniteSet((0 .. n - 1) \X {0, 1})
  BY <1>1, FS_Product
<1>3. \A t \in T : t = [num |-> t.num, level |-> t.level] /\ t.num \in 0 .. n - 1 /\ t.level \in {0, 1}
  BY DEF TableSet
<1>4. f \in [T -> (0 .. n - 1) \X {0, 1}]
  BY <1>3
<1>5. \A s, t \in T : f[s] = f[t] => s = t
  <2> SUFFICES ASSUME NEW s \in T, NEW t \in T, f[s] = f[t] PROVE s = t
    OBVIOUS
  <2>1. s.num = t.num /\ s.level = t.level
    OBVIOUS
  <2> QED BY <1>3, <2>1
<1> HIDE DEF f
<1>6. f \in Injection(T, (0 .. n - 1) \X {0, 1})
  BY <1>4, <1>5 DEF Injection, IsInjective
<1>7. IsFiniteSet(T)
  BY <1>2, <1>6, FS_Injection
<1> QED BY <1>7, FS_Singleton

\* A step that writes no file.
LEMMA SameFilesStep ==
  ASSUME IInv, Running, files' = files, options_' = options_
  PROVE  FilesOK(files') /\ Grows /\ SameLogs(files, files') /\ Keeps
<1>1. Exists(CURRENT) /\ Descriptor(Number(files)) \in DOMAIN files /\ FilesOK(files)
  BY InUse DEF IInv, ManifestOK, ManifestFine, TypeOK
<1>2. SameManifest(files, files') /\ SameLogs(files, files')
  BY <1>1 DEF SameManifest, SameLogs, Number, Exists
<1>3. Grows
  BY <1>2 DEF Grows
<1>4. Keeps
  BY DEF Keeps
<1> QED BY <1>1, <1>2, <1>3, <1>4
\* One table of level 1 with the entries of the tables it replaces.
LEMMA MergedSound ==
  ASSUME NEW fs, NEW T, NEW log, NEW next, NEW last, Sound(fs, T, log, next, last),
         NEW t, t.level = 1, NEW next2, t.num < next2, TableFile(t.num) \in DOMAIN fs,
         Entries(fs, {t}) = Entries(fs, T)
  PROVE  Sound(fs, {t}, log, next2, last)
<1>1. LevelsAscend(fs, {t})
  BY DEF LevelsAscend
<1>2. /\ \A n \in LogSet(fs) : n >= log => \A a \in Entries(fs, {t}), b \in LogEntries(fs, n) : a < b
      /\ \A n \in LogSet(fs) : n < log => LogEntries(fs, n) \subseteq Entries(fs, {t})
      /\ \A a \in Entries(fs, {t}) : a <= last
  BY DEF Sound
<1>3. \A s \in {t} : TableFile(s.num) \in DOMAIN fs /\ s.num < next2
  OBVIOUS
<1> QED BY <1>1, <1>2, <1>3 DEF Sound

LEMMA CompactLevelStep == IInv /\ CompactLevel /\ options_' = options_ => IInv' /\ Keeps
<1> SUFFICES ASSUME IInv, CompactLevel, options_' = options_ PROVE IInv' /\ Keeps
  OBVIOUS
<1> DEFINE upper == {t \in vs.version : t.level = 0}
           single == Cardinality(vs.version) = 1
<1>1. /\ pc = "open" /\ ~bg_error_ /\ upper # {}
      /\ single => /\ StartApply({[num |-> t.num, level |-> 1] : t \in upper}, upper, vs.log, FALSE)
                   /\ UNCHANGED <<files, vs>>
      /\ ~single => /\ BuildTable(vs.next, TableEntries(vs.version)) /\ vs' = [vs EXCEPT !.next = @ + 1]
                    /\ StartApply({[num |-> vs.next, level |-> 1]}, vs.version, vs.log, TRUE)
  BY DEF CompactLevel
<1>2. Opened /\ Ready /\ Running /\ TypeOK
  <2>1. Opened
    BY <1>1 DEF Opened
  <2> QED BY <2>1, OpenedReady DEF IInv
<1>3. /\ vs.next \in Nat /\ vs.last \in Nat /\ vs.log \in Nat /\ vs.version \in SUBSET TableSet /\ vs \in VersionsSet
      /\ \A t \in vs.version : t.num \in Nat /\ t.num < vs.next /\ TableFile(t.num) \in DOMAIN files
      /\ \A f \in DOMAIN files : f[2] < vs.next
  BY <1>2, InUse DEF IInv, TypeOK, VersionsSet, OpenedOK
<1>4. ASSUME NEW t \in TableSet, t.level = 1, NEW deleted \in SUBSET TableSet, NEW output \in BOOLEAN,
             StartApply({t}, deleted, vs.log, output), deleted = vs.version,
             vs' \in VersionsSet, vs'.version = vs.version, vs'.log = vs.log, vs'.last = vs.last,
             vs'.manifest = vs.manifest, vs'.descriptor = vs.descriptor, vs.next <= vs'.next,
             FilesOK(files'), Grows, SameLogs(files, files'),
             \A g \in DOMAIN files : g \in DOMAIN files',
             \A f \in DOMAIN files' : f[2] < vs'.next,
             TableFile(t.num) \in DOMAIN files', t.num < vs'.next,
             Entries(files', {t}) = Entries(files, vs.version)
      PROVE  IInv'
  <2> DEFINE edit == [NoEdit EXCEPT !.added = {t}, !.deleted = deleted, !.log = vs.log]
  <2>1. /\ pc' = "apply"
        /\ job' = [edit |-> edit, save |-> TRUE, fresh |-> FALSE, opening |-> FALSE, output |-> output]
        /\ UNCHANGED <<pending, mem_, imm_, has_mem_, has_imm_, logfile_number_, bg_error_, w, pinned, created>>
    BY <1>4 DEF StartApply, memory
  <2>2. edit \in EditSet /\ edit.added = {t} /\ edit.deleted = vs.version /\ edit.log = vs.log
    BY <1>3, <1>4 DEF NoEdit, EditSet
  <2> HIDE DEF edit
  <2>3. job' \in JobSet /\ job'.edit = edit /\ ~job'.fresh /\ ~job'.opening
    BY <1>4, <2>1, <2>2 DEF JobSet
  <2>4. {t} = ApplyEdit(vs.version, job'.edit)
    BY <2>2, <2>3 DEF ApplyEdit
  <2>5. Sound(files', vs.version, vs.log, vs.next, vs.last) /\ Entries(files', vs.version) = Entries(files, vs.version)
    BY <1>2, <1>4, GrowStep
  <2>6. Sound(files', {t}, vs.log, vs'.next, vs.last)
    BY <1>4, <2>5, MergedSound
  <2>7. /\ Entries(files', vs.version) \subseteq Entries(files', {t})
        /\ Entries(files', {t}) \subseteq Data(files', vs.version)
    BY <1>4, <2>5 DEF Data
  <2>8. job'.edit.log = vs.log
    BY <2>2, <2>3
  <2> QED BY <1>1, <1>4, <2>1, <2>3, <2>4, <2>6, <2>7, <2>8, StartApplyStep
<1>5. CASE single
  <2>1. PICK x : vs.version = {x}
    <3>1. \A t \in vs.version : t.num < vs.next
      BY <1>3
    <3> QED BY <1>3, <1>5, <3>1, TablesFinite
  <2>2. x \in TableSet /\ x.level = 0 /\ upper = {x} /\ x.num \in Nat
    BY <1>1, <1>3, <2>1
  <2> DEFINE t == [num |-> x.num, level |-> 1]
  <2>3. {[num |-> u.num, level |-> 1] : u \in upper} = {t}
    BY <2>2
  <2>4. t \in TableSet /\ t.level = 1 /\ t.num = x.num
    BY <2>2 DEF TableSet
  <2>5. StartApply({t}, vs.version, vs.log, FALSE) /\ files' = files /\ vs' = vs
    BY <1>1, <1>5, <2>1, <2>2, <2>3
  <2> HIDE DEF t
  <2>6. FilesOK(files') /\ Grows /\ SameLogs(files, files') /\ Keeps
    BY <1>2, <2>5, SameFilesStep
  <2>7. Entries(files', {t}) = Entries(files, vs.version)
    BY <2>1, <2>4, <2>5 DEF Entries
  <2>8. TableFile(t.num) \in DOMAIN files' /\ t.num < vs'.next /\ vs.next <= vs'.next
    BY <1>3, <2>1, <2>4, <2>5
  <2>9. IInv'
    BY <1>3, <1>4, <2>4, <2>5, <2>6, <2>7, <2>8
  <2> QED BY <2>6, <2>9
<1>6. CASE ~single
  <2> DEFINE t == [num |-> vs.next, level |-> 1]
             entries == TableEntries(vs.version)
  <2>1. t \in TableSet /\ t.level = 1 /\ t.num = vs.next
    BY <1>3 DEF TableSet
  <2>2. StartApply({t}, vs.version, vs.log, TRUE) /\ BuildTable(vs.next, entries) /\ vs' = [vs EXCEPT !.next = @ + 1]
    BY <1>1, <1>6
  <2>3. entries = Entries(files, vs.version)
    BY DEF TableEntries, Entries
  <2>4. entries \in SUBSET Nat
    BY <1>2, <1>3, <2>3, EntriesTypes DEF TypeOK
  <2> HIDE DEF t, entries
  <2>5. /\ FilesOK(files') /\ Grows /\ SameLogs(files, files') /\ Keeps
        /\ TableFile(vs.next) \in DOMAIN files' /\ files'[TableFile(vs.next)].recs[1] = entries
        /\ \A g \in DOMAIN files : g \in DOMAIN files' /\ files'[g] = files[g]
        /\ \A f \in DOMAIN files' : f[2] < vs.next + 1
    BY <1>2, <2>2, <2>4, NewTableFacts
  <2>6. /\ vs' \in VersionsSet /\ vs'.version = vs.version /\ vs'.log = vs.log /\ vs'.next = vs.next + 1
        /\ vs'.last = vs.last /\ vs'.manifest = vs.manifest /\ vs'.descriptor = vs.descriptor /\ vs.next <= vs'.next
    BY <1>3, <2>2 DEF VersionsSet
  <2>7. Entries(files', {t}) = Entries(files, vs.version)
    BY <2>1, <2>3, <2>5 DEF Entries
  <2>8. TableFile(t.num) \in DOMAIN files' /\ t.num < vs'.next
    BY <1>3, <2>1, <2>5, <2>6
  <2>9. IInv'
    <3>1. \A f \in DOMAIN files' : f[2] < vs'.next
      BY <2>5, <2>6
    <3>2. TRUE \in BOOLEAN /\ vs.version \in SUBSET TableSet /\ vs.version = vs.version
      BY <1>3
    <3> QED BY <1>4, <2>1, <2>2, <2>5, <2>6, <2>7, <2>8, <3>1, <3>2
  <2> QED BY <2>5, <2>9
<1> QED BY <1>5, <1>6
-----------------------------------------------------------------------------
(* Deleting files *)

\* What DeleteObsoleteFiles leaves: the logs, tables and manifest in use.
LEMMA CollectFacts ==
  ASSUME IInv, pc = "gc", ~bg_error_, files' = Without(files, {f \in DOMAIN files : ~Keep(f, Live)})
  PROVE  /\ FilesOK(files') /\ SameManifest(files, files')
         /\ \A g \in DOMAIN files' : g \in DOMAIN files /\ files'[g] = files[g] /\ Keep(g, Live)
         /\ \A n \in Nat : LogFile(n) \in DOMAIN files /\ vs.log <= n => LogFile(n) \in DOMAIN files'
         /\ \A T \in {vs.version} \cup ToSet(pinned) : \A t \in T :
              TableFile(t.num) \in DOMAIN files /\ t.num \in Nat /\ TableFile(t.num) \in DOMAIN files'
         /\ IsCurrent(Full(files)) /\ (~ReuseLogs => Durable(files) = Full(files))
<1> DEFINE gone == {f \in DOMAIN files : ~Keep(f, Live)}
<1>1. /\ DOMAIN files' = DOMAIN files \ gone
      /\ \A g \in DOMAIN files \ gone : files'[g] = files[g]
  BY WithoutFiles
<1>2. \A g : g \in DOMAIN files' <=> g \in DOMAIN files /\ Keep(g, Live)
  BY <1>1
<1>3. \A g \in DOMAIN files' : files'[g] = files[g]
  BY <1>1
<1> HIDE DEF gone
<1>4. Ready /\ Running /\ Exists(CURRENT) /\ TypeOK /\ ~Fresh /\ pc # "apply"
      /\ FilesOK(files) /\ vs.manifest \in Nat /\ vs.log \in Nat
  BY DEF IInv, Ready, Running, OpenedOK, TypeOK, Fresh, VersionsSet
<1>5. IsCurrent(Full(files)) /\ Number(files) = vs.manifest
      /\ (~ReuseLogs => Len(Current(files).recs) = Current(files).synced)
  BY <1>4 DEF IInv, PhaseOK
<1>6. FilesOK(files')
  <2>1. DOMAIN files' \subseteq {CURRENT} \cup {"MANIFEST", "log", "table", "dbtmp"} \X Nat
    BY <1>2, <1>4 DEF FilesOK
  <2>2. \A f \in DOMAIN files' : f \in DOMAIN files /\ files'[f] = files[f]
    BY <1>2, <1>3
  <2> QED BY <1>4, <2>1, <2>2, FilesOKKept
<1>7. Descriptor(Number(files)) \in DOMAIN files
  BY <1>4 DEF IInv, ManifestOK, ManifestFine
<1>8. SameManifest(files, files')
  <2>1. Keep(CURRENT, Live)
    BY Parts DEF Keep
  <2>2. Keep(Descriptor(Number(files)), Live)
    BY <1>4, <1>5, Parts DEF Keep
  <2>3. CURRENT \in DOMAIN files' /\ Descriptor(Number(files)) \in DOMAIN files'
    BY <1>2, <1>4, <1>7, <2>1, <2>2 DEF Exists
  <2> QED BY <1>3, <2>3 DEF SameManifest
<1>9. \A n \in Nat : LogFile(n) \in DOMAIN files /\ vs.log <= n => LogFile(n) \in DOMAIN files'
  <2> SUFFICES ASSUME NEW n \in Nat, LogFile(n) \in DOMAIN files, vs.log <= n PROVE LogFile(n) \in DOMAIN files'
    OBVIOUS
  <2>1. Keep(LogFile(n), Live)
    BY <1>4, Parts DEF Keep
  <2> QED BY <1>2, <2>1
<1>10. ASSUME NEW T \in {vs.version} \cup ToSet(pinned), NEW t \in T
       PROVE  TableFile(t.num) \in DOMAIN files /\ t.num \in Nat /\ TableFile(t.num) \in DOMAIN files'
  <2>1. TableFile(t.num) \in DOMAIN files /\ t.num \in Nat
    <3>1. CASE T = vs.version
      BY <1>4, <3>1, InUse
    <3>2. CASE T \in ToSet(pinned)
      <4>1. PICK i \in DOMAIN pinned : T = pinned[i]
        BY <3>2 DEF ToSet
      <4>2. T \in SUBSET TableSet
        BY <1>4, <4>1 DEF TypeOK
      <4>3. Missing(pinned[i]) = {}
        BY <4>1 DEF IInv, OpenedOK
      <4> QED BY <4>1, <4>2, <4>3 DEF Missing, Exists, TableSet
    <3> QED BY <3>1, <3>2
  <2>2. t \in Live
    BY DEF Live
  <2>3. Keep(TableFile(t.num), Live)
    BY <2>2, Parts DEF Keep
  <2> QED BY <1>2, <2>1, <2>3
<1>11. ~ReuseLogs => Durable(files) = Full(files)
  <2>1. \E n \in Nat : files[CURRENT] = [recs |-> <<n>>, synced |-> 1]
    BY <1>4, FileTypes DEF Exists
  <2>2. Number(files) \in Nat
    BY <2>1 DEF Number
  <2>3. Current(files).recs \in Seq(EditSet)
    BY <1>4, <1>7, <2>2, FileTypes DEF Current
  <2> QED BY <1>5, <2>3, SubSeqFull DEF Durable, Full
<1>12. \A T \in {vs.version} \cup ToSet(pinned) : \A t \in T :
              TableFile(t.num) \in DOMAIN files /\ t.num \in Nat /\ TableFile(t.num) \in DOMAIN files'
  BY <1>10
<1>13. \A g \in DOMAIN files' : g \in DOMAIN files /\ files'[g] = files[g] /\ Keep(g, Live)
  BY <1>2, <1>3
<1> QED BY <1>5, <1>6, <1>8, <1>9, <1>11, <1>12, <1>13
\* The logs that go are in the tables of the version: nothing is lost with them.
LEMMA CollectData ==
  ASSUME IInv, pc = "gc", ~bg_error_, files' = Without(files, {f \in DOMAIN files : ~Keep(f, Live)}),
         options_' = options_
  PROVE  /\ \A n \in LogSet(files') : n \in LogSet(files) /\ files'[LogFile(n)] = files[LogFile(n)]
         /\ \A n \in LogSet(files) : vs.log <= n => n \in LogSet(files')
         /\ ManifestFine(files', TRUE, ReuseLogs)
         /\ Sound(files', vs.version, vs.log, vs.next, vs.last)
         /\ Entries(files', vs.version) = Entries(files, vs.version)
         /\ Keeps
<1>1. /\ FilesOK(files') /\ SameManifest(files, files')
      /\ \A g \in DOMAIN files' : g \in DOMAIN files /\ files'[g] = files[g] /\ Keep(g, Live)
      /\ \A n \in Nat : LogFile(n) \in DOMAIN files /\ vs.log <= n => LogFile(n) \in DOMAIN files'
      /\ \A T \in {vs.version} \cup ToSet(pinned) : \A t \in T :
           TableFile(t.num) \in DOMAIN files /\ t.num \in Nat /\ TableFile(t.num) \in DOMAIN files'
      /\ IsCurrent(Full(files)) /\ (~ReuseLogs => Durable(files) = Full(files))
  BY CollectFacts
<1>2. Ready /\ Running /\ Exists(CURRENT) /\ TypeOK /\ vs.log \in Nat /\ vs.version \in SUBSET TableSet
      /\ logfile_number_ \in Nat
  BY DEF IInv, Ready, Running, OpenedOK, TypeOK, VersionsSet
<1>3. /\ \A n \in LogSet(files') : n \in LogSet(files) /\ files'[LogFile(n)] = files[LogFile(n)]
      /\ \A n \in LogSet(files) : vs.log <= n => n \in LogSet(files')
  BY <1>1 DEF LogSet
<1>4. \A n \in LogSet(files') : LogEntries(files', n) = LogEntries(files, n) /\ SyncedEntries(files', n) = SyncedEntries(files, n)
  BY <1>3 DEF LogEntries, SyncedEntries
<1>5. \A t \in vs.version : TableFile(t.num) \in DOMAIN files' /\ files'[TableFile(t.num)] = files[TableFile(t.num)]
  BY <1>1
<1>6. Entries(files', vs.version) = Entries(files, vs.version)
  BY <1>5, SameEntries
<1>7. Sound(files, vs.version, vs.log, vs.next, vs.last)
  BY <1>2 DEF IInv, RunningOK
<1>8. Sound(files', vs.version, vs.log, vs.next, vs.last)
  BY <1>3, <1>4, <1>5, <1>7, SoundKept
<1>9. /\ Full(files') = Full(files) /\ Durable(files') = Durable(files)
      /\ Full(files).has /\ Full(files).added = vs.version
  BY <1>1, SameManifestFacts DEF IsCurrent
<1>10. \A m \in Views(files, ReuseLogs) : m = Full(files)
  BY <1>1 DEF Views
<1>11. \A n \in LogSet(files) : n \in Nat /\ n <= logfile_number_
  BY <1>2 DEF IInv, ReadyOK, LogSet
<1>12. logfile_number_ \in LogSet(files')
  BY <1>2, <1>3 DEF IInv, ReadyOK
<1>13. \A n \in LogSet(files) : n \in LogSet(files') \/ LogEntries(files, n) \subseteq Entries(files', vs.version)
  <2>1. \A n \in LogSet(files) : n < vs.log => LogEntries(files, n) \subseteq Entries(files, vs.version)
    BY <1>7 DEF Sound
  <2>2. \A n \in LogSet(files) : n < vs.log \/ vs.log <= n
    BY <1>2, <1>11
  <2> QED BY <1>3, <1>6, <2>1, <2>2
<1>14. AllLogs(files) \subseteq Data(files', vs.version)
  BY <1>4, <1>13 DEF AllLogs, Data
<1>15. AllLogs(files') \subseteq AllLogs(files) /\ AllSynced(files') \subseteq AllSynced(files)
  BY <1>3, <1>4 DEF AllLogs, AllSynced
<1>16. AllSynced(files) \subseteq Entries(files', vs.version) \cup AllSynced(files')
  <2> SUFFICES ASSUME NEW n \in LogSet(files), NEW x \in SyncedEntries(files, n)
               PROVE  x \in Entries(files', vs.version) \cup AllSynced(files')
    BY DEF AllSynced
  <2>1. CASE n \in LogSet(files')
    BY <1>4, <2>1 DEF AllSynced
  <2>2. CASE n \notin LogSet(files')
    <3>1. x \in LogEntries(files, n)
      BY <1>2, LogTypes DEF TypeOK
    <3> QED BY <1>13, <2>2, <3>1
  <2> QED BY <2>1, <2>2
<1>17. ManifestFine(files', TRUE, ReuseLogs)
  <2> DEFINE made == TRUE
  <2>1. ManifestFine(files, created, ReuseLogs)
    BY <1>2 DEF IInv, ManifestOK
  <2>2. \A m \in Views(files, ReuseLogs) : \A t \in m.added :
         TableFile(t.num) \in DOMAIN files' /\ files'[TableFile(t.num)] = files[TableFile(t.num)]
    BY <1>5, <1>9, <1>10
  <2>3. \A m \in Views(files, ReuseLogs) : \A n \in LogSet(files') : \A x \in LogEntries(files', n) :
         \/ n \in LogSet(files) /\ x \in LogEntries(files, n)
         \/ n >= m.log /\ \A a \in Entries(files, m.added) : a < x
    BY <1>3, <1>4
  <2>4. \A n \in Nat : Descriptor(n) \in DOMAIN files' =>
          \/ Descriptor(n) \in DOMAIN files
          \/ ~ReuseLogs /\ \A m \in Views(files, ReuseLogs) : n <= m.next \/ \E l \in LogSet(files') : n < l
    BY <1>1
  <2>5. \A l \in LogSet(files) : \E k \in LogSet(files') : l <= k
    BY <1>11, <1>12
  <2>6. ~ReuseLogs /\ Durable(files).has => AllLogs(files) \subseteq Data(files', Durable(files).added)
    BY <1>1, <1>9, <1>14
  <2>7. ~ReuseLogs /\ ~Durable(files).has => AllLogs(files') = {}
    BY <1>1, <1>9
  <2>8. made => created \/ (Full(files).has /\ (~ReuseLogs => Durable(files).has))
    BY <1>1, <1>9
  <2> HIDE DEF made
  <2>9. ManifestFine(files', made, ReuseLogs)
    BY ONLY <1>1, <2>1, <2>2, <2>3, <2>4, <2>5, <2>6, <2>7, <2>8, ManifestKept
  <2> QED BY <2>9 DEF made
<1>18. Keeps
  <2>1. CURRENT \in DOMAIN files /\ CURRENT \in DOMAIN files'
    BY <1>1, <1>2 DEF SameManifest, Exists
  <2>2. Store(files) = Entries(files, vs.version) \cup AllLogs(files)
    BY <1>9, <2>1 DEF Store, Data
  <2>3. Store(files') = Entries(files, vs.version) \cup AllLogs(files')
    BY <1>6, <1>9, <2>1 DEF Store, Data
  <2>4. Store(files') = Store(files)
    BY <1>6, <1>14, <1>15, <2>2, <2>3 DEF Data
  <2>5. ASSUME ~ReuseLogs PROVE Stable(files) \subseteq Stable(files')
    <3>1. Stable(files) = Entries(files, vs.version) \cup AllSynced(files)
      BY <1>1, <1>9, <2>1, <2>5 DEF Stable
    <3>2. Stable(files') = Entries(files', vs.version) \cup AllSynced(files')
      BY <1>1, <1>9, <2>1, <2>5 DEF Stable
    <3> QED BY <1>6, <1>16, <3>1, <3>2
  <2> QED BY <2>4, <2>5 DEF Keeps
<1> QED BY <1>3, <1>6, <1>8, <1>17, <1>18
LEMMA DeleteObsoleteFilesStep == IInv /\ DeleteObsoleteFiles /\ options_' = options_ => IInv' /\ Keeps
<1> SUFFICES ASSUME IInv, DeleteObsoleteFiles, options_' = options_ PROVE IInv' /\ Keeps
  OBVIOUS
<1>0. /\ pc = "gc" /\ pc' = "open" /\ job' = NoJob /\ created' = TRUE
      /\ bg_error_ => files' = files
      /\ ~bg_error_ => files' = Without(files, {f \in DOMAIN files : ~Keep(f, Live)})
      /\ UNCHANGED <<options_, vs, pending, mem_, imm_, has_mem_, has_imm_, logfile_number_, bg_error_, w, pinned>>
  BY DEF DeleteObsoleteFiles, Collect, memory
<1>1. /\ Ready /\ Running /\ Exists(CURRENT) /\ TypeOK /\ FilesOK(files) /\ ~Fresh
      /\ vs.next \in Nat /\ vs.last \in Nat /\ vs.log \in Nat /\ vs.version \in SUBSET TableSet
      /\ logfile_number_ \in LogSet(files) /\ logfile_number_ < vs.next /\ vs.log <= logfile_number_
      /\ \A n \in LogSet(files) : n \in Nat /\ n <= logfile_number_
      /\ bg_error_ => Opened /\ created /\ created = TRUE
  <2>1. Ready /\ Running /\ Exists(CURRENT) /\ TypeOK /\ ~Fresh
    BY <1>0 DEF IInv, Ready, Running, OpenedOK, Fresh
  <2>2. bg_error_ => Opened /\ created
    BY DEF IInv, MemoryOK, OpenedOK
  <2> QED BY <2>1, <2>2 DEF IInv, TypeOK, VersionsSet, ReadyOK, LogSet
<1>2. /\ FilesOK(files') /\ SameManifest(files, files')
      /\ \A g \in DOMAIN files' : g \in DOMAIN files
      /\ \A n \in LogSet(files') : n \in LogSet(files) /\ files'[LogFile(n)] = files[LogFile(n)]
      /\ \A n \in LogSet(files) : vs.log <= n => n \in LogSet(files')
      /\ ManifestFine(files', TRUE, ReuseLogs)
      /\ Sound(files', vs.version, vs.log, vs.next, vs.last)
      /\ Entries(files', vs.version) = Entries(files, vs.version)
      /\ Keeps
  <2>1. CASE bg_error_
    <3>1. FilesOK(files') /\ SameLogs(files, files') /\ Keeps
      BY <1>0, <1>1, <2>1, SameFilesStep
    <3>2. files' = files
      BY <1>0, <2>1
    <3>3. SameManifest(files, files')
      BY <1>1, <3>2 DEF SameManifest, IInv, ManifestOK, ManifestFine, Exists
    <3>4. ManifestFine(files', TRUE, ReuseLogs)
      BY <1>1, <2>1, <3>2 DEF IInv, ManifestOK
    <3>5. Sound(files', vs.version, vs.log, vs.next, vs.last)
      BY <1>1, <3>2 DEF IInv, RunningOK
    <3> QED BY <3>1, <3>2, <3>3, <3>4, <3>5
  <2>2. CASE ~bg_error_
    BY <1>0, <2>2, CollectFacts, CollectData
  <2> QED BY <2>1, <2>2
<1>3. \A i \in DOMAIN pinned : \A t \in pinned[i] : TableFile(t.num) \in DOMAIN files'
  <2>1. CASE bg_error_
    BY <1>0, <2>1 DEF IInv, OpenedOK, Missing, Exists
  <2>2. CASE ~bg_error_
    <3>1. \A T \in ToSet(pinned) : \A t \in T : TableFile(t.num) \in DOMAIN files'
      BY <1>0, <2>2, CollectFacts
    <3> QED BY <3>1 DEF ToSet
  <2> QED BY <2>1, <2>2
<1>4. \A f \in DOMAIN files' : f[2] < vs.next
  <2>1. CASE Opened
    BY <1>2, <2>1 DEF IInv, OpenedOK
  <2>2. CASE ~Opened
    <3>1. ~bg_error_ /\ pinned = << >>
      BY <2>2 DEF IInv, MemoryOK
    <3>2. \A g \in DOMAIN files' : g \in DOMAIN files /\ Keep(g, Live)
      BY <1>0, <3>1, CollectFacts
    <3>3. \A t \in Live : t.num < vs.next
      BY <1>1, <3>1, InUse DEF Live, ToSet
    <3> SUFFICES ASSUME NEW f \in DOMAIN files' PROVE f[2] < vs.next
      OBVIOUS
    <3>4. f = CURRENT \/ \E n \in Nat : f = LogFile(n) \/ f = Descriptor(n) \/ f = TableFile(n) \/ f = TempFile(n)
      BY <1>1, <3>2, Kinds
    <3>5. f = CURRENT => f[2] < vs.next
      BY <1>1, Parts DEF LogSet
    <3>6. ASSUME NEW n \in Nat, f = LogFile(n) PROVE f[2] < vs.next
      <4>1. n \in LogSet(files)
        BY <3>2, <3>6 DEF LogSet
      <4>2. n <= logfile_number_ /\ logfile_number_ \in Nat /\ logfile_number_ < vs.next /\ vs.next \in Nat
        BY <1>1, <4>1
      <4>3. f[2] = n
        BY <3>6, Parts
      <4> QED BY ONLY <3>6, <4>2, <4>3
    <3>7. ASSUME NEW n \in Nat, f = Descriptor(n) PROVE f[2] < vs.next
      <4>1. Exists(Descriptor(n))
        BY <3>2, <3>7 DEF Exists
      <4>2. n < vs.next
        BY <1>1, <4>1 DEF IInv, ReadyOK
      <4> QED BY <3>7, <4>2, Parts
    <3>8. ASSUME NEW n \in Nat, f = TableFile(n) PROVE f[2] < vs.next
      <4>1. \E t \in Live : t.num = f[2]
        BY <3>2, <3>8, Parts DEF Keep
      <4> QED BY <3>3, <4>1
    <3>9. ASSUME NEW n \in Nat, f = TempFile(n) PROVE f[2] < vs.next
      BY <3>2, <3>9, Parts DEF Keep
    <3> QED BY <3>4, <3>5, <3>6, <3>7, <3>8, <3>9
  <2> QED BY <2>1, <2>2
<1>5. /\ CURRENT \in DOMAIN files' /\ Number(files') = Number(files) /\ Current(files') = Current(files)
      /\ Full(files') = Full(files) /\ Durable(files') = Durable(files)
  BY <1>2, SameManifestFacts DEF SameManifest
<1>6. \A n \in LogSet(files') : LogEntries(files', n) = LogEntries(files, n) /\ SyncedEntries(files', n) = SyncedEntries(files, n)
  BY <1>2 DEF LogEntries, SyncedEntries
<1>7. LogsAscend(files')
  BY <1>2, <1>6 DEF IInv, LogsAscend
<1>8. /\ Opened' /\ Ready' /\ Running' /\ ~Fresh' /\ ~Applying' /\ ReuseLogs' = ReuseLogs /\ ~Creating'
      /\ NoJob \in JobSet /\ ~NoJob.fresh
  BY <1>0, Constants DEF Opened, Ready, Running, Applying, Fresh, ReuseLogs, Creating
<1>9. TypeOK'
  BY <1>0, <1>1, <1>2, <1>8 DEF TypeOK, PCs
<1>10. CreatingOK' /\ ManifestOK' /\ LogsAscend(files)' /\ MemoryOK' /\ LogsOK' /\ ApplyingOK'
  BY <1>0, <1>2, <1>5, <1>7, <1>8 DEF CreatingOK, ManifestOK, MemoryOK, LogsOK, ApplyingOK, Exists
<1>11. OpenedOK'
  <2>1. \A i \in DOMAIN pinned' : Missing(pinned[i])' = {}
    BY <1>0, <1>3 DEF Missing, Exists
  <2>2. w.at # "idle" => /\ vs.last + 1 \in LogEntries(files', logfile_number_)
                         /\ w.at = "insert" /\ w.sync => vs.last + 1 \in SyncedEntries(files', logfile_number_)
    BY <1>1, <1>2, <1>6 DEF IInv, OpenedOK
  <2>3. ~has_imm_ => imm_ = {}
    BY DEF IInv, OpenedOK
  <2> QED BY <1>0, <1>4, <1>5, <1>8, <2>1, <2>2, <2>3 DEF OpenedOK, Exists, Missing
<1>12. Data(files', Full(files).added) = Data(files, Full(files).added)
  <2>1. Store(files') = Store(files)
    BY <1>2 DEF Keeps
  <2>2. Full(files).has
    BY <1>1 DEF IInv, RunningOK
  <2> QED BY <1>1, <1>5, <2>1, <2>2 DEF Store, Exists
<1>13. RunningOK'
  <2>1. Entries(files', vs.version) \subseteq Data(files', Full(files').added)
    BY <1>1, <1>2, <1>5, <1>12 DEF IInv, RunningOK
  <2>2. Entries(files', Full(files').added) \subseteq Data(files', vs.version)
    <3>1. CASE bg_error_
      BY <1>0, <1>1, <1>5, <3>1 DEF IInv, RunningOK
    <3>2. CASE ~bg_error_
      BY <1>0, <1>1, <1>5, <3>2 DEF IInv, PhaseOK, IsCurrent, Data
    <3> QED BY <3>1, <3>2
  <2> QED BY <1>0, <1>1, <1>2, <1>5, <1>8, <2>1, <2>2 DEF IInv, RunningOK
<1>14. ReadyOK'
  <2>1. UNION {LogEntries(files', n) : n \in {n \in LogSet(files') : vs.log <= n /\ n < logfile_number_}} =
        UNION {LogEntries(files, n) : n \in {n \in LogSet(files) : vs.log <= n /\ n < logfile_number_}}
    <3>1. {n \in LogSet(files') : vs.log <= n /\ n < logfile_number_} =
          {n \in LogSet(files) : vs.log <= n /\ n < logfile_number_}
      BY <1>2
    <3> QED BY <1>6, <3>1
  <2>2. imm_ = UNION {LogEntries(files', n) : n \in {n \in LogSet(files') : vs.log <= n /\ n < logfile_number_}}
    BY <1>0, <1>1, <2>1 DEF IInv, ReadyOK
  <2>3. logfile_number_ \in LogSet(files')
    BY <1>1, <1>2
  <2>4. /\ has_mem_ /\ vs.manifest < vs.next
        /\ \A n \in LogSet(files') : n <= logfile_number_
        /\ LogEntries(files', logfile_number_) = mem_ \cup (IF w.at = "idle" THEN {} ELSE {vs.last + 1})
        /\ \A e \in mem_ : e <= vs.last
        /\ \A n \in LogSet(files') : n # logfile_number_ => \A e \in LogEntries(files', n) : e <= vs.last
        /\ has_imm_ => vs.log < logfile_number_
    BY <1>1, <1>2, <1>6, <2>3 DEF IInv, ReadyOK
  <2>5. \A n \in Nat : Descriptor(n) \in DOMAIN files' => n < vs.next
    BY <1>4, Parts
  <2> QED BY <1>0, <1>1, <2>2, <2>3, <2>4, <2>5 DEF ReadyOK, Exists
<1>15. PhaseOK'
  <2>1. /\ vs.descriptor /\ Number(files) = vs.manifest /\ (~bg_error_ => IsCurrent(Full(files)))
        /\ (~ReuseLogs /\ ~bg_error_ => Len(Current(files).recs) = Current(files).synced)
    BY <1>0, <1>1 DEF IInv, PhaseOK
  <2>2. ~bg_error_ => IsCurrent(Full(files))'
    BY <1>0, <1>5, <2>1 DEF IsCurrent
  <2> QED BY <1>0, <1>5, <1>8, <2>1, <2>2 DEF PhaseOK
<1> QED BY <1>2, <1>9, <1>10, <1>11, <1>13, <1>14, <1>15 DEF IInv
-----------------------------------------------------------------------------
(* Replaying a log *)

LEMMA MinIs ==
  ASSUME NEW S \in SUBSET Nat, NEW x \in S, \A y \in S : x <= y
  PROVE  Min(S) = x
<1>1. \E m \in S : \A y \in S : m <= y
  OBVIOUS
<1>2. Min(S) \in S /\ \A y \in S : Min(S) <= y
  BY <1>1, Zenon DEF Min
<1>3. Min(S) >= x /\ x >= Min(S) /\ Min(S) \in Nat /\ x \in Nat
  BY <1>2
<1> QED BY ONLY <1>3

LEMMA MinOfTwo ==
  ASSUME NEW a \in Nat, NEW b \in Nat
  PROVE  Min({a, b}) \in {a, b} /\ Min({a, b}) <= a /\ Min({a, b}) <= b
<1>1. CASE a <= b
  <2>1. Min({a, b}) = a
    BY <1>1, MinIs
  <2> QED BY <1>1, <2>1
<1>2. CASE b <= a
  <2>1. Min({a, b}) = b
    BY <1>2, MinIs
  <2> QED BY <1>2, <2>1
<1> QED BY <1>1, <1>2

LEMMA MaxOfTwo ==
  ASSUME NEW a \in Nat, NEW b \in Nat
  PROVE  Max({a, b}) \in {a, b} /\ a <= Max({a, b}) /\ b <= Max({a, b})
<1>1. CASE a <= b
  <2>1. Max({a, b}) = b
    BY <1>1, MaxIs
  <2> QED BY <1>1, <2>1
<1>2. CASE b <= a
  <2>1. Max({a, b}) = a
    BY <1>2, MaxIs
  <2> QED BY <1>2, <2>1
<1> QED BY <1>1, <1>2

\* Division and products of natural numbers.
LEMMA Times ==
  ASSUME NEW a \in Nat, NEW b \in Nat, NEW c \in Nat
  PROVE  /\ c * a \in Nat /\ c * (a + 1) = c * a + c
         /\ a <= b => c * a <= c * b
<1>1. c * a \in Nat
  OBVIOUS
<1>2. c * (a + 1) = c * a + c
  OBVIOUS
<1>3. ASSUME a <= b PROVE c * a <= c * b
  <2>1. b - a \in Nat /\ b = a + (b - a)
    BY <1>3
  <2>2. PICK d \in Nat : b = a + d
    BY <2>1
  <2>3. c * b = c * a + c * d /\ c * d \in Nat
    BY <2>2
  <2> QED BY ONLY <1>1, <2>3
<1> QED BY <1>1, <1>2, <1>3

LEMMA Divided ==
  ASSUME NEW a \in Nat, NEW c \in Nat, c > 0
  PROVE  a \div c \in Nat /\ c * (a \div c) <= a /\ a < c * (a \div c) + c
OBVIOUS
LEMMA PartSet ==
  ASSUME NEW S, NEW s \in Seq(S), NEW m \in Nat, NEW n \in Nat, 1 <= m, n <= Len(s)
  PROVE  ToSet(SubSeq(s, m, n)) = {s[k] : k \in m .. n}
<1>1. \A i \in m .. n : s[i] \in S
  OBVIOUS
<1>2. /\ SubSeq(s, m, n) \in Seq(S)
      /\ Len(SubSeq(s, m, n)) = IF m <= n THEN n - m + 1 ELSE 0
      /\ \A i \in 1 .. n - m + 1 : SubSeq(s, m, n)[i] = s[m + i - 1]
  BY <1>1, SubSeqProperties
<1>3. DOMAIN SubSeq(s, m, n) = 1 .. n - m + 1
  BY <1>2
<1> DEFINE part == SubSeq(s, m, n)
<1>4. \A i \in 1 .. n - m + 1 : m + i - 1 \in m .. n /\ part[i] = s[m + i - 1]
  BY <1>2
<1>5. \A k \in m .. n : k - m + 1 \in 1 .. n - m + 1 /\ part[k - m + 1] = s[k]
  <2> SUFFICES ASSUME NEW k \in m .. n PROVE k - m + 1 \in 1 .. n - m + 1 /\ part[k - m + 1] = s[k]
    OBVIOUS
  <2>1. k - m + 1 \in 1 .. n - m + 1 /\ m + (k - m + 1) - 1 = k
    OBVIOUS
  <2> QED BY <1>4, <2>1
<1> HIDE DEF part
<1>6. DOMAIN part = 1 .. n - m + 1
  BY <1>3 DEF part
<1>7. ToSet(part) = {s[k] : k \in m .. n}
  <2>1. ASSUME NEW x \in ToSet(part) PROVE x \in {s[k] : k \in m .. n}
    <3>1. PICK i \in 1 .. n - m + 1 : x = part[i]
      BY <1>6 DEF ToSet
    <3> QED BY <1>4, <3>1
  <2>2. ASSUME NEW k \in m .. n PROVE s[k] \in ToSet(part)
    BY <1>5, <1>6 DEF ToSet
  <2> QED BY <2>1, <2>2
<1> QED BY <1>7 DEF part

\* The records of a log, a memtable at a time: nothing left out, and in order.
LEMMA ChunksFacts ==
  ASSUME NEW recs \in Seq(Nat), WriteBufferSize \in Nat
  PROVE  /\ Chunks(recs) \in Seq(SUBSET Nat)
         /\ \A x : x \in ToSet(recs) <=> \E i \in DOMAIN Chunks(recs) : x \in Chunks(recs)[i]
         /\ \A i, j \in DOMAIN Chunks(recs) : i < j => \A a \in Chunks(recs)[i], b \in Chunks(recs)[j] :
              \E k, l \in DOMAIN recs : k < l /\ a = recs[k] /\ b = recs[l]
<1> DEFINE size == WriteBufferSize + 1
           L == Len(recs)
           N == (L + size - 1) \div size
           lo(i) == size * (i - 1) + 1
           hi(i) == Min({size * i, L})
           c == Chunks(recs)
<1>1. L \in Nat /\ size \in Nat /\ size > 0 /\ L + size - 1 \in Nat /\ DOMAIN recs = 1 .. L
  OBVIOUS
<1>2. c = [i \in 1 .. N |-> ToSet(SubSeq(recs, lo(i), hi(i)))]
  BY DEF Chunks
<1>3. N \in Nat /\ size * N <= L + size - 1 /\ L + size - 1 < size * N + size
  <2> HIDE DEF size, L
  <2> QED BY <1>1, Divided
<1> HIDE DEF c, N
<1>4. ASSUME NEW i \in 1 .. N
      PROVE  /\ size * (i - 1) \in Nat /\ size * i \in Nat /\ size * i = size * (i - 1) + size
             /\ lo(i) \in Nat /\ hi(i) \in Nat /\ 1 <= lo(i) /\ hi(i) <= L /\ hi(i) <= size * i
             /\ hi(i) \in {size * i, L}
  <2>1. i - 1 \in Nat /\ i \in Nat /\ (i - 1) + 1 = i
    OBVIOUS
  <2> HIDE DEF size, L
  <2>2. size * (i - 1) \in Nat /\ size * i \in Nat /\ size * ((i - 1) + 1) = size * (i - 1) + size
    BY <1>1, <2>1, Times
  <2>3. hi(i) \in {size * i, L} /\ hi(i) <= size * i /\ hi(i) <= L
    BY <1>1, <2>2, MinOfTwo
  <2> QED BY <1>1, <2>1, <2>2, <2>3
<1>5. \A i \in 1 .. N : c[i] = {recs[k] : k \in lo(i) .. hi(i)}
  <2> SUFFICES ASSUME NEW i \in 1 .. N PROVE c[i] = {recs[k] : k \in lo(i) .. hi(i)}
    OBVIOUS
  <2>1. c[i] = ToSet(SubSeq(recs, lo(i), hi(i)))
    BY <1>2
  <2>2. lo(i) \in Nat /\ hi(i) \in Nat /\ 1 <= lo(i) /\ hi(i) <= Len(recs)
    BY <1>4
  <2> HIDE DEF lo, hi
  <2> QED BY <2>1, <2>2, PartSet
<1>6. DOMAIN c = 1 .. N
  BY <1>2
<1>7. \A i \in 1 .. N : \A k \in lo(i) .. hi(i) : k \in 1 .. L /\ recs[k] \in Nat
  <2> SUFFICES ASSUME NEW i \in 1 .. N, NEW k \in lo(i) .. hi(i) PROVE k \in 1 .. L /\ recs[k] \in Nat
    OBVIOUS
  <2>1. lo(i) \in Nat /\ hi(i) \in Nat /\ 1 <= lo(i) /\ hi(i) <= L
    BY <1>4
  <2> HIDE DEF lo, hi
  <2>2. k \in 1 .. L
    BY <1>1, <2>1
  <2> QED BY <1>1, <2>2
<1>8. c \in Seq(SUBSET Nat)
  <2>1. \A i \in 1 .. N : c[i] \in SUBSET Nat
    <3> HIDE DEF lo, hi, size, L
    <3> SUFFICES ASSUME NEW i \in 1 .. N, NEW x \in c[i] PROVE x \in Nat
      OBVIOUS
    <3>1. PICK k \in lo(i) .. hi(i) : x = recs[k]
      BY <1>5
    <3> QED BY <1>7, <3>1
  <2>2. c \in [1 .. N -> SUBSET Nat]
    BY <1>2, <2>1
  <2> QED BY <1>3, <2>2
<1>9. ASSUME NEW k \in 1 .. L PROVE \E i \in 1 .. N : k \in lo(i) .. hi(i)
  <2> HIDE DEF size, L
  <2>1. k \in Nat /\ 1 <= k /\ k <= L /\ k - 1 \in Nat
    BY <1>1
  <2> DEFINE j == (k - 1) \div size
  <2>2. j \in Nat /\ size * j <= k - 1 /\ k - 1 < size * j + size
    BY <1>1, <2>1, Divided
  <2> HIDE DEF j
  <2>3. size * j \in Nat /\ size * N \in Nat
    BY <1>1, <1>3, <2>2, Times
  <2>4. j < N
    <3>1. N <= j => size * N <= size * j
      BY <1>1, <1>3, <2>2, Times
    <3> QED BY ONLY <1>1, <1>3, <2>1, <2>2, <2>3, <3>1
  <2>5. j + 1 \in 1 .. N /\ (j + 1) - 1 = j
    BY <1>3, <2>2, <2>4
  <2> DEFINE i == j + 1
  <2>6. i \in 1 .. N /\ i - 1 = j
    BY <2>5
  <2> HIDE DEF i
  <2>7. size * i = size * j + size /\ hi(i) \in {size * i, L} /\ hi(i) \in Nat /\ lo(i) = size * j + 1
    <3>1. size * i = size * (i - 1) + size /\ hi(i) \in {size * i, L} /\ hi(i) \in Nat
      BY <1>4, <2>6
    <3> QED BY <2>6, <3>1
  <2>8. lo(i) \in Nat /\ lo(i) <= k
    BY ONLY <2>1, <2>2, <2>3, <2>7
  <2> HIDE DEF lo, hi
  <2>9. k <= hi(i)
    BY ONLY <1>1, <2>1, <2>2, <2>3, <2>7
  <2>10. k \in lo(i) .. hi(i)
    BY <2>1, <2>7, <2>8, <2>9
  <2> QED BY <2>6, <2>10
<1>10. ASSUME NEW i \in 1 .. N, NEW j \in 1 .. N, i < j, NEW k \in lo(i) .. hi(i), NEW l \in lo(j) .. hi(j)
       PROVE  k < l
  <2>1. /\ hi(i) <= size * i /\ lo(i) \in Nat /\ hi(i) \in Nat /\ size * i \in Nat
        /\ lo(j) \in Nat /\ hi(j) \in Nat /\ size * (j - 1) \in Nat
    BY <1>4
  <2>2. i \in Nat /\ j - 1 \in Nat /\ i <= j - 1
    BY <1>10
  <2> HIDE DEF size
  <2>3. size * i <= size * (j - 1)
    BY <1>1, <2>2, Times
  <2>4. lo(j) = size * (j - 1) + 1
    OBVIOUS
  <2> HIDE DEF lo, hi
  <2>5. k \in Nat /\ l \in Nat /\ k <= hi(i) /\ lo(j) <= l
    BY <2>1
  <2> QED BY ONLY <2>1, <2>3, <2>4, <2>5
<1> HIDE DEF lo, hi
<1>11. ASSUME NEW x PROVE x \in ToSet(recs) <=> \E i \in DOMAIN c : x \in c[i]
  <2>1. ASSUME x \in ToSet(recs) PROVE \E i \in DOMAIN c : x \in c[i]
    <3>1. PICK k \in 1 .. L : x = recs[k]
      BY <1>1, <2>1 DEF ToSet
    <3>2. PICK i \in 1 .. N : k \in lo(i) .. hi(i)
      BY <1>9
    <3> QED BY <1>5, <1>6, <3>1, <3>2
  <2>2. ASSUME NEW i \in DOMAIN c, x \in c[i] PROVE x \in ToSet(recs)
    BY <1>1, <1>5, <1>6, <1>7, <2>2 DEF ToSet
  <2> QED BY <2>1, <2>2
<1>12. ASSUME NEW i \in DOMAIN c, NEW j \in DOMAIN c, i < j, NEW a \in c[i], NEW b \in c[j]
       PROVE  \E k, l \in DOMAIN recs : k < l /\ a = recs[k] /\ b = recs[l]
  <2>1. PICK k \in lo(i) .. hi(i) : a = recs[k]
    BY <1>5, <1>6
  <2>2. PICK l \in lo(j) .. hi(j) : b = recs[l]
    BY <1>5, <1>6
  <2>3. k < l
    BY <1>6, <1>10, <1>12
  <2>4. k \in DOMAIN recs /\ l \in DOMAIN recs
    BY <1>1, <1>6, <1>7
  <2> QED BY <2>1, <2>2, <2>3, <2>4
<1> QED BY <1>8, <1>11, <1>12 DEF c
\* The tables that are built take numbers from vs.next on, and leave what is in use alone.
NewTables(chunks) == {[num |-> vs.next + i - 1, level |-> 0] : i \in DOMAIN chunks}
WithTables(chunks) ==
  LET built == {TableFile(t.num) : t \in NewTables(chunks)} IN
  [f \in DOMAIN files \cup built |-> IF f \in built THEN Content(<<chunks[f[2] - vs.next + 1]>>) ELSE files[f]]
Built(chunks, new) ==
  /\ new \in SUBSET TableSet
  /\ \A t \in new : /\ t.level = 0 /\ vs.next <= t.num /\ t.num < vs.next + Len(chunks)
                    /\ TableFile(t.num) \in DOMAIN files'
                    /\ \E i \in DOMAIN chunks : /\ t.num = vs.next + i - 1
                                                /\ files'[TableFile(t.num)].recs[1] = chunks[i]
  /\ \A i \in DOMAIN chunks : chunks[i] \subseteq Entries(files', new)
  /\ new = {} <=> DOMAIN chunks = {}
  /\ FilesOK(files') /\ SameLogs(files, files') /\ Grows /\ Keeps
  /\ \A g \in DOMAIN files : g \in DOMAIN files'
  /\ \A n \in Nat : Descriptor(n) \in DOMAIN files' => Descriptor(n) \in DOMAIN files

LEMMA ReplayFiles ==
  ASSUME IInv, pc = "logs", options_' = options_, NEW chunks \in Seq(SUBSET Nat), files' = WithTables(chunks)
  PROVE  Built(chunks, NewTables(chunks))
<1> DEFINE new == NewTables(chunks)
           built == {TableFile(t.num) : t \in new}
<1>0. /\ new = {[num |-> vs.next + i - 1, level |-> 0] : i \in DOMAIN chunks}
      /\ files' = [f \in DOMAIN files \cup built |->
                     IF f \in built THEN Content(<<chunks[f[2] - vs.next + 1]>>) ELSE files[f]]
  BY DEF NewTables, WithTables
<1> HIDE DEF new
<1>1. vs.next \in Nat /\ Running /\ FilesOK(files) /\ Exists(CURRENT)
  BY DEF IInv, TypeOK, VersionsSet, Running, OpenedOK
<1>2. Len(chunks) \in Nat /\ DOMAIN chunks = 1 .. Len(chunks)
  OBVIOUS
<1>3. ASSUME NEW i \in DOMAIN chunks
      PROVE  /\ vs.next + i - 1 \in Nat /\ vs.next <= vs.next + i - 1 /\ vs.next + i - 1 < vs.next + Len(chunks)
             /\ vs.next + i - 1 - vs.next + 1 = i
  BY <1>1, <1>2
<1>4. ASSUME NEW t \in new PROVE \E i \in DOMAIN chunks : t = [num |-> vs.next + i - 1, level |-> 0]
  BY <1>0
<1>5. new \in SUBSET TableSet
  BY <1>0, <1>3 DEF TableSet
<1>6. \A g \in built : g \in DOMAIN files' /\ files'[g] = Content(<<chunks[g[2] - vs.next + 1]>>)
  BY <1>0
<1>7. \A g \in DOMAIN files : g \in DOMAIN files' /\ (g \notin built => files'[g] = files[g])
  BY <1>0
<1>8. \A g \in DOMAIN files' : g \notin built => g \in DOMAIN files
  BY <1>0
<1>9. ASSUME NEW t \in new
      PROVE  /\ t.level = 0 /\ vs.next <= t.num /\ t.num < vs.next + Len(chunks)
             /\ TableFile(t.num) \in DOMAIN files'
             /\ \E i \in DOMAIN chunks : /\ t.num = vs.next + i - 1
                                         /\ files'[TableFile(t.num)] = [recs |-> <<chunks[i]>>, synced |-> 1]
  <2>1. PICK i \in DOMAIN chunks : t = [num |-> vs.next + i - 1, level |-> 0]
    BY <1>4
  <2>2. t.num = vs.next + i - 1 /\ t.level = 0
    BY <2>1
  <2>3. TableFile(t.num) \in built /\ TableFile(t.num)[2] = t.num
    BY Parts
  <2>4. files'[TableFile(t.num)] = Content(<<chunks[i]>>)
    <3>1. t.num - vs.next + 1 = i
      <4>1. i \in Nat /\ t.num = vs.next + i - 1 /\ vs.next \in Nat
        BY <1>1, <1>2, <2>2
      <4> QED BY ONLY <4>1
    <3>2. files'[TableFile(t.num)] = Content(<<chunks[TableFile(t.num)[2] - vs.next + 1]>>)
      BY ONLY <1>6, <2>3
    <3> QED BY ONLY <2>3, <3>1, <3>2
  <2>5. Len(<<chunks[i]>>) = 1
    OBVIOUS
  <2>6. files'[TableFile(t.num)] = [recs |-> <<chunks[i]>>, synced |-> 1]
    BY <2>4, <2>5 DEF Content
  <2> QED BY <1>3, <1>6, <2>2, <2>3, <2>6
<1>10. ASSUME NEW i \in DOMAIN chunks PROVE chunks[i] \subseteq Entries(files', new)
  <2> DEFINE t == [num |-> vs.next + i - 1, level |-> 0]
  <2>1. t \in new /\ t.num = vs.next + i - 1
    BY <1>0
  <2> HIDE DEF t
  <2>2. PICK j \in DOMAIN chunks : t.num = vs.next + j - 1 /\ files'[TableFile(t.num)] = [recs |-> <<chunks[j]>>, synced |-> 1]
    BY <1>9, <2>1
  <2>3. j = i
    BY <1>1, <1>2, <2>1, <2>2
  <2>4. files'[TableFile(t.num)].recs[1] = chunks[i]
    BY <2>2, <2>3
  <2> QED BY <2>1, <2>4 DEF Entries
<1>11. new = {} <=> DOMAIN chunks = {}
  <2>1. \A i \in DOMAIN chunks : [num |-> vs.next + i - 1, level |-> 0] \in new
    BY ONLY <1>0
  <2>2. \A t \in new : \E i \in DOMAIN chunks : TRUE
    BY ONLY <1>0
  <2> QED BY ONLY <2>1, <2>2
<1>12. ASSUME NEW g \in built PROVE \E t \in new : g = TableFile(t.num) /\ t.num \in Nat
  BY <1>5 DEF TableSet
<1>13. FilesOK(files')
  <2>1. ASSUME NEW g \in built PROVE FileOK(g, files'[g]) /\ g \in {"MANIFEST", "log", "table", "dbtmp"} \X Nat
    <3>1. PICK t \in new : g = TableFile(t.num) /\ t.num \in Nat
      BY <1>12
    <3>2. PICK i \in DOMAIN chunks : files'[TableFile(t.num)] = [recs |-> <<chunks[i]>>, synced |-> 1]
      BY <1>9
    <3>3. chunks[i] \in SUBSET Nat
      OBVIOUS
    <3>4. g[1] = "table" /\ g \in {"MANIFEST", "log", "table", "dbtmp"} \X Nat
      BY ONLY <3>1 DEF TableFile
    <3>5. files'[g].synced <= Len(files'[g].recs)
      <4>1. files'[g] = [recs |-> <<chunks[i]>>, synced |-> 1]
        BY ONLY <3>1, <3>2
      <4> QED BY ONLY <4>1
    <3>6. \E S \in SUBSET Nat : files'[g] = [recs |-> <<S>>, synced |-> 1]
      BY ONLY <3>1, <3>2, <3>3, Zenon
    <3> QED BY ONLY <3>4, <3>5, <3>6 DEF FileOK
  <2>2. DOMAIN files' \subseteq {CURRENT} \cup {"MANIFEST", "log", "table", "dbtmp"} \X Nat
    BY <1>1, <1>8, <2>1 DEF FilesOK
  <2>3. \A f \in DOMAIN files' : (f \in DOMAIN files /\ files'[f] = files[f]) \/ FileOK(f, files'[f])
    BY <1>7, <1>8, <2>1
  <2> QED BY ONLY <1>1, <2>2, <2>3, FilesOKKept
<1>14. /\ \A n \in Nat : LogFile(n) \notin built /\ Descriptor(n) \notin built /\ (n < vs.next => TableFile(n) \notin built)
       /\ CURRENT \notin built
  <2>1. \A n \in Nat : LogFile(n) \notin built /\ Descriptor(n) \notin built
    <3> SUFFICES ASSUME NEW n \in Nat, NEW g \in built PROVE g # LogFile(n) /\ g # Descriptor(n)
      OBVIOUS
    <3>1. PICK t \in new : g = TableFile(t.num)
      BY <1>12
    <3> QED BY ONLY <3>1, Names
  <2>2. CURRENT \notin built
    <3> SUFFICES ASSUME NEW g \in built PROVE g # CURRENT
      OBVIOUS
    <3>1. PICK t \in new : g = TableFile(t.num)
      BY <1>12
    <3> QED BY ONLY <3>1, Names
  <2>3. ASSUME NEW n \in Nat, n < vs.next, TableFile(n) \in built PROVE FALSE
    <3>1. PICK t \in new : TableFile(n) = TableFile(t.num)
      BY <2>3
    <3>2. n = t.num
      BY <3>1, Names
    <3> QED BY <1>1, <1>9, <2>3, <3>2
  <2> QED BY <2>1, <2>2, <2>3
<1>15. SameLogs(files, files')
  BY <1>7, <1>8, <1>14 DEF SameLogs, LogSet
<1>16. Descriptor(Number(files)) \in DOMAIN files /\ Number(files) \in Nat
  <2>1. \E n \in Nat : files[CURRENT] = [recs |-> <<n>>, synced |-> 1]
    BY <1>1, FileTypes DEF Exists
  <2>2. Number(files) \in Nat
    BY <2>1 DEF Number
  <2> QED BY <1>1, <2>2 DEF IInv, ManifestOK, ManifestFine
<1>17. SameManifest(files, files')
  BY <1>1, <1>7, <1>14, <1>16 DEF SameManifest, Exists
<1>18. \A n \in Nat : Descriptor(n) \in DOMAIN files' => Descriptor(n) \in DOMAIN files
  BY <1>8, <1>14
<1>19. Grows
  <2>1. \A n \in Nat : n < vs.next /\ TableFile(n) \in DOMAIN files =>
          TableFile(n) \in DOMAIN files' /\ files'[TableFile(n)] = files[TableFile(n)]
    BY <1>7, <1>14
  <2>2. LogSet(files') = LogSet(files) /\ \A n \in LogSet(files) : LogEntries(files', n) = LogEntries(files, n)
    BY <1>15, SameLogsFacts
  <2> QED BY ONLY <1>17, <1>18, <2>1, <2>2 DEF Grows
<1>20. Keeps
  <2>1. AllLogs(files') = AllLogs(files) /\ AllSynced(files') = AllSynced(files)
    BY <1>15, SameLogsFacts
  <2> QED BY <1>1, <1>19, <2>1, GrowStore DEF Keeps
<1>21. \A t \in new : /\ t.level = 0 /\ vs.next <= t.num /\ t.num < vs.next + Len(chunks)
                      /\ TableFile(t.num) \in DOMAIN files'
                      /\ \E i \in DOMAIN chunks : /\ t.num = vs.next + i - 1
                                                  /\ files'[TableFile(t.num)].recs[1] = chunks[i]
  <2> SUFFICES ASSUME NEW t \in new
               PROVE  /\ t.level = 0 /\ vs.next <= t.num /\ t.num < vs.next + Len(chunks)
                      /\ TableFile(t.num) \in DOMAIN files'
                      /\ \E i \in DOMAIN chunks : /\ t.num = vs.next + i - 1
                                                  /\ files'[TableFile(t.num)].recs[1] = chunks[i]
    OBVIOUS
  <2>1. PICK i \in DOMAIN chunks : t.num = vs.next + i - 1 /\ files'[TableFile(t.num)] = [recs |-> <<chunks[i]>>, synced |-> 1]
    BY <1>9
  <2>2. files'[TableFile(t.num)].recs[1] = chunks[i]
    BY ONLY <2>1
  <2> QED BY <1>9, <2>1, <2>2
<1>22. Built(chunks, new)
  BY ONLY <1>5, <1>7, <1>10, <1>11, <1>13, <1>15, <1>18, <1>19, <1>20, <1>21 DEF Built
<1> QED BY <1>22 DEF new
LEMMA LastOf ==
  ASSUME NEW fs, FilesOK(fs), LogsAscend(fs), NEW n \in LogSet(fs), NEW last \in Nat
  PROVE  LET x == Max({last} \cup LogEntries(fs, n)) IN
         x \in Nat /\ last <= x /\ \A a \in LogEntries(fs, n) : a <= x
<1> DEFINE recs == fs[LogFile(n)].recs
           L == Len(recs)
           S == {last} \cup LogEntries(fs, n)
<1>1. recs \in Seq(Nat) /\ L \in Nat /\ DOMAIN recs = 1 .. L /\ LogEntries(fs, n) = ToSet(recs)
  <2>1. n \in Nat /\ LogFile(n) \in DOMAIN fs
    BY LogTypes
  <2>2. fs[LogFile(n)] \in [recs : Seq(Nat), synced : Nat]
    BY <2>1, FileTypes
  <2> QED BY <2>2 DEF LogEntries
<1>2. \A i, j \in DOMAIN recs : i < j => recs[i] < recs[j]
  BY DEF LogsAscend
<1> HIDE DEF recs
<1>3. S \in SUBSET Nat
  BY <1>1 DEF ToSet
<1>4. \E x \in S : \A y \in S : y <= x
  <2>1. CASE L = 0
    <3>1. LogEntries(fs, n) = {}
      BY <1>1, <2>1 DEF ToSet
    <3> QED BY <3>1
  <2>2. CASE L > 0
    <3>1. L \in DOMAIN recs /\ recs[L] \in Nat /\ recs[L] \in S
      BY <1>1, <2>2 DEF ToSet
    <3>2. ASSUME NEW y \in ToSet(recs) PROVE y <= recs[L]
      <4>1. PICK i \in DOMAIN recs : y = recs[i]
        BY ONLY <3>2 DEF ToSet
      <4> HIDE DEF L
      <4>2. i = L \/ i < L
        BY ONLY <1>1, <4>1
      <4>3. recs[i] \in Nat
        BY ONLY <1>1, <4>1
      <4>4. i < L => recs[i] < recs[L]
        BY ONLY <1>2, <3>1, <4>1
      <4> QED BY ONLY <3>1, <4>1, <4>2, <4>3, <4>4
    <3>3. CASE last <= recs[L]
      <4>1. \A y \in S : y <= recs[L]
        BY <1>1, <3>2, <3>3
      <4> QED BY <3>1, <4>1
    <3>4. CASE recs[L] <= last
      <4>1. \A y \in S : y <= last
        BY <1>1, <1>3, <3>1, <3>2, <3>4
      <4> QED BY <4>1
    <3> QED BY <3>1, <3>3, <3>4
  <2> QED BY <1>1, <2>1, <2>2
<1>5. PICK x \in S : \A y \in S : y <= x
  BY <1>4
<1> HIDE DEF S
<1>6. Max(S) = x
  BY <1>3, <1>5, MaxIs
<1>7. Max(S) \in Nat /\ \A y \in S : y <= Max(S)
  BY <1>3, <1>5, <1>6
<1> QED BY <1>7 DEF S
LEMMA RecoverLogFileStep == IInv /\ RecoverLogFile /\ options_' = options_ => IInv' /\ Keeps
<1> SUFFICES ASSUME IInv, RecoverLogFile, options_' = options_ PROVE IInv' /\ Keeps
  OBVIOUS
<1>0. PICK n \in pending : (\A m \in pending : n <= m) /\ ReplayLog(n)
  BY DEF RecoverLogFile
<1> DEFINE recs == files[LogFile(n)].recs
           reuse == ReuseLogs /\ pending = {n} /\ Len(recs) <= WriteBufferSize
           chunks == IF reuse THEN << >> ELSE Chunks(recs)
           new == {[num |-> vs.next + i - 1, level |-> 0] : i \in DOMAIN chunks}
           built == {TableFile(t.num) : t \in new}
           next == Max({vs.next + Len(chunks), n + 1})
           last == Max({vs.last} \cup ToSet(recs))
           added == job.edit.added
           tables == vs.version \cup added
<1>1. /\ pc = "logs" /\ pending' = pending \ {n}
      /\ files' = [f \in DOMAIN files \cup built |->
                     IF f \in built THEN Content(<<chunks[f[2] - vs.next + 1]>>) ELSE files[f]]
      /\ job' = [job EXCEPT !.save = @ \/ new # {}, !.edit.added = @ \cup new]
      /\ vs' = [vs EXCEPT !.next = next, !.last = last]
      /\ mem_' = (IF reuse THEN ToSet(recs) ELSE mem_) /\ has_mem_' = reuse
      /\ logfile_number_' = IF reuse THEN n ELSE logfile_number_
      /\ UNCHANGED <<options_, pc, imm_, has_imm_, bg_error_, w, pinned, created>>
  BY <1>0 DEF ReplayLog
<1>2. /\ TypeOK /\ FilesOK(files) /\ Running /\ Exists(CURRENT) /\ Full(files).has
      /\ vs.next \in Nat /\ vs.last \in Nat /\ vs.log \in Nat
      /\ vs \in VersionsSet /\ vs.version \in SUBSET TableSet /\ job \in JobSet
      /\ job.edit \in EditSet /\ added \in SUBSET TableSet /\ pending \in SUBSET Nat /\ n \in Nat
      /\ logfile_number_ \in Nat /\ mem_ \in SUBSET Nat
  BY <1>1, InUse DEF IInv, TypeOK, Running, VersionsSet, JobSet, EditSet
<1>3. /\ ~Opened /\ ~bg_error_ /\ w.at = "idle" /\ pinned = << >> /\ ~has_imm_ /\ imm_ = {}
  BY <1>1 DEF IInv, MemoryOK, Opened
<1>4. WriteBufferSize \in Nat /\ ReuseLogs \in BOOLEAN
  BY <1>2, RecoveryAssumption DEF TypeOK, WriteBufferSize, ReuseLogs
<1>5. /\ IsCurrent(Full(files)) /\ Full(files).next < vs.next
      /\ job.opening /\ ~job.fresh /\ job.edit.has /\ job.edit.deleted = {}
      /\ pending \subseteq LogSet(files) /\ \A k \in pending : k >= vs.log
      /\ \A k \in LogSet(files) : k < vs.next \/ k \in pending
      /\ \A k \in LogSet(files) : k < vs.log \/ k \in pending \/ (\A m \in pending : k < m)
      /\ \A k \in Nat : Descriptor(k) \in DOMAIN files => k < vs.next \/ \E l \in pending : k < l
      /\ \A t \in added : TableFile(t.num) \in DOMAIN files /\ t.num < vs.next /\ t.level = 0
      /\ \A t \in vs.version, s \in added : t.num < s.num
      /\ LevelsAscend(files, tables)
  BY <1>1 DEF IInv, LogsOK, Exists
<1>6. /\ \A k \in pending : \A a \in Entries(files, tables), b \in LogEntries(files, k) : a < b
      /\ \A k \in LogSet(files) : k < vs.log \/ k \in pending \/ LogEntries(files, k) \subseteq Entries(files, added)
      /\ Entries(files, added) \subseteq AllLogs(files)
      /\ \A k \in LogSet(files) : k \in pending \/ \A a \in LogEntries(files, k) : a <= vs.last
      /\ ~has_mem_
      /\ ~job.save => added = {} /\ ReuseLogs
      /\ vs.descriptor = ReuseLogs
      /\ ReuseLogs => vs.manifest = Number(files)
      /\ ~ReuseLogs => vs.manifest = Full(files).next /\ Number(files) < vs.manifest
  <2>1. ~has_mem_
    BY <1>0, <1>1 DEF IInv, LogsOK
  <2>2. \A k \in pending : k \in LogSet(files)
    BY <1>5
  <2> QED BY <1>1, <2>1, <2>2 DEF IInv, LogsOK
<1>7. n \in LogSet(files) /\ LogEntries(files, n) = ToSet(recs) /\ recs \in Seq(Nat)
  <2>1. n \in LogSet(files)
    BY <1>5
  <2>2. files[LogFile(n)] \in [recs : Seq(Nat), synced : Nat]
    BY <1>2, <2>1, FileTypes DEF LogSet
  <2> QED BY <2>1, <2>2 DEF LogEntries
<1>8. /\ Chunks(recs) \in Seq(SUBSET Nat)
      /\ \A x : x \in ToSet(recs) <=> \E i \in DOMAIN Chunks(recs) : x \in Chunks(recs)[i]
      /\ \A i, j \in DOMAIN Chunks(recs) : i < j => \A a \in Chunks(recs)[i], b \in Chunks(recs)[j] :
           \E k, l \in DOMAIN recs : k < l /\ a = recs[k] /\ b = recs[l]
  BY <1>4, <1>7, ChunksFacts
<1>9. /\ chunks \in Seq(SUBSET Nat) /\ Len(chunks) \in Nat
      /\ reuse => DOMAIN chunks = {}
      /\ ~reuse => \A x : x \in ToSet(recs) => \E i \in DOMAIN chunks : x \in chunks[i]
      /\ \A i \in DOMAIN chunks : chunks[i] \subseteq ToSet(recs)
      /\ \A i, j \in DOMAIN chunks : i < j => \A a \in chunks[i], b \in chunks[j] : a < b
  <2>1. CASE reuse
    <3>1. chunks = << >>
      BY <2>1
    <3> QED BY <2>1, <3>1
  <2>2. CASE ~reuse
    <3>1. chunks = Chunks(recs)
      BY <2>2
    <3>2. \A k, l \in DOMAIN recs : k < l => recs[k] < recs[l]
      BY <1>7 DEF IInv, LogsAscend
    <3> HIDE DEF reuse, chunks, recs
    <3>3. chunks \in Seq(SUBSET Nat) /\ Len(chunks) \in Nat
      BY <1>8, <3>1
    <3> QED BY ONLY <1>8, <2>2, <3>1, <3>2, <3>3
  <2> QED BY <2>1, <2>2
<1> HIDE DEF chunks
<1>10. Built(chunks, new)
  <2>1. files' = WithTables(chunks) /\ new = NewTables(chunks)
    BY <1>1 DEF WithTables, NewTables
  <2>2. pc = "logs" /\ chunks \in Seq(SUBSET Nat)
    BY <1>1, <1>9
  <2> HIDE DEF new, built
  <2>3. Built(chunks, NewTables(chunks))
    BY <2>1, <2>2, ReplayFiles
  <2> QED BY <2>1, <2>3
<1> HIDE DEF new, built
<1> HIDE DEF reuse, recs
<1>11. /\ new \in SUBSET TableSet
       /\ \A t \in new : t.level = 0 /\ vs.next <= t.num /\ t.num < vs.next + Len(chunks) /\ t.num \in Nat
       /\ \A t \in new : TableFile(t.num) \in DOMAIN files'
       /\ \A t \in new : \E i \in DOMAIN chunks : /\ t.num = vs.next + i - 1
                                                /\ files'[TableFile(t.num)].recs[1] = chunks[i]
       /\ \A i \in DOMAIN chunks : chunks[i] \subseteq Entries(files', new)
       /\ new = {} <=> DOMAIN chunks = {}
       /\ FilesOK(files') /\ SameLogs(files, files') /\ Grows /\ Keeps
       /\ \A g \in DOMAIN files : g \in DOMAIN files'
       /\ \A k \in Nat : Descriptor(k) \in DOMAIN files' => Descriptor(k) \in DOMAIN files
  <2>1. \A t \in new : t.num \in Nat
    BY <1>10 DEF Built, TableSet
  <2> QED BY ONLY <1>10, <2>1 DEF Built
<1>12. /\ Sound(files', vs.version, vs.log, vs.next, vs.last)
       /\ ManifestFine(files', created, ReuseLogs) /\ CURRENT \in DOMAIN files'
       /\ Number(files') = Number(files) /\ Current(files') = Current(files)
       /\ Full(files') = Full(files) /\ Durable(files') = Durable(files)
       /\ Entries(files', vs.version) \subseteq Data(files', Full(files').added)
       /\ Entries(files', Full(files').added) \subseteq Data(files', vs.version)
  BY <1>2, <1>11, GrowStep
<1>13. next \in Nat /\ vs.next + Len(chunks) <= next /\ n + 1 <= next /\ vs.next <= next /\ n < next
  <2>1. vs.next + Len(chunks) \in Nat /\ n + 1 \in Nat
    BY <1>2, <1>9
  <2>2. next \in {vs.next + Len(chunks), n + 1} /\ vs.next + Len(chunks) <= next /\ n + 1 <= next
    BY <2>1, MaxOfTwo
  <2>3. next \in Nat
    BY <2>1, <2>2
  <2> HIDE DEF next
  <2> QED BY <1>2, <1>9, <2>2, <2>3
<1>14. last \in Nat /\ vs.last <= last /\ \A a \in LogEntries(files, n) : a <= last
  <2>1. last = Max({vs.last} \cup LogEntries(files, n))
    BY <1>7
  <2> HIDE DEF last
  <2> QED BY <1>2, <1>7, <2>1, LastOf DEF IInv
<1> HIDE DEF next, last
<1>15. /\ vs' \in VersionsSet /\ vs'.version = vs.version /\ vs'.log = vs.log /\ vs'.manifest = vs.manifest
       /\ vs'.descriptor = vs.descriptor /\ vs'.next = next /\ vs'.last = last
  BY <1>1, <1>2, <1>13, <1>14 DEF VersionsSet
<1>16. /\ job' \in JobSet /\ job'.edit.added = added \cup new /\ job'.edit.deleted = {} /\ job'.edit.has
       /\ job'.opening /\ ~job'.fresh /\ (~job'.save => ~job.save /\ new = {})
  <2>1. job' = [job EXCEPT !.save = job.save \/ new # {}, !.edit = [job.edit EXCEPT !.added = added \cup new]]
    BY <1>1, <1>2 DEF JobSet
  <2>2. [job.edit EXCEPT !.added = added \cup new] \in EditSet
    BY <1>2, <1>11 DEF EditSet
  <2>3. /\ [job.edit EXCEPT !.added = added \cup new].added = added \cup new
        /\ [job.edit EXCEPT !.added = added \cup new].deleted = {}
        /\ [job.edit EXCEPT !.added = added \cup new].has
    BY <1>2, <1>5 DEF EditSet
  <2> DEFINE edit == [job.edit EXCEPT !.added = added \cup new]
  <2> HIDE DEF edit, added
  <2>4. job' \in JobSet /\ job'.edit = edit /\ job'.opening = job.opening /\ job'.fresh = job.fresh
        /\ job'.save = (job.save \/ new # {})
    BY <1>2, <2>1, <2>2 DEF JobSet, edit
  <2> QED BY <1>5, <2>3, <2>4 DEF edit
<1>17. /\ LogSet(files') = LogSet(files) /\ LogsAscend(files') /\ AllLogs(files') = AllLogs(files)
       /\ \A k \in LogSet(files) : LogEntries(files', k) = LogEntries(files, k)
  BY <1>11, SameLogsFacts DEF IInv
<1>18. \A t \in tables : TableFile(t.num) \in DOMAIN files' /\ files'[TableFile(t.num)] = files[TableFile(t.num)]
                         /\ t.num \in Nat /\ t.num < vs.next
  <2>1. \A t \in tables : t.num \in Nat /\ t.num < vs.next /\ TableFile(t.num) \in DOMAIN files
    BY <1>2, <1>5, InUse DEF TableSet
  <2> QED BY <1>11, <2>1 DEF Grows
<1>19. Entries(files', added) = Entries(files, added) /\ Entries(files', tables) = Entries(files, tables)
  BY <1>18, SameEntries
<1>20. /\ Entries(files', new) \subseteq LogEntries(files, n)
       /\ ~reuse => LogEntries(files, n) \subseteq Entries(files', new)
  <2>1. ASSUME NEW t \in new PROVE files'[TableFile(t.num)].recs[1] \subseteq LogEntries(files, n)
    BY <1>7, <1>9, <1>11
  <2>2. Entries(files', new) \subseteq LogEntries(files, n)
    BY <2>1 DEF Entries
  <2> QED BY <1>7, <1>9, <1>11, <2>2
<1>21. reuse => ReuseLogs /\ pending = {n} /\ new = {} /\ has_mem_' /\ logfile_number_' = n /\ mem_' = LogEntries(files, n)
  BY <1>1, <1>7, <1>9, <1>11 DEF reuse
<1>22. ~reuse => ~has_mem_' /\ mem_' = mem_ /\ logfile_number_' = logfile_number_
  BY <1>1
<1>23. reuse \in BOOLEAN
  BY DEF reuse
<1>24. \A a \in Entries(files, tables), b \in LogEntries(files, n) : a < b
  BY <1>6
<1>25. LevelsAscend(files', tables \cup new)
  <2> SUFFICES ASSUME NEW s \in tables \cup new, NEW t \in tables \cup new,
                      (s.level = 1 /\ t.level = 0) \/ (s.level = 0 /\ t.level = 0 /\ s.num < t.num),
                      NEW a \in files'[TableFile(s.num)].recs[1], NEW b \in files'[TableFile(t.num)].recs[1]
               PROVE  a < b
    BY DEF LevelsAscend
  <2>1. CASE s \in tables /\ t \in tables
    <3>1. a \in files[TableFile(s.num)].recs[1] /\ b \in files[TableFile(t.num)].recs[1]
      BY <1>18, <2>1
    <3> QED BY <1>5, <2>1, <3>1 DEF LevelsAscend
  <2>2. CASE s \in tables /\ t \in new
    <3>1. a \in Entries(files', tables) /\ b \in Entries(files', new)
      BY <2>2 DEF Entries
    <3> QED BY <1>19, <1>20, <1>24, <3>1
  <2>3. CASE s \in new
    <3>1. s.level = 0 /\ s.num < t.num /\ vs.next <= s.num /\ s.num \in Nat
      BY <1>11, <2>3
    <3>2. t \notin tables
      <4>1. t \in tables => t.num \in Nat /\ t.num < vs.next
        BY <1>18
      <4> QED BY ONLY <1>2, <3>1, <4>1
    <3>3. t \in new
      BY <3>2
    <3>4. PICK i \in DOMAIN chunks : s.num = vs.next + i - 1 /\ files'[TableFile(s.num)].recs[1] = chunks[i]
      BY <1>11, <2>3
    <3>5. PICK j \in DOMAIN chunks : t.num = vs.next + j - 1 /\ files'[TableFile(t.num)].recs[1] = chunks[j]
      BY <1>11, <3>3
    <3>6. i \in Nat /\ j \in Nat /\ vs.next \in Nat
      BY <1>2, <1>9
    <3>7. i < j
      BY ONLY <3>1, <3>4, <3>5, <3>6
    <3> QED BY <1>9, <3>4, <3>5, <3>7
  <2> QED BY <2>1, <2>2, <2>3
<1>26. /\ vs'.version \cup job'.edit.added = tables \cup new
       /\ Entries(files', tables \cup new) = Entries(files, tables) \cup Entries(files', new)
       /\ Entries(files', added \cup new) = Entries(files, added) \cup Entries(files', new)
  <2>1. vs'.version \cup job'.edit.added = tables \cup new
    BY <1>15, <1>16
  <2>2. \A T : Entries(files', T \cup new) = Entries(files', T) \cup Entries(files', new)
    BY DEF Entries
  <2> QED BY <1>19, <2>1, <2>2
<1>27. \A k \in LogSet(files) : k \in Nat
  BY DEF LogSet
<1>28. \A m \in pending' : m \in pending /\ m \in Nat /\ n < m /\ m \in LogSet(files)
  BY <1>0, <1>1, <1>2, <1>5
<1>29. \A m \in pending : m = n \/ m \in pending'
  BY <1>1
<1> DEFINE left(k) == k \in pending' \/ (has_mem_' /\ k = logfile_number_')
<1>30. \A k \in pending : (reuse \/ k # n) => left(k)
  BY <1>21, <1>29
<1>31. \A k : left(k) => k \in pending /\ (reuse \/ (k # n /\ n < k))
  BY <1>0, <1>2, <1>21, <1>22, <1>28
<1>32. ASSUME NEW k \in LogSet(files), left(k), NEW a \in Entries(files', tables \cup new), NEW b \in LogEntries(files, k)
       PROVE  a < b
  <2>1. k \in pending /\ (reuse \/ n < k)
    BY <1>31, <1>32
  <2>2. CASE a \in Entries(files, tables)
    BY <1>6, <2>1, <2>2
  <2>3. CASE a \in Entries(files', new)
    <3>1. ~reuse
      BY <1>21, <2>3 DEF Entries
    <3>2. a \in LogEntries(files, n) /\ n < k
      BY <1>20, <2>1, <2>3, <3>1
    <3> QED BY <1>7, <3>2 DEF IInv, LogsAscend
  <2> QED BY <1>26, <2>2, <2>3
<1>33. ASSUME NEW k \in LogSet(files)
       PROVE  k < vs.log \/ left(k) \/ LogEntries(files, k) \subseteq Entries(files', added \cup new)
  <2>1. CASE k = n
    BY <1>20, <1>26, <1>30, <2>1
  <2>2. CASE k # n /\ k \in pending
    BY <1>30, <2>2
  <2>3. CASE k \notin pending
    BY <1>6, <1>26, <2>3
  <2> QED BY <2>1, <2>2, <2>3
<1>34. \A k \in LogSet(files) : k < next \/ k \in pending'
  <2> SUFFICES ASSUME NEW k \in LogSet(files), k \notin pending' PROVE k < next
    OBVIOUS
  <2>1. k \in Nat /\ (k = n \/ k < vs.next)
    BY <1>5, <1>27, <1>29
  <2> QED BY ONLY <1>2, <1>13, <2>1
<1>35. \A k \in LogSet(files) : k < vs.log \/ k \in pending' \/ (\A m \in pending' : k < m)
  BY <1>5, <1>28, <1>29
<1>36. \A k \in Nat : Descriptor(k) \in DOMAIN files' => k < next \/ \E l \in pending' : k < l
  <2> SUFFICES ASSUME NEW k \in Nat, Descriptor(k) \in DOMAIN files', ~\E l \in pending' : k < l PROVE k < next
    OBVIOUS
  <2>1. k < vs.next \/ k < n
    BY <1>5, <1>11, <1>29
  <2> QED BY ONLY <1>2, <1>13, <2>1
<1>37. \A t \in added \cup new : TableFile(t.num) \in DOMAIN files' /\ t.num < next /\ t.level = 0
  <2>1. ASSUME NEW t \in added PROVE TableFile(t.num) \in DOMAIN files' /\ t.num < next /\ t.level = 0
    <3>1. t \in tables
      OBVIOUS
    <3>2. t.num \in Nat /\ t.num < vs.next
      BY <1>18, <3>1
    <3>3. t.num < next
      BY ONLY <1>2, <1>13, <3>2
    <3> QED BY <1>5, <1>18, <3>1, <3>3
  <2>2. ASSUME NEW t \in new PROVE TableFile(t.num) \in DOMAIN files' /\ t.num < next /\ t.level = 0
    <3>1. t.num \in Nat /\ t.num < vs.next + Len(chunks)
      BY <1>11
    <3>2. t.num < next
      BY ONLY <1>2, <1>9, <1>13, <3>1
    <3> QED BY <1>11, <3>2
  <2> QED BY <2>1, <2>2
<1>38. \A t \in vs.version, u \in added \cup new : t.num < u.num
  <2> SUFFICES ASSUME NEW t \in vs.version, NEW u \in new PROVE t.num < u.num
    BY <1>5
  <2>1. t \in tables
    OBVIOUS
  <2>2. t.num \in Nat /\ t.num < vs.next
    BY <1>18, <2>1
  <2>3. u.num \in Nat /\ vs.next <= u.num
    BY <1>11
  <2> QED BY ONLY <1>2, <2>2, <2>3
<1>39. Entries(files', added \cup new) \subseteq AllLogs(files')
  <2>1. LogEntries(files, n) \subseteq AllLogs(files)
    BY <1>7 DEF AllLogs
  <2> QED BY <1>6, <1>17, <1>20, <1>26, <2>1
<1>40. \A k \in LogSet(files) : k \in pending' \/ \A a \in LogEntries(files, k) : a <= last
  <2> SUFFICES ASSUME NEW k \in LogSet(files), k \notin pending', NEW a \in LogEntries(files, k) PROVE a <= last
    OBVIOUS
  <2>1. CASE k = n
    BY <1>14, <2>1
  <2>2. CASE k # n
    <3>1. a \in Nat
      BY <1>2, LogTypes
    <3>2. a <= vs.last
      BY <1>6, <1>29, <2>2
    <3> QED BY ONLY <1>2, <1>14, <3>1, <3>2
  <2> QED BY <2>1, <2>2
<1>41. has_mem_' => /\ pending' = {} /\ ReuseLogs /\ logfile_number_' \in LogSet(files)
                    /\ \A k \in LogSet(files) : k <= logfile_number_'
                    /\ vs.log <= logfile_number_' /\ mem_' = LogEntries(files, logfile_number_')
  <2> SUFFICES ASSUME has_mem_'
               PROVE  /\ pending' = {} /\ ReuseLogs /\ logfile_number_' \in LogSet(files)
                      /\ \A k \in LogSet(files) : k <= logfile_number_'
                      /\ vs.log <= logfile_number_' /\ mem_' = LogEntries(files, logfile_number_')
    OBVIOUS
  <2>1. reuse
    BY <1>1
  <2>2. pending' = {} /\ ReuseLogs /\ logfile_number_' = n /\ mem_' = LogEntries(files, n) /\ pending = {n}
    BY <1>1, <1>21, <2>1
  <2>3. vs.log <= n
    BY <1>2, <1>5
  <2>4. \A k \in LogSet(files) : k <= n
    <3> SUFFICES ASSUME NEW k \in LogSet(files) PROVE k <= n
      OBVIOUS
    <3>1. k \in Nat /\ (k < vs.log \/ k = n \/ k < n)
      BY <1>5, <1>27, <2>2
    <3> QED BY ONLY <1>2, <2>3, <3>1
  <2> QED BY <1>7, <2>2, <2>3, <2>4
<1>42. ReuseLogs' = ReuseLogs /\ pc' = "logs" /\ ~Opened' /\ Running' /\ ~Ready' /\ ~Applying' /\ ~Creating' /\ ~Fresh'
  BY <1>1 DEF ReuseLogs, Opened, Running, Ready, Applying, Creating, Fresh
<1>43. Full(files) \in EditSet /\ Full(files).next \in Nat /\ Full(files).last \in Nat
  BY <1>2 DEF IInv, ManifestOK, ManifestFine, EditSet
<1>44. Full(files).next < next /\ Full(files).last <= last /\ Full(files).next <= next /\ vs.log < next
  <2>1. Full(files).last <= vs.last /\ vs.log < vs.next
    BY <1>2 DEF IInv, RunningOK
  <2> QED BY ONLY <1>2, <1>5, <1>13, <1>14, <1>43, <2>1, SMTT(40)
<1>45. TypeOK'
  <2>1. pending' \in SUBSET Nat
    BY <1>2, <1>28
  <2>2. mem_' \in SUBSET Nat /\ has_mem_' \in BOOLEAN /\ logfile_number_' \in Nat
    <3>1. LogEntries(files, n) \in SUBSET Nat
      BY <1>2, <1>7, LogTypes
    <3> QED BY <1>1, <1>2, <1>21, <1>22, <1>23, <3>1
  <2> QED BY <1>1, <1>2, <1>11, <1>15, <1>16, <2>1, <2>2 DEF TypeOK, PCs
<1>46. CreatingOK' /\ ManifestOK' /\ LogsAscend(files)'
  BY <1>1, <1>12, <1>17, <1>42 DEF CreatingOK, ManifestOK, Exists
<1>47. MemoryOK' /\ OpenedOK'
  BY <1>1, <1>3, <1>12, <1>16, <1>42 DEF MemoryOK, OpenedOK, Exists
<1>48. RunningOK'
  <2>1. Sound(files', vs.version, vs.log, next, last)
    BY <1>2, <1>11, <1>12, <1>13, <1>14, SoundWeaker
  <2> QED BY <1>2, <1>12, <1>15, <1>44, <2>1 DEF RunningOK
<1>49. ReadyOK' /\ ApplyingOK' /\ PhaseOK'
  BY <1>16, <1>42 DEF ReadyOK, ApplyingOK, PhaseOK
<1>50. LogsOK'
  <2>1. IsCurrent(Full(files))'
    BY <1>5, <1>12, <1>15 DEF IsCurrent
  <2>2. pending' \subseteq LogSet(files) /\ \A k \in pending' : k >= vs.log
    BY <1>5, <1>28
  <2>3. ~job'.save => job'.edit.added = {} /\ ReuseLogs
    BY <1>6, <1>16
  <2>4. vs'.version \cup job'.edit.added = tables \cup new /\ job'.edit.added = added \cup new
    BY <1>16, <1>26
  <2> DEFINE all == tables \cup new
             more == added \cup new
  <2>5. LevelsAscend(files', all)
    BY <1>25
  <2>6. \A k \in LogSet(files') : left(k) => \A a \in Entries(files', all), b \in LogEntries(files', k) : a < b
    BY <1>17, <1>32
  <2>7. \A k \in LogSet(files') : k < vs.log \/ left(k) \/ LogEntries(files', k) \subseteq Entries(files', more)
    BY <1>17, <1>33
  <2>8. \A k \in LogSet(files') : k \in pending' \/ \A a \in LogEntries(files', k) : a <= last
    BY <1>17, <1>40
  <2>9. has_mem_' => /\ pending' = {} /\ ReuseLogs /\ logfile_number_' \in LogSet(files')
                     /\ \A k \in LogSet(files') : k <= logfile_number_'
                     /\ vs.log <= logfile_number_' /\ mem_' = LogEntries(files', logfile_number_')
    BY <1>17, <1>41
  <2>10. Entries(files', more) \subseteq AllLogs(files')
    BY <1>39
  <2>11. \A t \in more : TableFile(t.num) \in DOMAIN files' /\ t.num < next /\ t.level = 0
    BY <1>37
  <2>12. \A t \in vs.version, u \in more : t.num < u.num
    BY <1>38
  <2>13. vs'.version \cup job'.edit.added = all /\ job'.edit.added = more
    BY <2>4
  <2> HIDE DEF all, more
  <2> QED BY <1>6, <1>12, <1>15, <1>16, <1>17, <1>34, <1>35, <1>36, <1>42, <1>44, <2>1, <2>2, <2>3, <2>5, <2>6, <2>7,
             <2>8, <2>9, <2>10, <2>11, <2>12, <2>13 DEF LogsOK, Exists
<1> QED BY <1>11, <1>45, <1>46, <1>47, <1>48, <1>49, <1>50 DEF IInv
-----------------------------------------------------------------------------
(* What can be recovered *)

LEMMA LogsIs ==
  ASSUME FilesOK(files), NEW l \in Nat
  PROVE  Logs(l) = {n \in LogSet(files) : n >= l}
<1>1. ASSUME NEW x \in Logs(l) PROVE x \in LogSet(files) /\ x >= l
  <2>1. PICK f \in DOMAIN files : f[1] = "log" /\ f[2] >= l /\ x = f[2]
    BY DEF Logs
  <2>2. PICK n \in Nat : f = LogFile(n)
    BY <2>1, Kinds, Parts
  <2> QED BY <2>1, <2>2, Parts DEF LogSet
<1>2. ASSUME NEW x \in LogSet(files), x >= l PROVE x \in Logs(l)
  <2>1. LogFile(x) \in DOMAIN files /\ LogFile(x)[1] = "log" /\ LogFile(x)[2] = x
    BY Parts DEF LogSet
  <2> QED BY <1>2, <2>1 DEF Logs
<1> QED BY <1>1, <1>2

\* What one view of the manifest lets recovery find: the logs before it add nothing.
Readable(synced, n) == ToSet(Recs(LogFile(n), synced))
LEMMA RecoverableFrom ==
  ASSUME IInv, Exists(CURRENT), NEW synced \in BOOLEAN, NEW m \in Views(files, ReuseLogs), Manifest(synced) = m,
         \A n \in LogSet(files) : Readable(synced, n) \subseteq LogEntries(files, n)
  PROVE  /\ Openable(synced)
         /\ Recoverable(synced) = Entries(files, m.added) \cup UNION {Readable(synced, n) : n \in LogSet(files)}
<1>1. /\ m.has /\ Missing(m.added) = {} /\ m.log \in Nat /\ FilesOK(files)
      /\ Sound(files, m.added, m.log, m.next, m.last)
  BY ViewFacts DEF IInv, TypeOK
<1>2. Complete(m)
  BY <1>1 DEF Complete
<1>3. Openable(synced)
  BY <1>2 DEF Openable
<1>4. Recoverable(synced) = TableEntries(m.added) \cup UNION {ToSet(Recs(LogFile(n), synced)) : n \in Logs(m.log)}
  BY <1>2 DEF Recoverable
<1>5. Logs(m.log) = {n \in LogSet(files) : n >= m.log}
  BY <1>1, LogsIs
<1>6. \A n \in LogSet(files) : n \in Logs(m.log) \/ Readable(synced, n) \subseteq Entries(files, m.added)
  <2> SUFFICES ASSUME NEW n \in LogSet(files), n \notin Logs(m.log) PROVE Readable(synced, n) \subseteq Entries(files, m.added)
    OBVIOUS
  <2>1. n < m.log
    BY <1>1, <1>5 DEF LogSet
  <2> QED BY <1>1, <2>1 DEF Sound
<1>7. TableEntries(m.added) = Entries(files, m.added)
  BY DEF TableEntries, Entries
<1>8. UNION {ToSet(Recs(LogFile(n), synced)) : n \in Logs(m.log)} = UNION {Readable(synced, n) : n \in Logs(m.log)}
  BY DEF Readable
<1> QED BY <1>3, <1>4, <1>5, <1>6, <1>7, <1>8
LEMMA RecoverableIs ==
  ASSUME IInv
  PROVE  /\ Recoverable(FALSE) = Store(files)
         /\ ~ReuseLogs => Recoverable(TRUE) = Stable(files) /\ Stable(files) \subseteq Store(files)
         /\ Exists(CURRENT) /\ Full(files).has => Openable(FALSE)
         /\ ~ReuseLogs /\ Exists(CURRENT) /\ Durable(files).has => Openable(TRUE)
<1>1. FilesOK(files)
  BY DEF IInv, TypeOK
<1>2. \A n \in LogSet(files) : /\ Readable(FALSE, n) = LogEntries(files, n)
                               /\ Readable(TRUE, n) = SyncedEntries(files, n)
                               /\ SyncedEntries(files, n) \subseteq LogEntries(files, n)
  BY <1>1, LogTypes DEF Readable, Recs, LogEntries, SyncedEntries
<1>3. ASSUME Exists(CURRENT), Full(files).has PROVE Openable(FALSE) /\ Recoverable(FALSE) = Store(files)
  <2>1. Full(files) \in Views(files, ReuseLogs) /\ Manifest(FALSE) = Full(files)
    BY <1>3, FullViews, ManifestIs
  <2>2. FALSE \in BOOLEAN /\ \A n \in LogSet(files) : Readable(FALSE, n) \subseteq LogEntries(files, n)
    BY <1>2
  <2>3. /\ Openable(FALSE)
        /\ Recoverable(FALSE) = Entries(files, Full(files).added) \cup UNION {Readable(FALSE, n) : n \in LogSet(files)}
    BY <1>3, <2>1, <2>2, RecoverableFrom
  <2>4. UNION {Readable(FALSE, n) : n \in LogSet(files)} = AllLogs(files)
    BY <1>2 DEF AllLogs
  <2> QED BY <1>3, <2>3, <2>4 DEF Store, Data, Exists
<1>4. ASSUME Exists(CURRENT), Durable(files).has, ~ReuseLogs PROVE Openable(TRUE) /\ Recoverable(TRUE) = Stable(files)
  <2>1. Durable(files) \in Views(files, ReuseLogs) /\ Manifest(TRUE) = Durable(files)
    BY <1>4, ManifestIs DEF Views
  <2>2. TRUE \in BOOLEAN /\ \A n \in LogSet(files) : Readable(TRUE, n) \subseteq LogEntries(files, n)
    BY <1>2
  <2>3. /\ Openable(TRUE)
        /\ Recoverable(TRUE) = Entries(files, Durable(files).added) \cup UNION {Readable(TRUE, n) : n \in LogSet(files)}
    BY <1>4, <2>1, <2>2, RecoverableFrom
  <2>4. UNION {Readable(TRUE, n) : n \in LogSet(files)} = AllSynced(files)
    BY <1>2 DEF AllSynced
  <2> QED BY <1>4, <2>3, <2>4 DEF Stable, Exists
<1>5. ASSUME NEW synced \in BOOLEAN, ~Manifest(synced).has PROVE Recoverable(synced) = {}
  BY <1>5 DEF Recoverable, Complete
<1>6. ~(Exists(CURRENT) /\ Full(files).has) => Recoverable(FALSE) = {} /\ Store(files) = {}
  <2> SUFFICES ASSUME ~(Exists(CURRENT) /\ Full(files).has) PROVE Recoverable(FALSE) = {} /\ Store(files) = {}
    OBVIOUS
  <2>1. ~Manifest(FALSE).has
    BY ManifestIs, Constants
  <2> QED BY <1>5, <2>1 DEF Store, Exists
<1>7. ~(Exists(CURRENT) /\ Durable(files).has) => Recoverable(TRUE) = {} /\ Stable(files) = {}
  <2> SUFFICES ASSUME ~(Exists(CURRENT) /\ Durable(files).has) PROVE Recoverable(TRUE) = {} /\ Stable(files) = {}
    OBVIOUS
  <2>1. ~Manifest(TRUE).has
    BY ManifestIs, Constants
  <2> QED BY <1>5, <2>1 DEF Stable, Exists
<1>8. ASSUME ~ReuseLogs PROVE Stable(files) \subseteq Store(files)
  <2>1. CASE Exists(CURRENT) /\ Durable(files).has
    <3>1. Full(files).has /\ Entries(files, Durable(files).added) \subseteq Entries(files, Full(files).added)
      BY <1>8, <2>1 DEF IInv, ManifestOK, ManifestFine
    <3>2. AllSynced(files) \subseteq AllLogs(files)
      BY <1>2 DEF AllSynced, AllLogs
    <3> QED BY <2>1, <3>1, <3>2 DEF Stable, Store, Data, Exists
  <2>2. CASE ~(Exists(CURRENT) /\ Durable(files).has)
    BY <1>7, <2>2
  <2> QED BY <2>1, <2>2
<1> QED BY <1>3, <1>4, <1>6, <1>7, <1>8
-----------------------------------------------------------------------------
(* The theorems *)

LEMMA NextStep == IInv /\ ~Spoilt' /\ [Next]_vars => IInv' /\ (Keeps \/ Writes1 \/ Loses)
<1> SUFFICES ASSUME IInv, ~Spoilt', [Next]_vars PROVE IInv' /\ (Keeps \/ Writes1 \/ Loses)
  OBVIOUS
<1>1. CASE UNCHANGED vars
  BY <1>1, RestStep
<1>2. CASE Next
  <2>1. Step /\ options_' = options_
    BY <1>2 DEF Next
  <2>2. CASE Open
    BY <2>1, <2>2, OpenStep
  <2>3. CASE NewDB
    BY <2>1, <2>3, NewDBStep
  <2>4. CASE WriteTemp
    BY <2>1, <2>4, WriteTempStep
  <2>5. CASE RenameCurrent
    BY <2>1, <2>5, RenameCurrentStep
  <2>6. CASE Recover
    BY <2>1, <2>6, RecoverStep
  <2>7. CASE RecoverLogFile
    BY <2>1, <2>7, RecoverLogFileStep
  <2>8. CASE OpenLog
    BY <2>1, <2>8, OpenLogStep
  <2>9. CASE WriteSnapshot
    BY <2>1, <2>9, WriteSnapshotStep
  <2>10. CASE AddEdit
    BY <2>1, <2>10, AddEditStep
  <2>11. CASE SyncManifest
    BY <2>1, <2>11, SyncManifestStep
  <2>12. CASE ManifestFails
    BY <2>1, <2>12, ManifestFailsStep
  <2>13. CASE Install
    BY <2>1, <2>13, InstallStep
  <2>14. CASE DeleteObsoleteFiles
    BY <2>1, <2>14, DeleteObsoleteFilesStep
  <2>15. ASSUME NEW sync \in BOOLEAN, AddRecord(sync) PROVE IInv' /\ Writes1
    BY <2>1, <2>15, AddRecordStep
  <2>16. CASE SyncLog
    BY <2>1, <2>16, SyncLogStep
  <2>17. CASE InsertInto
    BY <2>1, <2>17, InsertIntoStep
  <2>18. CASE MakeRoomForWrite
    BY <2>1, <2>18, MakeRoomStep
  <2>19. CASE CompactMemTable
    BY <2>1, <2>19, CompactMemTableStep
  <2>20. CASE CompactLevel
    BY <2>1, <2>20, CompactLevelStep
  <2>21. CASE NewIterator \/ CleanupIteratorState
    BY <2>1, <2>21, IteratorStep
  <2>22. CASE Crash
    BY <2>1, <2>22, CrashStep
  <2>23. CASE GiveUp
    BY <2>1, <2>23, GiveUpStep
  <2>24. CASE Rest
    BY <2>24, RestStep DEF Rest
  <2> QED BY <2>1, <2>2, <2>3, <2>4, <2>5, <2>6, <2>7, <2>8, <2>9, <2>10, <2>11, <2>12, <2>13, <2>14, <2>15, <2>16,
             <2>17, <2>18, <2>19, <2>20, <2>21, <2>22, <2>23, <2>24 DEF Step
<1> QED BY <1>1, <1>2

\* Without reuse_logs no file that is written to ends with a torn record: the log and the
\* manifest are new since the last crash, and a manifest whose write failed is not used on.
NothingTorn ==
  /\ ~Spoilt
  /\ has_mem_ => LogFile(logfile_number_) \notin torn
  /\ vs.descriptor /\ ~bg_error_ /\ pc # "failed" => Descriptor(vs.manifest) \notin torn

LEMMA TornStep == IInv /\ ~ReuseLogs /\ NothingTorn /\ [Next]_vars => NothingTorn'
<1> SUFFICES ASSUME IInv, ~ReuseLogs, NothingTorn, [Next]_vars PROVE NothingTorn'
  OBVIOUS
<1> DEFINE l == LogFile(logfile_number_)
           d == Descriptor(vs.manifest)
<1>1. MayWrite => l \notin torn
  <2>1. MayWrite => has_mem_
    BY OpenedReady DEF MayWrite, IInv, ReadyOK
  <2> QED BY <2>1 DEF NothingTorn
<1>2. pc = "add" => d \notin torn
  BY DEF NothingTorn, IInv, PhaseOK, OpenedOK, Ready, Applying
<1>3. UNCHANGED spoilt => ~Spoilt'
  BY DEF NothingTorn, Spoilt
<1>4. CASE UNCHANGED vars \/ Rest
  BY <1>4 DEF Rest, vars, NothingTorn, Spoilt
<1>5. CASE Next
  <2>1. CASE Open
    BY <1>3, <2>1 DEF Open, memory, NothingTorn
  <2>2. CASE NewDB
    <3>1. has_mem_' = has_mem_ /\ ~has_mem_ /\ ~vs'.descriptor /\ UNCHANGED spoilt
      BY <2>2 DEF NewDB, NoVersions, memory, IInv, MemoryOK
    <3> QED BY <1>3, <3>1 DEF NothingTorn
  <2>3. CASE WriteTemp \/ WriteSnapshot \/ MakeRoomForWrite \/ OpenLog
    <3>1. UNCHANGED <<spoilt, bg_error_>> /\ (pc = "failed" => pc' = "failed") /\ (pc' = "failed" => pc = "failed")
      BY <2>3 DEF WriteTemp, WriteSnapshot, MakeRoomForWrite, OpenLog
    <3>2. torn' \subseteq torn
      BY <2>3 DEF WriteTemp, WriteSnapshot, MakeRoomForWrite, OpenLog, NewFile
    <3>3. (has_mem_' => has_mem_ /\ logfile_number_' = logfile_number_) \/ LogFile(logfile_number_') \notin torn'
      BY <2>3 DEF WriteTemp, WriteSnapshot, MakeRoomForWrite, OpenLog, NewFile, memory
    <3>4. vs'.manifest = vs.manifest /\ (vs'.descriptor => vs.descriptor \/ Descriptor(vs.manifest) \notin torn')
      BY <2>3 DEF WriteTemp, WriteSnapshot, MakeRoomForWrite, OpenLog, NewFile, IInv, TypeOK, VersionsSet
    <3> QED BY <1>3, <3>1, <3>2, <3>3, <3>4 DEF NothingTorn
  <2>4. CASE RenameCurrent \/ SyncManifest \/ Install \/ SyncLog \/ NewIterator \/ CleanupIteratorState
    <3>1. UNCHANGED <<torn, spoilt, has_mem_, logfile_number_, bg_error_>> /\ (pc = "failed" => pc' = "failed")
          /\ vs'.manifest = vs.manifest /\ vs'.descriptor = vs.descriptor
      BY <2>4 DEF RenameCurrent, SyncManifest, Install, SyncLog, NewIterator, CleanupIteratorState, memory,
                  IInv, TypeOK, VersionsSet
    <3> QED BY <1>3, <3>1 DEF NothingTorn
  <2>5. CASE Recover
    <3>1. UNCHANGED <<torn, spoilt, has_mem_, logfile_number_, bg_error_>> /\ ~has_mem_
          /\ (pc' = "failed" \/ ~vs'.descriptor)
      <4>1. pc = "recover" /\ UNCHANGED <<torn, spoilt, memory, bg_error_>>
        BY <2>5 DEF Recover
      <4>2. ~has_mem_
        BY <4>1 DEF IInv, MemoryOK
      <4> DEFINE m == Manifest(FALSE)
      <4>3. \/ pc' = "failed"
            \/ vs' = [version |-> m.added, last |-> m.last, log |-> m.log, next |-> m.next + 1,
                      manifest |-> IF ReuseLogs THEN files[CURRENT].recs[1] ELSE m.next,
                      descriptor |-> ReuseLogs]
        BY <2>5 DEF Recover
      <4>4. pc' = "failed" \/ (vs'.descriptor <=> ReuseLogs)
        <5> HIDE DEF m
        <5> QED BY <4>3
      <4> QED BY <4>1, <4>2, <4>4 DEF memory
    <3> QED BY <1>3, <3>1 DEF NothingTorn
  <2>6. CASE RecoverLogFile
    <3>1. UNCHANGED <<torn, spoilt, bg_error_, pc>> /\ ~has_mem_' /\ vs'.manifest = vs.manifest
          /\ vs'.descriptor = vs.descriptor
      BY <2>6 DEF RecoverLogFile, ReplayLog, IInv, TypeOK, VersionsSet
    <3> QED BY <1>3, <3>1 DEF NothingTorn
  <2>7. CASE AddEdit
    <3>1. UNCHANGED <<torn, has_mem_, logfile_number_, vs, bg_error_>> /\ spoilt' = spoilt \cup ({d} \cap torn) /\ pc = "add"
      BY <2>7 DEF AddEdit, AppendTo, memory
    <3> QED BY <1>2, <3>1 DEF NothingTorn, Spoilt
  <2>8. CASE ManifestFails
    <3>1. /\ UNCHANGED <<has_mem_, logfile_number_, vs>> /\ (bg_error_' \/ pc' = "failed")
          /\ \E names \in SUBSET {d} : (names # {} => pc = "add") /\ Tear(names)
      BY <2>8 DEF ManifestFails, memory
    <3>2. PICK names \in SUBSET {d} : (names # {} => pc = "add") /\ Tear(names)
      BY <3>1
    <3>3. spoilt' = spoilt /\ torn' \subseteq torn \cup {d}
      BY <1>2, <3>2 DEF Tear
    <3>4. LogFile(logfile_number_) # d
      BY Names
    <3> QED BY <1>3, <3>1, <3>3, <3>4 DEF NothingTorn
  <2>9. CASE DeleteObsoleteFiles
    <3>1. UNCHANGED <<spoilt, has_mem_, logfile_number_, vs, bg_error_>> /\ torn' \subseteq torn /\ pc = "gc"
      BY <2>9 DEF DeleteObsoleteFiles, Collect, memory
    <3> QED BY <1>3, <3>1 DEF NothingTorn
  <2>10. ASSUME NEW sync \in BOOLEAN, AddRecord(sync) PROVE NothingTorn'
    <3>1. UNCHANGED <<torn, has_mem_, logfile_number_, vs, bg_error_, pc>> /\ spoilt' = spoilt \cup ({l} \cap torn) /\ MayWrite
      BY <2>10 DEF AddRecord, LogRecord, AppendTo, memory
    <3> QED BY <1>1, <3>1 DEF NothingTorn, Spoilt
  <2>11. CASE InsertInto
    <3>1. UNCHANGED <<torn, spoilt, has_mem_, logfile_number_, bg_error_, pc>> /\ vs'.manifest = vs.manifest
          /\ vs'.descriptor = vs.descriptor
      BY <2>11 DEF InsertInto, IInv, TypeOK, VersionsSet
    <3> QED BY <1>3, <3>1 DEF NothingTorn
  <2>12. CASE CompactMemTable \/ CompactLevel
    <3>1. UNCHANGED <<spoilt, has_mem_, logfile_number_, bg_error_>> /\ pc = "open"
      BY <2>12 DEF CompactMemTable, FlushTo, CompactLevel, StartApply, memory
    <3>2. torn' \subseteq torn /\ vs'.manifest = vs.manifest /\ vs'.descriptor = vs.descriptor
      BY <2>12 DEF CompactMemTable, FlushTo, CompactLevel, BuildTable, NewFile, IInv, TypeOK, VersionsSet
    <3> QED BY <1>3, <3>1, <3>2 DEF NothingTorn
  <2>13. CASE Crash
    <3>1. ~has_mem_' /\ ~vs'.descriptor
      <4>1. PICK fs : Lose(fs)
        BY <2>13 DEF Crash
      <4> QED BY <4>1 DEF Lose, NoVersions
    <3>2. spoilt' = spoilt
      <4>1. CASE UNCHANGED spoilt
        BY <4>1
      <4>2. CASE \E names \in SUBSET Appending : Tear(names)
        <5>1. \A f \in Appending : f \notin torn
          BY <1>1, <1>2 DEF Appending
        <5> QED BY <4>2, <5>1 DEF Tear
      <4> QED BY <2>13, <4>1, <4>2 DEF Crash
    <3> QED BY <1>3, <3>1, <3>2 DEF NothingTorn
  <2>14. CASE GiveUp
    BY <1>3, <2>14 DEF GiveUp, Lose, NoVersions, NothingTorn
  <2> QED BY <1>4, <1>5, <2>1, <2>2, <2>3, <2>4, <2>5, <2>6, <2>7, <2>8, <2>9, <2>10, <2>11, <2>12, <2>13, <2>14
          DEF Next, Step
<1> QED BY <1>4, <1>5

\* What is spoilt stays so.
LEMMA SpoiltStays == Spoilt /\ [Next]_vars => Spoilt'
<1> SUFFICES ASSUME [Next]_vars PROVE spoilt \subseteq spoilt'
  BY DEF Spoilt
<1>1. CASE UNCHANGED vars \/ Rest
  BY <1>1 DEF vars, Rest
<1>2. CASE Next
  <2>1. CASE Open \/ NewDB \/ WriteTemp \/ RenameCurrent \/ Recover \/ RecoverLogFile \/ OpenLog
    BY <2>1 DEF Open, NewDB, WriteTemp, RenameCurrent, Recover, RecoverLogFile, ReplayLog, OpenLog
  <2>2. CASE WriteSnapshot \/ AddEdit \/ SyncManifest \/ ManifestFails \/ Install \/ DeleteObsoleteFiles
    BY <2>2 DEF WriteSnapshot, AddEdit, AppendTo, SyncManifest, ManifestFails, Tear, Install, DeleteObsoleteFiles, Collect
  <2>3. CASE (\E sync \in BOOLEAN : AddRecord(sync)) \/ SyncLog \/ InsertInto \/ MakeRoomForWrite
    BY <2>3 DEF AddRecord, LogRecord, AppendTo, SyncLog, InsertInto, MakeRoomForWrite
  <2>4. CASE CompactMemTable \/ CompactLevel \/ NewIterator \/ CleanupIteratorState
    BY <2>4 DEF CompactMemTable, FlushTo, CompactLevel, StartApply, NewIterator, CleanupIteratorState
  <2>5. CASE Crash \/ GiveUp
    BY <2>5 DEF Crash, Tear, GiveUp
  <2> QED BY <1>1, <1>2, <2>1, <2>2, <2>3, <2>4, <2>5 DEF Next, Step
<1> QED BY <1>1, <1>2

\* The whole invariant.  With reuse_logs it says nothing once something has been appended
\* behind a torn record; without, that is impossible.
Inv == (Spoilt \/ IInv) /\ (~ReuseLogs => NothingTorn)

LEMMA InvStep == Inv /\ [Next]_vars => Inv'
<1> SUFFICES ASSUME Inv, [Next]_vars PROVE Inv'
  OBVIOUS
<1>1. ReuseLogs' <=> ReuseLogs
  BY DEF Next, vars, ReuseLogs
<1>2. CASE Spoilt
  BY <1>1, <1>2, SpoiltStays DEF Inv, NothingTorn
<1>3. CASE ~Spoilt
  <2>1. ~ReuseLogs => NothingTorn'
    BY <1>3, TornStep DEF Inv
  <2>2. Spoilt' \/ IInv'
    BY <1>3, NextStep DEF Inv
  <2> QED BY <1>1, <2>1, <2>2 DEF Inv
<1> QED BY <1>2, <1>3

\* The invariant holds in every state a database can reach, whatever crashes, torn records,
\* faults, writes and iterators there are, until something is appended behind a torn record;
\* and without reuse_logs nothing ever is (NewDB, LogAndApply, DBImpl::Recover).
THEOREM FilesInvariant == Spec => []((Spoilt \/ IInv) /\ (~ReuseLogs => ~Spoilt /\ IInv))
<1>1. Init => Inv
  BY InitOK DEF Init, Inv, NothingTorn, Spoilt
<1>2. Inv => (Spoilt \/ IInv) /\ (~ReuseLogs => ~Spoilt /\ IInv)
  BY DEF Inv, NothingTorn
<1> QED BY <1>1, <1>2, InvStep, PTL DEF Spec

\* Opening never fails once it has succeeded: what CURRENT, the manifest and its tables
\* need is there after every step, synced where the machine may crash, and no file of a
\* version in use is deleted (DeleteObsoleteFiles, SetCurrentFile, LogAndApply); with
\* reuse_logs, until something is appended behind a torn record.
THEOREM FilesNeeded == Spec => []NeededFilesExist
<1>1. Spoilt \/ IInv => NeededFilesExist
  <2> SUFFICES ASSUME IInv PROVE NeededFilesExist
    BY DEF NeededFilesExist
  <2>1. ASSUME created PROVE Exists(CURRENT) /\ Full(files).has /\ (~ReuseLogs => Durable(files).has)
    <3>1. Exists(CURRENT)
      BY <2>1 DEF IInv, CreatingOK
    <3>2. ManifestFine(files, created, ReuseLogs)
      BY <3>1 DEF IInv, ManifestOK
    <3> QED BY <2>1, <3>1, <3>2 DEF ManifestFine
  <2>2. created => Openable(FALSE) /\ (~ReuseLogs => Openable(TRUE))
    BY <2>1, RecoverableIs
  <2>3. \A i \in DOMAIN pinned : Missing(pinned[i]) = {}
    BY DEF IInv, OpenedOK
  <2> QED BY <2>2, <2>3 DEF NeededFilesExist
<1> QED BY <1>1, FilesInvariant, PTL

\* A write with sync has its record synced, in a log that the synced manifest needs, before
\* it returns (DBImpl::Write); then no crash of the machine takes it back.
THEOREM SyncedWrites == Spec => SyncWritesStable
<1>1. (~ReuseLogs => IInv) => (~ReuseLogs /\ w.at = "insert" /\ w.sync /\ pc' # "closed" /\ w' = NoWrite
                                 => vs.last + 1 \in Recoverable(TRUE))
  <2> SUFFICES ASSUME IInv, ~ReuseLogs, w.at = "insert", w.sync PROVE vs.last + 1 \in Recoverable(TRUE)
    OBVIOUS
  <2>1. Opened
    BY DEF IInv, MemoryOK
  <2>2. Ready /\ Exists(CURRENT) /\ created
    BY <2>1, OpenedReady
  <2>3. Durable(files).has
    BY <2>2 DEF IInv, ManifestOK, ManifestFine
  <2>4. vs.last + 1 \in SyncedEntries(files, logfile_number_) /\ logfile_number_ \in LogSet(files)
    BY <2>2 DEF IInv, OpenedOK, ReadyOK
  <2>5. vs.last + 1 \in Stable(files)
    BY <2>2, <2>3, <2>4 DEF Stable, AllSynced, Exists
  <2> QED BY <2>5, RecoverableIs
<1> QED BY <1>1, FilesInvariant, PTL DEF SyncWritesStable

\* In an opened database the files and the memtables say the same.
LEMMA OpenedStore ==
  ASSUME IInv, Opened
  PROVE  /\ Store(files) = Entries(files, vs.version) \cup AllLogs(files)
         /\ w.at = "idle" => mem_ \cup imm_ \cup TableEntries(vs.version) = Store(files)
         /\ \A e \in Store(files) : e <= vs.last \/ (w.at # "idle" /\ e = vs.last + 1)
<1>1. Ready /\ Running /\ Exists(CURRENT) /\ Full(files).has
      /\ vs.last \in Nat /\ vs.log \in Nat /\ logfile_number_ \in Nat /\ FilesOK(files)
  BY OpenedReady DEF IInv, TypeOK, VersionsSet
<1>2. /\ Sound(files, vs.version, vs.log, vs.next, vs.last)
      /\ Entries(files, vs.version) \subseteq Data(files, Full(files).added)
      /\ Entries(files, Full(files).added) \subseteq Data(files, vs.version)
  BY <1>1 DEF IInv, RunningOK
<1>3. Store(files) = Entries(files, vs.version) \cup AllLogs(files)
  BY <1>1, <1>2 DEF Store, Data, Exists
<1>4. /\ logfile_number_ \in LogSet(files) /\ \A n \in LogSet(files) : n \in Nat /\ n <= logfile_number_
      /\ vs.log <= logfile_number_
      /\ LogEntries(files, logfile_number_) = mem_ \cup (IF w.at = "idle" THEN {} ELSE {vs.last + 1})
      /\ \A e \in mem_ : e <= vs.last
      /\ \A n \in LogSet(files) : n # logfile_number_ => \A e \in LogEntries(files, n) : e <= vs.last
  BY <1>1 DEF IInv, ReadyOK, LogSet
<1>5. imm_ = UNION {LogEntries(files, n) : n \in {n \in LogSet(files) : vs.log <= n /\ n < logfile_number_}}
  BY <1>1 DEF IInv, ReadyOK, Opened
<1>6. \A n \in LogSet(files) : n < vs.log => LogEntries(files, n) \subseteq Entries(files, vs.version)
  BY <1>2 DEF Sound
<1>7. TableEntries(vs.version) = Entries(files, vs.version)
  BY DEF TableEntries, Entries
<1>8. ASSUME w.at = "idle" PROVE mem_ \cup imm_ \cup TableEntries(vs.version) = Store(files)
  <2>1. mem_ = LogEntries(files, logfile_number_)
    BY <1>4, <1>8
  <2>2. imm_ \subseteq AllLogs(files) /\ mem_ \subseteq AllLogs(files)
    BY <1>4, <1>5, <2>1 DEF AllLogs
  <2>3. ASSUME NEW n \in LogSet(files) PROVE LogEntries(files, n) \subseteq mem_ \cup imm_ \cup Entries(files, vs.version)
    <3>1. CASE n < vs.log
      BY <1>6, <3>1
    <3>2. CASE n = logfile_number_
      BY <2>1, <3>2
    <3>3. CASE vs.log <= n /\ n < logfile_number_
      BY <1>5, <3>3
    <3>4. n < vs.log \/ n = logfile_number_ \/ (vs.log <= n /\ n < logfile_number_)
      BY <1>1, <1>4
    <3> QED BY <3>1, <3>2, <3>3, <3>4
  <2>4. AllLogs(files) \subseteq mem_ \cup imm_ \cup Entries(files, vs.version)
    BY <2>3 DEF AllLogs
  <2> QED BY <1>3, <1>7, <2>2, <2>4
<1>9. ASSUME NEW e \in Store(files) PROVE e <= vs.last \/ (w.at # "idle" /\ e = vs.last + 1)
  <2>1. CASE e \in Entries(files, vs.version)
    BY <1>1, <2>1, InUse
  <2>2. ASSUME NEW n \in LogSet(files), e \in LogEntries(files, n) PROVE e <= vs.last \/ (w.at # "idle" /\ e = vs.last + 1)
    BY <1>4, <2>2
  <2> QED BY <1>3, <2>1, <2>2 DEF AllLogs
<1> QED BY <1>3, <1>8, <1>9

\* Without an open database there is no version, but for one that Open has given up.
Unopened == ~Running => vs.version = {} \/ (pc = "failed" /\ LevelsAscend(files, vs.version))

LEMMA UnopenedStep == IInv /\ IInv' /\ Unopened /\ [Next]_vars => Unopened'
<1> SUFFICES ASSUME IInv, IInv', Unopened, [Next]_vars PROVE Unopened'
  OBVIOUS
<1>1. pc' \in {"logs", "gc", "open", "apply", "add", "sync", "install"} => Running'
  BY DEF Running, Ready, Applying
<1>2. vs'.version = {} => Unopened'
  BY DEF Unopened
<1>3. Creating' => vs'.version = {}
  BY DEF IInv, CreatingOK, NoVersions
<1>4. pc' \in {"tmp", "rename"} => Running' \/ Creating'
  BY DEF Running, Ready, Applying, Creating
<1>5. pc' \in {"logs", "gc", "open", "apply", "add", "sync", "install", "tmp", "rename"} => Unopened'
  BY <1>1, <1>2, <1>3, <1>4 DEF Unopened
<1>6. pc' \in PCs
  BY DEF IInv, TypeOK
<1>7. Opened => pc \notin {"closed", "newdb", "recover", "failed"}
  BY DEF Opened
<1>8. w.at # "idle" \/ pinned # << >> => Opened
  BY DEF IInv, MemoryOK
<1>9. CASE Open
  <2>1. vs.version = {}
    BY <1>9 DEF Open, Unopened, Running, Ready, Applying
  <2> QED BY <1>2, <1>9, <2>1 DEF Open
<1>10. CASE NewDB
  <2>1. vs'.version = {}
    BY <1>10 DEF NewDB, NoVersions
  <2> QED BY <1>2, <2>1
<1>11. CASE WriteTemp
  BY <1>5, <1>11 DEF WriteTemp
<1>12. CASE RenameCurrent
  <2>1. CASE job.edit.has
    BY <1>5, <1>12, <2>1 DEF RenameCurrent
  <2>2. CASE ~job.edit.has
    <3>1. Creating
      BY <1>12, <2>2 DEF RenameCurrent, Creating
    <3>2. vs.version = {} /\ vs' = vs
      BY <1>12, <3>1 DEF IInv, CreatingOK, NoVersions, RenameCurrent
    <3> QED BY <1>2, <3>2
  <2> QED BY <2>1, <2>2
<1>13. CASE Recover
  <2>1. pc = "recover" /\ (pc' = "logs" \/ vs' = vs)
    BY <1>13 DEF Recover
  <2>2. vs.version = {}
    BY <2>1 DEF Unopened, Running, Ready, Applying
  <2> QED BY <1>2, <1>5, <2>1, <2>2
<1>14. CASE RecoverLogFile
  <2>1. pc' = "logs"
    BY <1>14 DEF RecoverLogFile, ReplayLog
  <2> QED BY <1>5, <2>1
<1>15. CASE OpenLog
  BY <1>5, <1>15 DEF OpenLog
<1>16. CASE WriteSnapshot \/ AddEdit \/ SyncManifest \/ Install \/ DeleteObsoleteFiles
  BY <1>5, <1>16 DEF WriteSnapshot, AddEdit, SyncManifest, Install, DeleteObsoleteFiles, Collect
<1>17. CASE ManifestFails
  <2>1. CASE ~job.opening
    BY <1>5, <1>17, <2>1 DEF ManifestFails
  <2>2. CASE job.opening
    <3>1. pc \in {"add", "sync"} /\ pc' = "failed" /\ vs' = vs
          /\ files' = IF job.fresh THEN Without(files, {Descriptor(vs.manifest)}) ELSE files
      BY <1>17, <2>2 DEF ManifestFails
    <3>2. Running
      BY <3>1 DEF Running, Ready, Applying
    <3>3. LevelsAscend(files, vs.version) /\ \A t \in vs.version : TableFile(t.num) \in DOMAIN files
      BY <3>2 DEF IInv, RunningOK, Sound
    <3>4. \A t \in vs.version : files'[TableFile(t.num)] = files[TableFile(t.num)]
      <4>1. CASE job.fresh
        <5>1. files' = Without(files, {Descriptor(vs.manifest)})
          BY <3>1, <4>1
        <5>2. \A g \in DOMAIN files \ {Descriptor(vs.manifest)} : files'[g] = files[g]
          BY <5>1, WithoutFiles
        <5>3. \A t \in vs.version : TableFile(t.num) # Descriptor(vs.manifest)
          BY Names
        <5> QED BY <3>3, <5>2, <5>3
      <4>2. CASE ~job.fresh
        BY <3>1, <4>2
      <4> QED BY <4>1, <4>2
    <3>5. LevelsAscend(files', vs.version)
      BY <3>3, <3>4 DEF LevelsAscend
    <3> QED BY <3>1, <3>5 DEF Unopened
  <2> QED BY <2>1, <2>2
<1>18. CASE (\E sync \in BOOLEAN : AddRecord(sync)) \/ SyncLog \/ InsertInto \/ MakeRoomForWrite \/ NewIterator \/ CleanupIteratorState
  <2>1. Opened /\ pc' = pc
    BY <1>8, <1>18 DEF AddRecord, LogRecord, MayWrite, SyncLog, InsertInto, MakeRoomForWrite, NewIterator, CleanupIteratorState
  <2>2. pc' \notin {"closed", "newdb", "recover", "failed"}
    BY <1>7, <2>1
  <2> QED BY <1>5, <1>6, <2>2 DEF PCs
<1>19. CASE CompactMemTable \/ CompactLevel
  <2>1. pc' = "apply"
    BY <1>19 DEF CompactMemTable, FlushTo, CompactLevel, StartApply
  <2> QED BY <1>5, <2>1
<1>20. CASE Crash \/ GiveUp
  <2>1. vs' = NoVersions
    BY <1>20 DEF Crash, GiveUp, Lose
  <2> QED BY <1>2, <2>1 DEF NoVersions
<1>21. CASE UNCHANGED vars
  BY <1>21 DEF vars, Unopened, Running, Ready, Applying, LevelsAscend
<1>22. CASE Rest
  BY <1>21, <1>22 DEF Rest
<1> QED BY <1>9, <1>10, <1>11, <1>12, <1>13, <1>14, <1>15, <1>16, <1>17, <1>18, <1>19, <1>20, <1>21, <1>22 DEF Next, Step

\* Reads find what recovery would, no number is in use that a new write will get, and
\* tables of level 0 are ordered by age (RecoverLogFile, Recover, MakeRoomForWrite,
\* CompactMemTable), until something is appended behind a torn record, and without
\* reuse_logs nothing ever is.
THEOREM ReadsFindAll == Spec => []ReadsWhatIsThere
<1>1. Init => Unopened
  BY DEF Init, Unopened, NoVersions
<1> DEFINE U == Spoilt \/ Unopened
<1>2. (Spoilt \/ IInv) /\ (Spoilt \/ IInv)' /\ U /\ [Next]_vars => U'
  BY UnopenedStep, SpoiltStays
<1>3. Spec => []U
  <2>1. Init => U
    BY <1>1
  <2> QED BY <1>2, <2>1, FilesInvariant, PTL DEF Spec
<1>4. (Spoilt \/ IInv) /\ (~ReuseLogs => ~Spoilt) /\ U => ReadsWhatIsThere
  <2> SUFFICES ASSUME IInv, Unopened, ~ReuseLogs => ~Spoilt PROVE ReadsWhatIsThere
    BY DEF ReadsWhatIsThere
  <2>1. Opened /\ w.at = "idle" => mem_ \cup imm_ \cup TableEntries(vs.version) = Recoverable(FALSE)
    BY OpenedStore, RecoverableIs
  <2>2. NumbersFresh
    <3>1. Opened => \A e \in Recoverable(FALSE) : e <= vs.last \/ (w.at # "idle" /\ e = vs.last + 1)
      BY OpenedStore, RecoverableIs
    <3>2. Opened => \A f \in DOMAIN files : f[2] < vs.next
      BY DEF IInv, OpenedOK
    <3> QED BY <3>1, <3>2 DEF NumbersFresh
  <2>3. LevelsAscend(files, vs.version)
    <3>1. CASE Running
      BY <3>1 DEF IInv, RunningOK, Sound
    <3>2. CASE ~Running
      BY <3>2 DEF Unopened, LevelsAscend
    <3> QED BY <3>1, <3>2
  <2>4. LevelZeroOrdered
    BY <2>3 DEF LevelsAscend, LevelZeroOrdered
  <2> QED BY <2>1, <2>2, <2>4 DEF ReadsWhatIsThere
<1> QED BY <1>3, <1>4, FilesInvariant, PTL

-----------------------------------------------------------------------------
(* The database implements KVStore *)

\* What KVStore sees of a state in which the invariant holds.
Seen == /\ Recoverable(FALSE) = Store(files)
        /\ ~MachineCrashes => Recoverable(MachineCrashes) = Store(files)
        /\ MachineCrashes => ~ReuseLogs /\ Recoverable(MachineCrashes) = Stable(files)
        /\ Recoverable(MachineCrashes) \subseteq Store(files)

LEMMA SeenIs == IInv => Seen
<1> SUFFICES ASSUME IInv PROVE Seen
  OBVIOUS
<1>1. options_ \in Settings
  BY DEF IInv, TypeOK
<1>2. MachineCrashes \in BOOLEAN /\ ReuseLogs \in BOOLEAN /\ (MachineCrashes => ~ReuseLogs)
  BY <1>1, RecoveryAssumption, NoReuseBeyondMachine DEF MachineCrashes, ReuseLogs
<1>3. Recoverable(FALSE) = Store(files)
  BY RecoverableIs
<1>4. ASSUME ~MachineCrashes PROVE Recoverable(MachineCrashes) = Store(files)
  <2>1. MachineCrashes = FALSE
    BY <1>2, <1>4
  <2> QED BY <1>3, <2>1
<1>5. ASSUME MachineCrashes
      PROVE  /\ ~ReuseLogs /\ Recoverable(MachineCrashes) = Stable(files)
             /\ Stable(files) \subseteq Store(files)
  <2>1. MachineCrashes = TRUE /\ ~ReuseLogs
    BY <1>2, <1>5
  <2>2. Recoverable(TRUE) = Stable(files) /\ Stable(files) \subseteq Store(files)
    BY <2>1, RecoverableIs
  <2> QED BY <2>1, <2>2
<1> QED BY <1>3, <1>4, <1>5 DEF Seen

\* Each step is one of KVStore, or changes nothing that KVStore sees.
LEMMA StepImplements ==
  ~Spoilt /\ ~Spoilt' /\ Seen /\ Seen' /\ [Next]_vars /\ (Keeps \/ Writes1 \/ Loses) => [KV!Next]_KV!kvvars
<1> SUFFICES ASSUME ~Spoilt, ~Spoilt', Seen, Seen', [Next]_vars, Keeps \/ Writes1 \/ Loses PROVE KV!Next
  OBVIOUS
<1>1. options_' = options_
  BY DEF Next, vars
<1>2. (MachineCrashes' <=> MachineCrashes) /\ (ReuseLogs' <=> ReuseLogs)
  BY <1>1 DEF MachineCrashes, ReuseLogs
<1> DEFINE stable  == Recoverable(MachineCrashes)
           stable1 == Recoverable(MachineCrashes)'
           store1  == Recoverable(FALSE)'
<1>3. /\ Recoverable(FALSE) = Store(files) /\ stable \subseteq Store(files)
      /\ ~MachineCrashes => stable = Store(files)
      /\ MachineCrashes => ~ReuseLogs /\ stable = Stable(files)
  BY DEF Seen
<1>4. /\ store1 = Store(files') /\ stable1 \subseteq Store(files')
      /\ ~MachineCrashes => stable1 = Store(files')
      /\ MachineCrashes => stable1 = Stable(files')
  BY <1>2 DEF Seen
<1> HIDE DEF stable, stable1, store1
<1>5. CASE Keeps
  <2>1. stable \subseteq stable1 /\ store1 = Recoverable(FALSE)
    BY <1>3, <1>4, <1>5 DEF Keeps
  <2> QED BY <1>4, <2>1 DEF KV!Next, KV!Sync, stable, stable1, store1
<1>6. CASE Writes1
  <2>1. /\ stable \subseteq stable1
        /\ vs.last + 1 \in 1 .. MaxWrites /\ vs.last + 1 \notin Recoverable(FALSE)
        /\ store1 = Recoverable(FALSE) \cup {vs.last + 1}
    BY <1>3, <1>4, <1>6 DEF Writes1
  <2>2. KV!Write
    BY <2>1 DEF KV!Write, store1
  <2> QED BY <1>4, <2>1, <2>2 DEF KV!Next, stable, stable1, store1
<1>7. CASE Loses
  <2>1. stable \subseteq stable1 /\ store1 \subseteq Recoverable(FALSE) /\ stable \subseteq store1
    BY <1>3, <1>4, <1>7 DEF Loses
  <2> QED BY <1>4, <2>1 DEF KV!Next, KV!Crash, stable, stable1, store1
<1> QED BY <1>5, <1>6, <1>7

\* The files keep what KVStore promises: from one step to the next, wherever a crash comes
\* between them and whatever of the unsynced it takes, opening finds every stable write, no
\* write that was not made, and one more only by a Write (DBImpl::Recover, LogAndApply);
\* until something is appended behind a torn record.
THEOREM FilesImplementStore == Spec => ImplementsKVStore
<1>1. Init => KV!Init
  <2> SUFFICES ASSUME Init PROVE KV!Init
    OBVIOUS
  <2>1. Seen
    BY InitOK, SeenIs
  <2>2. Store(files) = {}
    BY DEF Init, Store
  <2>3. ~Spoilt
    BY DEF Init, Spoilt
  <2> QED BY <2>1, <2>2, <2>3 DEF Seen, KV!Init
<1>2. (Spoilt \/ IInv) /\ (Spoilt \/ IInv)' /\ [Next]_vars => [KV!Next]_KV!kvvars
  <2> SUFFICES ASSUME IInv, IInv', ~Spoilt, ~Spoilt', [Next]_vars PROVE [KV!Next]_KV!kvvars
    <3>1. Spoilt' => KV!Next
      BY DEF KV!Next
    <3> QED BY <3>1, SpoiltStays
  <2>1. Seen /\ Seen'
    BY SeenIs, PTL
  <2>2. Keeps \/ Writes1 \/ Loses
    BY NextStep
  <2> QED BY <2>1, <2>2, StepImplements
<1> QED BY <1>1, <1>2, FilesInvariant, PTL DEF Spec, ImplementsKVStore, KV!Spec
================================================================================
