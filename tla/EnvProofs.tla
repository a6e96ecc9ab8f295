------------------------------- MODULE EnvProofs -------------------------------
(***************************************************************************)
(* What an Env promises of its files, for any number of clients, names and *)
(* inodes and through any number of crashes; and what is left of the       *)
(* exclusion of LockFile, for any number of processes and threads (0       *)
(* stands for "nobody has the kernel's lock", so it is no process).        *)
(***************************************************************************)
EXTENDS EnvFiles, EnvLock, FiniteSetTheorems, SequenceTheorems, TLAPS


Handle == [kind : {"none", "seq", "pread", "mmap", "temp", "write"}, name : Names, i : Inodes \cup {0},
           buf : Seq(Nat), len : Nat, gen : Nat]
Contents == [os : Seq(Nat), disk : Seq(Nat)]

FilesTypeOK ==
  /\ limits \in Limits
  /\ dir \in [Names -> Inodes \cup {0}] /\ ddir \in [Names -> Inodes \cup {0}]
  /\ ino \in [Inodes -> Contents]
  /\ handle \in [Users -> Handle] /\ \A u \in Users : handle[u].kind # "none" => handle[u].i \in Inodes
  /\ opens \in Nat
  /\ known \subseteq Names
  /\ synced \in [Inodes -> Seq(Nat)] /\ written \in [Inodes -> Seq(Nat)]
  /\ renaming \in [from : Names, to : Names]

Prefix(s, t) == Len(s) <= Len(t) /\ \A j \in 1 .. Len(s) : s[j] = t[j]

\* A name that was promised is in the directory, and in the one on disk.
NamesInv ==
  /\ \A n \in known : dir[n] # 0 /\ ddir[n] # 0
  /\ known # {} => sys = "posix"
  /\ renaming # NoMove => sys = "win"

\* What was synced is in the file as it is seen and as it is on disk.
SyncedInv == \A i \in Inodes : Prefix(synced[i], ino[i].os) /\ Prefix(synced[i], ino[i].disk)

\* One writer per file at most; what is not in the file yet is in its buffer.
BufferInv ==
  \A i \in Inodes :
    /\ \A u, v \in Writers(i) : u = v
    /\ \A u \in Writers(i) : written[i] = ino[i].os \o handle[u].buf
    /\ Writers(i) = {} => written[i] = ino[i].os

FilesInv == FilesTypeOK /\ LimitsBalanced /\ NamesInv /\ SyncedInv /\ BufferInv

--------------------------------------------------------------------------------
(* Sequences.                                                              *)

\* A sequence and the beginning of another.
LEMMA PrefixFacts ==
  ASSUME NEW s \in Seq(Nat), NEW t \in Seq(Nat), NEW b \in Seq(Nat)
  PROVE  /\ Prefix(s, s) /\ Prefix(<<>>, t)
         /\ Prefix(s, t) => Prefix(s, t \o b)
         /\ Prefix(s, t) => s = SubSeq(t, 1, Len(s))
<1>1. Len(s) \in Nat /\ Len(t) \in Nat /\ Len(b) \in Nat
  OBVIOUS
<1>2. Prefix(s, s) /\ Prefix(<<>>, t)
  BY <1>1 DEF Prefix
<1>3. ASSUME Prefix(s, t) PROVE Prefix(s, t \o b)
  BY <1>1, <1>3, ConcatProperties DEF Prefix
<1>4. ASSUME Prefix(s, t) PROVE s = SubSeq(t, 1, Len(s))
  <2>1. \A j \in 1 .. Len(s) : t[j] \in Nat
    BY <1>1, <1>4 DEF Prefix
  <2> DEFINE p == SubSeq(t, 1, Len(s))
  <2>2. p \in Seq(Nat) /\ Len(p) = Len(s) /\ \A j \in 1 .. Len(s) : p[j] = t[j]
    BY <2>1, <1>1, SubSeqProperties
  <2> HIDE DEF p
  <2>3. s = p
    BY <2>2, <1>4, SeqEqual DEF Prefix
  <2> QED BY <2>3 DEF p
<1> QED BY <1>2, <1>3, <1>4

\* Appending to what follows is appending to the whole.
LEMMA AppendMoves ==
  ASSUME NEW s \in Seq(Nat), NEW b \in Seq(Nat), NEW g \in Nat
  PROVE  s \o Append(b, g) = Append(s \o b, g)
<1>1. Append(b, g) = b \o <<g>> /\ Append(s \o b, g) = (s \o b) \o <<g>> /\ <<g>> \in Seq(Nat)
  BY ConcatProperties
<1> QED BY <1>1, ConcatAssociative

--------------------------------------------------------------------------------
(* The limits.                                                             *)

Kept(k) == {u \in Users : handle[u].kind = k}

\* How the number of handles of a kind changes with one handle.
LEMMA KeptChanges ==
  ASSUME handle \in [Users -> Handle], NEW u \in Users, NEW r \in Handle,
         handle' = [handle EXCEPT ![u] = r], NEW k
  PROVE  /\ Cardinality(Kept(k)) \in Int
         /\ Cardinality(Kept(k)') = Cardinality(Kept(k)) + (IF r.kind = k THEN 1 ELSE 0)
                                                         - (IF handle[u].kind = k THEN 1 ELSE 0)
<1>1. IsFiniteSet(Kept(k)) /\ Cardinality(Kept(k)) \in Nat
  BY EnvFilesAssumption, FS_Subset, FS_CardinalityType DEF Kept
<1>2. handle'[u] = r /\ \A v \in Users : v # u => handle'[v] = handle[v]
  OBVIOUS
<1>3. CASE r.kind = k /\ handle[u].kind # k
  <2>1. Kept(k)' = Kept(k) \cup {u} /\ u \notin Kept(k)
    BY <1>2, <1>3 DEF Kept
  <2> QED BY <2>1, <1>1, <1>3, FS_AddElement, SMTT(40)
<1>4. CASE r.kind # k /\ handle[u].kind = k
  <2>1. Kept(k)' = Kept(k) \ {u} /\ u \in Kept(k)
    BY <1>2, <1>4 DEF Kept
  <2>2. Cardinality(Kept(k)') = Cardinality(Kept(k)) - 1
    BY <2>1, <1>1, FS_RemoveElement, Zenon
  <2> QED BY <2>2, <1>1, <1>4
<1>5. CASE r.kind = k <=> handle[u].kind = k
  <2>1. Kept(k)' = Kept(k)
    BY <1>2, <1>5 DEF Kept
  <2> QED BY <2>1, <1>1, <1>5
<1> QED BY <1>3, <1>4, <1>5
--------------------------------------------------------------------------------
(* What a step does to the handles and to one file.                        *)

\* The parts of a handle.
LEMMA HandleParts ==
  ASSUME NEW h \in Handle
  PROVE  /\ h.kind \in {"none", "seq", "pread", "mmap", "temp", "write"} /\ h.name \in Names
         /\ h.i \in Inodes \cup {0} /\ h.buf \in Seq(Nat) /\ h.len \in Nat /\ h.gen \in Nat
BY DEF Handle

\* A closed handle.
LEMMA ClosedIs == Closed \in Handle /\ Closed.kind = "none" /\ Closed.buf = <<>>
<1>1. Closed.kind = "none" /\ Closed.buf = <<>>
  BY DEF Closed
<1>2. Closed \in Handle
  BY EnvFilesAssumption DEF Closed, Handle
<1> QED BY <1>1, <1>2

\* A handle that does not write comes or goes.
LEMMA ReaderStep ==
  ASSUME FilesInv, NEW u \in Users, NEW r \in Handle, handle' = [handle EXCEPT ![u] = r],
         handle[u].kind # "write", r.kind # "write", r.kind # "none" => r.i \in Inodes,
         UNCHANGED fiDisk, sys' = sys
  PROVE  FilesTypeOK' /\ NamesInv' /\ SyncedInv' /\ BufferInv'
<1>1. handle \in [Users -> Handle]
  BY DEF FilesInv, FilesTypeOK
<1>2. handle'[u] = r /\ (\A v \in Users : v # u => handle'[v] = handle[v]) /\ handle' \in [Users -> Handle]
  BY <1>1
<1>3. UNCHANGED <<limits, crashes, dir, ddir, ino, opens, renaming, known, synced, written>>
  BY DEF fiDisk
<1>4. FilesTypeOK'
  BY <1>2, <1>3 DEF FilesInv, FilesTypeOK
<1>5. ASSUME NEW i \in Inodes
      PROVE  Writers(i)' = Writers(i) /\ \A v \in Writers(i) : handle'[v] = handle[v]
  BY <1>2 DEF Writers
<1>6. BufferInv'
  <2>1. ASSUME NEW i \in Inodes
        PROVE  /\ \A v, x \in Writers(i)' : v = x
               /\ \A v \in Writers(i)' : written'[i] = ino'[i].os \o handle'[v].buf
               /\ Writers(i)' = {} => written'[i] = ino'[i].os
    <3>1. /\ \A v, x \in Writers(i) : v = x
          /\ \A v \in Writers(i) : written[i] = ino[i].os \o handle[v].buf
          /\ Writers(i) = {} => written[i] = ino[i].os
      BY DEF FilesInv, BufferInv
    <3>2. Writers(i)' = Writers(i) /\ \A v \in Writers(i) : handle'[v] = handle[v]
      BY <1>5
    <3>3. written' = written /\ ino' = ino
      BY <1>3
    <3> QED BY ONLY <3>1, <3>2, <3>3
  <2> QED BY <2>1 DEF BufferInv
<1>7. NamesInv' /\ SyncedInv'
  BY <1>3 DEF FilesInv, NamesInv, SyncedInv
<1> QED BY <1>4, <1>6, <1>7

\* One file changes, together with the only handle that writes it or is about to.
LEMMA FileStep ==
  ASSUME FilesInv, NEW u \in Users, NEW i \in Inodes, NEW r \in Handle, NEW c \in Contents,
         NEW wr \in Seq(Nat), NEW sy \in Seq(Nat),
         Writers(i) \subseteq {u}, handle[u].kind = "write" => handle[u].i = i,
         handle' = [handle EXCEPT ![u] = r], r.kind # "none" => r.i = i,
         ino' = [ino EXCEPT ![i] = c], written' = [written EXCEPT ![i] = wr],
         synced' = [synced EXCEPT ![i] = sy],
         r.kind = "write" => wr = c.os \o r.buf, r.kind # "write" => wr = c.os,
         Prefix(sy, c.os), Prefix(sy, c.disk)
  PROVE  /\ handle' \in [Users -> Handle] /\ \A v \in Users : handle'[v].kind # "none" => handle'[v].i \in Inodes
         /\ ino' \in [Inodes -> Contents]
         /\ synced' \in [Inodes -> Seq(Nat)] /\ written' \in [Inodes -> Seq(Nat)]
         /\ SyncedInv' /\ BufferInv'
<1>1. /\ handle \in [Users -> Handle] /\ \A v \in Users : handle[v].kind # "none" => handle[v].i \in Inodes
      /\ ino \in [Inodes -> Contents]
      /\ synced \in [Inodes -> Seq(Nat)] /\ written \in [Inodes -> Seq(Nat)]
  BY DEF FilesInv, FilesTypeOK
<1>2. handle'[u] = r /\ (\A v \in Users : v # u => handle'[v] = handle[v]) /\ handle' \in [Users -> Handle]
  BY <1>1
<1>3. /\ ino'[i] = c /\ written'[i] = wr /\ synced'[i] = sy
      /\ \A j \in Inodes : j # i => ino'[j] = ino[j] /\ written'[j] = written[j] /\ synced'[j] = synced[j]
  BY <1>1
<1>4. /\ \A v \in Users : handle'[v].kind # "none" => handle'[v].i \in Inodes
      /\ ino' \in [Inodes -> Contents]
      /\ synced' \in [Inodes -> Seq(Nat)] /\ written' \in [Inodes -> Seq(Nat)]
  BY <1>1, <1>2
<1>5. SyncedInv'
  BY <1>3 DEF FilesInv, SyncedInv
<1>6. ASSUME NEW j \in Inodes, j # i
      PROVE  Writers(j)' = Writers(j) /\ \A v \in Writers(j) : v # u
  <2>1. u \notin Writers(j)
    BY <1>6 DEF Writers
  <2>2. u \notin Writers(j)'
    BY <1>2, <1>6 DEF Writers
  <2>3. \A v \in Users : v # u => (v \in Writers(j)' <=> v \in Writers(j))
    BY <1>2 DEF Writers
  <2>4. Writers(j) \subseteq Users /\ Writers(j)' \subseteq Users
    BY DEF Writers
  <2>5. \A v : v \in Writers(j)' <=> v \in Writers(j)
    BY ONLY <2>1, <2>2, <2>3, <2>4
  <2> QED BY ONLY <2>1, <2>5
<1>7. /\ Writers(i)' \subseteq {u} /\ (u \in Writers(i)' <=> r.kind = "write")
  <2>1. \A v \in Users : v # u => v \notin Writers(i)
    OBVIOUS
  <2>2. \A v \in Users : v # u => v \notin Writers(i)'
    BY <2>1, <1>2 DEF Writers
  <2>3. u \in Writers(i)' <=> r.kind = "write"
    BY <1>2 DEF Writers
  <2>4. Writers(i)' \subseteq Users
    BY DEF Writers
  <2> QED BY <2>2, <2>3, <2>4
<1>8. BufferInv'
  <2>1. ASSUME NEW j \in Inodes, j # i
        PROVE  /\ \A v, x \in Writers(j)' : v = x
               /\ \A v \in Writers(j)' : written'[j] = ino'[j].os \o handle'[v].buf
               /\ Writers(j)' = {} => written'[j] = ino'[j].os
    <3>1. \A v \in Writers(j) : handle'[v] = handle[v]
      BY <2>1, <1>2, <1>6 DEF Writers
    <3>2. /\ \A v, x \in Writers(j) : v = x
          /\ \A v \in Writers(j) : written[j] = ino[j].os \o handle[v].buf
          /\ Writers(j) = {} => written[j] = ino[j].os
      BY DEF FilesInv, BufferInv
    <3>3. Writers(j)' = Writers(j) /\ written'[j] = written[j] /\ ino'[j] = ino[j]
      BY <2>1, <1>3, <1>6
    <3> QED BY ONLY <3>1, <3>2, <3>3
  <2>2. /\ \A v, x \in Writers(i)' : v = x
        /\ \A v \in Writers(i)' : written'[i] = ino'[i].os \o handle'[v].buf
        /\ Writers(i)' = {} => written'[i] = ino'[i].os
    BY <1>2, <1>3, <1>7
  <2> QED BY <2>1, <2>2 DEF BufferInv
<1> QED BY <1>2, <1>4, <1>5, <1>8

\* LimitsBalanced speaks of the handles that are kept.
LEMMA LimitsAre ==
  LimitsBalanced <=> (sys = "posix" => /\ mmap_limit_ = limits[1] - Cardinality(Kept("mmap"))
                                       /\ fd_limit_ = limits[2] - Cardinality(Kept("pread")))
BY DEF LimitsBalanced, Kept

Counts(h, k) == IF h.kind = k THEN 1 ELSE 0

\* The limits follow the one handle that changes.
LEMMA LimitsStep ==
  ASSUME FilesInv, NEW u \in Users, NEW r \in Handle, handle' = [handle EXCEPT ![u] = r],
         sys' = sys, limits' = limits,
         sys = "posix" => /\ mmap_limit_' = mmap_limit_ - Counts(r, "mmap") + Counts(handle[u], "mmap")
                          /\ fd_limit_' = fd_limit_ - Counts(r, "pread") + Counts(handle[u], "pread")
  PROVE  LimitsBalanced'
<1> SUFFICES ASSUME sys = "posix"
             PROVE  /\ mmap_limit_' = limits[1] - Cardinality(Kept("mmap")')
                    /\ fd_limit_' = limits[2] - Cardinality(Kept("pread")')
  BY DEF LimitsBalanced, Kept
<1>1. handle \in [Users -> Handle] /\ limits[1] \in Nat /\ limits[2] \in Nat
  BY EnvFilesAssumption DEF FilesInv, FilesTypeOK
<1>2. mmap_limit_ = limits[1] - Cardinality(Kept("mmap")) /\ fd_limit_ = limits[2] - Cardinality(Kept("pread"))
  BY LimitsAre DEF FilesInv
<1>3. /\ Cardinality(Kept("mmap")) \in Int
      /\ Cardinality(Kept("mmap")') = Cardinality(Kept("mmap")) + Counts(r, "mmap") - Counts(handle[u], "mmap")
  BY <1>1, KeptChanges DEF Counts
<1>4. /\ Cardinality(Kept("pread")) \in Int
      /\ Cardinality(Kept("pread")') = Cardinality(Kept("pread")) + Counts(r, "pread") - Counts(handle[u], "pread")
  BY <1>1, KeptChanges DEF Counts
<1>5. \A h : Counts(h, "mmap") \in Int /\ Counts(h, "pread") \in Int
  BY DEF Counts
<1>6. mmap_limit_' = limits[1] - Cardinality(Kept("mmap")')
  BY <1>1, <1>2, <1>3, <1>5
<1>7. fd_limit_' = limits[2] - Cardinality(Kept("pread")')
  BY <1>1, <1>2, <1>4, <1>5
<1> QED BY <1>6, <1>7

--------------------------------------------------------------------------------
(* Readers.                                                                *)

\* A reader is opened, and takes a place where it keeps one.
LEMMA OpenReaderKeeps ==
  ASSUME FilesInv, NEW u \in Users, NEW n \in Names, NEW k \in {"seq", "mmap", "pread", "temp"},
         OpenReader(u, k, n),
         sys = "posix" => /\ mmap_limit_' = mmap_limit_ - (IF k = "mmap" THEN 1 ELSE 0)
                          /\ fd_limit_' = fd_limit_ - (IF k = "pread" THEN 1 ELSE 0)
  PROVE  FilesInv'
<1> DEFINE r == [kind |-> k, name |-> n, i |-> dir[n], buf |-> <<>>, len |-> 0, gen |-> 0]
<1>1. /\ handle[u] = Closed /\ dir[n] # 0 /\ handle' = [handle EXCEPT ![u] = r]
      /\ sys' = sys /\ UNCHANGED fiDisk /\ limits' = limits
  BY DEF OpenReader, Opened, fiDisk
<1>2. dir[n] \in Inodes /\ ino[dir[n]].os \in Seq(Nat)
  BY <1>1 DEF FilesInv, FilesTypeOK, Contents
<1>3. r \in Handle /\ r.kind = k /\ r.i \in Inodes
  BY <1>2 DEF Handle
<1>4. handle[u].kind = "none"
  BY <1>1, ClosedIs
<1> HIDE DEF r
<1>5. FilesTypeOK' /\ NamesInv' /\ SyncedInv' /\ BufferInv'
  BY <1>1, <1>3, <1>4, ReaderStep
<1>6. LimitsBalanced'
  <2>1. sys = "posix" => mmap_limit_ \in Int /\ fd_limit_ \in Int
    <3>1. limits[1] \in Nat /\ limits[2] \in Nat /\ handle \in [Users -> Handle]
      BY EnvFilesAssumption DEF FilesInv, FilesTypeOK
    <3>2. Cardinality(Kept("mmap")) \in Int /\ Cardinality(Kept("pread")) \in Int
      BY <3>1, <1>1, <1>3, KeptChanges
    <3> QED BY <3>1, <3>2, LimitsAre DEF FilesInv
  <2>2. sys = "posix" => /\ mmap_limit_' = mmap_limit_ - Counts(r, "mmap") + Counts(handle[u], "mmap")
                         /\ fd_limit_' = fd_limit_ - Counts(r, "pread") + Counts(handle[u], "pread")
    BY <2>1, <1>3, <1>4 DEF Counts
  <2> QED BY <2>2, <1>1, <1>3, LimitsStep
<1> QED BY <1>5, <1>6 DEF FilesInv

\* The constructors of the readers.
LEMMA ReadersKeep ==
  ASSUME FilesInv, NEW u \in Users, NEW n \in Names,
         \/ PosixSequentialFile(u, n) \/ BoostSequentialFile(u, n) \/ WinSequentialFile(u, n)
         \/ NewRandomAccessFile(u, n) \/ BoostRandomAccessFile(u, n) \/ WinRandomAccessFile(u, n)
  PROVE  FilesInv'
<1>1. sys = "posix" => mmap_limit_ \in Int /\ fd_limit_ \in Int
  <2>1. limits[1] \in Nat /\ limits[2] \in Nat /\ handle \in [Users -> Handle]
    BY EnvFilesAssumption DEF FilesInv, FilesTypeOK
  <2>2. Cardinality(Kept("mmap")) \in Int /\ Cardinality(Kept("pread")) \in Int
    BY EnvFilesAssumption, FS_Subset, FS_CardinalityType DEF Kept
  <2> QED BY <2>1, <2>2, LimitsAre DEF FilesInv
<1>2. CASE PosixSequentialFile(u, n) \/ BoostSequentialFile(u, n) \/ WinSequentialFile(u, n)
  <2>1. OpenReader(u, "seq", n) /\ UNCHANGED <<mmap_limit_, fd_limit_>>
    BY <1>2 DEF PosixSequentialFile, BoostSequentialFile, WinSequentialFile
  <2>2. sys = "posix" => mmap_limit_' = mmap_limit_ - 0 /\ fd_limit_' = fd_limit_ - 0
    BY <2>1, <1>1
  <2> QED BY <2>1, <2>2, OpenReaderKeeps
<1>3. CASE BoostRandomAccessFile(u, n) \/ WinRandomAccessFile(u, n)
  <2>1. OpenReader(u, "pread", n) /\ sys # "posix"
    BY <1>3 DEF BoostRandomAccessFile, WinRandomAccessFile
  <2> QED BY <2>1, OpenReaderKeeps
<1>4. CASE NewRandomAccessFile(u, n)
  <2>1. CASE OpenReader(u, "mmap", n) /\ mmap_limit_' = mmap_limit_ - 1 /\ fd_limit_' = fd_limit_
    <3>1. sys = "posix" => mmap_limit_' = mmap_limit_ - 1 /\ fd_limit_' = fd_limit_ - 0
      BY <2>1, <1>1
    <3> QED BY <2>1, <3>1, OpenReaderKeeps
  <2>2. CASE OpenReader(u, "pread", n) /\ fd_limit_' = fd_limit_ - 1 /\ mmap_limit_' = mmap_limit_
    <3>1. sys = "posix" => mmap_limit_' = mmap_limit_ - 0 /\ fd_limit_' = fd_limit_ - 1
      BY <2>2, <1>1
    <3> QED BY <2>2, <3>1, OpenReaderKeeps
  <2>3. CASE OpenReader(u, "temp", n) /\ fd_limit_' = fd_limit_ /\ mmap_limit_' = mmap_limit_
    <3>1. sys = "posix" => mmap_limit_' = mmap_limit_ - 0 /\ fd_limit_' = fd_limit_ - 0
      BY <2>3, <1>1
    <3> QED BY <2>3, <3>1, OpenReaderKeeps
  <2> QED BY <1>4, <2>1, <2>2, <2>3 DEF NewRandomAccessFile
<1> QED BY <1>2, <1>3, <1>4

\* A mapping is made, and keeps its place.
LEMMA MmapFileKeeps == ASSUME FilesInv, NEW u \in Users, MmapFile(u) PROVE FilesInv'
<1> DEFINE size == Len(ino[dir[handle[u].name]].os)
           r == [handle[u] EXCEPT !.len = size]
<1>1. /\ handle[u].kind = "mmap" /\ dir[handle[u].name] # 0 /\ handle' = [handle EXCEPT ![u] = r]
      /\ UNCHANGED <<sys, mmap_limit_, fd_limit_, fiDisk>> /\ limits' = limits
  BY DEF MmapFile, Mapping, fiDisk
<1>2. handle[u] \in Handle /\ handle[u].i \in Inodes
  BY <1>1 DEF FilesInv, FilesTypeOK
<1>3. size \in Nat
  <2>1. handle[u].name \in Names
    BY <1>2 DEF Handle
  <2>2. dir[handle[u].name] \in Inodes
    BY <1>1, <2>1 DEF FilesInv, FilesTypeOK
  <2>3. ino[dir[handle[u].name]].os \in Seq(Nat)
    BY <2>2 DEF FilesInv, FilesTypeOK, Contents
  <2> QED BY <2>3
<1> HIDE DEF size
<1>4. r \in Handle /\ r.kind = "mmap" /\ r.i \in Inodes
  BY <1>1, <1>2, <1>3 DEF Handle
<1> HIDE DEF r
<1>5. FilesTypeOK' /\ NamesInv' /\ SyncedInv' /\ BufferInv'
  BY <1>1, <1>4, ReaderStep
<1>6. sys = "posix" => mmap_limit_ \in Int /\ fd_limit_ \in Int
  <2>1. limits[1] \in Nat /\ limits[2] \in Nat
    BY EnvFilesAssumption DEF FilesInv, FilesTypeOK
  <2>2. Cardinality(Kept("mmap")) \in Int /\ Cardinality(Kept("pread")) \in Int
    BY EnvFilesAssumption, FS_Subset, FS_CardinalityType DEF Kept
  <2> QED BY <2>1, <2>2, LimitsAre DEF FilesInv
<1>7. sys = "posix" => /\ mmap_limit_' = mmap_limit_ - Counts(r, "mmap") + Counts(handle[u], "mmap")
                       /\ fd_limit_' = fd_limit_ - Counts(r, "pread") + Counts(handle[u], "pread")
  BY <1>1, <1>4, <1>6 DEF Counts
<1>8. LimitsBalanced'
  BY <1>1, <1>4, <1>7, LimitsStep
<1> QED BY <1>5, <1>8 DEF FilesInv

\* A reader is deleted, or could not be mapped, and gives back the place it kept.
LEMMA DeleteReaderKeeps == ASSUME FilesInv, NEW u \in Users, DeleteReader(u) \/ MmapFails(u) PROVE FilesInv'
<1>1. /\ handle[u].kind \in {"seq", "mmap", "pread", "temp"} /\ handle' = [handle EXCEPT ![u] = Closed]
      /\ mmap_limit_' = mmap_limit_ + (IF handle[u].kind = "mmap" THEN 1 ELSE 0)
      /\ fd_limit_' = fd_limit_ + (IF sys = "posix" /\ handle[u].kind = "pread" THEN 1 ELSE 0)
      /\ sys' = sys /\ UNCHANGED fiDisk /\ limits' = limits
  BY DEF DeleteReader, MmapFails, Mapping, CloseReader, fiDisk
<1>2. FilesTypeOK' /\ NamesInv' /\ SyncedInv' /\ BufferInv'
  BY <1>1, ClosedIs, ReaderStep
<1>3. sys = "posix" => mmap_limit_ \in Int /\ fd_limit_ \in Int
  <2>1. limits[1] \in Nat /\ limits[2] \in Nat
    BY EnvFilesAssumption DEF FilesInv, FilesTypeOK
  <2>2. Cardinality(Kept("mmap")) \in Int /\ Cardinality(Kept("pread")) \in Int
    BY EnvFilesAssumption, FS_Subset, FS_CardinalityType DEF Kept
  <2> QED BY <2>1, <2>2, LimitsAre DEF FilesInv
<1>4. sys = "posix" => /\ mmap_limit_' = mmap_limit_ - Counts(Closed, "mmap") + Counts(handle[u], "mmap")
                       /\ fd_limit_' = fd_limit_ - Counts(Closed, "pread") + Counts(handle[u], "pread")
  BY <1>1, <1>3, ClosedIs DEF Counts
<1>5. LimitsBalanced'
  BY <1>1, <1>4, ClosedIs, LimitsStep
<1> QED BY <1>2, <1>5 DEF FilesInv
--------------------------------------------------------------------------------
(* Writers.                                                                *)

\* Handles that write take no place in the limits.
LEMMA WriterLimits ==
  ASSUME FilesInv, NEW u \in Users, NEW r \in Handle, handle' = [handle EXCEPT ![u] = r],
         r.kind \in {"none", "write"}, handle[u].kind \in {"none", "write"},
         UNCHANGED <<sys, limits, mmap_limit_, fd_limit_>>
  PROVE  LimitsBalanced'
<1>1. sys = "posix" => mmap_limit_ \in Int /\ fd_limit_ \in Int
  <2>1. limits[1] \in Nat /\ limits[2] \in Nat
    BY EnvFilesAssumption DEF FilesInv, FilesTypeOK
  <2>2. Cardinality(Kept("mmap")) \in Int /\ Cardinality(Kept("pread")) \in Int
    BY EnvFilesAssumption, FS_Subset, FS_CardinalityType DEF Kept
  <2> QED BY <2>1, <2>2, LimitsAre DEF FilesInv
<1>2. sys = "posix" => /\ mmap_limit_' = mmap_limit_ - Counts(r, "mmap") + Counts(handle[u], "mmap")
                       /\ fd_limit_' = fd_limit_ - Counts(r, "pread") + Counts(handle[u], "pread")
  BY <1>1 DEF Counts
<1> QED BY <1>2, LimitsStep

\* A handle that writes: its file, and that nobody else writes it.
LEMMA WriterIs ==
  ASSUME FilesInv, NEW u \in Users, handle[u].kind = "write"
  PROVE  /\ handle[u] \in Handle /\ handle[u].i \in Inodes /\ Writers(handle[u].i) \subseteq {u}
         /\ ino[handle[u].i] \in Contents /\ ino[handle[u].i].os \in Seq(Nat) /\ ino[handle[u].i].disk \in Seq(Nat)
         /\ handle[u].buf \in Seq(Nat) /\ handle[u].gen \in Nat
         /\ written[handle[u].i] = ino[handle[u].i].os \o handle[u].buf
         /\ written[handle[u].i] \in Seq(Nat) /\ synced[handle[u].i] \in Seq(Nat)
         /\ Prefix(synced[handle[u].i], ino[handle[u].i].os) /\ Prefix(synced[handle[u].i], ino[handle[u].i].disk)
<1>1. handle[u] \in Handle /\ handle[u].i \in Inodes
  BY DEF FilesInv, FilesTypeOK
<1>2. ino[handle[u].i] \in Contents /\ written[handle[u].i] \in Seq(Nat) /\ synced[handle[u].i] \in Seq(Nat)
  BY <1>1 DEF FilesInv, FilesTypeOK
<1>3. ino[handle[u].i].os \in Seq(Nat) /\ ino[handle[u].i].disk \in Seq(Nat)
  BY <1>2 DEF Contents
<1>4. handle[u].buf \in Seq(Nat) /\ handle[u].gen \in Nat
  BY <1>1, HandleParts
<1>5. u \in Writers(handle[u].i)
  BY DEF Writers
<1>6. Writers(handle[u].i) \subseteq {u} /\ written[handle[u].i] = ino[handle[u].i].os \o handle[u].buf
  BY <1>1, <1>5 DEF FilesInv, BufferInv
<1>7. Prefix(synced[handle[u].i], ino[handle[u].i].os) /\ Prefix(synced[handle[u].i], ino[handle[u].i].disk)
  BY <1>1 DEF FilesInv, SyncedInv
<1> QED BY <1>1, <1>2, <1>3, <1>4, <1>6, <1>7

\* A handle that writes becomes r, its file c; wr was written to it and sy is synced.
Wrote(u, r, c, wr, sy) ==
  LET i == handle[u].i
  IN  /\ handle[u].kind = "write" /\ handle' = [handle EXCEPT ![u] = r]
      /\ ino' = [ino EXCEPT ![i] = c]
      /\ written' = [written EXCEPT ![i] = wr] /\ synced' = [synced EXCEPT ![i] = sy]
      /\ UNCHANGED <<sys, limits, dir, mmap_limit_, fd_limit_, opens, renaming>>
      /\ \/ ddir' = ddir /\ known' = known
         \/ sys = "posix" /\ ddir' = dir /\ known' = {n \in Names : dir[n] # 0}

Matches(u, r, c, wr, sy) ==
  /\ r \in Handle /\ r.kind \in {"none", "write"} /\ c \in Contents /\ wr \in Seq(Nat) /\ sy \in Seq(Nat)
  /\ r.kind = "write" => r.i = handle[u].i /\ wr = c.os \o r.buf
  /\ r.kind # "write" => wr = c.os
  /\ Prefix(sy, c.os) /\ Prefix(sy, c.disk)

\* What goes from the buffer of a handle to its file, and how it is left open or closed.
LEMMA WriterStep ==
  ASSUME FilesInv, NEW u \in Users, NEW r, NEW c, NEW wr, NEW sy,
         Wrote(u, r, c, wr, sy), Matches(u, r, c, wr, sy)
  PROVE  FilesInv'
<1>1. /\ handle[u].kind = "write" /\ handle' = [handle EXCEPT ![u] = r]
      /\ ino' = [ino EXCEPT ![handle[u].i] = c]
      /\ written' = [written EXCEPT ![handle[u].i] = wr] /\ synced' = [synced EXCEPT ![handle[u].i] = sy]
      /\ UNCHANGED <<sys, limits, dir, mmap_limit_, fd_limit_, opens, renaming>>
      /\ \/ ddir' = ddir /\ known' = known
         \/ sys = "posix" /\ ddir' = dir /\ known' = {n \in Names : dir[n] # 0}
  BY DEF Wrote
<1>2. /\ r \in Handle /\ r.kind \in {"none", "write"} /\ c \in Contents /\ wr \in Seq(Nat) /\ sy \in Seq(Nat)
      /\ r.kind = "write" => r.i = handle[u].i /\ wr = c.os \o r.buf
      /\ r.kind # "write" => wr = c.os
      /\ Prefix(sy, c.os) /\ Prefix(sy, c.disk)
  BY DEF Matches
<1>3. handle[u].i \in Inodes /\ Writers(handle[u].i) \subseteq {u}
  BY <1>1, WriterIs
<1> DEFINE i == handle[u].i
<1>4. /\ i \in Inodes /\ Writers(i) \subseteq {u} /\ handle[u].i = i
      /\ ino' = [ino EXCEPT ![i] = c] /\ written' = [written EXCEPT ![i] = wr]
      /\ synced' = [synced EXCEPT ![i] = sy]
      /\ r.kind # "none" => r.i = i
  BY <1>1, <1>3, <1>2
<1>5. /\ handle' \in [Users -> Handle] /\ \A v \in Users : handle'[v].kind # "none" => handle'[v].i \in Inodes
      /\ ino' \in [Inodes -> Contents]
      /\ synced' \in [Inodes -> Seq(Nat)] /\ written' \in [Inodes -> Seq(Nat)]
      /\ SyncedInv' /\ BufferInv'
  BY <1>1, <1>2, <1>4, FileStep
<1>6. FilesTypeOK'
  BY <1>1, <1>5 DEF FilesInv, FilesTypeOK
<1>7. NamesInv'
  BY <1>1 DEF FilesInv, NamesInv
<1>8. LimitsBalanced'
  BY <1>1, <1>2, WriterLimits
<1> QED BY <1>5, <1>6, <1>7, <1>8 DEF FilesInv

\* Contents with another part for what reads see.
LEMMA ContentsReplaced ==
  ASSUME NEW q \in Contents, NEW f PROVE [q EXCEPT !.os = f] = [os |-> f, disk |-> q.disk]
BY DEF Contents

\* A handle with another buffer, and a file with other contents.
LEMMA Replaced ==
  ASSUME FilesInv, NEW u \in Users, handle[u].kind = "write", NEW b \in Seq(Nat), NEW f \in Seq(Nat)
  PROVE  LET i == handle[u].i
             r == [handle[u] EXCEPT !.buf = b]
             c == [os |-> f, disk |-> ino[i].disk]
         IN  /\ r \in Handle /\ r.kind = "write" /\ r.i = i /\ r.buf = b
             /\ c \in Contents /\ c.os = f /\ c.disk = ino[i].disk
             /\ [handle EXCEPT ![u].buf = b] = [handle EXCEPT ![u] = r]
             /\ [ino EXCEPT ![i].os = f] = [ino EXCEPT ![i] = c]
             /\ [synced EXCEPT ![i] = synced[i]] = synced /\ [written EXCEPT ![i] = written[i]] = written
<1> DEFINE i == handle[u].i
           r == [handle[u] EXCEPT !.buf = b]
           c == [os |-> f, disk |-> ino[i].disk]
<1>1. /\ handle[u] \in Handle /\ i \in Inodes /\ ino[i] \in Contents /\ ino[i].disk \in Seq(Nat)
  BY WriterIs
<1>2. r \in Handle /\ r.kind = "write" /\ r.i = i /\ r.buf = b
  BY <1>1 DEF Handle
<1>3. c \in Contents /\ c.os = f /\ c.disk = ino[i].disk
  BY <1>1 DEF Contents
<1>4. [handle EXCEPT ![u].buf = b] = [handle EXCEPT ![u] = r]
  BY Zenon
<1>5. [ino[i] EXCEPT !.os = f] = c
  BY <1>1, ContentsReplaced
<1>6. [ino EXCEPT ![i].os = f] = [ino EXCEPT ![i] = [ino[i] EXCEPT !.os = f]]
  BY Zenon
<1>7. [synced EXCEPT ![i] = synced[i]] = synced /\ [written EXCEPT ![i] = written[i]] = written
  BY <1>1 DEF FilesInv, FilesTypeOK
<1> HIDE DEF r, c
<1>8. [ino EXCEPT ![i].os = f] = [ino EXCEPT ![i] = c]
  BY <1>5, <1>6, Zenon
<1> QED BY <1>2, <1>3, <1>4, <1>7, <1>8 DEF r, c

\* Append: the byte goes to the buffer, or all of it to the file.
LEMMA AppendedKeeps == ASSUME FilesInv, NEW u \in Users, NEW spill \in BOOLEAN, Appended(u, spill) PROVE FilesInv'
<1> DEFINE i == handle[u].i
           b == Append(handle[u].buf, handle[u].gen)
           nb == IF spill THEN <<>> ELSE b
           f == IF spill THEN ino[i].os \o b ELSE ino[i].os
           r == [handle[u] EXCEPT !.buf = nb]
           c == [os |-> f, disk |-> ino[i].disk]
           wr == Append(written[i], handle[u].gen)
<1>1. /\ handle[u].kind = "write" /\ handle' = [handle EXCEPT ![u].buf = nb]
      /\ ino' = [ino EXCEPT ![i].os = f] /\ written' = [written EXCEPT ![i] = wr]
      /\ UNCHANGED <<sys, limits, dir, mmap_limit_, fd_limit_, opens, renaming, ddir, known, synced>>
  BY DEF Appended
<1>2. /\ i \in Inodes /\ ino[i].os \in Seq(Nat) /\ handle[u].buf \in Seq(Nat) /\ handle[u].gen \in Nat
      /\ written[i] = ino[i].os \o handle[u].buf /\ written[i] \in Seq(Nat) /\ synced[i] \in Seq(Nat)
      /\ Prefix(synced[i], ino[i].os) /\ Prefix(synced[i], ino[i].disk)
  BY <1>1, WriterIs
<1>3. b \in Seq(Nat) /\ nb \in Seq(Nat) /\ wr \in Seq(Nat)
  BY <1>2, SMTT(40)
<1>4. f \in Seq(Nat) /\ wr = f \o nb /\ Prefix(synced[i], f)
  <2>1. wr = ino[i].os \o b
    <3>1. ino[i].os \o b = Append(ino[i].os \o handle[u].buf, handle[u].gen)
      BY ONLY <1>2, AppendMoves
    <3> QED BY <3>1, <1>2, Zenon
  <2>2. CASE spill
    <3>1. f = ino[i].os \o b
      BY <2>2
    <3>2. f \in Seq(Nat) /\ Prefix(synced[i], f)
      BY ONLY <3>1, <1>2, <1>3, ConcatProperties, PrefixFacts
    <3>3. f \o <<>> = f
      BY ONLY <3>2, ConcatEmptySeq
    <3> QED BY <3>1, <3>2, <3>3, <2>1, <2>2
  <2>3. CASE ~spill
    BY <2>1, <2>3, <1>2
  <2> QED BY <2>2, <2>3
<1> HIDE DEF nb, f, wr
<1>5. /\ r \in Handle /\ r.kind = "write" /\ r.i = i /\ r.buf = nb
      /\ c \in Contents /\ c.os = f /\ c.disk = ino[i].disk
      /\ handle' = [handle EXCEPT ![u] = r] /\ ino' = [ino EXCEPT ![i] = c]
      /\ synced' = [synced EXCEPT ![i] = synced[i]]
  BY <1>1, <1>3, <1>4, Replaced, ZenonT(60)
<1> HIDE DEF r, c
<1>6. Wrote(u, r, c, wr, synced[i])
  BY <1>1, <1>5 DEF Wrote
<1>7. Matches(u, r, c, wr, synced[i])
  BY <1>2, <1>3, <1>4, <1>5 DEF Matches
<1> QED BY <1>6, <1>7, WriterStep

\* Flush, and a Sync that writes the buffer out before it fails.
LEMMA FlushedKeeps ==
  ASSUME FilesInv, NEW u \in Users, handle[u].kind = "write",
         ino' = Flushed(u), handle' = [handle EXCEPT ![u].buf = <<>>],
         UNCHANGED <<sys, limits, dir, mmap_limit_, fd_limit_, opens, renaming, synced, written>>,
         \/ UNCHANGED <<ddir, known>>
         \/ sys = "posix" /\ ddir' = dir /\ known' = {n \in Names : dir[n] # 0}
  PROVE  FilesInv'
<1> DEFINE i == handle[u].i
           f == ino[i].os \o handle[u].buf
           r == [handle[u] EXCEPT !.buf = <<>>]
           c == [os |-> f, disk |-> ino[i].disk]
<1>1. /\ i \in Inodes /\ ino[i].os \in Seq(Nat) /\ handle[u].buf \in Seq(Nat)
      /\ written[i] = f /\ written[i] \in Seq(Nat) /\ synced[i] \in Seq(Nat)
      /\ Prefix(synced[i], ino[i].os) /\ Prefix(synced[i], ino[i].disk)
  BY WriterIs
<1>2. f \in Seq(Nat) /\ f \o <<>> = f /\ Prefix(synced[i], f) /\ <<>> \in Seq(Nat)
  <2>1. f \in Seq(Nat) /\ <<>> \in Seq(Nat)
    BY <1>1, ConcatProperties
  <2>2. f \o <<>> = f
    BY <2>1, ConcatEmptySeq
  <2>3. Prefix(synced[i], f)
    BY <1>1, PrefixFacts
  <2> QED BY <2>1, <2>2, <2>3
<1>3. ino' = [ino EXCEPT ![i].os = f]
  BY DEF Flushed
<1> HIDE DEF f
<1>4. /\ r \in Handle /\ r.kind = "write" /\ r.i = i /\ r.buf = <<>>
      /\ c \in Contents /\ c.os = f /\ c.disk = ino[i].disk
      /\ handle' = [handle EXCEPT ![u] = r] /\ ino' = [ino EXCEPT ![i] = c]
      /\ synced' = [synced EXCEPT ![i] = synced[i]] /\ written' = [written EXCEPT ![i] = written[i]]
  <2>1. /\ r \in Handle /\ r.kind = "write" /\ r.i = i /\ r.buf = <<>>
        /\ c \in Contents /\ c.os = f /\ c.disk = ino[i].disk
        /\ [handle EXCEPT ![u].buf = <<>>] = [handle EXCEPT ![u] = r] /\ [ino EXCEPT ![i].os = f] = [ino EXCEPT ![i] = c]
        /\ [synced EXCEPT ![i] = synced[i]] = synced /\ [written EXCEPT ![i] = written[i]] = written
    BY <1>2, Replaced, ZenonT(60)
  <2> QED BY ONLY <2>1, <1>3, handle' = [handle EXCEPT ![u].buf = <<>>], synced' = synced, written' = written, Zenon
<1> HIDE DEF r, c
<1>5. Wrote(u, r, c, f, synced[i])
  BY <1>1, <1>4 DEF Wrote
<1>6. Matches(u, r, c, f, synced[i])
  BY <1>1, <1>2, <1>4 DEF Matches
<1> QED BY <1>5, <1>6, WriterStep

\* Sync: the buffer goes to the file, and the file to the disk.
LEMMA OnDiskKeeps ==
  ASSUME FilesInv, NEW u \in Users, OnDisk(u),
         \/ UNCHANGED <<ddir, known>>
         \/ sys = "posix" /\ ddir' = dir /\ known' = {n \in Names : dir[n] # 0}
  PROVE  FilesInv'
<1> DEFINE i == handle[u].i
           f == ino[i].os \o handle[u].buf
           r == [handle[u] EXCEPT !.buf = <<>>]
           c == [os |-> f, disk |-> f]
<1>1. handle[u].kind = "write"
  BY DEF OnDisk
<1>2. /\ i \in Inodes /\ ino[i].os \in Seq(Nat) /\ handle[u].buf \in Seq(Nat)
      /\ written[i] = f /\ written[i] \in Seq(Nat)
  BY <1>1, WriterIs
<1>3. f \in Seq(Nat) /\ f \o <<>> = f /\ Prefix(f, f) /\ <<>> \in Seq(Nat)
  <2>1. f \in Seq(Nat)
    BY <1>2, Zenon
  <2> HIDE DEF f
  <2> QED BY <2>1, ConcatEmptySeq, PrefixFacts
<1>4. Flushed(u)[i].os = f
  BY <1>2 DEF Flushed, FilesInv, FilesTypeOK, Contents
<1>5. /\ ino' = [ino EXCEPT ![i] = c] /\ synced' = [synced EXCEPT ![i] = f]
      /\ handle' = [handle EXCEPT ![u].buf = <<>>]
      /\ UNCHANGED <<sys, limits, dir, mmap_limit_, fd_limit_, opens, renaming, written>>
  BY <1>4 DEF OnDisk
<1>6. /\ r \in Handle /\ r.kind = "write" /\ r.i = i /\ r.buf = <<>>
      /\ handle' = [handle EXCEPT ![u] = r] /\ written' = [written EXCEPT ![i] = written[i]]
  BY <1>1, <1>3, <1>5, Replaced, ZenonT(60)
<1>7. c \in Contents /\ c.os = f /\ c.disk = f
  BY <1>3 DEF Contents
<1> HIDE DEF r, c, f
<1>8. Wrote(u, r, c, f, f)
  BY <1>1, <1>2, <1>5, <1>6 DEF Wrote
<1>9. Matches(u, r, c, f, f)
  BY <1>2, <1>3, <1>6, <1>7 DEF Matches
<1> QED BY <1>8, <1>9, WriterStep

\* Close flushes.
LEMMA CloseKeeps == ASSUME FilesInv, NEW u \in Users, CloseFile(u) PROVE FilesInv'
<1> DEFINE i == handle[u].i
           f == ino[i].os \o handle[u].buf
           c == [os |-> f, disk |-> ino[i].disk]
<1>1. /\ handle[u].kind = "write" /\ handle' = [handle EXCEPT ![u] = Closed]
      /\ UNCHANGED <<sys, limits, dir, ddir, mmap_limit_, fd_limit_, opens, renaming, known, synced, written>>
  BY DEF CloseFile
<1>2. /\ i \in Inodes /\ ino[i].os \in Seq(Nat) /\ handle[u].buf \in Seq(Nat)
      /\ written[i] = f /\ written[i] \in Seq(Nat) /\ synced[i] \in Seq(Nat)
      /\ Prefix(synced[i], ino[i].os) /\ Prefix(synced[i], ino[i].disk)
  BY <1>1, WriterIs
<1>3. f \in Seq(Nat) /\ Prefix(synced[i], f) /\ <<>> \in Seq(Nat)
  BY <1>2, ConcatProperties, PrefixFacts, SMTT(40)
<1>4. ino' = [ino EXCEPT ![i].os = f]
  BY DEF Flushed, CloseFile
<1> HIDE DEF f
<1>5. /\ c \in Contents /\ c.os = f /\ c.disk = ino[i].disk /\ ino' = [ino EXCEPT ![i] = c]
      /\ synced' = [synced EXCEPT ![i] = synced[i]] /\ written' = [written EXCEPT ![i] = written[i]]
  BY <1>1, <1>3, <1>4, Replaced
<1> HIDE DEF c
<1>6. Wrote(u, Closed, c, f, synced[i])
  BY <1>1, <1>2, <1>5 DEF Wrote
<1>7. Matches(u, Closed, c, f, synced[i])
  BY <1>2, <1>3, <1>5, ClosedIs DEF Matches
<1> QED BY <1>6, <1>7, WriterStep

\* A file is created or emptied; nobody writes it yet.
LEMMA OpenWriterKeeps == ASSUME FilesInv, NEW u \in Users, NEW n \in Names, OpenWriter(u, n) PROVE FilesInv'
<1>1. PICK i : i = (IF dir[n] # 0 THEN dir[n] ELSE CHOOSE j \in Unused : TRUE)
  OBVIOUS
<1>2. PICK c, r :
        /\ c = (IF dir[n] # 0 THEN [ino[i] EXCEPT !.os = <<>>] ELSE Empty)
        /\ r = [kind |-> "write", name |-> n, i |-> i, buf |-> <<>>, len |-> 0, gen |-> opens + 1]
  OBVIOUS
<1>3. /\ handle[u] = Closed /\ IF dir[n] = 0 THEN Unused # {} ELSE Writers(i) = {}
      /\ dir' = [dir EXCEPT ![n] = i] /\ ino' = [ino EXCEPT ![i] = c] /\ opens' = opens + 1
      /\ synced' = [synced EXCEPT ![i] = <<>>] /\ written' = [written EXCEPT ![i] = <<>>]
      /\ handle' = [handle EXCEPT ![u] = r]
      /\ UNCHANGED <<sys, limits, crashes, ddir, mmap_limit_, fd_limit_, renaming, known>>
  BY <1>1, <1>2, Zenon DEF OpenWriter
<1>4. i \in Inodes /\ Writers(i) = {}
  <2>1. CASE dir[n] # 0
    BY <2>1, <1>1, <1>3 DEF FilesInv, FilesTypeOK
  <2>2. CASE dir[n] = 0
    <3>1. i \in Unused
      BY <2>2, <1>1, <1>3
    <3> QED BY <3>1 DEF Unused, Writers
  <2> QED BY <2>1, <2>2
<1>5. c \in Contents /\ c.os = <<>>
  <2>1. CASE dir[n] # 0
    <3>1. ino[i] \in Contents /\ ino[i].disk \in Seq(Nat)
      BY <1>4 DEF FilesInv, FilesTypeOK, Contents
    <3>2. c = [os |-> <<>>, disk |-> ino[i].disk]
      BY <2>1, <3>1, <1>2, ContentsReplaced, Zenon
    <3> QED BY ONLY <3>1, <3>2 DEF Contents
  <2>2. CASE dir[n] = 0
    BY <2>2, <1>2 DEF Empty, Contents
  <2> QED BY <2>1, <2>2
<1>6. c.disk \in Seq(Nat) /\ <<>> \in Seq(Nat) /\ Prefix(<<>>, c.os) /\ Prefix(<<>>, c.disk) /\ <<>> \o <<>> = <<>>
  BY <1>5, PrefixFacts, ConcatEmptySeq DEF Contents
<1>7. r \in Handle /\ r.kind = "write" /\ r.i = i /\ r.buf = <<>>
  <2>1. opens + 1 \in Nat
    BY DEF FilesInv, FilesTypeOK
  <2> QED BY ONLY <2>1, <1>2, <1>4, <1>6, n \in Names DEF Handle
<1>8. handle[u].kind = "none"
  BY <1>3, ClosedIs
<1>9. /\ handle' \in [Users -> Handle] /\ \A v \in Users : handle'[v].kind # "none" => handle'[v].i \in Inodes
      /\ ino' \in [Inodes -> Contents]
      /\ synced' \in [Inodes -> Seq(Nat)] /\ written' \in [Inodes -> Seq(Nat)]
      /\ SyncedInv' /\ BufferInv'
  <2>1. PICK e \in Seq(Nat) : e = <<>>
    BY <1>6
  <2>2. /\ synced' = [synced EXCEPT ![i] = e] /\ written' = [written EXCEPT ![i] = e]
        /\ e = c.os \o r.buf /\ Prefix(e, c.os) /\ Prefix(e, c.disk)
    BY <2>1, <1>3, <1>5, <1>6, <1>7, Zenon
  <2>3. Writers(i) \subseteq {u}
    BY <1>4
  <2> QED BY ONLY <2>2, <2>3, <1>3, <1>4, <1>5, <1>7, <1>8, FilesInv, u \in Users, e \in Seq(Nat), FileStep
<1>10. dir' \in [Names -> Inodes \cup {0}] /\ opens' \in Nat
  BY <1>3, <1>4 DEF FilesInv, FilesTypeOK
<1>11. FilesTypeOK'
  BY <1>3, <1>9, <1>10 DEF FilesInv, FilesTypeOK
<1>12. NamesInv'
  <2>1. i # 0 /\ dir \in [Names -> Inodes \cup {0}] /\ known \subseteq Names
    BY <1>4, EnvFilesAssumption DEF FilesInv, FilesTypeOK
  <2>2. \A m \in Names : dir[m] # 0 => dir'[m] # 0
    BY <2>1, <1>3
  <2> QED BY <2>1, <2>2, <1>3 DEF FilesInv, NamesInv
<1>13. LimitsBalanced'
  BY <1>3, <1>7, <1>8, WriterLimits
<1> QED BY <1>9, <1>11, <1>12, <1>13 DEF FilesInv

\* A file is opened to be appended to; its buffer is empty.
LEMMA AppendableKeeps == ASSUME FilesInv, NEW u \in Users, NEW n \in Names, NewAppendableFile(u, n) PROVE FilesInv'
<1>1. PICK i, r : /\ i = dir[n]
                  /\ r = [Closed EXCEPT !.kind = "write", !.name = n, !.i = dir[n], !.gen = opens + 1]
  OBVIOUS
<1>2. /\ handle[u] = Closed /\ dir[n] # 0 /\ Writers(i) = {} /\ handle' = [handle EXCEPT ![u] = r]
      /\ opens' = opens + 1
      /\ UNCHANGED <<sys, limits, dir, ddir, ino, mmap_limit_, fd_limit_, renaming, known, synced, written>>
  BY <1>1, Zenon DEF NewAppendableFile
<1>3. i \in Inodes /\ opens + 1 \in Nat
  BY <1>1, <1>2 DEF FilesInv, FilesTypeOK
<1>4. r \in Handle /\ r.kind = "write" /\ r.i = i /\ r.buf = <<>>
  BY <1>1, <1>3, ClosedIs DEF Handle
<1>5. PICK c \in Contents, wr \in Seq(Nat), sy \in Seq(Nat) : c = ino[i] /\ wr = written[i] /\ sy = synced[i]
  BY <1>3 DEF FilesInv, FilesTypeOK
<1>6. /\ ino' = [ino EXCEPT ![i] = c] /\ written' = [written EXCEPT ![i] = wr]
      /\ synced' = [synced EXCEPT ![i] = sy]
  BY <1>2, <1>3, <1>5 DEF FilesInv, FilesTypeOK
<1>7. wr = c.os \o r.buf /\ Prefix(sy, c.os) /\ Prefix(sy, c.disk)
  <2>1. wr = c.os /\ Prefix(sy, c.os) /\ Prefix(sy, c.disk)
    BY <1>2, <1>3, <1>5 DEF FilesInv, BufferInv, SyncedInv
  <2>2. c.os \in Seq(Nat) /\ c.os \o <<>> = c.os
    BY <2>1, ConcatEmptySeq
  <2> QED BY <2>1, <2>2, <1>4
<1>8. handle[u].kind = "none" /\ Writers(i) \subseteq {u}
  BY <1>2, ClosedIs
<1>9. /\ handle' \in [Users -> Handle] /\ \A v \in Users : handle'[v].kind # "none" => handle'[v].i \in Inodes
      /\ ino' \in [Inodes -> Contents]
      /\ synced' \in [Inodes -> Seq(Nat)] /\ written' \in [Inodes -> Seq(Nat)]
      /\ SyncedInv' /\ BufferInv'
  BY ONLY <1>2, <1>3, <1>4, <1>6, <1>7, <1>8, FilesInv, u \in Users, c \in Contents, wr \in Seq(Nat),
          sy \in Seq(Nat), FileStep
<1>10. FilesTypeOK' /\ NamesInv'
  BY <1>2, <1>3, <1>9 DEF FilesInv, FilesTypeOK, NamesInv
<1>11. LimitsBalanced'
  BY <1>2, <1>4, <1>8, WriterLimits
<1> QED BY <1>9, <1>10, <1>11 DEF FilesInv
--------------------------------------------------------------------------------
(* Names, and crashes.                                                     *)

\* Steps that touch only the directory and what was promised of it.
LEMMA DirectoryStep ==
  ASSUME FilesInv, UNCHANGED <<sys, limits, ddir, ino, handle, mmap_limit_, fd_limit_, opens, synced, written>>,
         dir' \in [Names -> Inodes \cup {0}], renaming' \in [from : Names, to : Names],
         known' \subseteq known, \A n \in known' : dir'[n] # 0, renaming' # NoMove => sys = "win"
  PROVE  FilesInv'
<1>1. FilesTypeOK' /\ NamesInv' /\ SyncedInv'
  BY DEF FilesInv, FilesTypeOK, NamesInv, SyncedInv
<1>2. \A i : Writers(i)' = Writers(i)
  BY DEF Writers
<1>3. BufferInv'
  BY <1>2 DEF FilesInv, BufferInv
<1>4. LimitsBalanced'
  BY DEF FilesInv, LimitsBalanced
<1> QED BY <1>1, <1>3, <1>4 DEF FilesInv

\* A name is given up.
LEMMA UnlinkedKeeps == ASSUME FilesInv, NEW n \in Names, Unlinked(n) PROVE FilesInv'
<1>1. /\ dir' = [dir EXCEPT ![n] = 0] /\ known' = known \ {n}
      /\ UNCHANGED <<sys, limits, ddir, ino, handle, mmap_limit_, fd_limit_, opens, synced, written, renaming>>
  BY DEF Unlinked
<1>2. dir' \in [Names -> Inodes \cup {0}] /\ renaming' \in [from : Names, to : Names] /\ known \subseteq Names
  BY <1>1 DEF FilesInv, FilesTypeOK
<1>3. (\A m \in known' : dir'[m] # 0) /\ (renaming' # NoMove => sys = "win")
  BY <1>1, <1>2 DEF FilesInv, FilesTypeOK, NamesInv
<1> QED BY <1>1, <1>2, <1>3, DirectoryStep

\* A name goes over to another file's.
LEMMA MovedKeeps == ASSUME FilesInv, NEW m \in Names, NEW n \in Names, Moved(m, n) PROVE FilesInv'
<1>1. /\ m # n /\ dir[m] # 0 /\ dir' = [dir EXCEPT ![n] = dir[m], ![m] = 0] /\ known' = known \ {m}
      /\ UNCHANGED <<sys, limits, ddir, ino, handle, mmap_limit_, fd_limit_, opens, synced, written, renaming>>
  BY DEF Moved
<1>2. dir' \in [Names -> Inodes \cup {0}] /\ renaming' \in [from : Names, to : Names] /\ known \subseteq Names
  BY <1>1 DEF FilesInv, FilesTypeOK
<1>3. (\A k \in known' : dir'[k] # 0) /\ (renaming' # NoMove => sys = "win")
  BY <1>1, <1>2 DEF FilesInv, FilesTypeOK, NamesInv
<1> QED BY <1>1, <1>2, <1>3, DirectoryStep

\* The two steps of RenameFile on Windows, where nothing was promised.
LEMMA WinRenameKeeps ==
  ASSUME FilesInv, WinMoveFile \/ \E m, n \in Names : WinRenameFile(m, n)
  PROVE  FilesInv'
<1>1. dir \in [Names -> Inodes \cup {0}] /\ renaming \in [from : Names, to : Names]
  BY DEF FilesInv, FilesTypeOK
<1>2. CASE WinMoveFile
  <2>1. /\ sys = "win" /\ known = {} /\ known' = known /\ renaming' = NoMove
        /\ UNCHANGED <<sys, limits, ddir, ino, handle, mmap_limit_, fd_limit_, opens, synced, written>>
    BY <1>2 DEF WinMoveFile, FilesInv, NamesInv
  <2>2. renaming.from \in Names /\ renaming.to \in Names
    BY <1>1
  <2>3. \/ dir' = dir
        \/ dir' = [dir EXCEPT ![renaming.to] = dir[renaming.from], ![renaming.from] = 0]
    BY <1>2 DEF WinMoveFile
  <2>4. dir' \in [Names -> Inodes \cup {0}]
    BY <2>2, <2>3, <1>1
  <2>5. NoMove \in [from : Names, to : Names]
    BY EnvFilesAssumption DEF NoMove
  <2> QED BY <2>1, <2>4, <2>5, DirectoryStep
<1>3. ASSUME NEW m \in Names, NEW n \in Names, WinRenameFile(m, n) PROVE FilesInv'
  <2>1. /\ sys = "win" /\ known' = known /\ renaming' = [from |-> m, to |-> n]
        /\ UNCHANGED <<sys, limits, ddir, ino, handle, mmap_limit_, fd_limit_, opens, synced, written>>
        /\ dir' = [dir EXCEPT ![n] = IF dir[n] # 0 /\ Movable(n) THEN 0 ELSE @]
    BY <1>3 DEF WinRenameFile
  <2>2. known = {}
    BY <2>1 DEF FilesInv, NamesInv
  <2>3. dir' \in [Names -> Inodes \cup {0}] /\ renaming' \in [from : Names, to : Names]
    BY <2>1, <1>1
  <2> QED BY <2>1, <2>2, <2>3, DirectoryStep
<1> QED BY <1>2, <1>3

\* After a crash: names that are on disk, contents of which at least the disk's part is left.
LEMMA CrashKeeps == ASSUME FilesInv, Crash PROVE FilesInv'
<1>1. PICK late \in SUBSET {n \in Names : dir[n] # ddir[n]} :
        dir' = [n \in Names |-> IF n \in late THEN dir[n] ELSE ddir[n]]
  BY DEF Crash
<1>2. PICK kept \in SUBSET {i \in Inodes : ino[i].os # ino[i].disk} :
        ino' = [i \in Inodes |-> LET d == IF i \in kept THEN ino[i].os ELSE ino[i].disk
                                 IN  [os |-> d, disk |-> d]]
  BY DEF Crash
<1>3. /\ ddir' = dir' /\ handle' = [u \in Users |-> Closed] /\ mmap_limit_' = limits[1] /\ fd_limit_' = limits[2]
      /\ renaming' = NoMove /\ written' = [i \in Inodes |-> ino'[i].os]
      /\ UNCHANGED <<sys, limits, opens, known, synced>>
  BY DEF Crash
<1>4. /\ limits \in Limits /\ dir \in [Names -> Inodes \cup {0}] /\ ddir \in [Names -> Inodes \cup {0}]
      /\ ino \in [Inodes -> Contents] /\ opens \in Nat /\ known \subseteq Names /\ synced \in [Inodes -> Seq(Nat)]
  BY DEF FilesInv, FilesTypeOK
<1>5. ASSUME NEW i \in Inodes
      PROVE  /\ ino'[i] \in Contents /\ ino'[i].os \in Seq(Nat) /\ written'[i] = ino'[i].os
             /\ Prefix(synced[i], ino'[i].os) /\ Prefix(synced[i], ino'[i].disk)
  <2>1. PICK d : d = IF i \in kept THEN ino[i].os ELSE ino[i].disk
    OBVIOUS
  <2>2. ino'[i] = [os |-> d, disk |-> d]
    BY <2>1, <1>2
  <2>3. ino[i] \in Contents /\ ino[i].os \in Seq(Nat) /\ ino[i].disk \in Seq(Nat)
    BY <1>4 DEF Contents
  <2>4. d \in Seq(Nat) /\ Prefix(synced[i], d)
    BY <2>1, <2>3 DEF FilesInv, SyncedInv
  <2>5. ino'[i].os = d /\ ino'[i].disk = d /\ ino'[i] \in Contents
    BY ONLY <2>2, <2>4 DEF Contents
  <2> QED BY <2>4, <2>5, <1>3
<1>6. ino' \in [Inodes -> Contents] /\ written' \in [Inodes -> Seq(Nat)]
  <2>1. DOMAIN ino' = Inodes /\ ino' = [i \in Inodes |-> ino'[i]]
    BY <1>2
  <2> QED BY <2>1, <1>3, <1>5
<1>7. /\ handle' \in [Users -> Handle] /\ \A u \in Users : handle'[u] = Closed /\ handle'[u].kind = "none"
  BY <1>3, ClosedIs
<1>8. dir' \in [Names -> Inodes \cup {0}] /\ NoMove \in [from : Names, to : Names]
  BY <1>1, <1>4, EnvFilesAssumption DEF NoMove
<1>9. FilesTypeOK'
  BY <1>3, <1>4, <1>6, <1>7, <1>8 DEF FilesTypeOK
<1>10. NamesInv'
  BY <1>1, <1>3, <1>4 DEF FilesInv, NamesInv
<1>11. SyncedInv'
  BY <1>3, <1>5 DEF SyncedInv
<1>12. BufferInv'
  <2>1. \A i \in Inodes : Writers(i)' = {}
    BY <1>7 DEF Writers
  <2> QED BY <2>1, <1>5 DEF BufferInv
<1>13. LimitsBalanced'
  <2>1. limits[1] \in Nat /\ limits[2] \in Nat
    BY <1>4, EnvFilesAssumption
  <2>2. Kept("mmap")' = {} /\ Kept("pread")' = {} /\ Cardinality({}) = 0
    BY <1>7, FS_EmptySet DEF Kept
  <2>3. limits'[1] = limits[1] /\ limits'[2] = limits[2] /\ mmap_limit_' = limits[1] /\ fd_limit_' = limits[2]
    BY <1>3
  <2>4. Cardinality(Kept("mmap")') = 0 /\ Cardinality(Kept("pread")') = 0
    BY ONLY <2>2, Zenon
  <2>5. mmap_limit_' = limits'[1] - Cardinality(Kept("mmap")') /\ fd_limit_' = limits'[2] - Cardinality(Kept("pread")')
    BY ONLY <2>1, <2>3, <2>4
  <2> QED BY <2>5 DEF LimitsBalanced, Kept
<1> QED BY <1>9, <1>10, <1>11, <1>12, <1>13 DEF FilesInv
--------------------------------------------------------------------------------
\* Every operation of an Env, and every crash.
LEMMA FilesStep == FilesInv /\ [fiNext]_fiVars => FilesInv'
<1> SUFFICES ASSUME FilesInv, [fiNext]_fiVars PROVE FilesInv'
  OBVIOUS
<1>1. ASSUME NEW u \in Users, NEW n \in Names,
             \/ PosixSequentialFile(u, n) \/ BoostSequentialFile(u, n) \/ WinSequentialFile(u, n)
             \/ NewRandomAccessFile(u, n) \/ BoostRandomAccessFile(u, n) \/ WinRandomAccessFile(u, n)
             \/ NewWritableFile(u, n) \/ BoostFile(u, n) \/ WinFile(u, n) \/ NewAppendableFile(u, n)
      PROVE  FilesInv'
  BY <1>1, ReadersKeep, OpenWriterKeeps, AppendableKeeps DEF NewWritableFile, BoostFile, WinFile
<1>2. ASSUME NEW u \in Users, MmapFile(u) \/ MmapFails(u) \/ DeleteReader(u) PROVE FilesInv'
  BY <1>2, MmapFileKeeps, DeleteReaderKeeps
<1>3. ASSUME NEW u \in Users, PosixAppend(u) \/ BoostAppend(u) \/ WinAppend(u) PROVE FilesInv'
  BY <1>3, AppendedKeeps DEF PosixAppend, BoostAppend, WinAppend
<1>4. ASSUME NEW u \in Users, Flush(u) \/ BoostSync(u) PROVE FilesInv'
  BY <1>4, FlushedKeeps DEF Flush, BoostSync
<1>5. ASSUME NEW u \in Users, SyncFails(u) PROVE FilesInv'
  BY <1>5, FlushedKeeps DEF SyncFails, SyncDirIfManifest
<1>6. ASSUME NEW u \in Users, Sync(u) \/ WinSync(u) PROVE FilesInv'
  BY <1>6, OnDiskKeeps DEF Sync, WinSync, SyncDirIfManifest
<1>7. ASSUME NEW u \in Users, CloseFile(u) PROVE FilesInv'
  BY <1>7, CloseKeeps
<1>8. ASSUME NEW n \in Names, DeleteFile(n) \/ BoostDeleteFile(n) \/ WinDeleteFile(n) PROVE FilesInv'
  BY <1>8, UnlinkedKeeps DEF DeleteFile, BoostDeleteFile, WinDeleteFile
<1>9. ASSUME NEW m \in Names, NEW n \in Names, RenameFile(m, n) \/ BoostRenameFile(m, n) PROVE FilesInv'
  BY <1>9, MovedKeeps DEF RenameFile, BoostRenameFile
<1>10. ASSUME WinMoveFile \/ \E m, n \in Names : WinRenameFile(m, n) PROVE FilesInv'
  BY <1>10, WinRenameKeeps
<1>11. CASE Crash
  BY <1>11, CrashKeeps
<1>12. CASE UNCHANGED fiVars
  <2>1. UNCHANGED <<sys, limits, dir, ddir, ino, handle, mmap_limit_, fd_limit_, opens, renaming, known, synced, written>>
    BY <1>12 DEF fiVars
  <2>2. dir' \in [Names -> Inodes \cup {0}] /\ renaming' \in [from : Names, to : Names]
    BY <2>1 DEF FilesInv, FilesTypeOK
  <2>3. (\A n \in known' : dir'[n] # 0) /\ (renaming' # NoMove => sys = "win")
    BY <2>1 DEF FilesInv, NamesInv
  <2> QED BY <2>1, <2>2, <2>3, DirectoryStep
<1> QED BY <1>1, <1>2, <1>3, <1>4, <1>5, <1>6, <1>7, <1>8, <1>9, <1>10, <1>11, <1>12 DEF fiNext

\* No file, no handle.
LEMMA FilesStart == fiInit => FilesInv
<1> SUFFICES ASSUME fiInit PROVE FilesInv
  OBVIOUS
<1>1. Empty \in Contents /\ Empty.os = <<>> /\ Empty.disk = <<>> /\ <<>> \in Seq(Nat) /\ Prefix(<<>>, <<>>)
  <2>1. <<>> \in Seq(Nat) /\ Len(<<>>) = 0
    OBVIOUS
  <2>2. Empty.os = <<>> /\ Empty.disk = <<>> /\ Empty \in Contents
    BY <2>1 DEF Empty, Contents
  <2> QED BY <2>1, <2>2 DEF Prefix
<1>2. /\ \A i \in Inodes : ino[i] = Empty /\ synced[i] = <<>> /\ written[i] = <<>>
      /\ \A u \in Users : handle[u] = Closed
      /\ ino \in [Inodes -> Contents] /\ synced \in [Inodes -> Seq(Nat)] /\ written \in [Inodes -> Seq(Nat)]
      /\ handle \in [Users -> Handle]
  BY <1>1, ClosedIs DEF fiInit
<1>3. NoMove \in [from : Names, to : Names]
  BY EnvFilesAssumption DEF NoMove
<1>4. FilesTypeOK /\ NamesInv
  BY <1>2, <1>3, ClosedIs DEF fiInit, FilesTypeOK, NamesInv
<1>5. SyncedInv
  BY <1>1, <1>2 DEF SyncedInv
<1>6. BufferInv
  <2>1. \A i \in Inodes : Writers(i) = {}
    BY <1>2, ClosedIs DEF Writers
  <2> QED BY <2>1, <1>1, <1>2 DEF BufferInv
<1>7. LimitsBalanced
  <2>1. limits[1] \in Nat /\ limits[2] \in Nat /\ mmap_limit_ = limits[1] /\ fd_limit_ = limits[2]
    BY EnvFilesAssumption DEF fiInit
  <2>2. Kept("mmap") = {} /\ Kept("pread") = {} /\ Cardinality({}) = 0
    BY <1>2, ClosedIs, FS_EmptySet DEF Kept
  <2> QED BY <2>1, <2>2, LimitsAre
<1> QED BY <1>4, <1>5, <1>6, <1>7 DEF FilesInv

\* What a reader gets is what was written, once nobody writes.
LEMMA FilesFollow == FilesInv => FilesSound
<1> SUFFICES ASSUME FilesInv PROVE FilesSound
  OBVIOUS
<1>1. LimitsBalanced
  BY DEF FilesInv
<1>2. SyncedKept
  <2>1. ASSUME NEW i \in Inodes PROVE synced[i] = SubSeq(ino[i].os, 1, Len(synced[i]))
    <3>1. synced[i] \in Seq(Nat) /\ ino[i].os \in Seq(Nat)
      BY DEF FilesInv, FilesTypeOK, Contents
    <3>2. Prefix(synced[i], ino[i].os)
      BY DEF FilesInv, SyncedInv
    <3> QED BY ONLY <3>1, <3>2, PrefixFacts
  <2> QED BY <2>1 DEF FilesInv, NamesInv, SyncedKept
<1>3. ReadsComplete
  <2> SUFFICES ASSUME NEW u \in Users, handle[u].kind \in {"seq", "pread", "mmap", "temp"}, Writers(handle[u].i) = {},
                      NEW n \in 1 .. Len(written[handle[u].i])
               PROVE  \/ Read(u, n).ok /\ Read(u, n).bytes = SubSeq(written[handle[u].i], 1, n)
                      \/ handle[u].kind = "mmap" /\ n > handle[u].len
                      \/ handle[u].kind = "temp" /\ dir[handle[u].name] # handle[u].i
    BY DEF ReadsComplete
  <2>1. PICK i \in Inodes : i = handle[u].i
    BY DEF FilesInv, FilesTypeOK
  <2>2. written[i] = ino[i].os /\ written[i] \in Seq(Nat) /\ handle[u].len \in Nat /\ i # 0
    BY <2>1, HandleParts, EnvFilesAssumption DEF FilesInv, BufferInv, FilesTypeOK
  <2>3. n \in Nat /\ n <= Len(ino[i].os) /\ Len(ino[i].os) \in Nat
    BY <2>1, <2>2
  <2>4. Bytes(i, n) = SubSeq(written[i], 1, n)
    <3>1. (IF n < Len(ino[i].os) THEN n ELSE Len(ino[i].os)) = n
      BY <2>3
    <3> QED BY <3>1, <2>2, Zenon DEF Bytes
  <2>5. CASE handle[u].kind = "mmap"
    <3>1. Read(u, n) = [ok |-> n <= handle[u].len, bytes |-> Bytes(i, n)]
      BY <2>1, <2>5 DEF Read, MmapRead
    <3>2. n <= handle[u].len \/ n > handle[u].len
      BY <2>2, <2>3
    <3>3. Read(u, n).ok = (n <= handle[u].len) /\ Read(u, n).bytes = Bytes(i, n)
      BY ONLY <3>1
    <3> QED BY <3>2, <3>3, <2>1, <2>4, <2>5, Zenon
  <2>6. CASE handle[u].kind = "temp"
    BY <2>1, <2>2, <2>4, <2>6 DEF Read, TemporaryRead
  <2>7. CASE handle[u].kind \in {"seq", "pread"}
    BY <2>1, <2>4, <2>7 DEF Read, DescriptorRead
  <2> QED BY <2>5, <2>6, <2>7
<1> QED BY <1>1, <1>2, <1>3 DEF FilesSound

(***************************************************************************)
(* The files of an Env: whatever is opened, appended, synced, renamed and  *)
(* deleted by however many clients, and whenever the system crashes, what  *)
(* was synced is kept, readers get all that was written once the writer    *)
(* has closed (but for what is behind the end of a mapping, and files that *)
(* are opened by name at every read), and the limits count what is open    *)
(* (env_posix.cc, env_win.cc, env_boost.cc).                               *)
(***************************************************************************)
THEOREM FilesKept == fiSpec => []FilesSound
BY FilesStart, FilesStep, FilesFollow, PTL DEF fiSpec

--------------------------------------------------------------------------------
(* LockFile and UnlockFile *)

PosixStates == {"idle", "open", "close", "inserted", "holding", "closefail", "remove",
                "unlocked", "closelast"}

LockTypeOK ==
  /\ at \in [Who -> PosixStates]
  /\ locked_files_ \subseteq Procs /\ torn \subseteq Procs
  /\ klock \in Procs \cup {0}

\* From its insertion into the PosixLockTable to its removal a file belongs to one
\* thread of the process.
Claims == {w \in Who : at[w] \in {"inserted", "holding", "closefail", "remove", "unlocked"}}
TableExact ==
  /\ \A w \in Claims : w[1] \in locked_files_
  /\ \A v, w \in Claims : v[1] = w[1] => v = w

\* Who believes to hold the lock has it, or lost it to a close in its own process.
HoldersCovered == \A w \in Holders : klock = w[1] \/ w[1] \in torn

LockInv == LockTypeOK /\ (platform = "posix" => TableExact /\ HoldersCovered)

--------------------------------------------------------------------------------
USE DEF Who, PosixStates, Goes

\* The steps of threads and processes keep the types.
LEMMA LockTypeStep == LockTypeOK /\ [loNext]_loVars => LockTypeOK'
<1> SUFFICES ASSUME LockTypeOK, [loNext]_loVars PROVE LockTypeOK'
  OBVIOUS
<1> USE DEF LockTypeOK
<1>1. ASSUME NEW w \in Who, Open(w) \/ Insert(w) \/ CloseRefused(w) \/ LockOrUnlock(w)
      PROVE  LockTypeOK'
  BY <1>1 DEF Open, Insert, CloseRefused, LockOrUnlock, CloseFd, Holders
<1>2. ASSUME NEW w \in Who, CloseFailed(w) \/ Remove(w) \/ UnlockFile(w) \/ CloseUnlocked(w)
      PROVE  LockTypeOK'
  BY <1>2 DEF CloseFailed, Remove, UnlockFile, CloseUnlocked, CloseFd, Holders
<1>3. ASSUME NEW w \in Who, BoostLockFile(w) \/ BoostUnlockFile(w) \/ WinLockFile(w) \/ WinUnlockFile(w)
      PROVE  LockTypeOK'
  BY <1>3 DEF BoostLockFile, BoostUnlockFile, WinLockFile, WinUnlockFile, CloseFd, Holders
<1>4. ASSUME NEW p \in Procs, Exit(p) PROVE LockTypeOK'
  BY <1>4 DEF Exit
<1>5. CASE UNCHANGED loVars
  BY <1>5 DEF loVars
<1> QED BY <1>1, <1>2, <1>3, <1>4, <1>5 DEF loNext

\* The table of a process has the file exactly while one of its threads claims it.
LEMMA TableStep ==
  LockTypeOK /\ platform = "posix" /\ TableExact /\ [loNext]_loVars => TableExact'
<1> SUFFICES ASSUME LockTypeOK, platform = "posix", TableExact, [loNext]_loVars PROVE TableExact'
  OBVIOUS
<1> USE DEF LockTypeOK, TableExact, Claims
<1>1. ASSUME NEW w \in Who, Open(w) \/ CloseRefused(w) \/ LockOrUnlock(w) \/ CloseFailed(w)
      PROVE  TableExact'
  BY <1>1 DEF Open, CloseRefused, LockOrUnlock, CloseFailed
<1>2. ASSUME NEW w \in Who, Insert(w) PROVE TableExact'
  BY <1>2 DEF Insert
<1>3. ASSUME NEW w \in Who, Remove(w) PROVE TableExact'
  BY <1>3 DEF Remove
<1>4. ASSUME NEW w \in Who, UnlockFile(w) \/ CloseUnlocked(w) PROVE TableExact'
  BY <1>4 DEF UnlockFile, CloseUnlocked
<1>5. ASSUME NEW w \in Who, BoostLockFile(w) \/ BoostUnlockFile(w) \/ WinLockFile(w) \/ WinUnlockFile(w)
      PROVE  FALSE
  BY <1>5 DEF BoostLockFile, BoostUnlockFile, WinLockFile, WinUnlockFile
<1>6. ASSUME NEW p \in Procs, Exit(p) PROVE TableExact'
  BY <1>6 DEF Exit
<1>7. CASE UNCHANGED loVars
  BY <1>7 DEF loVars
<1> QED BY <1>1, <1>2, <1>3, <1>4, <1>5, <1>6, <1>7 DEF loNext

\* A close takes the lock only from threads that are then marked.
LEMMA CloseCovers ==
  ASSUME LockTypeOK, HoldersCovered, NEW w \in Who, CloseFd(w), at[w] # "holding",
         NEW to \in PosixStates \ {"holding"}, at' = [at EXCEPT ![w] = to]
  PROVE  HoldersCovered'
BY DEF LockTypeOK, HoldersCovered, Holders, CloseFd

\* The kernel's lock is with every thread that believes to hold it, or the loss is known.
LEMMA CoverStep ==
  ASSUME 0 \notin Procs
  PROVE  LockTypeOK /\ platform = "posix" /\ TableExact /\ HoldersCovered /\ [loNext]_loVars
           => HoldersCovered'
<1> SUFFICES ASSUME LockTypeOK, platform = "posix", TableExact, HoldersCovered, [loNext]_loVars
             PROVE  HoldersCovered'
  OBVIOUS
<1> USE DEF LockTypeOK
<1>1. ASSUME NEW w \in Who, Open(w) \/ Insert(w) \/ Remove(w) PROVE HoldersCovered'
  BY <1>1 DEF Open, Insert, Remove, HoldersCovered, Holders
<1>2. ASSUME NEW w \in Who, CloseRefused(w) \/ CloseFailed(w) \/ CloseUnlocked(w) PROVE HoldersCovered'
  BY <1>2, CloseCovers DEF CloseRefused, CloseFailed, CloseUnlocked
<1>3. ASSUME NEW w \in Who, LockOrUnlock(w) PROVE HoldersCovered'
  BY <1>3 DEF LockOrUnlock, HoldersCovered, Holders, TableExact, Claims
<1>4. ASSUME NEW w \in Who, UnlockFile(w) PROVE HoldersCovered'
  BY <1>4 DEF UnlockFile, HoldersCovered, Holders, TableExact, Claims
<1>5. ASSUME NEW w \in Who, BoostLockFile(w) \/ BoostUnlockFile(w) \/ WinLockFile(w) \/ WinUnlockFile(w)
      PROVE  FALSE
  BY <1>5 DEF BoostLockFile, BoostUnlockFile, WinLockFile, WinUnlockFile
<1>6. ASSUME NEW p \in Procs, Exit(p) PROVE HoldersCovered'
  BY <1>6 DEF Exit, HoldersCovered, Holders
<1>7. CASE UNCHANGED loVars
  BY <1>7 DEF loVars, HoldersCovered, Holders
<1> QED BY <1>1, <1>2, <1>3, <1>4, <1>5, <1>6, <1>7 DEF loNext

(***************************************************************************)
(* PosixEnv::LockFile and UnlockFile: however many processes and threads   *)
(* there are, two threads of one process never hold the lock, and two      *)
(* processes only if one lost it to the close of another descriptor.       *)
(***************************************************************************)
THEOREM PosixLockSafety ==
  ASSUME 0 \notin Procs
  PROVE  loSpec => []LockHeldOnce
<1>1. loInit => LockInv
  BY DEF loInit, LockInv, LockTypeOK, TableExact, Claims, HoldersCovered, Holders
<1>2. LockInv /\ [loNext]_loVars => LockInv'
  <2>1. [loNext]_loVars => platform' = platform
    BY DEF loNext, loVars, Open, Insert, CloseRefused, LockOrUnlock, CloseFailed, Remove, UnlockFile,
           CloseUnlocked, BoostLockFile, BoostUnlockFile, WinLockFile, WinUnlockFile, Exit
  <2> QED BY <2>1, LockTypeStep, TableStep, CoverStep DEF LockInv
<1>3. LockInv => LockHeldOnce
  BY DEF LockInv, LockTypeOK, TableExact, Claims, HoldersCovered, Holders, LockHeldOnce
<1> QED BY <1>1, <1>2, <1>3, PTL DEF loSpec
================================================================================
