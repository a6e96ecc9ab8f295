-------------------------------- MODULE EnvFiles --------------------------------
(***************************************************************************)
(* The files of an Env over an operating system (env_posix.cc, env_win.cc, *)
(* env_boost.cc): handles of several clients, the buffers between them and *)
(* the disk, the limits on descriptors and mappings, and crashes.          *)
(*                                                                         *)
(* A file is an inode that names point to.  Its contents are a sequence of *)
(* bytes; a byte is the number of the NewWritableFile it was written after,*)
(* so that two uses of one name are told apart.  os is what reads see,     *)
(* disk what a crash leaves at least.                                      *)
(***************************************************************************)
EXTENDS Integers, Sequences, FiniteSets

CONSTANTS
  Names, Manifest,      \* file names; Manifest is one of them
  Inodes,
  Users,                \* who holds handles, one each
  Systems,              \* of "posix", "win", "boost"
  Limits,               \* pairs of MaxMmaps() and MaxOpenFiles()
  MaxSize, MaxOpens, MaxCrashes   \* bounds

\* 0 stands for no inode.
ASSUME EnvFilesAssumption ==
  /\ Manifest \in Names /\ 0 \notin Inodes
  /\ IsFiniteSet(Users) /\ Limits \subseteq Nat \X Nat

VARIABLES
  sys, limits,
  dir, ddir,            \* name -> inode or 0, as seen and as on disk
  ino,                  \* inode -> os, disk
  handle,
  mmap_limit_, fd_limit_,
  crashes,
  opens,                \* NewWritableFile calls so far
  renaming,             \* Windows: between the two steps of RenameFile
  known, synced,        \* ghosts: what successful Syncs have promised
  written               \* ghost: what was appended to a file

fiVars == <<sys, limits, dir, ddir, ino, handle, mmap_limit_, fd_limit_, crashes, opens, renaming, known, synced, written>>
fiDisk == <<limits, crashes, dir, ddir, ino, opens, renaming, known, synced, written>>

Closed == [kind |-> "none", name |-> Manifest, i |-> 0, buf |-> <<>>, len |-> 0, gen |-> 0]
Empty  == [os |-> <<>>, disk |-> <<>>]
NoMove == [from |-> Manifest, to |-> Manifest]

fiInit ==
  /\ sys \in Systems
  /\ dir = [n \in Names |-> 0] /\ ddir = dir
  /\ ino = [i \in Inodes |-> Empty]
  /\ handle = [u \in Users |-> Closed]
  /\ limits \in Limits /\ mmap_limit_ = limits[1] /\ fd_limit_ = limits[2]
  /\ opens = 0 /\ crashes = 0 /\ renaming = NoMove /\ known = {} /\ synced = [i \in Inodes |-> <<>>] /\ written = synced

Writers(i) == {u \in Users : handle[u].kind = "write" /\ handle[u].i = i}
Readers(i) == {u \in Users : handle[u].kind \notin {"none", "write", "temp"} /\ handle[u].i = i}
Unused == {i \in Inodes : \A n \in Names : dir[n] # i /\ ddir[n] # i} \ {handle[u].i : u \in Users}

Opened(u, k, n) ==
  handle' = [handle EXCEPT ![u] = [kind |-> k, name |-> n, i |-> dir[n], buf |-> <<>>,
                                   len |-> 0, gen |-> 0]]

\* On Windows a file open for writing cannot be opened to read, and conversely.
Shared(n) == sys = "win" => Writers(dir[n]) = {}

OpenReader(u, k, n) ==
  /\ handle[u] = Closed /\ dir[n] # 0
  /\ Opened(u, k, n)
  /\ UNCHANGED <<sys, fiDisk>>

PosixSequentialFile(u, n) == sys = "posix" /\ OpenReader(u, "seq", n) /\ UNCHANGED <<mmap_limit_, fd_limit_>>
BoostSequentialFile(u, n) == sys = "boost" /\ OpenReader(u, "seq", n) /\ UNCHANGED <<mmap_limit_, fd_limit_>>
BoostRandomAccessFile(u, n) ==
  sys = "boost" /\ OpenReader(u, "pread", n) /\ UNCHANGED <<mmap_limit_, fd_limit_>>
WinSequentialFile(u, n) ==
  sys = "win" /\ Shared(n) /\ OpenReader(u, "seq", n) /\ UNCHANGED <<mmap_limit_, fd_limit_>>
WinRandomAccessFile(u, n) ==
  sys = "win" /\ Shared(n) /\ OpenReader(u, "pread", n) /\ UNCHANGED <<mmap_limit_, fd_limit_>>

\* Takes a mapping, else a descriptor, else opens the file for every read.  A mapping
\* is of length 0 until it is made.
NewRandomAccessFile(u, n) ==
  /\ sys = "posix"
  /\ \/ /\ mmap_limit_ > 0 /\ OpenReader(u, "mmap", n)
        /\ mmap_limit_' = mmap_limit_ - 1 /\ UNCHANGED fd_limit_
     \/ /\ mmap_limit_ = 0 /\ fd_limit_ > 0 /\ OpenReader(u, "pread", n)
        /\ fd_limit_' = fd_limit_ - 1 /\ UNCHANGED mmap_limit_
     \/ /\ mmap_limit_ = 0 /\ fd_limit_ = 0 /\ OpenReader(u, "temp", n)
        /\ UNCHANGED <<mmap_limit_, fd_limit_>>

Mapping(u) == handle[u].kind = "mmap" /\ handle[u].len = 0

\* GetFileSize looks the name up again: it may be gone or name another file by now.
\* An empty file cannot be mapped.
MmapFile(u) ==
  LET h == handle[u] IN
  /\ Mapping(u) /\ dir[h.name] # 0 /\ Len(ino[dir[h.name]].os) > 0
  /\ handle' = [handle EXCEPT ![u].len = Len(ino[dir[h.name]].os)]
  /\ UNCHANGED <<sys, mmap_limit_, fd_limit_, fiDisk>>

CloseReader(u) ==
  /\ handle' = [handle EXCEPT ![u] = Closed]
  /\ mmap_limit_' = mmap_limit_ + (IF handle[u].kind = "mmap" THEN 1 ELSE 0)
  /\ fd_limit_' = fd_limit_ + (IF sys = "posix" /\ handle[u].kind = "pread" THEN 1 ELSE 0)
  /\ UNCHANGED <<sys, fiDisk>>

\* A descriptor that was opened for one read takes no place in the limit.
DeleteReader(u) ==
  /\ handle[u].kind \in {"seq", "mmap", "pread", "temp"} /\ ~Mapping(u)
  /\ CloseReader(u)

\* GetFileSize or mmap fails: no file is returned, and the place is given back.
MmapFails(u) == Mapping(u) /\ CloseReader(u)

\* No two clients write one file; the database keeps to that.
\* fopen "w", CREATE_ALWAYS, ios_base::trunc: an existing file is emptied.
OpenWriter(u, n) ==
  LET i == IF dir[n] # 0 THEN dir[n] ELSE CHOOSE j \in Unused : TRUE
  IN  /\ handle[u] = Closed /\ opens < MaxOpens
      /\ IF dir[n] = 0 THEN Unused # {} ELSE Writers(i) = {}
      /\ dir' = [dir EXCEPT ![n] = i]
      /\ ino' = [ino EXCEPT ![i] = IF dir[n] # 0 THEN [@ EXCEPT !.os = <<>>] ELSE Empty]
      /\ opens' = opens + 1
      /\ synced' = [synced EXCEPT ![i] = <<>>] /\ written' = [written EXCEPT ![i] = <<>>]
      /\ handle' = [handle EXCEPT ![u] = [kind |-> "write", name |-> n, i |-> i, buf |-> <<>>,
                                          len |-> 0, gen |-> opens + 1]]
      /\ UNCHANGED <<sys, limits, crashes, ddir, mmap_limit_, fd_limit_, renaming, known>>

NewWritableFile(u, n) == sys = "posix" /\ OpenWriter(u, n)
BoostFile(u, n)       == sys = "boost" /\ OpenWriter(u, n)
WinFile(u, n)         == sys = "win" /\ (dir[n] # 0 => Readers(dir[n]) = {}) /\ OpenWriter(u, n)

\* Env::NewAppendableFile is NotSupported where it is not overridden.
NewAppendableFile(u, n) ==
  /\ handle[u] = Closed /\ sys = "posix" /\ dir[n] # 0 /\ Writers(dir[n]) = {} /\ opens < MaxOpens
  /\ handle' = [handle EXCEPT ![u] = [Closed EXCEPT !.kind = "write", !.name = n, !.i = dir[n],
                                                    !.gen = opens + 1]]
  /\ opens' = opens + 1
  /\ UNCHANGED <<sys, limits, crashes, dir, ddir, ino, mmap_limit_, fd_limit_, renaming, known, synced, written>>

Appended(u, spill) ==
  LET h == handle[u]
      b == Append(h.buf, h.gen)
  IN  /\ h.kind = "write" /\ Len(ino[h.i].os) + Len(h.buf) < MaxSize
      /\ handle' = [handle EXCEPT ![u].buf = IF spill THEN <<>> ELSE b]
      /\ ino' = [ino EXCEPT ![h.i].os = IF spill THEN @ \o b ELSE @]
      /\ UNCHANGED <<sys, limits, crashes, dir, ddir, mmap_limit_, fd_limit_, opens, renaming, known, synced>>
      /\ written' = [written EXCEPT ![h.i] = Append(@, h.gen)]

\* stdio and iostream buffer, and may spill; Windows writes through.
PosixAppend(u) == sys = "posix" /\ \E spill \in BOOLEAN : Appended(u, spill)
BoostAppend(u) == sys = "boost" /\ \E spill \in BOOLEAN : Appended(u, spill)
WinAppend(u)   == sys = "win" /\ Appended(u, TRUE)

Flushed(u) == [ino EXCEPT ![handle[u].i].os = @ \o handle[u].buf]

Flush(u) ==
  /\ handle[u].kind = "write" /\ handle[u].buf # <<>>
  /\ ino' = Flushed(u) /\ handle' = [handle EXCEPT ![u].buf = <<>>]
  /\ UNCHANGED <<sys, limits, crashes, dir, ddir, mmap_limit_, fd_limit_, opens, renaming, known, synced, written>>

\* The directory is left to the file system.
SyncDirIfManifest_Never(u) ==
  /\ UNCHANGED ddir
  /\ known' = IF sys = "posix" /\ handle[u].name = Manifest THEN {n \in Names : dir[n] # 0} ELSE known

\* Syncing a MANIFEST first syncs the directory, so that the files it will
\* name are there after a crash.
SyncDirIfManifest(u) ==
  IF sys = "posix" /\ handle[u].name = Manifest
  THEN ddir' = dir /\ known' = {n \in Names : dir[n] # 0}
  ELSE UNCHANGED <<ddir, known>>

OnDisk(u) ==
  LET f == Flushed(u)[handle[u].i].os
  IN  /\ handle[u].kind = "write"
      /\ ino' = [ino EXCEPT ![handle[u].i] = [os |-> f, disk |-> f]]
      /\ synced' = [synced EXCEPT ![handle[u].i] = f]
      /\ handle' = [handle EXCEPT ![u].buf = <<>>]
      /\ UNCHANGED <<sys, limits, crashes, dir, mmap_limit_, fd_limit_, opens, renaming, written>>

Sync(u)      == sys = "posix" /\ SyncDirIfManifest(u) /\ OnDisk(u)
WinSync(u)   == sys = "win" /\ UNCHANGED <<ddir, known>> /\ OnDisk(u)

\* BoostFile::Sync is its Flush; nothing reaches the disk.
BoostSync(u) == sys = "boost" /\ Flush(u)

\* fdatasync failed: the directory and the buffer went out all the same.
SyncFails(u) ==
  /\ handle[u].kind = "write" /\ sys = "posix"
  /\ SyncDirIfManifest(u)
  /\ ino' = Flushed(u) /\ handle' = [handle EXCEPT ![u].buf = <<>>]
  /\ UNCHANGED <<sys, limits, crashes, dir, mmap_limit_, fd_limit_, opens, renaming, synced, written>>

CloseFile(u) ==
  /\ handle[u].kind = "write"
  /\ ino' = Flushed(u) /\ handle' = [handle EXCEPT ![u] = Closed]
  /\ UNCHANGED <<sys, limits, crashes, dir, ddir, mmap_limit_, fd_limit_, opens, renaming, known, synced, written>>

\* Windows does not delete or move what is open.
Movable(n) == sys = "win" => Readers(dir[n]) \cup Writers(dir[n]) = {}

Unlinked(n) ==
  /\ dir[n] # 0
  /\ dir' = [dir EXCEPT ![n] = 0] /\ known' = known \ {n}
  /\ UNCHANGED <<sys, limits, crashes, ddir, ino, handle, mmap_limit_, fd_limit_, opens, renaming, synced, written>>

DeleteFile(n)      == sys = "posix" /\ Unlinked(n)
BoostDeleteFile(n) == sys = "boost" /\ Unlinked(n)
WinDeleteFile(n)   == sys = "win" /\ Movable(n) /\ Unlinked(n)

Moved(m, n) ==
  /\ m # n /\ dir[m] # 0
  /\ dir' = [dir EXCEPT ![n] = dir[m], ![m] = 0] /\ known' = known \ {m}
  /\ UNCHANGED <<sys, limits, crashes, ddir, ino, handle, mmap_limit_, fd_limit_, opens, renaming, synced, written>>

RenameFile(m, n)      == sys = "posix" /\ Moved(m, n)
BoostRenameFile(m, n) == sys = "boost" /\ Moved(m, n)

\* DeleteFileW(target), whatever it says, and then MoveFileExW.
WinRenameFile(m, n) ==
  /\ sys = "win" /\ m # n /\ renaming = NoMove /\ dir[m] # 0
  /\ renaming' = [from |-> m, to |-> n]
  /\ dir' = [dir EXCEPT ![n] = IF dir[n] # 0 /\ Movable(n) THEN 0 ELSE @]
  /\ UNCHANGED <<sys, limits, crashes, ddir, ino, handle, mmap_limit_, fd_limit_, opens, known, synced, written>>

WinMoveFile ==
  /\ renaming # NoMove /\ renaming' = NoMove
  /\ dir' = IF dir[renaming.from] # 0 /\ dir[renaming.to] = 0 /\ Movable(renaming.from)
            THEN [dir EXCEPT ![renaming.to] = dir[renaming.from], ![renaming.from] = 0] ELSE dir
  /\ UNCHANGED <<sys, limits, crashes, ddir, ino, handle, mmap_limit_, fd_limit_, opens, known, synced, written>>

\* Handles and buffers are gone; of what was not synced, any part.
Crash ==
  /\ crashes < MaxCrashes /\ crashes' = crashes + 1
  /\ dir # ddir \/ \E u \in Users : handle[u] # Closed
  /\ \E late \in SUBSET {n \in Names : dir[n] # ddir[n]} : dir' = [n \in Names |-> IF n \in late THEN dir[n] ELSE ddir[n]]
  /\ ddir' = dir'
  /\ \E kept \in SUBSET {i \in Inodes : ino[i].os # ino[i].disk} :
       ino' = [i \in Inodes |-> LET d == IF i \in kept THEN ino[i].os ELSE ino[i].disk
                                IN  [os |-> d, disk |-> d]]
  /\ handle' = [u \in Users |-> Closed]
  /\ mmap_limit_' = limits[1] /\ fd_limit_' = limits[2]
  /\ renaming' = NoMove
  /\ written' = [i \in Inodes |-> ino'[i].os]
  /\ UNCHANGED <<sys, limits, opens, known, synced>>

fiNext ==
  \/ \E u \in Users, n \in Names :
       \/ PosixSequentialFile(u, n) \/ BoostSequentialFile(u, n) \/ WinSequentialFile(u, n)
       \/ NewRandomAccessFile(u, n) \/ BoostRandomAccessFile(u, n) \/ WinRandomAccessFile(u, n)
       \/ NewWritableFile(u, n) \/ BoostFile(u, n) \/ WinFile(u, n) \/ NewAppendableFile(u, n)
  \/ \E u \in Users :
       \/ MmapFile(u) \/ MmapFails(u) \/ DeleteReader(u) \/ PosixAppend(u) \/ BoostAppend(u) \/ WinAppend(u)
       \/ Flush(u) \/ Sync(u) \/ SyncFails(u) \/ BoostSync(u) \/ WinSync(u) \/ CloseFile(u)
  \/ \E n \in Names : DeleteFile(n) \/ BoostDeleteFile(n) \/ WinDeleteFile(n)
  \/ \E m, n \in Names : RenameFile(m, n) \/ BoostRenameFile(m, n) \/ WinRenameFile(m, n)
  \/ WinMoveFile
  \/ Crash

fiSpec == fiInit /\ [][fiNext]_fiVars

--------------------------------------------------------------------------------
\* What Read(0, n) of a reader returns: what there is, up to n bytes.
Bytes(i, n) == SubSeq(ino[i].os, 1, IF n < Len(ino[i].os) THEN n ELSE Len(ino[i].os))

DescriptorRead(h, n) == [ok |-> TRUE, bytes |-> Bytes(h.i, n)]
\* A mapping has the length it was made with.
MmapRead(h, n) == [ok |-> n <= h.len, bytes |-> Bytes(h.i, n)]
\* Without a descriptor the file is opened by its name for every read.
TemporaryRead(h, n) == IF dir[h.name] = 0 THEN [ok |-> FALSE, bytes |-> <<>>]
                       ELSE [ok |-> TRUE, bytes |-> Bytes(dir[h.name], n)]
Read(u, n) ==
  CASE handle[u].kind = "mmap" -> MmapRead(handle[u], n)
    [] handle[u].kind = "temp" -> TemporaryRead(handle[u], n)
    [] OTHER                   -> DescriptorRead(handle[u], n)

(***************************************************************************)
(* The limits count exactly the mappings and the descriptors that are kept *)
(* open, through every order of opening, deleting and crashing (Limiter;   *)
(* PosixRandomAccessFile keeps a place only if it got one).                *)
(***************************************************************************)
LimitsBalanced ==
  LET kept(k) == Cardinality({u \in Users : handle[u].kind = k})
  IN  sys = "posix" => /\ mmap_limit_ = limits[1] - kept("mmap")
                       /\ fd_limit_ = limits[2] - kept("pread")

(***************************************************************************)
(* What a Sync confirmed is in the file after any crash, and every file    *)
(* that was there when a MANIFEST was synced still has its name ("Ensure   *)
(* new files referred to by the manifest are in the filesystem"); a name   *)
(* is given up only by DeleteFile and RenameFile.  BoostFile::Sync         *)
(* promises nothing of the kind.                                           *)
(***************************************************************************)
SyncedKept ==
  /\ \A i \in Inodes : synced[i] = SubSeq(ino[i].os, 1, Len(synced[i]))
  /\ \A n \in known : dir[n] # 0

(***************************************************************************)
(* Once its writers have closed a file, a reader of any kind that has it   *)
(* open reads all that was appended to it, and nothing of a file that had  *)
(* the name before; a file that is opened by name at every read may be     *)
(* gone or another one (PosixRandomAccessFile's temporary_fd_, the buffers *)
(* of PosixWritableFile and BoostFile).                                    *)
(***************************************************************************)
ReadsComplete ==
  \A u \in Users :
    LET h == handle[u]
    IN  h.kind \in {"seq", "pread", "mmap", "temp"} /\ Writers(h.i) = {} =>
          \A n \in 1 .. Len(written[h.i]) :
            \/ Read(u, n).ok /\ Read(u, n).bytes = SubSeq(written[h.i], 1, n)
            \/ h.kind = "mmap" /\ n > h.len
            \/ h.kind = "temp" /\ dir[h.name] # h.i

(***************************************************************************)
(* What an Env promises of its files, through every order of opening,      *)
(* appending, syncing, renaming, deleting and crashing.                    *)
(***************************************************************************)
FilesSound == LimitsBalanced /\ SyncedKept /\ ReadsComplete
================================================================================
