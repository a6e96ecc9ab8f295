--------------------------------- MODULE MemEnv ---------------------------------
(***************************************************************************)
(* InMemoryEnv (memenv.cc): files as reference-counted blocks of memory,   *)
(* a map of names, and the handles clients hold while names are deleted,   *)
(* replaced and renamed.                                                   *)
(*                                                                         *)
(* A file is a number; one whose refs_ fell to 0 is deleted.  Bytes are    *)
(* numbers, so that a byte read from the wrong place shows.                *)
(***************************************************************************)
EXTENDS Integers, Sequences, FiniteSets

CONSTANTS
  MemNames, FileIds, MemUsers,
  kBlockSize,
  MaxBytes,       \* bound on the size of a file
  Chunks          \* the sizes of an Append

VARIABLES
  file_map_,      \* name -> file, Null for an entry without one, 0 if absent
  mem,            \* file -> refs_, size_, blocks_
  held,           \* holder -> file and whether it writes
  appended,       \* ghost: what was appended to a file
  leaked,         \* ghost: files NewAppendableFile created
  crashed         \* a NULL FileState was used

meVars == <<file_map_, mem, held, appended, leaked, crashed>>

Null    == -1
NoFile  == [refs |-> 0, size |-> 0, blocks |-> <<>>]
Nothing == [f |-> 0, kind |-> "none", pos |-> 0]

meInit ==
  /\ file_map_ = [n \in MemNames |-> 0]
  /\ mem = [f \in FileIds |-> NoFile]
  /\ held = [h \in MemUsers |-> Nothing]
  /\ appended = [f \in FileIds |-> <<>>]
  /\ leaked = {} /\ crashed = FALSE

\* FileState::Unref deletes the file with its last reference.
Unref(m, f) ==
  [m EXCEPT ![f] = IF @.refs = 1 THEN NoFile ELSE [@ EXCEPT !.refs = @ - 1]]

Ref(m, f)  == [m EXCEPT ![f].refs = @ + 1]
Fresh      == CHOOSE f \in FileIds : mem[f].refs = 0
HasFresh   == \E f \in FileIds : mem[f].refs = 0

\* The file a name has is released before the name is used again.
DeleteFileInternal(m, n) == IF file_map_[n] = 0 THEN m ELSE Unref(m, file_map_[n])

\* A NULL FileState is used: the program ends here.
Segfault(n) == file_map_[n] = Null /\ crashed' = TRUE /\ UNCHANGED <<file_map_, mem, held, appended, leaked>>

\* NewSequentialFile and NewRandomAccessFile
NewReader(h, n, k) ==
  /\ held[h] = Nothing /\ file_map_[n] \in FileIds
  /\ mem' = Ref(mem, file_map_[n])
  /\ held' = [held EXCEPT ![h] = [f |-> file_map_[n], kind |-> k, pos |-> 0]]
  /\ UNCHANGED <<file_map_, appended, leaked, crashed>>

\* The file the name had is left to its handles, which release it twice.
NewWritableFile(h, n) ==
  LET d == DeleteFileInternal(mem, n)
      f == Fresh
  IN  /\ held[h] = Nothing /\ HasFresh /\ file_map_[n] # Null
      /\ mem' = [d EXCEPT ![f] = [NoFile EXCEPT !.refs = 2]]
      /\ file_map_' = [file_map_ EXCEPT ![n] = f]
      /\ appended' = [appended EXCEPT ![f] = <<>>]
      /\ held' = [held EXCEPT ![h] = [f |-> f, kind |-> "write", pos |-> 0]]
      /\ UNCHANGED <<leaked, crashed>>

\* A new file is not entered in the map, which keeps a NULL for the name and
\* never gives up the reference taken for it.
NewAppendableFile(h, n) ==
  LET new == file_map_[n] \notin FileIds
      f   == IF new THEN Fresh ELSE file_map_[n]
  IN  /\ held[h] = Nothing /\ (new => HasFresh)
      /\ file_map_' = [file_map_ EXCEPT ![n] = IF new THEN Null ELSE @]
      /\ mem' = IF new THEN [mem EXCEPT ![f] = [NoFile EXCEPT !.refs = 2]] ELSE Ref(mem, f)
      /\ appended' = IF new THEN [appended EXCEPT ![f] = <<>>] ELSE appended
      /\ held' = [held EXCEPT ![h] = [f |-> f, kind |-> "write", pos |-> 0]]
      /\ leaked' = IF new THEN leaked \cup {f} ELSE leaked
      /\ UNCHANGED crashed

Release(h) ==
  /\ held[h] # Nothing
  /\ mem' = Unref(mem, held[h].f) /\ held' = [held EXCEPT ![h] = Nothing]
  /\ UNCHANGED <<file_map_, appended, leaked, crashed>>

DeleteFile(n) ==
  /\ file_map_[n] \in FileIds
  /\ mem' = DeleteFileInternal(mem, n) /\ file_map_' = [file_map_ EXCEPT ![n] = 0]
  /\ UNCHANGED <<held, appended, leaked, crashed>>

RenameFile(m, n) ==
  /\ m # n /\ file_map_[m] # 0 /\ file_map_[n] # Null
  /\ mem' = DeleteFileInternal(mem, n)
  /\ file_map_' = [file_map_ EXCEPT ![n] = file_map_[m], ![m] = 0]
  /\ UNCHANGED <<held, appended, leaked, crashed>>

\* FileState::Append, block by block.
RECURSIVE Written(_, _)
Written(s, data) ==
  LET off   == s.size % kBlockSize
      room  == kBlockSize - off
      n     == IF room < Len(data) THEN room ELSE Len(data)
      b     == IF off = 0 THEN Append(s.blocks, <<>>) ELSE s.blocks
      t     == [s EXCEPT !.size = @ + n, !.blocks = [b EXCEPT ![Len(b)] = @ \o SubSeq(data, 1, n)]]
  IN  IF data = <<>> THEN s ELSE Written(t, SubSeq(data, n + 1, Len(data)))

Append_(h, n) ==
  LET f    == held[h].f
      data == [i \in 1 .. n |-> 10 * f + mem[f].size + i]
  IN  /\ held[h].kind = "write" /\ mem[f].size + n <= MaxBytes
      /\ mem' = [mem EXCEPT ![f] = Written(mem[f], data)]
      /\ appended' = [appended EXCEPT ![f] = @ \o data]
      /\ UNCHANGED <<file_map_, held, leaked, crashed>>

\* The copying loop of FileState::Read.
RECURSIVE Copied(_, _, _, _)
Copied(s, block, off, n) ==
  LET avail == IF kBlockSize - off > n THEN n ELSE kBlockSize - off
  IN  IF n = 0 THEN <<>>
      ELSE SubSeq(s.blocks[block + 1], off + 1, off + avail) \o Copied(s, block + 1, 0, n - avail)

Read(s, offset, n) ==
  LET m == IF n > s.size - offset THEN s.size - offset ELSE n
  IN  IF offset > s.size THEN [ok |-> FALSE, bytes |-> <<>>]
      ELSE [ok |-> TRUE, bytes |-> IF m = 0 THEN <<>>
                                   ELSE Copied(s, offset \div kBlockSize, offset % kBlockSize, m)]

\* SequentialFileImpl: Read moves pos_ by what it got, Skip stops at the end.
SequentialRead(h, n) ==
  /\ held[h].kind = "seq" /\ Read(mem[held[h].f], held[h].pos, n).ok
  /\ held' = [held EXCEPT ![h].pos = @ + Len(Read(mem[held[h].f], held[h].pos, n).bytes)]
  /\ UNCHANGED <<file_map_, mem, appended, leaked, crashed>>

Skip(h, n) ==
  LET left == mem[held[h].f].size - held[h].pos
  IN  /\ held[h].kind = "seq" /\ left >= 0
      /\ held' = [held EXCEPT ![h].pos = @ + (IF n > left THEN left ELSE n)]
      /\ UNCHANGED <<file_map_, mem, appended, leaked, crashed>>

meNext ==
  /\ ~crashed
  /\ \/ \E h \in MemUsers, n \in MemNames :
          \/ \E k \in {"seq", "random"} : NewReader(h, n, k)
          \/ NewWritableFile(h, n) \/ NewAppendableFile(h, n)
     \/ \E h \in MemUsers : Release(h) \/ \E n \in Chunks : Append_(h, n) \/ SequentialRead(h, n) \/ Skip(h, n)
     \/ \E n \in MemNames : DeleteFile(n) \/ Segfault(n)
     \/ \E m, n \in MemNames : RenameFile(m, n)

--------------------------------------------------------------------------------
(***************************************************************************)
(* A file lives as long as a name or a handle refers to it, its count says *)
(* how many do, and whoever holds it reads at every offset what was        *)
(* appended to it, across the borders of its blocks, although its name was *)
(* deleted, renamed or given to another file (FileState, InMemoryEnv).  A  *)
(* file NewAppendableFile creates keeps one count nobody owns.             *)
(***************************************************************************)
MemFilesExact ==
  /\ \A f \in FileIds :
       LET refs == Cardinality({n \in MemNames : file_map_[n] = f})
                   + Cardinality({h \in MemUsers : held[h].f = f})
       IN  mem[f].refs = refs + (IF f \in leaked THEN 1 ELSE 0)
  /\ \A h \in MemUsers : held[h] # Nothing =>
       LET f == held[h].f
       IN  \A off \in 0 .. MaxBytes, n \in 1 .. MaxBytes :
             off <= mem[f].size =>
               Read(mem[f], off, n) =
                 [ok |-> TRUE,
                  bytes |-> SubSeq(appended[f], off + 1,
                                   IF off + n < Len(appended[f]) THEN off + n ELSE Len(appended[f]))]
================================================================================
