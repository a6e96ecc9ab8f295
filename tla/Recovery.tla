-------------------------------- MODULE Recovery -------------------------------
(***************************************************************************)
(* The files of a database (db_impl.cc, version_set.cc, filename.cc,       *)
(* builder.cc): creating, opening, writing and compacting it, with a crash *)
(* of the process or of the machine after every operation on a file.       *)
(*                                                                         *)
(* A file is a sequence of records, of which a machine crash keeps the     *)
(* synced ones and any of the next.  A crash, or a failed append to the    *)
(* manifest, may leave a part of a record at the end of a file (`torn'):   *)
(* no reader returns it, but what is appended behind it may be lost with   *)
(* it (`spoilt', see Log.tla).  Creating, renaming and deleting a file,    *)
(* and writing a table, is atomic and lasts.  A write is its sequence      *)
(* number; all writes are to one key, so tables of level 0 must be ordered *)
(* by their numbers.                                                       *)
(* The background thread and a writer run concurrently (`pc' and `w'),     *)
(* DBImpl.tla has their locks and waits.                                   *)
(***************************************************************************)
EXTENDS Integers, Sequences, FiniteSets, SequencesExt

CONSTANTS
  MaxWrites,        \* sequence numbers
  Settings          \* options of the database, and bounds on what is done with it

ASSUME RecoveryAssumption ==
  /\ MaxWrites \in Nat
  /\ Settings \subseteq [writes : 0 .. MaxWrites, crashes : Nat, machine : BOOLEAN, faults : Nat,
                         pins : Nat, write_buffer_size : Nat, reuse_logs : BOOLEAN]
\* Not both: a crash of the machine may take the record of a first manifest that NewDB did
\* not sync, and that reuse_logs goes on using, and the writes of a log used on with it.
ASSUME NoReuseBeyondMachine == \A s \in Settings : ~(s.machine /\ s.reuse_logs)

VARIABLES
  options_,   \* one of Settings
  files,      \* <<type, number>> -> the records a reader returns, and how many are synced
  torn,       \* files that end with a part of a record
  spoilt,     \* files in which something was appended behind such a part
  pc,         \* what the opening or the background thread does next
  vs,         \* VersionSet in memory
  job,        \* the edit being applied
  pending,    \* logs still to be recovered
  mem_, imm_, has_mem_, has_imm_, logfile_number_,
  bg_error_,
  w,          \* the write going on
  pinned,     \* versions referenced by iterators
  crashes, faults, created

vars == <<options_, files, torn, spoilt, pc, vs, job, pending, mem_, imm_, has_mem_, has_imm_, logfile_number_, bg_error_, w,
          pinned, crashes, faults, created>>
MaxCrashes      == options_.crashes             \* crashes and closings
MachineCrashes  == options_.machine             \* whether the machine may crash
MaxFaults       == options_.faults              \* manifest writes that fail
MaxPins         == options_.pins                \* iterators
WriteBufferSize == options_.write_buffer_size   \* records for which a memtable has room
ReuseLogs       == options_.reuse_logs

memory == <<mem_, imm_, has_mem_, has_imm_, logfile_number_>>

CURRENT == <<"CURRENT", 0>>
Descriptor(n) == <<"MANIFEST", n>>
LogFile(n) == <<"log", n>>
TableFile(n) == <<"table", n>>
TempFile(n) == <<"dbtmp", n>>
Exists(f) == f \in DOMAIN files

With(f, file) == [g \in DOMAIN files \cup {f} |-> IF g = f THEN file ELSE files[g]]
NewFile(f, recs, synced) == files' = With(f, [recs |-> recs, synced |-> synced]) /\ torn' = torn \ {f}
\* A record, or a part of one, is added to a file; `found' says whether a reader will find
\* it if a torn record comes before it.
AppendTo(f, rec, found) ==
  /\ files' = IF f \in torn /\ ~found THEN files ELSE [files EXCEPT ![f].recs = Append(@, rec)]
  /\ spoilt' = spoilt \cup ({f} \cap torn) /\ UNCHANGED torn
Tear(names) == torn' = torn \cup names /\ spoilt' = spoilt \cup (names \cap torn)
Content(recs) == [recs |-> recs, synced |-> Len(recs)]
Without(fs, names) == [f \in DOMAIN fs \ names |-> fs[f]]

NoVersions == [version |-> {}, next |-> 2, last |-> 0, log |-> 0, manifest |-> 0, descriptor |-> FALSE]
NoEdit == [has |-> FALSE, log |-> 0, next |-> 0, last |-> 0, added |-> {}, deleted |-> {}]
NoJob == [edit |-> NoEdit, save |-> FALSE, fresh |-> FALSE, opening |-> TRUE, output |-> FALSE]
NoWrite == [at |-> "idle", sync |-> FALSE]

Init ==
  /\ options_ \in Settings
  /\ files = << >> /\ torn = {} /\ spoilt = {} /\ pc = "closed" /\ vs = NoVersions /\ job = NoJob /\ pending = {}
  /\ mem_ = {} /\ imm_ = {} /\ has_mem_ = FALSE /\ has_imm_ = FALSE /\ logfile_number_ = 0
  /\ bg_error_ = FALSE /\ w = NoWrite /\ pinned = << >> /\ crashes = 0 /\ faults = 0 /\ created = FALSE

-----------------------------------------------------------------------------
(* What the files say *)

\* Builder::Apply and SaveTo.
ApplyEdit(version, edit) == (version \ edit.deleted) \cup edit.added

\* VersionSet::Recover reads a manifest: the files added and not deleted later, and the
\* numbers of the last record that has some (a snapshot has none).
ReadManifest(recs) ==
  LET numbered == {n \in DOMAIN recs : recs[n].has}
      kept(n)  == recs[n].added \ UNION {recs[m].deleted : m \in n + 1 .. Len(recs)}
      latest   == recs[Max(numbered)]
  IN  IF numbered = {} THEN NoEdit
      ELSE [NoEdit EXCEPT !.has = TRUE, !.log = latest.log, !.next = latest.next, !.last = latest.last,
                          !.added = UNION {kept(n) : n \in DOMAIN recs}]

\* The state the files describe, or what is synced of them: the manifest and the logs
\* behind it.
Recs(f, synced) == IF synced THEN SubSeq(files[f].recs, 1, files[f].synced) ELSE files[f].recs
Manifest(synced) ==
  LET n == IF Exists(CURRENT) THEN files[CURRENT].recs[1] ELSE 0
  IN  IF Exists(Descriptor(n)) THEN ReadManifest(Recs(Descriptor(n), synced)) ELSE NoEdit
Logs(min_log) == {f[2] : f \in {f \in DOMAIN files : f[1] = "log" /\ f[2] >= min_log}}
TableEntries(version) == UNION {files[TableFile(t.num)].recs[1] : t \in version}
Missing(version) == {t \in version : ~Exists(TableFile(t.num))}
Complete(m) == m.has /\ Missing(m.added) = {}
Openable(synced) == Complete(Manifest(synced))
Recoverable(synced) ==
  UNION {TableEntries(m.added) \cup UNION {ToSet(Recs(LogFile(n), synced)) : n \in Logs(m.log)} :
           m \in {m \in {Manifest(synced)} : Complete(m)}}

-----------------------------------------------------------------------------
(* DB::Open *)

NewDBEdit == [NoEdit EXCEPT !.has = TRUE, !.next = 2]
Open ==
  /\ pc = "closed"
  /\ pc' = IF Exists(CURRENT) THEN "recover" ELSE "newdb"
  /\ UNCHANGED <<files, torn, spoilt, vs, job, pending, memory, bg_error_, w, pinned, crashes, faults, created>>

\* NewDB writes the first manifest, closes it, and makes it current.
NewDB ==
  /\ pc = "newdb" /\ pc' = "tmp"
  /\ NewFile(Descriptor(1), <<NewDBEdit>>, 0)
  /\ job' = [NoJob EXCEPT !.fresh = TRUE] /\ vs' = [NoVersions EXCEPT !.manifest = 1]
  /\ UNCHANGED <<spoilt, pending, memory, bg_error_, w, pinned, crashes, faults, created>>

\* SetCurrentFile: a temporary file, synced, and a rename.
WriteTemp ==
  /\ pc = "tmp" /\ pc' = "rename"
  /\ NewFile(TempFile(vs.manifest), <<vs.manifest>>, 1)
  /\ UNCHANGED <<spoilt, vs, job, pending, memory, bg_error_, w, pinned, crashes, faults, created>>
RenameCurrent ==
  /\ pc = "rename" /\ pc' = IF job.edit.has THEN "install" ELSE "recover"
  /\ files' = Without(With(CURRENT, files[TempFile(vs.manifest)]), {TempFile(vs.manifest)})
  /\ UNCHANGED <<torn, spoilt, vs, job, pending, memory, bg_error_, w, pinned, crashes, faults, created>>

\* VersionSet::Recover with ReuseManifest, and the logs DBImpl::Recover finds.  A loss that
\* the reader reports makes it fail (only behind a torn record).
Recover ==
  LET m == Manifest(FALSE) IN
  /\ pc = "recover"
  /\ \/ /\ ~Openable(FALSE) \/ Descriptor(files[CURRENT].recs[1]) \in spoilt
        /\ pc' = "failed" /\ UNCHANGED <<vs, job, pending>>
     \/ /\ Openable(FALSE) /\ pc' = "logs"
          /\ vs' = [version |-> m.added, last |-> m.last, log |-> m.log, next |-> m.next + 1,
                    manifest |-> IF ReuseLogs THEN files[CURRENT].recs[1] ELSE m.next,
                    descriptor |-> ReuseLogs]
          /\ job' = [NoJob EXCEPT !.save = ~ReuseLogs, !.edit.has = TRUE]
          /\ pending' = Logs(m.log)
  /\ UNCHANGED <<files, torn, spoilt, memory, bg_error_, w, pinned, crashes, faults, created>>

\* RecoverLogFile: a table for each full memtable and for what is left, unless the last
\* log goes on being used.  (Faulty variant: the logs are not sorted.)
Chunks(recs) ==
  LET size == WriteBufferSize + 1
      n    == (Len(recs) + size - 1) \div size
  IN  [i \in 1 .. n |-> ToSet(SubSeq(recs, size * (i - 1) + 1, Min({size * i, Len(recs)})))]
ReplayLog(n) ==
  LET recs   == files[LogFile(n)].recs
      reuse  == ReuseLogs /\ pending = {n} /\ Len(recs) <= WriteBufferSize
      chunks == IF reuse THEN << >> ELSE Chunks(recs)
      new    == {[num |-> vs.next + i - 1, level |-> 0] : i \in DOMAIN chunks}
      built  == {TableFile(t.num) : t \in new}
      used   == vs.next + Len(chunks)
  IN
  /\ pc = "logs" /\ pending' = pending \ {n}
  /\ files' = [f \in DOMAIN files \cup built |->
                IF f \in built THEN Content(<<chunks[f[2] - vs.next + 1]>>) ELSE files[f]]
  /\ job' = [job EXCEPT !.save = @ \/ new # {}, !.edit.added = @ \cup new]
  /\ vs' = [vs EXCEPT !.next = Max({used, n + 1}),
                      !.last = Max({@} \cup ToSet(recs))]
  /\ mem_' = (IF reuse THEN ToSet(recs) ELSE mem_) /\ has_mem_' = reuse
  /\ logfile_number_' = IF reuse THEN n ELSE logfile_number_
  /\ UNCHANGED <<torn, spoilt, pc, imm_, has_imm_, bg_error_, w, pinned, crashes, faults, created>>
RecoverLogFile_Unsorted == \E n \in pending : (\A m \in pending : m <= n) /\ ReplayLog(n)
RecoverLogFile == \E n \in pending : (\A m \in pending : n <= m) /\ ReplayLog(n)

\* The rest of DB::Open: a log if none is reused, the manifest if it must be saved.
OpenLog ==
  /\ pc = "logs" /\ pending = {}
  /\ IF has_mem_ THEN UNCHANGED <<files, torn, vs, memory>>
     ELSE /\ NewFile(LogFile(vs.next), << >>, 0)
          /\ logfile_number_' = vs.next /\ has_mem_' = TRUE /\ mem_' = {}
          /\ vs' = [vs EXCEPT !.next = @ + 1]
          /\ UNCHANGED <<imm_, has_imm_>>
  /\ job' = [job EXCEPT !.edit.log = logfile_number_']
  /\ pc' = IF job.save THEN "apply" ELSE "gc"
  /\ UNCHANGED <<spoilt, pending, bg_error_, w, pinned, crashes, faults, created>>

-----------------------------------------------------------------------------
(* LogAndApply *)

Edit == [job.edit EXCEPT !.has = TRUE, !.next = vs.next, !.last = vs.last]
Snapshot == [NoEdit EXCEPT !.added = vs.version]

\* A new manifest begins with a snapshot of the current version.
WriteSnapshot ==
  /\ pc = "apply" /\ pc' = "add"
  /\ job' = [job EXCEPT !.edit = Edit, !.fresh = ~vs.descriptor]
  /\ IF vs.descriptor THEN UNCHANGED <<files, torn>> ELSE NewFile(Descriptor(vs.manifest), <<Snapshot>>, 0)
  /\ vs' = [vs EXCEPT !.descriptor = TRUE]
  /\ UNCHANGED <<spoilt, pending, memory, bg_error_, w, pinned, crashes, faults, created>>
\* The record is added and synced.  Behind a torn record VersionSet::Recover does not get to
\* it: it stops there, or fails.
AddEdit ==
  /\ pc = "add" /\ pc' = "sync"
  /\ AppendTo(Descriptor(vs.manifest), job.edit, FALSE)
  /\ UNCHANGED <<vs, job, pending, memory, bg_error_, w, pinned, crashes, faults, created>>
SyncManifest ==
  /\ pc = "sync" /\ pc' = IF job.fresh THEN "tmp" ELSE "install"
  /\ files' = [files EXCEPT ![Descriptor(vs.manifest)].synced = Len(files[Descriptor(vs.manifest)].recs)]
  /\ UNCHANGED <<torn, spoilt, vs, job, pending, memory, bg_error_, w, pinned, crashes, faults, created>>

\* Either step fails: the record may be in the file, or not, or in part.  While opening,
\* the new manifest is removed and Open fails; later it becomes the background error,
\* and a level compaction calls DeleteObsoleteFiles all the same.
ManifestFails ==
  /\ pc \in {"add", "sync"} /\ faults < MaxFaults /\ faults' = faults + 1
  /\ \E names \in SUBSET {Descriptor(vs.manifest)} : (names # {} => pc = "add") /\ Tear(names)
  /\ IF job.opening
     THEN /\ pc' = "failed" /\ UNCHANGED bg_error_
          /\ files' = IF job.fresh THEN Without(files, {Descriptor(vs.manifest)}) ELSE files
     ELSE /\ pc' = (IF job.output THEN "gc" ELSE "open")
          /\ bg_error_' = TRUE /\ UNCHANGED files
  /\ job' = [NoJob EXCEPT !.opening = job.opening]
  /\ UNCHANGED <<vs, pending, memory, w, pinned, crashes, created>>

\* AppendVersion; after a memtable compaction the memtable goes.
Install ==
  /\ pc = "install" /\ pc' = "gc"
  /\ vs' = [vs EXCEPT !.version = ApplyEdit(@, job.edit), !.log = job.edit.log]
  /\ IF ~job.opening /\ job.edit.log # vs.log THEN imm_' = {} /\ has_imm_' = FALSE ELSE UNCHANGED <<imm_, has_imm_>>
  /\ UNCHANGED <<files, torn, spoilt, job, pending, mem_, has_mem_, logfile_number_, bg_error_, w, pinned,
                 crashes, faults, created>>

\* DeleteObsoleteFiles.  (Faulty variant: versions that iterators use do not count.)
Live == UNION ({vs.version} \cup ToSet(pinned))
Keep(f, live) ==
  CASE f[1] = "log"      -> f[2] >= vs.log
    [] f[1] = "MANIFEST" -> f[2] >= vs.manifest
    [] f[1] = "table"    -> \E t \in live : t.num = f[2]
    [] f[1] = "dbtmp"    -> FALSE
    [] OTHER             -> TRUE
Collect(live) ==
  /\ pc = "gc" /\ pc' = "open"
  /\ files' = IF bg_error_ THEN files ELSE Without(files, {f \in DOMAIN files : ~Keep(f, live)})
  /\ torn' = torn \cap DOMAIN files'
  /\ job' = NoJob /\ created' = TRUE
  /\ UNCHANGED <<spoilt, vs, pending, memory, bg_error_, w, pinned, crashes, faults>>
DeleteObsoleteFiles_Current == Collect(vs.version)
DeleteObsoleteFiles == Collect(Live)

-----------------------------------------------------------------------------
(* The open database *)

Opened == pc \notin {"closed", "newdb", "recover", "logs", "failed"} /\ (pc = "open" \/ ~job.opening)

\* Write, in the steps between which the process may die.  (Faulty variant: no sync.)
MayWrite == Opened /\ w.at = "idle" /\ ~bg_error_ /\ vs.last < options_.writes
LogRecord(sync, next) ==
  /\ MayWrite
  /\ \E found \in BOOLEAN : AppendTo(LogFile(logfile_number_), vs.last + 1, found)
  /\ w' = [at |-> next, sync |-> sync]
  /\ UNCHANGED <<pc, vs, job, pending, memory, bg_error_, pinned, crashes, faults, created>>
AddRecord_NoSync(sync) == LogRecord(sync, "insert")
AddRecord(sync) == LogRecord(sync, IF sync THEN "sync" ELSE "insert")
SyncLog ==
  /\ w.at = "sync" /\ w' = [w EXCEPT !.at = "insert"]
  /\ files' = [files EXCEPT ![LogFile(logfile_number_)].synced = Len(files[LogFile(logfile_number_)].recs)]
  /\ UNCHANGED <<torn, spoilt, pc, vs, job, pending, memory, bg_error_, pinned, crashes, faults, created>>
InsertInto ==
  /\ w.at = "insert" /\ w' = NoWrite
  /\ mem_' = mem_ \cup {vs.last + 1} /\ vs' = [vs EXCEPT !.last = @ + 1]
  /\ UNCHANGED <<files, torn, spoilt, pc, job, pending, imm_, has_mem_, has_imm_, logfile_number_, bg_error_, pinned,
                 crashes, faults, created>>

MakeRoomForWrite ==
  /\ Opened /\ w.at = "idle" /\ ~bg_error_ /\ ~has_imm_ /\ Cardinality(mem_) > WriteBufferSize
  /\ NewFile(LogFile(vs.next), << >>, 0)
  /\ imm_' = mem_ /\ has_imm_' = TRUE /\ mem_' = {} /\ logfile_number_' = vs.next
  /\ vs' = [vs EXCEPT !.next = @ + 1]
  /\ UNCHANGED <<spoilt, pc, job, pending, has_mem_, bg_error_, w, pinned, crashes, faults, created>>

\* A table file is written and synced; its edit is applied next.
BuildTable(num, entries) == NewFile(TableFile(num), <<entries>>, 1)
StartApply(added, deleted, log, output) ==
  /\ pc' = "apply"
  /\ job' = [edit |-> [NoEdit EXCEPT !.added = added, !.deleted = deleted, !.log = log],
             save |-> TRUE, fresh |-> FALSE, opening |-> FALSE, output |-> output]
  /\ UNCHANGED <<spoilt, pending, memory, bg_error_, w, pinned, crashes, faults, created>>

\* (Faulty variant: the edit already drops the log of the new memtable.)
FlushTo(log) ==
  /\ pc = "open" /\ has_imm_ /\ ~bg_error_
  /\ BuildTable(vs.next, imm_) /\ vs' = [vs EXCEPT !.next = @ + 1]
  /\ StartApply({[num |-> vs.next, level |-> 0]}, {}, log, FALSE)
CompactMemTable_Early == FlushTo(logfile_number_ + 1)
CompactMemTable == FlushTo(logfile_number_)

\* A level compaction merges level 0 into level 1, or moves a single table.
CompactLevel ==
  LET upper == {t \in vs.version : t.level = 0} IN
  /\ pc = "open" /\ ~has_imm_ /\ ~bg_error_ /\ upper # {}
  /\ IF Cardinality(vs.version) = 1
     THEN /\ StartApply({[num |-> t.num, level |-> 1] : t \in upper}, upper, vs.log, FALSE)
          /\ UNCHANGED <<files, torn, vs>>
     ELSE /\ BuildTable(vs.next, TableEntries(vs.version)) /\ vs' = [vs EXCEPT !.next = @ + 1]
          /\ StartApply({[num |-> vs.next, level |-> 1]}, vs.version, vs.log, TRUE)

NewIterator ==
  /\ Opened /\ Len(pinned) < MaxPins
  /\ pinned' = Append(pinned, vs.version)
  /\ UNCHANGED <<files, torn, spoilt, pc, vs, job, pending, memory, bg_error_, w, crashes, faults, created>>
CleanupIteratorState ==
  /\ \E i \in DOMAIN pinned : pinned' = RemoveAt(pinned, i)
  /\ UNCHANGED <<files, torn, spoilt, pc, vs, job, pending, memory, bg_error_, w, crashes, faults, created>>

\* The memory is gone.  The process may have died within AddRecord; of the files, a machine
\* crash keeps what was synced and more, up to any place in a record.
Appending == {f \in DOMAIN files : \/ MayWrite /\ f = LogFile(logfile_number_)
                                   \/ pc = "add" /\ f = Descriptor(vs.manifest)}
Lose(fs) ==
  /\ pc' = "closed" /\ vs' = NoVersions /\ job' = NoJob /\ pending' = {} /\ w' = NoWrite
  /\ mem_' = {} /\ imm_' = {} /\ has_mem_' = FALSE /\ has_imm_' = FALSE /\ logfile_number_' = 0
  /\ bg_error_' = FALSE /\ pinned' = << >>
  /\ files' = fs
  /\ UNCHANGED <<faults, created>>
Crash ==
  /\ pc # "closed" /\ crashes < MaxCrashes /\ crashes' = crashes + 1
  /\ \/ Lose(files) /\ \E names \in SUBSET Appending : Tear(names)
     \/ /\ MachineCrashes /\ UNCHANGED spoilt
        /\ LET U == {f \in DOMAIN files : files[f].synced < Len(files[f].recs)} IN
           \E keep \in [U -> UNION {files[f].synced .. Len(files[f].recs) : f \in U}] :
             /\ \A f \in U : files[f].synced <= keep[f] /\ keep[f] <= Len(files[f].recs)
             /\ Lose([f \in DOMAIN files |->
                        IF f \in U THEN Content(SubSeq(files[f].recs, 1, keep[f])) ELSE files[f]])
             /\ torn' \in SUBSET (torn \cup Appending \cup {f \in U : keep[f] < Len(files[f].recs)})
\* After a failed Open the object is deleted.
GiveUp == pc = "failed" /\ Lose(files) /\ UNCHANGED <<torn, spoilt, crashes>>

Rest == pc = "open" /\ crashes = MaxCrashes /\ UNCHANGED vars

Step ==
  \/ Open \/ NewDB \/ WriteTemp \/ RenameCurrent \/ Recover \/ RecoverLogFile \/ OpenLog
  \/ WriteSnapshot \/ AddEdit \/ SyncManifest \/ ManifestFails \/ Install \/ DeleteObsoleteFiles
  \/ (\E sync \in BOOLEAN : AddRecord(sync)) \/ SyncLog \/ InsertInto
  \/ MakeRoomForWrite \/ CompactMemTable \/ CompactLevel
  \/ NewIterator \/ CleanupIteratorState \/ Crash \/ GiveUp \/ Rest

Next == Step /\ UNCHANGED options_

Spec == Init /\ [][Next]_vars

-----------------------------------------------------------------------------
(* Properties *)

\* With reuse_logs a log and a manifest are used on although they may end with a part of a
\* record, and what is appended then may not be found again (ReturnedWritesFound).  The
\* properties say what holds until that happens.
Spoilt == spoilt # {}

\* The database implements KVStore: whatever step comes next, and wherever a crash
\* interrupts it, opening finds every stable write, none that was not made, and none is
\* made under a sequence number that is there already.  A crash of the process alone
\* takes nothing back.
KV == INSTANCE KVStore WITH Writes <- 1 .. MaxWrites, store <- Recoverable(FALSE),
                            stable <- Recoverable(MachineCrashes), lost <- Spoilt
ImplementsKVStore == KV!Spec

\* A write with sync that has returned is stable (options.h:187: it is flushed "before
\* the write is considered complete"), unless a manifest with records that nobody synced,
\* from NewDB or from before a crash, is used on (reuse_logs).
SyncWritesStable ==
  [][~ReuseLogs /\ w.at = "insert" /\ w.sync /\ pc' # "closed" /\ w' = NoWrite
       => vs.last + 1 \in Recoverable(TRUE)]_vars

\* Once a database has been opened it can be opened again after any crash or failed
\* manifest write; and the files of an iterator stay while it is in use, whatever is
\* compacted meanwhile (DeleteObsoleteFiles).
NeededFilesExist ==
  Spoilt \/ /\ created => Openable(FALSE) /\ (~ReuseLogs => Openable(TRUE))
            /\ \A i \in DOMAIN pinned : Missing(pinned[i]) = {}

\* New writes get sequence numbers, and new files numbers, that nothing in use has: also
\* when the crash came before the manifest knew of them.  Only the write going on has its
\* number already.
NumbersFresh ==
  Opened => /\ \A e \in Recoverable(FALSE) : e <= vs.last \/ (w.at # "idle" /\ e = vs.last + 1)
            /\ \A f \in DOMAIN files : f[2] < vs.next

\* Tables of level 0 are searched from the newest number: their numbers must follow the
\* age of their entries, also for the tables recovered from several logs.
LevelZeroOrdered ==
  \A s, t \in vs.version :
    (s.level = 1 /\ t.level = 0) \/ (s.level = 0 /\ t.level = 0 /\ s.num < t.num)
      => \A a \in files[TableFile(s.num)].recs[1], b \in files[TableFile(t.num)].recs[1] : a < b

\* An open database answers from its memtables and tables what opening it again would
\* find, except for a write that has not returned, with numbers and an order of level 0
\* that tell old from new (RecoverLogFile, Recover, MakeRoomForWrite).  And without
\* reuse_logs nothing is ever appended behind a torn record (LogAndApply, NewDB).
ReadsWhatIsThere ==
  /\ Spoilt \/ /\ Opened /\ ~bg_error_ /\ w.at = "idle" =>
                    mem_ \cup imm_ \cup TableEntries(vs.version) = Recoverable(FALSE)
               /\ NumbersFresh /\ LevelZeroOrdered
  /\ ~ReuseLogs => ~Spoilt

\* db_impl.cc:279: "the creation of the DB is committed only when the descriptor is
\* created": once CURRENT exists, the database can be opened.
CreationCommitted == Exists(CURRENT) => Openable(FALSE)

\* include/leveldb/options.h:193: "if it is just the process that crashes (i.e., the
\* machine does not reboot), no writes will be lost even if sync==false": a write that
\* returns is found when the database is opened again.
ReturnedWritesFound ==
  [][w.at = "insert" /\ w' = NoWrite /\ pc' # "closed" => vs.last + 1 \in Recoverable(FALSE)]_vars
=============================================================================
