-------------------------------- MODULE DBImpl ---------------------------------
(***************************************************************************)
(* The threads of DBImpl (db_impl.cc): clients in Write, CompactRange,     *)
(* SuspendCompaction and ResumeCompaction, the destructor, and the         *)
(* background thread.  A step is what a thread does between two points     *)
(* where it takes, releases or waits under mutex_, or one operation on a   *)
(* file while the mutex is free.                                           *)
(*                                                                         *)
(* A write is a number.  Memtables and tables are sets of entries          *)
(* [seq, id]; of the levels only the number of level-0 files counts        *)
(* (VersionSet.tla has the rest).  Waiting threads stay in `waiting' until *)
(* someone signals them, so a lost wakeup is a thread that never returns.  *)
(***************************************************************************)
EXTENDS Integers, Sequences, FiniteSets, SequencesExt

CONSTANTS
  Clients, Free, Bg, NULL,   \* threads, and nobody
  Kinds,                     \* the calls clients make
  MaxCalls,                  \* calls made
  MaxFaults,                 \* file operations that fail
  MaxSuspends,               \* SuspendCompaction calls
  WriteBufferSize,           \* entries for which a memtable has room
  MaxGroup,                  \* batches one writer may log for others
  kL0_CompactionTrigger, kL0_SlowdownWritesTrigger, kL0_StopWritesTrigger

ASSUME DBImplAssumption ==
  /\ Kinds \subseteq {"put", "syncput", "compact"}
  /\ {MaxCalls, MaxFaults, MaxSuspends, WriteBufferSize} \subseteq Nat /\ MaxGroup \in Nat \ {0}
  /\ 1 <= kL0_CompactionTrigger
  /\ kL0_CompactionTrigger <= kL0_SlowdownWritesTrigger
  /\ kL0_SlowdownWritesTrigger <= kL0_StopWritesTrigger

VARIABLES
  mutex_,            \* the thread that holds it, or Free
  writers_, call,    \* the queue of writers; what each client is doing
  waiting,           \* clients inside a condition variable
  mem_, imm_, has_imm_, tmp_batch_,
  last_sequence,
  logs,              \* log number -> what a reader returns of it, what of that is
                     \* synced, and what it may or may not return
  logfile_number_, log_number,   \* the log of mem_, the oldest one the manifest needs
  tables, num_l0,    \* entries of the current version, its level-0 files
  manual_compaction_, suspending_compaction_, shutting_down_, bg_error_,
  bg,                \* the background thread
  life,              \* of the object: "open", "closing", "closed", or "crashed"
  calls, faults, suspends, acked

vars == <<mutex_, writers_, call, waiting, mem_, imm_, has_imm_, tmp_batch_, last_sequence, logs,
          logfile_number_, log_number, tables, num_l0, manual_compaction_, suspending_compaction_,
          shutting_down_, bg_error_, bg, life, calls, faults, suspends, acked>>
memory   == <<mem_, imm_, has_imm_, logfile_number_>>
version  == <<tables, num_l0, log_number>>
flags    == <<suspending_compaction_, shutting_down_, suspends, life>>

Idle == [pc |-> "idle", kind |-> "put", id |-> 0, done |-> FALSE, ok |-> TRUE,
         force |-> FALSE, delay |-> FALSE, last |-> NULL, batch |-> << >>, error |-> FALSE]
NewLog == [recs |-> {}, synced |-> {}, doubt |-> {}]
NoWork == [at |-> "idle", inner |-> FALSE, manual |-> FALSE, taken |-> 0, ok |-> TRUE]

Init ==
  /\ mutex_ = Free /\ writers_ = << >> /\ waiting = {}
  /\ call = [c \in Clients |-> Idle]
  /\ mem_ = {} /\ imm_ = {} /\ has_imm_ = FALSE /\ tmp_batch_ = << >>
  /\ last_sequence = 0
  /\ logs = [n \in {1} |-> NewLog] /\ logfile_number_ = 1 /\ log_number = 1
  /\ tables = {} /\ num_l0 = 0
  /\ manual_compaction_ = NULL /\ suspending_compaction_ = FALSE /\ shutting_down_ = FALSE
  /\ bg_error_ = FALSE /\ bg = NoWork
  /\ life = "open" /\ calls = 0 /\ faults = 0 /\ suspends = 0 /\ acked = {}

Locks(t) == mutex_ \in {t, Free} /\ t \notin waiting /\ life # "crashed"
At(c, pc) == call[c].pc = pc
Set(c, r) == call' = [call EXCEPT ![c] = r]
NotifyAll == waiting' = {c \in waiting : At(c, "write")}   \* bg_cv_.SignalAll()
Fails(f) == f => faults < MaxFaults
CountFault(f) == faults' = faults + (IF f THEN 1 ELSE 0)

\* MaybeScheduleCompaction, given what the step makes of the state it looks at.
MaybeScheduleCompaction(work, imm, manual, l0, error) ==
  IF /\ work.at = "idle" /\ ~shutting_down_ /\ (imm \/ ~suspending_compaction_) /\ ~error
     /\ imm \/ manual # NULL \/ l0 >= kL0_CompactionTrigger
  THEN [NoWork EXCEPT !.at = "scheduled"] ELSE work

-----------------------------------------------------------------------------
(* Write *)

\* A client starts a call.  CompactRange begins with Write(NULL).
Call(c, kind) ==
  /\ Locks(c) /\ At(c, "idle") /\ life = "open" /\ calls < MaxCalls
  /\ calls' = calls + 1
  /\ call' = [call EXCEPT ![c] = [Idle EXCEPT !.pc = "write", !.kind = kind, !.id = calls + 1]]
  /\ writers_' = Append(writers_, c)
  /\ mutex_' = c
  /\ UNCHANGED <<waiting, memory, tmp_batch_, last_sequence, logs, version, manual_compaction_,
                 flags, bg_error_, bg, faults, acked>>

\* Where a client goes when Write has returned.
Returned(c, ok) ==
  [call[c] EXCEPT !.pc = IF call[c].kind # "compact" THEN "idle" ELSE IF ok THEN "memwait" ELSE "manual",
                  !.done = FALSE]
Acknowledge(S) == {call[c].id : c \in {c \in S : call[c].kind # "compact"}}

\* The wait until this writer is done or in front.
WaitTurn(c) ==
  LET front == Head(writers_) = c IN
  /\ Locks(c) /\ At(c, "write")
  /\ \/ /\ call[c].done
        /\ Set(c, Returned(c, call[c].ok))
        /\ acked' = acked \cup (IF call[c].ok THEN Acknowledge({c}) ELSE {})
        /\ mutex_' = Free /\ UNCHANGED waiting
     \/ /\ ~call[c].done /\ front
        /\ Set(c, [call[c] EXCEPT !.pc = "room", !.force = call[c].kind = "compact",
                                  !.delay = call[c].kind # "compact"])
        /\ mutex_' = c /\ UNCHANGED <<waiting, acked>>
     \/ /\ ~call[c].done /\ ~front
        /\ waiting' = waiting \cup {c} /\ mutex_' = Free /\ UNCHANGED <<call, acked>>
  /\ UNCHANGED <<writers_, memory, tmp_batch_, last_sequence, logs, version, manual_compaction_,
                 flags, bg_error_, bg, calls, faults>>

\* One round of MakeRoomForWrite.
Full(c) == call[c].force \/ Cardinality(mem_) > WriteBufferSize
Slow(c) == call[c].delay /\ num_l0 >= kL0_SlowdownWritesTrigger
RoomDone(c, ok) == Set(c, [call[c] EXCEPT !.pc = IF ok /\ call[c].kind # "compact" THEN "group" ELSE "finish",
                                          !.ok = ok, !.last = c])
Stay == UNCHANGED <<memory, logs, bg, faults>>

MakeRoomForWrite(c) ==
  /\ Locks(c) /\ At(c, "room")
  /\ \/ bg_error_ /\ RoomDone(c, FALSE) /\ mutex_' = c /\ UNCHANGED waiting /\ Stay
     \/ /\ ~bg_error_ /\ Slow(c)
        /\ Set(c, [call[c] EXCEPT !.pc = "sleep"]) /\ mutex_' = Free /\ UNCHANGED waiting /\ Stay
     \/ /\ ~bg_error_ /\ ~Slow(c) /\ (~Full(c) \/ suspending_compaction_)
        /\ RoomDone(c, TRUE) /\ mutex_' = c /\ UNCHANGED waiting /\ Stay
     \/ /\ ~bg_error_ /\ ~Slow(c) /\ Full(c) /\ ~suspending_compaction_
        /\ has_imm_ \/ num_l0 >= kL0_StopWritesTrigger
        /\ waiting' = waiting \cup {c} /\ mutex_' = Free /\ UNCHANGED call /\ Stay
     \/ /\ ~bg_error_ /\ ~Slow(c) /\ Full(c) /\ ~suspending_compaction_
        /\ ~has_imm_ /\ num_l0 < kL0_StopWritesTrigger
        /\ \E fails \in BOOLEAN :
             /\ Fails(fails) /\ CountFault(fails)
             /\ IF fails THEN RoomDone(c, FALSE) /\ UNCHANGED <<memory, logs, bg>>
                ELSE /\ logfile_number_' = logfile_number_ + 1
                     /\ logs' = [n \in DOMAIN logs \cup {logfile_number_'} |-> IF n = logfile_number_' THEN NewLog ELSE logs[n]]
                     /\ imm_' = mem_ /\ has_imm_' = TRUE /\ mem_' = {}
                     /\ Set(c, [call[c] EXCEPT !.force = FALSE])
                     /\ bg' = MaybeScheduleCompaction(bg, TRUE, manual_compaction_, num_l0, FALSE)
        /\ mutex_' = c /\ UNCHANGED waiting
  /\ UNCHANGED <<writers_, tmp_batch_, last_sequence, version, manual_compaction_, flags, bg_error_, calls, acked>>

\* The millisecond of SleepForMicroseconds.
WakeUp(c) ==
  /\ Locks(c) /\ At(c, "sleep")
  /\ Set(c, [call[c] EXCEPT !.pc = "room", !.delay = FALSE]) /\ mutex_' = c
  /\ UNCHANGED <<writers_, waiting, memory, tmp_batch_, last_sequence, logs, version,
                 manual_compaction_, flags, bg_error_, bg, calls, faults, acked>>

\* Which of the first n writers have a batch: CompactRange's Write(NULL) has none.
Puts(n) == {i \in 1 .. n : call[writers_[i]].kind # "compact"}

\* BuildBatchGroup: the writers a group takes, from the front.  (Faulty variant: it
\* takes writers that want a sync although the first one does not.)
Group(syncs) ==
  LET first  == call[Head(writers_)]
      may(n) == \A i \in 2 .. n : /\ call[writers_[i]].kind = "syncput" => syncs \/ first.kind = "syncput"
                                  /\ i \in Puts(i) => Cardinality(Puts(i)) <= MaxGroup
  IN  Max({n \in 1 .. Len(writers_) : may(n)})
BuildBatchGroup_Sync == Group(TRUE)
BuildBatchGroup == Group(FALSE)

\* The group's batch, numbered; the mutex is released.  (Faulty variants: all
\* get the same number; they become visible before the entries are there.)
Number(c, step, last) ==
  LET n     == BuildBatchGroup
      k     == Cardinality(Puts(n))
      ids   == [r \in 1 .. k |-> call[writers_[CHOOSE i \in Puts(n) : Cardinality(Puts(i)) = r]].id]
      batch == (IF k > 1 THEN tmp_batch_ ELSE << >>) \o ids
  IN
  /\ Locks(c) /\ At(c, "group")
  /\ tmp_batch_' = IF k > 1 THEN batch ELSE tmp_batch_
  /\ Set(c, [call[c] EXCEPT !.pc = "log", !.last = writers_[n],
            !.batch = [i \in DOMAIN batch |-> [seq |-> last_sequence + 1 + step * (i - 1), id |-> batch[i]]]])
  /\ last_sequence' = last /\ mutex_' = Free
  /\ UNCHANGED <<writers_, waiting, memory, logs, version, manual_compaction_,
                 flags, bg_error_, bg, calls, faults, acked>>
StartLogging_Same(c) == Number(c, 0, last_sequence)
StartLogging_Early(c) == Number(c, 1, last_sequence + 1)
StartLogging(c) == Number(c, 1, last_sequence)

\* AddRecord, Sync and InsertInto run without the mutex.  A failed AddRecord leaves
\* nothing, a part or all of its record in the file and the writer's offset in the block
\* advanced (log_writer.cc:107), so that it is in doubt what a reader makes of it and of
\* everything behind it.
LogStep(c, pc, fails) ==
  /\ At(c, pc) /\ life # "crashed" /\ Fails(fails) /\ CountFault(fails)
  /\ UNCHANGED <<mutex_, writers_, waiting, imm_, has_imm_, tmp_batch_, last_sequence, logfile_number_,
                 version, manual_compaction_, flags, bg_error_, bg, calls, acked>>
AddRecord(c, fails) ==
  /\ LogStep(c, "log", fails)
  /\ Set(c, [call[c] EXCEPT !.ok = ~fails, !.error = FALSE,
            !.pc = IF fails THEN "relock" ELSE IF call[c].kind = "syncput" THEN "sync" ELSE "insert"])
  /\ logs' = IF fails \/ logs[logfile_number_].doubt # {}
             THEN [logs EXCEPT ![logfile_number_].doubt = @ \cup ToSet(call[c].batch)]
             ELSE [logs EXCEPT ![logfile_number_].recs = @ \cup ToSet(call[c].batch)]
  /\ UNCHANGED mem_
Sync(c, fails) ==
  /\ LogStep(c, "sync", fails)
  /\ Set(c, [call[c] EXCEPT !.ok = ~fails, !.error = fails, !.pc = IF fails THEN "relock" ELSE "insert"])
  /\ logs' = IF fails THEN logs
             ELSE [logs EXCEPT ![logfile_number_].synced = logs[logfile_number_].recs]
  /\ UNCHANGED mem_
InsertInto(c) ==
  /\ LogStep(c, "insert", FALSE)
  /\ mem_' = mem_ \cup ToSet(call[c].batch)
  /\ Set(c, [call[c] EXCEPT !.pc = "relock"])
  /\ UNCHANGED logs

\* After the lock is taken again.
FinishLogging(c) ==
  /\ Locks(c) /\ At(c, "relock")
  /\ bg_error_' = (bg_error_ \/ call[c].error)
  /\ IF bg_error_' # bg_error_ THEN NotifyAll ELSE UNCHANGED waiting
  /\ tmp_batch_' = IF Len(call[c].batch) > 1 THEN << >> ELSE tmp_batch_
  /\ last_sequence' = last_sequence + Len(call[c].batch)
  /\ Set(c, [call[c] EXCEPT !.pc = "finish"]) /\ mutex_' = c
  /\ UNCHANGED <<writers_, memory, logs, version, manual_compaction_, flags, bg, calls, faults, acked>>

\* Pop the group, wake its members and the next writer.  (Faulty variant: the next one
\* is not signalled.)
Pop(c, n, woken) ==
  LET group == {writers_[i] : i \in 1 .. n} IN
  /\ Locks(c) /\ At(c, "finish")
  /\ writers_' = SubSeq(writers_, n + 1, Len(writers_))
  /\ call' = [x \in Clients |->
                IF x = c THEN Returned(c, call[c].ok)
                ELSE IF x \in group THEN [call[x] EXCEPT !.done = TRUE, !.ok = call[c].ok]
                ELSE call[x]]
  /\ acked' = acked \cup (IF call[c].ok THEN Acknowledge({c}) ELSE {})
  /\ waiting' = waiting \ (group \cup woken)
  /\ mutex_' = Free
  /\ UNCHANGED <<memory, tmp_batch_, last_sequence, logs, version, manual_compaction_, flags,
                 bg_error_, bg, calls, faults>>
GroupSize(c) == CHOOSE i \in DOMAIN writers_ : writers_[i] = call[c].last
PopGroup_Quiet(c) == Pop(c, GroupSize(c), {})
PopGroup(c) == Pop(c, GroupSize(c), {writers_[i] : i \in {GroupSize(c) + 1} \cap DOMAIN writers_})

-----------------------------------------------------------------------------
(* CompactRange, SuspendCompaction, ResumeCompaction, ~DBImpl *)

\* TEST_CompactMemTable waits until the memtable is compacted.
CompactMemTableWait(c) ==
  /\ Locks(c) /\ At(c, "memwait")
  /\ IF has_imm_ /\ ~bg_error_ THEN waiting' = waiting \cup {c} /\ UNCHANGED call
     ELSE Set(c, [call[c] EXCEPT !.pc = "manual"]) /\ UNCHANGED waiting
  /\ mutex_' = Free
  /\ UNCHANGED <<writers_, memory, tmp_batch_, last_sequence, logs, version, manual_compaction_,
                 flags, bg_error_, bg, calls, faults, acked>>

\* One round of TEST_CompactRange.
TEST_CompactRange(c) ==
  /\ Locks(c) /\ At(c, "manual")
  /\ \/ /\ ~call[c].done /\ ~shutting_down_ /\ ~bg_error_
        /\ IF manual_compaction_ = NULL
           THEN /\ manual_compaction_' = c
                /\ bg' = MaybeScheduleCompaction(bg, has_imm_, c, num_l0, bg_error_)
                /\ mutex_' = c /\ UNCHANGED waiting
           ELSE waiting' = waiting \cup {c} /\ mutex_' = Free /\ UNCHANGED <<manual_compaction_, bg>>
        /\ UNCHANGED call
     \/ /\ call[c].done \/ shutting_down_ \/ bg_error_
        /\ manual_compaction_' = IF manual_compaction_ = c THEN NULL ELSE manual_compaction_
        /\ Set(c, [call[c] EXCEPT !.pc = "idle", !.done = FALSE]) /\ mutex_' = Free
        /\ UNCHANGED <<waiting, bg>>
  /\ UNCHANGED <<writers_, memory, tmp_batch_, last_sequence, logs, version, flags, bg_error_, calls, faults, acked>>

SuspendCompaction ==
  /\ mutex_ = Free /\ life = "open" /\ suspends < MaxSuspends /\ ~suspending_compaction_
  /\ suspending_compaction_' = TRUE /\ suspends' = suspends + 1
  /\ UNCHANGED <<mutex_, writers_, call, waiting, memory, tmp_batch_, last_sequence, logs, version,
                 manual_compaction_, shutting_down_, life, bg_error_, bg, calls, faults, acked>>
ResumeCompaction ==
  /\ mutex_ = Free /\ life = "open" /\ suspending_compaction_
  /\ suspending_compaction_' = FALSE
  /\ UNCHANGED <<mutex_, writers_, call, waiting, memory, tmp_batch_, last_sequence, logs, version,
                 manual_compaction_, shutting_down_, suspends, life, bg_error_, bg, calls, faults, acked>>

\* The destructor, when no call is going on any more: it waits for the background thread.
BeginClose ==
  /\ mutex_ = Free /\ life = "open" /\ \A c \in Clients : At(c, "idle")
  /\ shutting_down_' = TRUE /\ suspending_compaction_' = FALSE /\ life' = "closing"
  /\ UNCHANGED <<mutex_, writers_, call, waiting, memory, tmp_batch_, last_sequence, logs, version,
                 manual_compaction_, suspends, bg_error_, bg, calls, faults, acked>>
EndClose ==
  /\ mutex_ = Free /\ life = "closing" /\ bg.at = "idle"
  /\ life' = "closed"
  /\ UNCHANGED <<mutex_, writers_, call, waiting, memory, tmp_batch_, last_sequence, logs, version,
                 manual_compaction_, suspending_compaction_, shutting_down_, suspends, bg_error_,
                 bg, calls, faults, acked>>

-----------------------------------------------------------------------------
(* The background thread *)

\* Records the error, if it is one, and says whether bg_cv_ was signalled.
RecordBackgroundError(ok) == bg_error_' = (bg_error_ \/ ~ok)
SignalOnError(ok) == IF ~ok /\ ~bg_error_ THEN NotifyAll ELSE UNCHANGED waiting
BgUnchanged == UNCHANGED <<writers_, mem_, logfile_number_, tmp_batch_, last_sequence,
                           suspending_compaction_, shutting_down_, suspends, calls, acked>>

\* BackgroundCall up to the point where the mutex is released, or to its end.
StartCompaction ==
  \/ has_imm_ /\ bg' = [bg EXCEPT !.at = "build"] /\ mutex_' = Free /\ UNCHANGED <<call, manual_compaction_>>
  \/ /\ ~has_imm_ /\ manual_compaction_ # NULL
     /\ \E n \in 0 .. num_l0 :
          IF n = 0
          THEN /\ call' = [call EXCEPT ![manual_compaction_].done = TRUE]
               /\ manual_compaction_' = NULL
               /\ bg' = [bg EXCEPT !.at = "end"] /\ mutex_' = Bg
          ELSE /\ bg' = [bg EXCEPT !.at = "work", !.manual = TRUE, !.taken = n] /\ mutex_' = Free
               /\ UNCHANGED <<call, manual_compaction_>>
  \/ /\ ~has_imm_ /\ manual_compaction_ = NULL   \* PickCompaction: the work was scheduled for it
     /\ \/ \E n \in 1 .. num_l0 : bg' = [bg EXCEPT !.at = "work", !.taken = n]
        \/ bg' = [bg EXCEPT !.at = "install", !.taken = 1]   \* IsTrivialMove
     /\ mutex_' = Free /\ UNCHANGED <<call, manual_compaction_>>
BackgroundCall ==
  /\ Locks(Bg) /\ bg.at = "scheduled"
  /\ IF shutting_down_ \/ bg_error_
     THEN bg' = [bg EXCEPT !.at = "end"] /\ mutex_' = Bg /\ UNCHANGED <<call, manual_compaction_>>
     ELSE StartCompaction
  /\ BgUnchanged /\ UNCHANGED <<waiting, imm_, has_imm_, logs, version, life, bg_error_, faults>>

\* Where CompactMemTable was called from.
AfterMemTable == [bg EXCEPT !.at = IF bg.inner THEN "work" ELSE "end", !.inner = FALSE]
HeldAfterMemTable == IF bg.inner THEN Free ELSE Bg

\* BuildTable without the mutex, then the rest of CompactMemTable up to LogAndApply.
WriteLevel0Table(fails) ==
  /\ Locks(Bg) /\ bg.at = "build" /\ Fails(fails) /\ CountFault(fails)
  /\ LET ok == ~fails /\ ~shutting_down_ IN
     /\ RecordBackgroundError(ok)
     /\ IF ok THEN bg' = [bg EXCEPT !.at = "apply"] /\ mutex_' = Free /\ UNCHANGED waiting
        ELSE bg' = AfterMemTable /\ mutex_' = HeldAfterMemTable /\ (IF bg.inner THEN NotifyAll ELSE SignalOnError(ok))
  /\ BgUnchanged /\ UNCHANGED <<call, manual_compaction_, imm_, has_imm_, logs, version, life>>

\* DeleteObsoleteFiles keeps the logs the manifest needs.
DeleteObsoleteFiles(needed) == logs' = [n \in {n \in DOMAIN logs : n >= needed} |-> logs[n]]

\* The manifest is written without the mutex; the new version drops the memtable and
\* its log.
CompactMemTable(fails) ==
  /\ Locks(Bg) /\ bg.at = "apply" /\ Fails(fails) /\ CountFault(fails)
  /\ RecordBackgroundError(~fails)
  /\ IF bg.inner THEN NotifyAll ELSE SignalOnError(~fails)
  /\ bg' = AfterMemTable /\ mutex_' = HeldAfterMemTable
  /\ IF fails THEN UNCHANGED <<imm_, has_imm_, logs, version>>
     ELSE /\ tables' = tables \cup imm_
          /\ \E level0 \in BOOLEAN :   \* PickLevelForMemTableOutput
               num_l0' = num_l0 + (IF level0 /\ imm_ # {} THEN 1 ELSE 0)
          /\ log_number' = logfile_number_
          /\ DeleteObsoleteFiles(logfile_number_)
          /\ imm_' = {} /\ has_imm_' = FALSE
  /\ BgUnchanged /\ UNCHANGED <<call, manual_compaction_, life>>

\* The loop of DoCompactionWork: a memtable goes first, and the loop may end any time.
PrioritizeImm ==
  /\ Locks(Bg) /\ bg.at = "work" /\ has_imm_ /\ ~shutting_down_
  /\ bg' = [bg EXCEPT !.at = "build", !.inner = TRUE] /\ mutex_' = Free
  /\ BgUnchanged
  /\ UNCHANGED <<waiting, call, manual_compaction_, imm_, has_imm_, logs, version, life, bg_error_, faults>>
WorkDone(fails) ==
  /\ bg.at = "work" /\ life # "crashed" /\ Fails(fails) /\ CountFault(fails)
  /\ bg' = [bg EXCEPT !.at = "finish", !.ok = ~fails /\ ~shutting_down_]
  /\ BgUnchanged
  /\ UNCHANGED <<mutex_, waiting, call, manual_compaction_, imm_, has_imm_, logs, version, life, bg_error_>>

\* The end of BackgroundCompaction: manual_compaction_ is read again.
CompactionEnds(ok) ==
  /\ RecordBackgroundError(ok) /\ SignalOnError(ok)
  /\ bg' = [bg EXCEPT !.at = "end"] /\ mutex_' = Bg
  /\ IF bg.manual /\ manual_compaction_ = NULL
     THEN life' = "crashed" /\ UNCHANGED <<call, manual_compaction_>>
     ELSE /\ call' = IF bg.manual /\ ~ok THEN [call EXCEPT ![manual_compaction_].done = TRUE] ELSE call
          /\ manual_compaction_' = IF bg.manual THEN NULL ELSE manual_compaction_
          /\ UNCHANGED life
FinishWork ==
  /\ Locks(Bg) /\ bg.at = "finish"
  /\ IF bg.ok
     THEN /\ bg' = [bg EXCEPT !.at = "install"] /\ mutex_' = Free
          /\ UNCHANGED <<call, manual_compaction_, life, bg_error_, waiting>>
     ELSE CompactionEnds(FALSE)
  /\ BgUnchanged /\ UNCHANGED <<imm_, has_imm_, logs, version, faults>>
InstallCompactionResults(fails) ==
  /\ Locks(Bg) /\ bg.at = "install" /\ Fails(fails) /\ CountFault(fails)
  /\ CompactionEnds(~fails)
  /\ num_l0' = IF fails THEN num_l0 ELSE num_l0 - bg.taken
  /\ DeleteObsoleteFiles(log_number)
  /\ BgUnchanged /\ UNCHANGED <<imm_, has_imm_, tables, log_number>>

\* The end of BackgroundCall.
BackgroundCallEnd ==
  /\ Locks(Bg) /\ bg.at = "end"
  /\ bg' = IF suspending_compaction_ THEN NoWork
           ELSE MaybeScheduleCompaction(NoWork, has_imm_, manual_compaction_, num_l0, bg_error_)
  /\ NotifyAll /\ mutex_' = Free
  /\ BgUnchanged
  /\ UNCHANGED <<call, manual_compaction_, imm_, has_imm_, logs, version, life, bg_error_, faults>>

-----------------------------------------------------------------------------

ClientStep(c) ==
  \/ WaitTurn(c) \/ MakeRoomForWrite(c) \/ WakeUp(c) \/ StartLogging(c) \/ InsertInto(c)
  \/ \E fails \in BOOLEAN : AddRecord(c, fails) \/ Sync(c, fails)
  \/ FinishLogging(c) \/ PopGroup(c) \/ CompactMemTableWait(c) \/ TEST_CompactRange(c)
BgStep ==
  \/ BackgroundCall \/ PrioritizeImm \/ FinishWork \/ BackgroundCallEnd
  \/ \E fails \in BOOLEAN : WriteLevel0Table(fails) \/ CompactMemTable(fails) \/ WorkDone(fails)
                            \/ InstallCompactionResults(fails)

Terminated == life \in {"closed", "crashed"} /\ UNCHANGED vars

Next ==
  \/ \E c \in Clients : ClientStep(c) \/ \E kind \in Kinds : Call(c, kind)
  \/ BgStep
  \/ SuspendCompaction \/ ResumeCompaction \/ BeginClose \/ EndClose
  \/ Terminated

Spec == Init /\ [][Next]_vars

\* Every thread that can run does: the operating system schedules threads and hands the
\* mutex to each that asks for it; files answer; an application that suspends also resumes.
Fairness ==
  /\ \A c \in Clients : SF_vars(ClientStep(c))
  /\ SF_vars(BgStep)
  /\ SF_vars(ResumeCompaction) /\ SF_vars(BeginClose) /\ SF_vars(EndClose)
FairSpec == Spec /\ Fairness

-----------------------------------------------------------------------------
(* Properties *)

Entries == mem_ \cup imm_ \cup tables

\* Only the writer in front of the queue logs, inserts and switches memtables, although
\* the mutex is free meanwhile (the comment at db_impl.cc:1243 relies on it).
OneLogger ==
  \A c \in Clients : call[c].pc \in {"room", "sleep", "group", "log", "sync", "insert", "relock", "finish"}
                       => writers_ # << >> /\ Head(writers_) = c

\* Whatever is grouped with whatever (BuildBatchGroup), each write gets one sequence
\* number and each sequence number one write, because only the front writer logs.
AppliedOnce == OneLogger /\ \A a, b \in Entries : a.id = b.id <=> a.seq = b.seq

\* An acknowledged write is in a table of the current version or in a log that the
\* manifest still refers to, at every moment of a memtable compaction: the process may
\* die anywhere.  Only what was appended to a log in which an earlier AddRecord failed
\* is in doubt, since Write goes on after such a failure.
InDoubt == {e.id : e \in UNION {logs[n].doubt : n \in DOMAIN logs}}
Recoverable == {e.id : e \in tables \cup UNION {logs[n].recs : n \in {n \in DOMAIN logs : n >= log_number}}}
AcknowledgedRecoverable == acked \ InDoubt \subseteq Recoverable

\* A write is acknowledged as synced only when it is on the disk, also when another
\* client's thread has logged it (in a log that no AddRecord has spoilt).
OnDisk == {e.id : e \in tables \cup UNION {logs[n].synced : n \in DOMAIN logs}}
SyncedOnDisk ==
  \A c \in Clients : call[c].kind = "syncput" /\ call[c].id \in (acked' \ acked) \ InDoubt => call[c].id \in OnDisk

\* After a failed sync the record may or may not be in the log when it is read again
\* (db_impl.cc:1262): no write behind it is ever acknowledged.  (The code does not say
\* so of a failed AddRecord.)
Logging == UNION {ToSet(call[c].batch) : c \in {c \in Clients : call[c].pc \in {"log", "sync", "insert", "relock"}}}
Indeterminate == (UNION {logs[n].recs : n \in DOMAIN logs}) \ (Entries \cup Logging)
NothingBehindIndeterminate ==
  \A e \in Indeterminate, a \in Entries : a.id \in acked => a.seq < e.seq

\* What Write has acknowledged stays: in a log or a table while memtables are switched
\* and compacted, on the disk if it asked for a sync, and in front of every record of
\* which a failed sync left unknown whether it is there.  The writes behind a failed
\* AddRecord of the same log are the exception.
WritesDurable == [][AcknowledgedRecoverable' /\ SyncedOnDisk /\ NothingBehindIndeterminate']_vars

\* include/leveldb/options.h:193: "if it is just the process that crashes (i.e., the
\* machine does not reboot), no writes will be lost even if sync==false."  Write does not
\* set bg_error_ when AddRecord fails (db_impl.cc:1249), so it acknowledges what may be
\* unreadable behind the failed record.
NoWritesLost == acked \subseteq Recoverable

\* What a reader sees at a sequence number it was given never changes: entries become
\* visible in whole groups (Write sets last_sequence behind InsertInto), and no memtable
\* switch or compaction loses one.
Below(s, S) == {e \in S : e.seq <= s}
SnapshotsStable == [][Below(last_sequence, Entries') = Below(last_sequence, Entries)]_vars

\* Every call of a client returns, and the destructor ends: nobody waits for a signal
\* that does not come (PopGroup, BackgroundCallEnd, RecordBackgroundError).
CallsReturn ==
  /\ \A c \in Clients : (call[c].pc # "idle") ~> (call[c].pc = "idle" \/ life = "crashed")
  /\ <>(life \in {"closed", "crashed"})

\* db_impl.cc:618 cancels a manual compaction "since we aborted early for some reason";
\* the background thread must survive it.
NoCrash == life # "crashed"

\* db_impl.h:56: "Force current memtable contents to be compacted."  When
\* TEST_CompactMemTable returns without an error, what was acknowledged before the
\* call is in tables.
MemTableForced ==
  [][\A c \in Clients : call[c].pc = "memwait" /\ call'[c].pc = "manual" /\ ~bg_error_ /\ suspends = 0
       => \A id \in acked : id < call[c].id => id \in {e.id : e \in tables}]_vars

\* db_impl.cc:668: "set suspend flag and wait for any currently executing bg tasks to
\* complete".
SuspendWaits == [][suspending_compaction_' /\ ~suspending_compaction_ => bg.at = "idle"]_vars
=============================================================================
