------------------------------ MODULE DBImplProofs ------------------------------
(***************************************************************************)
(* Proofs about the threads of module DBImpl, for any number of clients,   *)
(* calls, faults and suspensions and every setting of the limits.          *)
(*                                                                         *)
(* The invariant follows a write through its life: it waits in the queue,  *)
(* the front writer numbers it, logs it, perhaps syncs it, inserts it and  *)
(* pops it; meanwhile the background thread moves entries from the         *)
(* memtable that was switched to tables and deletes logs.                  *)
(***************************************************************************)
EXTENDS DBImpl, FiniteSetTheorems, SequenceTheorems, WellFoundedInduction, TLAPS

LoggingPcs == {"log", "sync", "insert", "relock"}
FrontPcs   == {"room", "sleep", "group", "finish"} \cup LoggingPcs
OtherPcs   == {"idle", "memwait", "manual"}
Entry      == [seq : Nat, id : Nat]
CallRecord ==
  [pc : FrontPcs \cup OtherPcs \cup {"write"}, kind : {"put", "syncput", "compact"}, id : Nat,
   done : BOOLEAN, ok : BOOLEAN, force : BOOLEAN, delay : BOOLEAN, last : Clients \cup {NULL},
   batch : Seq(Entry), error : BOOLEAN]
WorkRecord ==
  [at : {"idle", "scheduled", "build", "apply", "work", "finish", "install", "end"},
   inner : BOOLEAN, manual : BOOLEAN, taken : Int, ok : BOOLEAN]

StoreTypes ==
  /\ mem_ \in SUBSET Entry /\ imm_ \in SUBSET Entry /\ tables \in SUBSET Entry
  /\ has_imm_ \in BOOLEAN /\ tmp_batch_ \in Seq(Nat) /\ last_sequence \in Nat
  /\ logfile_number_ \in Nat /\ log_number \in Nat /\ DOMAIN logs \in SUBSET Nat
  /\ logs \in [DOMAIN logs -> [recs : SUBSET Entry, synced : SUBSET Entry, doubt : SUBSET Entry]]
StateTypes ==
  /\ mutex_ \in Clients \cup {Free, Bg} /\ waiting \in SUBSET Clients
  /\ num_l0 \in Int /\ manual_compaction_ \in Clients \cup {NULL}
  /\ suspending_compaction_ \in BOOLEAN /\ shutting_down_ \in BOOLEAN /\ bg_error_ \in BOOLEAN
  /\ bg \in WorkRecord /\ life \in {"open", "closing", "closed", "crashed"}
  /\ calls \in Nat /\ faults \in Nat /\ suspends \in Nat /\ acked \in SUBSET Nat
QueueTypes == writers_ \in Seq(Clients) /\ call \in [Clients -> CallRecord]
TypeOK == StoreTypes /\ StateTypes /\ QueueTypes

Places == 1 .. Len(writers_)
QueueInv ==
  /\ \A i, j \in Places : writers_[i] = writers_[j] => i = j
  /\ \A i \in Places : call[writers_[i]].pc \in FrontPcs \cup {"write"} /\ ~call[writers_[i]].done
  /\ \A c \in Clients : call[c].pc \in FrontPcs => 1 \in Places /\ writers_[1] = c
  /\ \A c \in Clients : call[c].pc = "write" /\ ~call[c].done => \E i \in Places : writers_[i] = c
  /\ manual_compaction_ # NULL => call[manual_compaction_].pc = "manual"

InGroup(c, x) == \E i, n \in Places : i <= n /\ writers_[n] = call[c].last /\ writers_[i] = x
HasBatch(x)   == call[x].kind # "compact"
Batch(c)      == {call[c].batch[i] : i \in 1 .. Len(call[c].batch)}
IdInv ==
  /\ \A c \in Clients : call[c].id <= calls /\ (call[c].pc # "idle" => 1 <= call[c].id)
  /\ \A c, d \in Clients : call[c].id = call[d].id /\ 1 <= call[c].id => c = d

GroupInv ==
  /\ \A c \in Clients : call[c].pc \in LoggingPcs \cup {"finish"} =>
       \E n \in Places : writers_[n] = call[c].last
  /\ \A c \in Clients : call[c].pc \in {"group"} \cup LoggingPcs => HasBatch(c)
  /\ \A c, x \in Clients : call[c].pc \in LoggingPcs /\ InGroup(c, x) =>
       /\ HasBatch(x) => \E e \in Batch(c) : e.id = call[x].id
       /\ call[x].kind = "syncput" => call[c].kind = "syncput"
BatchInv ==
  /\ \A c \in Clients : call[c].pc \in LoggingPcs =>
       /\ \A i \in 1 .. Len(call[c].batch) :
            /\ call[c].batch[i].seq = last_sequence + i
            /\ \E x \in Clients : InGroup(c, x) /\ call[c].batch[i].id = call[x].id
       /\ \A a, b \in Batch(c) : a.id = b.id => a = b
  /\ tmp_batch_ # << >> => \E c \in Clients : call[c].pc \in LoggingPcs /\ Len(call[c].batch) > 1

Records == UNION {logs[n].recs : n \in DOMAIN logs}
Stored  == Entries \cup Records
Pending(e) == \E c \in Clients : call[c].pc \in LoggingPcs /\ e \in Batch(c)
StoredInv ==
  /\ \A e \in Stored : e.id <= calls /\ (e.seq <= last_sequence \/ Pending(e))
  /\ \A e \in Stored, i \in Places : e.id = call[writers_[i]].id =>
       Pending(e) \/ \E c \in Clients : call[c].pc = "finish" /\ InGroup(c, writers_[i])
  /\ \A a, b \in Entries : a.id = b.id <=> a.seq = b.seq

ProgressInv ==
  \A c \in Clients :
    /\ call[c].pc = "log" => Batch(c) \cap Records = {}
    /\ call[c].pc \in {"log", "sync", "insert"} => Batch(c) \cap Entries = {}
    /\ call[c].pc \in {"sync", "insert"} => Batch(c) \subseteq logs[logfile_number_].recs \cup logs[logfile_number_].doubt
    /\ call[c].pc = "insert" => call[c].ok
    /\ call[c].pc = "insert" /\ call[c].kind = "syncput" => Batch(c) \subseteq logs[logfile_number_].synced \cup logs[logfile_number_].doubt
    /\ call[c].pc = "relock" /\ call[c].ok =>
         Batch(c) \subseteq mem_ /\ (call[c].kind = "syncput" => Batch(c) \subseteq logs[logfile_number_].synced \cup logs[logfile_number_].doubt)
    /\ call[c].pc = "relock" /\ ~call[c].ok => 
         Batch(c) \cap Entries = {} /\ (~call[c].error => Batch(c) \cap Records = {})

LogInv ==
  /\ log_number <= logfile_number_ /\ logfile_number_ \in DOMAIN logs
  /\ \A n \in DOMAIN logs : n <= logfile_number_ /\ logs[n].synced \subseteq logs[n].recs
  /\ mem_ \subseteq logs[logfile_number_].recs \cup logs[logfile_number_].doubt
  /\ \A e \in imm_ : \E n \in DOMAIN logs : n >= log_number /\ e \in logs[n].recs \cup logs[n].doubt
  /\ ~has_imm_ => imm_ = {}
  /\ bg.at \in {"build", "apply"} => has_imm_

Durable == tables \cup {e \in imm_ : \E n \in DOMAIN logs : n >= log_number /\ e \in logs[n].synced \cup logs[n].doubt}
                  \cup (mem_ \cap (logs[logfile_number_].synced \cup logs[logfile_number_].doubt))
Committed(x) ==
  \/ call[x].pc = "write" /\ call[x].done /\ call[x].ok
  \/ \E c \in Clients : call[c].pc = "finish" /\ call[c].ok /\ InGroup(c, x)
CommitInv ==
  /\ \A x \in Clients : Committed(x) /\ HasBatch(x) =>
       \E e \in Entries : e.id = call[x].id /\ (call[x].kind = "syncput" => e \in Durable)
  /\ \A i \in acked : \E e \in Entries : e.id = i

LostInv ==
  \A e \in Records \ Entries :
    Pending(e) \/ /\ bg_error_ /\ \A c \in Clients : call[c].pc \notin {"group"} \cup LoggingPcs
                  /\ \A a \in Entries : a.seq < e.seq

Inv == TypeOK /\ QueueInv /\ IdInv /\ GroupInv /\ BatchInv /\ StoredInv /\ ProgressInv /\ LogInv
       /\ CommitInv /\ LostInv

-------------------------------------------------------------------------------
(* Natural numbers and ranks.                                                *)

\* The library's well-founded order on the naturals, as a set of pairs.
LEMMA LessThanPairs == OpToRel(<, Nat) = {ss \in Nat \X Nat : ss[1] < ss[2]}
  BY Zenon DEF OpToRel

\* A set of naturals has a least element.
LEMMA NatMin ==
  ASSUME NEW T \in SUBSET Nat, T # {}
  PROVE  \E m \in T : \A k \in T : m <= k
<1>1. \E m \in T : \A k \in T : ~ (<<k, m>> \in OpToRel(<, Nat))
  BY NatLessThanWellFounded, WFMin
<1>2. \E m \in T : \A k \in T : ~ (<<k, m>> \in {ss \in Nat \X Nat : ss[1] < ss[2]})
  BY <1>1, LessThanPairs, Zenon
<1>3. \A k, m \in Nat : k < m => <<k, m>> \in {ss \in Nat \X Nat : ss[1] < ss[2]}
  OBVIOUS
<1>4. \E m \in T : \A k \in T : ~ (k < m)
  BY <1>2, <1>3, Zenon
<1> QED BY <1>4

\* A bounded set of naturals has a greatest one, which is what Max chooses.
LEMMA MaxExists ==
  ASSUME NEW b \in Nat, NEW S \in SUBSET (1 .. b), S # {}
  PROVE  Max(S) \in S /\ \A k \in S : k <= Max(S)
<1> DEFINE T == {k \in 0 .. b : b - k \in S}
<1>1. T \in SUBSET Nat /\ T # {}
  <2>1. PICK s \in S : TRUE
    OBVIOUS
  <2>2. b - s \in 0 .. b /\ b - (b - s) = s
    OBVIOUS
  <2>3. b - s \in T
    BY <2>2
  <2> QED BY <2>3
<1>2. PICK m \in T : \A k \in T : m <= k
  BY <1>1, NatMin
<1>3. \A k \in S : k <= b - m
  <2> SUFFICES ASSUME NEW k \in S PROVE k <= b - m
    OBVIOUS
  <2>1. b - k \in 0 .. b /\ b - (b - k) = k
    OBVIOUS
  <2>2. b - k \in T
    BY <2>1
  <2> QED BY <2>1, <2>2, <1>2
<1> QED BY <1>2, <1>3 DEF Max

\* How many writers with a batch there are grows by at most one per place.
LEMMA PutsCount ==
  /\ \A n \in Nat : IsFiniteSet(Puts(n)) /\ Cardinality(Puts(n)) \in Nat
  /\ Cardinality(Puts(0)) = 0
  /\ \A n \in Nat : Cardinality(Puts(n + 1)) = Cardinality(Puts(n)) + (IF n + 1 \in Puts(n + 1) THEN 1 ELSE 0)
<1>1. ASSUME NEW n \in Nat PROVE IsFiniteSet(Puts(n)) /\ Cardinality(Puts(n)) \in Nat
  <2>1. IsFiniteSet(1 .. n) /\ Puts(n) \subseteq 1 .. n
    BY FS_Interval DEF Puts
  <2> QED BY <2>1, FS_Subset, FS_CardinalityType
<1>2. Puts(0) = {}
  BY DEF Puts
<1>3. ASSUME NEW n \in Nat
      PROVE  Cardinality(Puts(n + 1)) = Cardinality(Puts(n)) + (IF n + 1 \in Puts(n + 1) THEN 1 ELSE 0)
  <2>1. CASE n + 1 \in Puts(n + 1)
    <3>1. Puts(n + 1) = Puts(n) \cup {n + 1} /\ n + 1 \notin Puts(n)
      BY <2>1 DEF Puts
    <3> QED BY <2>1, <3>1, <1>1, FS_AddElement
  <2>2. CASE n + 1 \notin Puts(n + 1)
    <3>1. Puts(n + 1) = Puts(n)
      BY <2>2 DEF Puts
    <3> QED BY <2>2, <3>1, <1>1
  <2> QED BY <2>1, <2>2
<1> QED BY <1>1, <1>2, <1>3, FS_EmptySet

\* The places of the writers with a batch have the ranks 1, 2, ... without a gap.
LEMMA PutsRanked ==
  ASSUME NEW n \in Nat, NEW r \in 1 .. Cardinality(Puts(n))
  PROVE  \E i \in Puts(n) : Cardinality(Puts(i)) = r
<1> DEFINE T == {i \in 0 .. n : Cardinality(Puts(i)) >= r}
<1>1. T \in SUBSET Nat /\ T # {}
  <2>1. n \in T
    BY PutsCount
  <2> QED BY <2>1
<1>2. PICK m \in T : \A k \in T : m <= k
  BY <1>1, NatMin
<1>3. m # 0 /\ m - 1 \in 0 .. n /\ m - 1 \in Nat
  BY <1>2, PutsCount
<1>4. Cardinality(Puts(m - 1)) < r
  BY <1>2, <1>3, PutsCount
<1>5. m \in Puts(m) /\ Cardinality(Puts(m)) = r
  <2>1. (m - 1) + 1 = m /\ Cardinality(Puts(m)) >= r
    BY <1>2, <1>3
  <2>2. Cardinality(Puts(m)) = Cardinality(Puts(m - 1)) + (IF m \in Puts(m) THEN 1 ELSE 0)
    BY ONLY <1>3, <2>1, PutsCount
  <2>3. Cardinality(Puts(m)) \in Nat /\ Cardinality(Puts(m - 1)) \in Nat
    BY <1>3, PutsCount
  <2> QED BY <1>4, <2>1, <2>2, <2>3
<1>6. m \in Puts(n)
  BY <1>5 DEF Puts
<1> QED BY <1>5, <1>6

\* Two places have different ranks.
LEMMA PutsDistinct ==
  ASSUME NEW n \in Nat, NEW i \in Puts(n), NEW j \in Puts(n), Cardinality(Puts(i)) = Cardinality(Puts(j))
  PROVE  i = j
<1>1. ASSUME NEW a \in Puts(n), NEW b \in Puts(n), a < b PROVE Cardinality(Puts(a)) < Cardinality(Puts(b))
  <2>1. a \in Nat /\ b \in Nat /\ IsFiniteSet(Puts(b)) /\ b \in Puts(b) /\ b \notin Puts(a) /\ Puts(a) \subseteq Puts(b)
    BY <1>1, PutsCount DEF Puts
  <2>2. Cardinality(Puts(a)) \in Nat /\ Cardinality(Puts(b)) \in Nat
    BY <2>1, PutsCount
  <2>3. Cardinality(Puts(a)) <= Cardinality(Puts(b)) /\ Cardinality(Puts(b)) # Cardinality(Puts(a))
    BY <2>1, FS_Subset
  <2> QED BY <2>2, <2>3
<1>2. i \in Nat /\ j \in Nat
  BY DEF Puts
<1>3. Cardinality(Puts(i)) \in Nat
  BY <1>2, PutsCount
<1> QED BY <1>1, <1>2, <1>3
-------------------------------------------------------------------------------
(* BuildBatchGroup.                                                          *)

\* It takes at least the front writer, and writers that want a sync only behind one
\* that does.
LEMMA GroupFacts ==
  ASSUME TypeOK, 1 \in Places
  PROVE  /\ BuildBatchGroup \in Places
         /\ \A i \in 1 .. BuildBatchGroup :
              call[writers_[i]].kind = "syncput" => call[writers_[1]].kind = "syncput"
<1> DEFINE may(n) == \A i \in 2 .. n :
                       /\ call[writers_[i]].kind = "syncput" => FALSE \/ call[Head(writers_)].kind = "syncput"
                       /\ i \in Puts(i) => Cardinality(Puts(i)) <= MaxGroup
           S == {n \in 1 .. Len(writers_) : may(n)}
<1>1. BuildBatchGroup = Max(S)
  BY DEF BuildBatchGroup, Group
<1>2. Len(writers_) \in Nat /\ Head(writers_) = writers_[1]
  BY DEF TypeOK, StoreTypes, StateTypes, QueueTypes, Places
<1>3. 1 \in S
  BY <1>2 DEF Places
<1>4. Max(S) \in S
  <2> HIDE DEF may
  <2>1. S \in SUBSET (1 .. Len(writers_)) /\ S # {}
    BY <1>3
  <2> HIDE DEF S
  <2> QED BY <1>2, <2>1, MaxExists
<1>5. may(BuildBatchGroup) /\ BuildBatchGroup \in Places
  BY <1>1, <1>4 DEF Places
<1> QED BY <1>2, <1>5 DEF Places

\* The ids of the group's batches in their order, as Number computes them.
BatchIds(n) ==
  [r \in 1 .. Cardinality(Puts(n)) |->
     call[writers_[CHOOSE i \in Puts(n) : Cardinality(Puts(i)) = r]].id]

\* Every batch of the group is in it once.
LEMMA BatchIdsFacts ==
  ASSUME TypeOK, QueueInv, IdInv, NEW n \in Places
  PROVE  /\ BatchIds(n) \in Seq(Nat) /\ Len(BatchIds(n)) = Cardinality(Puts(n)) /\ Cardinality(Puts(n)) \in Nat
         /\ \A r \in 1 .. Len(BatchIds(n)) : \E i \in 1 .. n : BatchIds(n)[r] = call[writers_[i]].id
         /\ \A i \in 1 .. n : HasBatch(writers_[i]) => \E r \in 1 .. Len(BatchIds(n)) : BatchIds(n)[r] = call[writers_[i]].id
         /\ \A r, t \in 1 .. Len(BatchIds(n)) : BatchIds(n)[r] = BatchIds(n)[t] => r = t
<1> DEFINE K == Cardinality(Puts(n))
           at(r) == CHOOSE i \in Puts(n) : Cardinality(Puts(i)) = r
<1>1. n \in Nat /\ Len(writers_) \in Nat /\ n <= Len(writers_) /\ K \in Nat
  BY PutsCount, SMTT(40) DEF Places, TypeOK, StoreTypes, StateTypes, QueueTypes
<1>2. \A r \in 1 .. K : at(r) \in Puts(n) /\ Cardinality(Puts(at(r))) = r
  BY <1>1, PutsRanked
<1>3. \A i \in Puts(n) : i \in 1 .. n /\ i \in Places /\ writers_[i] \in Clients /\ call[writers_[i]].id \in Nat
  BY <1>1 DEF Puts, Places, TypeOK, StoreTypes, StateTypes, QueueTypes, CallRecord
<1>4. \A i \in Puts(n) : Cardinality(Puts(i)) \in 1 .. K
  <2> SUFFICES ASSUME NEW i \in Puts(n) PROVE Cardinality(Puts(i)) \in 1 .. K
    OBVIOUS
  <2>1. i \in 1 .. n /\ i \in Nat /\ i \in Puts(i) /\ Puts(i) \subseteq Puts(n)
    BY <1>1 DEF Puts
  <2>2. Cardinality(Puts(i)) \in Nat /\ Cardinality(Puts(i)) <= K
    BY <1>1, <2>1, PutsCount, FS_Subset
  <2>3. Cardinality(Puts(i)) # 0
    BY <2>1, PutsCount, FS_EmptySet
  <2> QED BY <1>1, <2>2, <2>3
<1> HIDE DEF at
<1>5. BatchIds(n) = [r \in 1 .. K |-> call[writers_[at(r)]].id]
  BY DEF BatchIds, at
<1>6. BatchIds(n) \in Seq(Nat) /\ Len(BatchIds(n)) = K
  <2>1. \A r \in 1 .. K : call[writers_[at(r)]].id \in Nat
    BY ONLY <1>2, <1>3
  <2> QED BY ONLY <1>1, <1>5, <2>1
<1>7. ASSUME NEW r \in 1 .. K PROVE \E i \in 1 .. n : BatchIds(n)[r] = call[writers_[i]].id
  BY <1>2, <1>3, <1>5
<1>8. ASSUME NEW i \in 1 .. n, HasBatch(writers_[i]) PROVE \E r \in 1 .. K : BatchIds(n)[r] = call[writers_[i]].id
  <2>1. i \in Puts(n)
    BY <1>8, <1>1 DEF Puts, HasBatch
  <2>2. at(Cardinality(Puts(i))) = i
    BY <1>1, <1>2, <1>4, <2>1, PutsDistinct
  <2> QED BY <1>4, <1>5, <2>1, <2>2
<1>9. ASSUME NEW r \in 1 .. K, NEW t \in 1 .. K, BatchIds(n)[r] = BatchIds(n)[t] PROVE r = t
  <2>1. call[writers_[at(r)]].id = call[writers_[at(t)]].id
    BY <1>5, <1>9
  <2>2. at(r) \in Places /\ at(t) \in Places /\ writers_[at(r)] \in Clients /\ writers_[at(t)] \in Clients
    BY <1>2, <1>3
  <2>3. call[writers_[at(r)]].pc # "idle"
    BY <2>2 DEF QueueInv, FrontPcs, LoggingPcs
  <2>4. writers_[at(r)] = writers_[at(t)]
    BY <2>1, <2>2, <2>3 DEF IdInv
  <2> QED BY <1>2, <2>2, <2>4 DEF QueueInv
<1> QED BY <1>1, <1>6, <1>7, <1>8, <1>9
-------------------------------------------------------------------------------
(* Types.                                                                    *)

USE DBImplAssumption

\* What a numbered batch is.
LEMMA NumberFacts ==
  ASSUME TypeOK, QueueInv, IdInv, BatchInv, NEW c \in Clients, StartLogging(c)
  PROVE  \E n \in Places :
           LET b == [r \in 1 .. Len(BatchIds(n)) |-> [seq |-> last_sequence + r, id |-> BatchIds(n)[r]]]
           IN  /\ n = BuildBatchGroup
               /\ b \in Seq(Entry) /\ Len(b) = Len(BatchIds(n))
               /\ call' = [call EXCEPT ![c] = [call[c] EXCEPT !.pc = "log", !.last = writers_[n], !.batch = b]]
               /\ tmp_batch_' = IF Len(b) > 1 THEN BatchIds(n) ELSE tmp_batch_
<1> DEFINE n == BuildBatchGroup
<1>1. call[c].pc = "group" /\ 1 \in Places /\ writers_[1] = c
  BY DEF StartLogging, Number, At, QueueInv, FrontPcs, LoggingPcs
<1>2. n \in Places
  BY <1>1, GroupFacts
<1>3. tmp_batch_ = << >>
  BY <1>1 DEF BatchInv, QueueInv, FrontPcs, LoggingPcs
<1>4. /\ BatchIds(n) \in Seq(Nat) /\ Len(BatchIds(n)) = Cardinality(Puts(n)) /\ Cardinality(Puts(n)) \in Nat
  BY <1>2, BatchIdsFacts
<1> DEFINE k == Cardinality(Puts(n))
           batch == (IF k > 1 THEN tmp_batch_ ELSE << >>) \o BatchIds(n)
<1>5. batch = BatchIds(n) /\ DOMAIN batch = 1 .. Len(BatchIds(n))
  BY <1>3, <1>4
<1>6. /\ tmp_batch_' = IF k > 1 THEN batch ELSE tmp_batch_
      /\ call' = [call EXCEPT ![c] = [call[c] EXCEPT !.pc = "log", !.last = writers_[n],
            !.batch = [i \in DOMAIN batch |-> [seq |-> last_sequence + 1 + 1 * (i - 1), id |-> batch[i]]]]]
  BY DEF StartLogging, Number, Set, BatchIds
<1> DEFINE b == [r \in 1 .. Len(BatchIds(n)) |-> [seq |-> last_sequence + r, id |-> BatchIds(n)[r]]]
<1>7. [i \in DOMAIN batch |-> [seq |-> last_sequence + 1 + 1 * (i - 1), id |-> batch[i]]] = b
  <2> HIDE DEF n, batch
  <2>1. last_sequence \in Nat /\ Len(BatchIds(n)) \in Nat
    BY <1>4 DEF TypeOK, StoreTypes, StateTypes, QueueTypes
  <2>2. \A i \in 1 .. Len(BatchIds(n)) : last_sequence + 1 + 1 * (i - 1) = last_sequence + i
    BY ONLY <2>1
  <2> QED BY <1>5, <2>2
<1>8. b \in Seq(Entry) /\ Len(b) = Len(BatchIds(n))
  <2> HIDE DEF n
  <2>1. last_sequence \in Nat /\ Len(BatchIds(n)) \in Nat
    BY <1>4 DEF TypeOK, StoreTypes, StateTypes, QueueTypes
  <2>2. \A r \in 1 .. Len(BatchIds(n)) : [seq |-> last_sequence + r, id |-> BatchIds(n)[r]] \in Entry
    BY ONLY <1>4, <2>1 DEF Entry
  <2> QED BY ONLY <2>1, <2>2
<1> HIDE DEF b, batch, n
<1> QED BY <1>2, <1>4, <1>5, <1>6, <1>7, <1>8 DEF b, n

\* What an update of a call's record gives.
Others(c) == \A x \in Clients \ {c} : call'[x] = call[x]
Kept(c)   == /\ call'[c].kind = call[c].kind /\ call'[c].id = call[c].id /\ call'[c].done = call[c].done
             /\ call'[c].batch = call[c].batch

\* An assignment to the call of one thread leaves the others alone.
LEMMA SetFacts ==
  ASSUME TypeOK, NEW c \in Clients, NEW r \in CallRecord, Set(c, r)
  PROVE  call' \in [Clients -> CallRecord] /\ call'[c] = r /\ Others(c)
<1>1. call \in [Clients -> CallRecord]
  BY DEF TypeOK, StoreTypes, StateTypes, QueueTypes
<1> QED BY ONLY <1>1, c \in Clients, r \in CallRecord, Set(c, r) DEF Set, Others

\* The types of the fields of a call.
LEMMA CallFacts ==
  ASSUME TypeOK, NEW c \in Clients
  PROVE  /\ call[c] \in CallRecord /\ call[c].batch \in Seq(Entry) /\ call[c].id \in Nat
         /\ call[c].ok \in BOOLEAN /\ call[c].done \in BOOLEAN /\ call[c].error \in BOOLEAN
         /\ call[c].pc \in FrontPcs \cup OtherPcs \cup {"write"}
<1>1. call[c] \in CallRecord
  BY DEF TypeOK, StoreTypes, StateTypes, QueueTypes
<1> QED BY ONLY <1>1 DEF CallRecord

\* A client starts a call: its record and the queue.
LEMMA CallEffect ==
  ASSUME TypeOK, NEW c \in Clients, NEW kind \in Kinds, Call(c, kind)
  PROVE  /\ call' \in [Clients -> CallRecord] /\ Others(c)
         /\ call'[c].pc = "write" /\ call'[c].id = calls + 1 /\ call'[c].done = FALSE
         /\ call'[c].kind = kind
<1> DEFINE r == [Idle EXCEPT !.pc = "write", !.kind = kind, !.id = calls + 1]
<1>1. calls \in Nat /\ kind \in {"put", "syncput", "compact"}
  BY DEF TypeOK, StoreTypes, StateTypes, QueueTypes
<1>2. /\ r \in CallRecord /\ r.pc = "write" /\ r.id = calls + 1 /\ r.done = FALSE /\ r.kind = kind
  <2>1. << >> \in Seq(Entry)
    OBVIOUS
  <2>2. Idle \in CallRecord /\ Idle.done = FALSE
    BY ONLY <2>1 DEF Idle, CallRecord, OtherPcs
  <2>3. PICK q \in CallRecord : q = Idle
    BY <2>2
  <2>4. PICK i \in Nat : i = calls + 1
    BY <1>1
  <2>5. r = [q EXCEPT !.pc = "write", !.kind = kind, !.id = i]
    BY <2>3, <2>4
  <2>6. q.done = FALSE
    BY <2>2, <2>3
  <2> HIDE DEF r
  <2> QED BY ONLY <1>1, <2>4, <2>5, <2>6, q \in CallRecord DEF CallRecord
<1>3. Set(c, r)
  BY DEF Call, Set
<1> HIDE DEF r
<1> QED BY <1>2, <1>3, SetFacts

\* What the wait loop of DBImpl::Write does to the calls.
LEMMA WaitTurnEffect ==
  ASSUME TypeOK, NEW c \in Clients, WaitTurn(c)
  PROVE  /\ call' \in [Clients -> CallRecord] /\ Others(c) /\ call[c].pc = "write"
         /\ call'[c].kind = call[c].kind /\ call'[c].id = call[c].id
         /\ call[c].done => call'[c].pc \in OtherPcs /\ acked' = acked \cup (IF call[c].ok THEN Acknowledge({c}) ELSE {})
         /\ ~call[c].done => acked' = acked
         /\ ~call[c].done => call' = call \/ (Head(writers_) = c /\ call'[c].pc = "room" /\ ~call'[c].done)
<1> DEFINE r1 == Returned(c, call[c].ok)
           r2 == [call[c] EXCEPT !.pc = "room", !.force = call[c].kind = "compact",
                                  !.delay = call[c].kind # "compact"]
<1>1. call[c] \in CallRecord
  BY CallFacts
<1>2. r1 \in CallRecord /\ r1.kind = call[c].kind /\ r1.id = call[c].id /\ r1.pc \in OtherPcs
  BY ONLY <1>1 DEF CallRecord, Returned, OtherPcs
<1>3. r2 \in CallRecord /\ r2.kind = call[c].kind /\ r2.id = call[c].id /\ r2.pc = "room" /\ r2.done = call[c].done
  BY ONLY <1>1 DEF CallRecord, FrontPcs
<1>4. call[c].pc = "write"
  BY DEF WaitTurn, At
<1>5. call' = call => call' \in [Clients -> CallRecord] /\ Others(c)
  BY DEF TypeOK, StoreTypes, StateTypes, QueueTypes, Others
<1>6. \/ call[c].done /\ Set(c, r1) /\ acked' = acked \cup (IF call[c].ok THEN Acknowledge({c}) ELSE {})
      \/ ~call[c].done /\ Head(writers_) = c /\ Set(c, r2) /\ acked' = acked
      \/ ~call[c].done /\ call' = call /\ acked' = acked
  BY DEF WaitTurn
<1> HIDE DEF r1, r2
<1>7. Set(c, r1) => call' \in [Clients -> CallRecord] /\ call'[c] = r1 /\ Others(c)
  BY <1>2, SetFacts
<1>8. Set(c, r2) => call' \in [Clients -> CallRecord] /\ call'[c] = r2 /\ Others(c)
  BY <1>3, SetFacts
<1> QED BY <1>2, <1>3, <1>4, <1>5, <1>6, <1>7, <1>8, Zenon

\* One round of MakeRoomForWrite goes on, has room, or gives up.
LEMMA MakeRoomEffect ==
  ASSUME TypeOK, NEW c \in Clients, MakeRoomForWrite(c)
  PROVE  /\ call' \in [Clients -> CallRecord] /\ Others(c) /\ Kept(c) /\ call[c].pc = "room"
         /\ \/ call'[c].pc \in {"room", "sleep"}
            \/ call'[c].pc = "group" /\ HasBatch(c) /\ ~bg_error_
            \/ call'[c].pc = "finish" /\ call'[c].last = c /\ (call'[c].ok => ~HasBatch(c))
<1> DEFINE room(ok) == [call[c] EXCEPT !.pc = IF ok /\ call[c].kind # "compact" THEN "group" ELSE "finish",
                                       !.ok = ok, !.last = c]
           r1 == [call[c] EXCEPT !.pc = "sleep"]
           r2 == [call[c] EXCEPT !.force = FALSE]
           Same(r) == /\ r \in CallRecord /\ r.kind = call[c].kind /\ r.id = call[c].id
                      /\ r.done = call[c].done /\ r.batch = call[c].batch
<1>1. call[c] \in CallRecord /\ call[c].pc = "room"
  BY CallFacts DEF MakeRoomForWrite, At
<1>2. \A ok \in BOOLEAN : /\ Same(room(ok)) /\ room(ok).ok = ok /\ room(ok).last = c
                          /\ room(ok).pc = (IF ok /\ call[c].kind # "compact" THEN "group" ELSE "finish")
  BY ONLY <1>1, c \in Clients, ZenonT(60) DEF CallRecord, FrontPcs
<1>3. Same(r1) /\ r1.pc = "sleep" /\ Same(r2) /\ r2.pc = "room"
  BY ONLY <1>1 DEF CallRecord, FrontPcs
<1>4. \/ Set(c, room(FALSE))
      \/ Set(c, room(TRUE)) /\ ~bg_error_
      \/ Set(c, r1) \/ Set(c, r2) \/ call' = call
  BY DEF MakeRoomForWrite, RoomDone, Stay
<1> HIDE DEF room, r1, r2
<1>5. ASSUME NEW r, Same(r), Set(c, r)
      PROVE  call' \in [Clients -> CallRecord] /\ Others(c) /\ Kept(c) /\ call'[c] = r
  BY <1>5, SetFacts DEF Kept
<1>6. CASE Set(c, room(FALSE))
  BY <1>1, <1>2, <1>5, <1>6
<1>7. CASE Set(c, room(TRUE)) /\ ~bg_error_
  BY <1>1, <1>2, <1>5, <1>7 DEF HasBatch
<1>8. CASE Set(c, r1) \/ Set(c, r2)
  BY <1>1, <1>3, <1>5, <1>8
<1>9. CASE call' = call
  BY <1>1, <1>9 DEF TypeOK, StoreTypes, StateTypes, QueueTypes, Others, Kept
<1> QED BY <1>4, <1>6, <1>7, <1>8, <1>9

\* What the end of SleepForMicroseconds does to the calls.
LEMMA WakeUpEffect ==
  ASSUME TypeOK, NEW c \in Clients, WakeUp(c)
  PROVE  /\ call' \in [Clients -> CallRecord] /\ Others(c) /\ Kept(c)
         /\ call[c].pc = "sleep" /\ call'[c].pc = "room"
<1> DEFINE r == [call[c] EXCEPT !.pc = "room", !.delay = FALSE]
<1>1. call[c] \in CallRecord /\ call[c].pc = "sleep" /\ Set(c, r)
  BY CallFacts DEF WakeUp, At
<1>2. /\ r \in CallRecord /\ r.kind = call[c].kind /\ r.id = call[c].id /\ r.done = call[c].done
      /\ r.pc = "room" /\ r.batch = call[c].batch
  BY ONLY <1>1 DEF CallRecord, FrontPcs
<1> HIDE DEF r
<1> QED BY <1>1, <1>2, SetFacts DEF Kept

\* The steps between releasing and taking the mutex.
LEMMA AddRecordEffect ==
  ASSUME TypeOK, NEW c \in Clients, NEW fails \in BOOLEAN, AddRecord(c, fails)
  PROVE  /\ call' \in [Clients -> CallRecord] /\ Others(c) /\ Kept(c)
         /\ call[c].pc = "log" /\ call'[c].last = call[c].last
         /\ call'[c].ok = ~fails /\ call'[c].error = FALSE
         /\ call'[c].pc = IF fails THEN "relock" ELSE IF call[c].kind = "syncput" THEN "sync" ELSE "insert"
<1> DEFINE r == [call[c] EXCEPT !.ok = ~fails, !.error = FALSE,
                   !.pc = IF fails THEN "relock" ELSE IF call[c].kind = "syncput" THEN "sync" ELSE "insert"]
<1>1. call[c] \in CallRecord /\ call[c].pc = "log" /\ Set(c, r)
  BY CallFacts DEF AddRecord, LogStep, At
<1>2. /\ r \in CallRecord /\ r.kind = call[c].kind /\ r.id = call[c].id /\ r.done = call[c].done
      /\ r.batch = call[c].batch /\ r.last = call[c].last
      /\ r.ok = ~fails /\ r.error = FALSE
      /\ r.pc = IF fails THEN "relock" ELSE IF call[c].kind = "syncput" THEN "sync" ELSE "insert"
  BY ONLY <1>1, fails \in BOOLEAN, ZenonT(60) DEF CallRecord, FrontPcs, LoggingPcs
<1> HIDE DEF r
<1> QED BY <1>1, <1>2, SetFacts DEF Kept

\* What logfile_->Sync does to the calls.
LEMMA SyncEffect ==
  ASSUME TypeOK, NEW c \in Clients, NEW fails \in BOOLEAN, Sync(c, fails)
  PROVE  /\ call' \in [Clients -> CallRecord] /\ Others(c) /\ Kept(c)
         /\ call[c].pc = "sync" /\ call'[c].last = call[c].last
         /\ call'[c].ok = ~fails /\ call'[c].error = fails
         /\ call'[c].pc = IF fails THEN "relock" ELSE "insert"
<1> DEFINE r == [call[c] EXCEPT !.ok = ~fails, !.error = fails, !.pc = IF fails THEN "relock" ELSE "insert"]
<1>1. call[c] \in CallRecord /\ call[c].pc = "sync" /\ Set(c, r)
  BY CallFacts DEF Sync, LogStep, At
<1>2. /\ r \in CallRecord /\ r.kind = call[c].kind /\ r.id = call[c].id /\ r.done = call[c].done
      /\ r.batch = call[c].batch /\ r.last = call[c].last
      /\ r.ok = ~fails /\ r.error = fails /\ r.pc = IF fails THEN "relock" ELSE "insert"
  BY ONLY <1>1, fails \in BOOLEAN DEF CallRecord, FrontPcs, LoggingPcs
<1> HIDE DEF r
<1> QED BY <1>1, <1>2, SetFacts DEF Kept

\* What WriteBatchInternal::InsertInto does to the calls.
LEMMA InsertEffect ==
  ASSUME TypeOK, NEW c \in Clients, InsertInto(c)
  PROVE  /\ call' \in [Clients -> CallRecord] /\ Others(c) /\ Kept(c)
         /\ call[c].pc = "insert" /\ call'[c].last = call[c].last
         /\ call'[c].ok = call[c].ok /\ call'[c].pc = "relock"
<1> DEFINE r == [call[c] EXCEPT !.pc = "relock"]
<1>1. call[c] \in CallRecord /\ call[c].pc = "insert" /\ Set(c, r)
  BY CallFacts DEF InsertInto, LogStep, At
<1>2. /\ r \in CallRecord /\ r.kind = call[c].kind /\ r.id = call[c].id /\ r.done = call[c].done
      /\ r.batch = call[c].batch /\ r.last = call[c].last /\ r.ok = call[c].ok /\ r.pc = "relock"
  BY ONLY <1>1 DEF CallRecord, FrontPcs, LoggingPcs
<1> HIDE DEF r
<1> QED BY <1>1, <1>2, SetFacts DEF Kept

\* What the second mutex_.Lock of Write does to the calls.
LEMMA FinishLoggingEffect ==
  ASSUME TypeOK, NEW c \in Clients, FinishLogging(c)
  PROVE  /\ call' \in [Clients -> CallRecord] /\ Others(c) /\ Kept(c)
         /\ call[c].pc = "relock" /\ call'[c].last = call[c].last
         /\ call'[c].ok = call[c].ok /\ call'[c].pc = "finish"
<1> DEFINE r == [call[c] EXCEPT !.pc = "finish"]
<1>1. call[c] \in CallRecord /\ call[c].pc = "relock" /\ Set(c, r)
  BY CallFacts DEF FinishLogging, At
<1>2. /\ r \in CallRecord /\ r.kind = call[c].kind /\ r.id = call[c].id /\ r.done = call[c].done
      /\ r.batch = call[c].batch /\ r.last = call[c].last /\ r.ok = call[c].ok /\ r.pc = "finish"
  BY ONLY <1>1 DEF CallRecord, FrontPcs
<1> HIDE DEF r
<1> QED BY <1>1, <1>2, SetFacts DEF Kept

\* The group leaves the queue: its leader returns, its other members are done.
LEMMA PopEffect ==
  ASSUME TypeOK, QueueInv, GroupInv, NEW c \in Clients, PopGroup(c)
  PROVE  \E n \in Places :
           /\ writers_[n] = call[c].last /\ call[c].pc = "finish"
           /\ writers_' \in Seq(Clients) /\ Len(writers_') = Len(writers_) - n
           /\ \A i \in 1 .. Len(writers_) - n : writers_'[i] = writers_[n + i]
           /\ call' \in [Clients -> CallRecord]
           /\ \A x \in Clients : call'[x].kind = call[x].kind /\ call'[x].id = call[x].id
           /\ call'[c].pc \in OtherPcs
           /\ \A x \in Clients \ {c} :
                IF \E i \in 1 .. n : writers_[i] = x
                THEN call'[x].pc = call[x].pc /\ call'[x].done = TRUE /\ call'[x].ok = call[c].ok
                ELSE call'[x] = call[x]
<1>1. /\ call[c].pc = "finish" /\ writers_ \in Seq(Clients) /\ Len(writers_) \in Nat
      /\ DOMAIN writers_ = Places
  <2>1. call[c].pc = "finish"
    BY DEF PopGroup, Pop, At
  <2>2. writers_ \in Seq(Clients)
    BY DEF TypeOK, StoreTypes, StateTypes, QueueTypes
  <2> QED BY <2>1, <2>2 DEF Places
<1> DEFINE n == GroupSize(c)
           group == {writers_[i] : i \in 1 .. n}
           back == Returned(c, call[c].ok)
           mate(x) == [call[x] EXCEPT !.done = TRUE, !.ok = call[c].ok]
<1>2. n \in Places /\ writers_[n] = call[c].last
  <2>1. \E i \in DOMAIN writers_ : writers_[i] = call[c].last
    BY <1>1 DEF GroupInv
  <2> QED BY <1>1, <2>1 DEF GroupSize
<1>3. /\ writers_' = SubSeq(writers_, n + 1, Len(writers_))
      /\ call' = [x \in Clients |-> IF x = c THEN back ELSE IF x \in group THEN mate(x) ELSE call[x]]
  BY DEF PopGroup, Pop
<1>4. /\ writers_' \in Seq(Clients) /\ Len(writers_') = Len(writers_) - n
      /\ \A i \in 1 .. Len(writers_) - n : writers_'[i] = writers_[n + i]
  <2> HIDE DEF n
  <2>1. n \in Nat /\ 1 <= n /\ n <= Len(writers_)
    BY <1>1, <1>2 DEF Places
  <2>2. writers_' = SubSeq(writers_, n + 1, Len(writers_))
    BY <1>3
  <2> QED BY ONLY <1>1, <2>1, <2>2
<1>5. \A x \in Clients : call[x] \in CallRecord /\ call[x].ok \in BOOLEAN
  BY CallFacts
<1>6. back \in CallRecord /\ back.kind = call[c].kind /\ back.id = call[c].id /\ back.pc \in OtherPcs
  BY ONLY <1>5, c \in Clients DEF CallRecord, Returned, OtherPcs
<1>7. ASSUME NEW x \in Clients
      PROVE  /\ mate(x) \in CallRecord /\ mate(x).kind = call[x].kind /\ mate(x).id = call[x].id
             /\ mate(x).pc = call[x].pc /\ mate(x).done = TRUE /\ mate(x).ok = call[c].ok
  <2>1. call[x] \in CallRecord /\ call[c].ok \in BOOLEAN
    BY <1>5
  <2> QED BY ONLY <2>1 DEF CallRecord
<1> HIDE DEF n, back, mate
<1>8. \A x \in Clients : x \in group <=> \E i \in 1 .. n : writers_[i] = x
  OBVIOUS
<1> HIDE DEF group
<1>9. call' \in [Clients -> CallRecord]
  BY <1>3, <1>5, <1>6, <1>7
<1>10. \A x \in Clients : call'[x] = IF x = c THEN back ELSE IF x \in group THEN mate(x) ELSE call[x]
  BY <1>3
<1>11. \A x \in Clients : call'[x].kind = call[x].kind /\ call'[x].id = call[x].id
  BY <1>6, <1>7, <1>10
<1>12. call'[c].pc \in OtherPcs
  BY <1>6, <1>10
<1>13. ASSUME NEW x \in Clients \ {c}
       PROVE  IF \E i \in 1 .. n : writers_[i] = x
              THEN call'[x].pc = call[x].pc /\ call'[x].done = TRUE /\ call'[x].ok = call[c].ok
              ELSE call'[x] = call[x]
  <2>1. CASE x \in group
    <3>1. \E i \in 1 .. n : writers_[i] = x
      BY <2>1, <1>8
    <3>2. call'[x] = mate(x)
      BY <2>1, <1>10
    <3>3. call'[x].pc = call[x].pc /\ call'[x].done = TRUE /\ call'[x].ok = call[c].ok
      BY <1>7, <3>2
    <3> QED BY ONLY <3>1, <3>3
  <2>2. CASE x \notin group
    <3>1. ~(\E i \in 1 .. n : writers_[i] = x)
      BY <2>2, <1>8
    <3>2. call'[x] = call[x]
      BY <2>2, <1>10
    <3> QED BY ONLY <3>1, <3>2
  <2> QED BY <2>1, <2>2
<1> QED BY <1>1, <1>2, <1>4, <1>9, <1>11, <1>12, <1>13

\* CompactRange behind its Write(NULL).
LEMMA CompactRangeEffect ==
  ASSUME TypeOK, NEW c \in Clients, CompactMemTableWait(c) \/ TEST_CompactRange(c)
  PROVE  /\ call' \in [Clients -> CallRecord] /\ Others(c)
         /\ call'[c].kind = call[c].kind /\ call'[c].id = call[c].id
         /\ call[c].pc \in {"memwait", "manual"} /\ call'[c].pc \in OtherPcs
         /\ call'[c].pc # "idle" => call' = call \/ call[c].pc = "memwait"
<1> DEFINE r1 == [call[c] EXCEPT !.pc = "manual"]
           r2 == [call[c] EXCEPT !.pc = "idle", !.done = FALSE]
<1>1. call[c] \in CallRecord /\ call[c].pc \in {"memwait", "manual"}
  BY CallFacts DEF CompactMemTableWait, TEST_CompactRange, At
<1>2. /\ r1 \in CallRecord /\ r1.kind = call[c].kind /\ r1.id = call[c].id /\ r1.pc = "manual"
      /\ r2 \in CallRecord /\ r2.kind = call[c].kind /\ r2.id = call[c].id /\ r2.pc = "idle"
  BY ONLY <1>1 DEF CallRecord, OtherPcs
<1>3. (Set(c, r1) /\ call[c].pc = "memwait") \/ Set(c, r2) \/ call' = call
  BY DEF CompactMemTableWait, TEST_CompactRange, At
<1> HIDE DEF r1, r2
<1>4. CASE Set(c, r1) /\ call[c].pc = "memwait"
  BY <1>1, <1>2, <1>4, SetFacts DEF OtherPcs
<1>5. CASE Set(c, r2)
  BY <1>1, <1>2, <1>5, SetFacts DEF OtherPcs
<1>6. CASE call' = call
  BY <1>1, <1>6 DEF TypeOK, StoreTypes, StateTypes, QueueTypes, Others, OtherPcs
<1> QED BY <1>3, <1>4, <1>5, <1>6

\* The background thread tells a waiting CompactRange that it is done.
LEMMA BgCallEffect ==
  ASSUME TypeOK, QueueInv, BgStep
  PROVE  /\ call' \in [Clients -> CallRecord]
         /\ \A x \in Clients : /\ call'[x].kind = call[x].kind /\ call'[x].id = call[x].id
                               /\ call'[x].pc = call[x].pc
                               /\ call'[x] = call[x] \/ call[x].pc = "manual"
<1> DEFINE m == manual_compaction_
           r == [call[m] EXCEPT !.done = TRUE]
<1>1. call' = call \/ (m # NULL /\ call' = [call EXCEPT ![m].done = TRUE])
  BY DEF BgStep, BackgroundCall, StartCompaction, WriteLevel0Table, CompactMemTable, PrioritizeImm,
         WorkDone, FinishWork, CompactionEnds, InstallCompactionResults, BackgroundCallEnd
<1>2. CASE call' = call
  BY <1>2 DEF TypeOK, StoreTypes, StateTypes, QueueTypes
<1>3. CASE m # NULL /\ call' = [call EXCEPT ![m].done = TRUE]
  <2>1. m \in Clients /\ call[m] \in CallRecord /\ call[m].pc = "manual"
    BY <1>3, CallFacts DEF TypeOK, StoreTypes, StateTypes, QueueTypes, QueueInv
  <2>2. r \in CallRecord /\ r.kind = call[m].kind /\ r.id = call[m].id /\ r.pc = call[m].pc
    BY ONLY <2>1 DEF CallRecord
  <2>3. call' = [call EXCEPT ![m] = r]
    BY <1>3
  <2> HIDE DEF r, m
  <2>4. call' \in [Clients -> CallRecord] /\ call'[m] = r /\ \A x \in Clients \ {m} : call'[x] = call[x]
    BY <2>1, <2>2, <2>3, SetFacts DEF Set, Others
  <2> QED BY <2>1, <2>2, <2>4
<1> QED BY <1>1, <1>2, <1>3
-------------------------------------------------------------------------------
(* Types.                                                                    *)

\* MaybeScheduleCompaction returns work, the work there is or work newly scheduled.
LEMMA ScheduleType ==
  ASSUME bg \in WorkRecord, NEW i, NEW m, NEW l, NEW e
  PROVE  /\ MaybeScheduleCompaction(bg, i, m, l, e) \in WorkRecord
         /\ MaybeScheduleCompaction(NoWork, i, m, l, e) \in WorkRecord
         /\ MaybeScheduleCompaction(bg, i, m, l, e).at \in {bg.at, "scheduled"}
         /\ MaybeScheduleCompaction(NoWork, i, m, l, e).at \in {"idle", "scheduled"}
<1>1. NoWork \in WorkRecord /\ NoWork.at = "idle"
  BY ONLY DEF NoWork, WorkRecord
<1>2. PICK q \in WorkRecord : q = NoWork
  BY <1>1
<1> DEFINE r == [q EXCEPT !.at = "scheduled"]
<1>3. r \in WorkRecord /\ r.at = "scheduled"
  BY ONLY q \in WorkRecord DEF WorkRecord
<1>4. r = [NoWork EXCEPT !.at = "scheduled"]
  BY <1>2
<1> HIDE DEF r
<1>5. /\ MaybeScheduleCompaction(bg, i, m, l, e) \in {bg, r}
      /\ MaybeScheduleCompaction(NoWork, i, m, l, e) \in {NoWork, r}
  BY <1>4 DEF MaybeScheduleCompaction
<1> QED BY <1>1, <1>3, <1>5

\* The log a step writes to, and what it writes, have their types.
LEMMA AcknowledgeType == ASSUME TypeOK, NEW c \in Clients PROVE Acknowledge({c}) \in SUBSET Nat
  BY CallFacts DEF Acknowledge

\* The batch that Write puts together is a set of entries.
LEMMA BatchType ==
  ASSUME TypeOK, NEW c \in Clients
  PROVE  ToSet(call[c].batch) \in SUBSET Entry /\ ToSet(call[c].batch) = Batch(c)
<1>1. call[c].batch \in Seq(Entry)
  BY CallFacts
<1> QED BY <1>1 DEF ToSet, Batch

\* A new log and a new memtable; the old one waits to be compacted.
SwitchMemTable ==
  /\ ~has_imm_ /\ logfile_number_' = logfile_number_ + 1
  /\ logs' = [n \in DOMAIN logs \cup {logfile_number_'} |-> IF n = logfile_number_' THEN NewLog ELSE logs[n]]
  /\ imm_' = mem_ /\ has_imm_' = TRUE /\ mem_' = {}

\* What MakeRoomForWrite changes besides the calls.
LEMMA MakeRoomStore ==
  ASSUME TypeOK, NEW c \in Clients, MakeRoomForWrite(c)
  PROVE  /\ SwitchMemTable \/ UNCHANGED <<memory, logs>>
         /\ UNCHANGED <<writers_, tmp_batch_, last_sequence, version, manual_compaction_, flags, bg_error_, calls, acked>>
         /\ mutex_' \in {c, Free} /\ waiting' \in {waiting, waiting \cup {c}}
         /\ faults' \in {faults, faults + 0, faults + 1}
         /\ bg' = bg \/ bg' = MaybeScheduleCompaction(bg, TRUE, manual_compaction_, num_l0, FALSE)
  BY DEF MakeRoomForWrite, Stay, SwitchMemTable, CountFault, memory

\* Steps of clients.
LEMMA ClientTypes ==
  ASSUME TypeOK, QueueInv, IdInv, GroupInv, BatchInv, LogInv, NEW c \in Clients,
         ClientStep(c) \/ \E kind \in Kinds : Call(c, kind)
  PROVE  TypeOK'
<1> USE DEF TypeOK, memory, version, flags
<1>1. ASSUME NEW kind \in Kinds, Call(c, kind) PROVE TypeOK'
  <2>1. QueueTypes'
    <3>1. writers_' = Append(writers_, c)
      BY <1>1 DEF Call
    <3>2. call' \in [Clients -> CallRecord]
      BY <1>1, CallEffect
    <3>3. writers_ \in Seq(Clients)
      BY DEF QueueTypes
    <3>4. writers_' \in Seq(Clients)
      BY ONLY <3>1, <3>3, c \in Clients
    <3> QED BY ONLY <3>2, <3>4 DEF QueueTypes
  <2>2. /\ calls' = calls + 1 /\ mutex_' = c
        /\ UNCHANGED <<waiting, memory, tmp_batch_, last_sequence, logs, version, manual_compaction_,
                       flags, bg_error_, bg, faults, acked>>
    BY <1>1 DEF Call
  <2>3. StoreTypes' /\ StateTypes'
    BY <2>2, SMTT(40) DEF StoreTypes, StateTypes
  <2> QED BY <2>1, <2>3
<1>2. CASE WaitTurn(c)
  <2>1. QueueTypes'
    BY <1>2, WaitTurnEffect DEF WaitTurn, QueueTypes
  <2>2. StoreTypes' /\ StateTypes'
    BY <1>2, AcknowledgeType DEF WaitTurn, StoreTypes, StateTypes
  <2> QED BY <2>1, <2>2
<1>3. CASE MakeRoomForWrite(c)
  <2>1. QueueTypes'
    BY <1>3, MakeRoomEffect DEF MakeRoomForWrite, QueueTypes
  <2>2. StoreTypes'
    <3>1. UNCHANGED <<tmp_batch_, last_sequence, version>> /\ (SwitchMemTable \/ UNCHANGED <<memory, logs>>)
      BY <1>3, MakeRoomStore
    <3>2. CASE UNCHANGED <<memory, logs>>
      BY <3>1, <3>2 DEF StoreTypes
    <3>3. CASE SwitchMemTable
      <4>1. NewLog \in [recs : SUBSET Entry, synced : SUBSET Entry, doubt : SUBSET Entry]
        BY ONLY DEF NewLog
      <4>2. /\ DOMAIN logs' \in SUBSET Nat
            /\ logs' \in [DOMAIN logs' -> [recs : SUBSET Entry, synced : SUBSET Entry, doubt : SUBSET Entry]]
        BY <3>3, <4>1 DEF SwitchMemTable, StoreTypes
      <4> QED BY <3>1, <3>3, <4>2 DEF SwitchMemTable, StoreTypes
    <3> QED BY <3>1, <3>2, <3>3
  <2>3. StateTypes'
    <3>1. bg' \in WorkRecord
      <4>1. bg \in WorkRecord
        BY DEF StateTypes
      <4>2. bg' = bg \/ bg' = MaybeScheduleCompaction(bg, TRUE, manual_compaction_, num_l0, FALSE)
        BY <1>3, MakeRoomStore
      <4> QED BY ONLY <4>1, <4>2, ScheduleType
    <3>2. /\ UNCHANGED <<version, manual_compaction_, flags, bg_error_, calls, acked>>
          /\ mutex_' \in {c, Free} /\ waiting' \in {waiting, waiting \cup {c}}
          /\ faults' \in {faults, faults + 0, faults + 1}
      BY <1>3, MakeRoomStore
    <3> QED BY <3>1, <3>2 DEF StateTypes
  <2> QED BY <2>1, <2>2, <2>3
<1>4. CASE WakeUp(c)
  <2>1. QueueTypes'
    BY <1>4, WakeUpEffect DEF WakeUp, QueueTypes
  <2>2. StoreTypes' /\ StateTypes'
    BY <1>4 DEF WakeUp, StoreTypes, StateTypes
  <2> QED BY <2>1, <2>2
<1>5. CASE StartLogging(c)
  <2>1. PICK n \in Places, b \in Seq(Entry) :
          /\ call' = [call EXCEPT ![c] = [call[c] EXCEPT !.pc = "log", !.last = writers_[n], !.batch = b]]
          /\ tmp_batch_' = IF Len(b) > 1 THEN BatchIds(n) ELSE tmp_batch_
    BY <1>5, NumberFacts
  <2>2. writers_[n] \in Clients /\ call[c] \in CallRecord /\ call \in [Clients -> CallRecord]
    BY CallFacts DEF QueueTypes, Places
  <2>3. [call[c] EXCEPT !.pc = "log", !.last = writers_[n], !.batch = b] \in CallRecord
    BY ONLY <2>2, b \in Seq(Entry) DEF CallRecord, FrontPcs, LoggingPcs
  <2>4. call' \in [Clients -> CallRecord]
    BY ONLY <2>1, <2>2, <2>3
  <2>5. QueueTypes'
    BY <1>5, <2>4 DEF StartLogging, Number, QueueTypes
  <2>6. StoreTypes' /\ StateTypes'
    <3>1. BatchIds(n) \in Seq(Nat)
      BY BatchIdsFacts
    <3>2. tmp_batch_' \in Seq(Nat)
      BY <2>1, <3>1 DEF StoreTypes
    <3>3. /\ last_sequence' = last_sequence /\ mutex_' = Free
          /\ UNCHANGED <<writers_, waiting, memory, logs, version, manual_compaction_,
                         flags, bg_error_, bg, calls, faults, acked>>
      BY <1>5 DEF StartLogging, Number
    <3> QED BY <3>2, <3>3 DEF StoreTypes, StateTypes
  <2> QED BY <2>5, <2>6
<1>6. CASE InsertInto(c)
  <2>1. QueueTypes'
    BY <1>6, InsertEffect DEF InsertInto, LogStep, QueueTypes
  <2>2. StoreTypes' /\ StateTypes'
    BY <1>6, BatchType, SMTT(40) DEF InsertInto, LogStep, CountFault, StoreTypes, StateTypes
  <2> QED BY <2>1, <2>2
<1>7. ASSUME NEW fails \in BOOLEAN, AddRecord(c, fails) PROVE TypeOK'
  <2>1. QueueTypes'
    BY <1>7, AddRecordEffect DEF AddRecord, LogStep, QueueTypes
  <2>2. StoreTypes'
    BY <1>7, BatchType DEF AddRecord, LogStep, StoreTypes
  <2>3. StateTypes'
    BY <1>7 DEF AddRecord, LogStep, CountFault, StateTypes
  <2> QED BY <2>1, <2>2, <2>3
<1>8. ASSUME NEW fails \in BOOLEAN, Sync(c, fails) PROVE TypeOK'
  <2>1. QueueTypes'
    BY <1>8, SyncEffect DEF Sync, LogStep, QueueTypes
  <2>2. StoreTypes'
    BY <1>8 DEF Sync, LogStep, StoreTypes
  <2>3. StateTypes'
    BY <1>8 DEF Sync, LogStep, CountFault, StateTypes
  <2> QED BY <2>1, <2>2, <2>3
<1>9. CASE FinishLogging(c)
  <2>1. QueueTypes'
    BY <1>9, FinishLoggingEffect DEF FinishLogging, QueueTypes
  <2>2. call[c].error \in BOOLEAN /\ Len(call[c].batch) \in Nat
    BY CallFacts
  <2>3. StoreTypes'
    <3>1. /\ last_sequence' = last_sequence + Len(call[c].batch) /\ (tmp_batch_' = << >> \/ tmp_batch_' = tmp_batch_)
          /\ UNCHANGED <<memory, logs, version>>
      BY <1>9 DEF FinishLogging
    <3>2. tmp_batch_ \in Seq(Nat) /\ last_sequence \in Nat
      BY DEF StoreTypes
    <3>3. tmp_batch_' \in Seq(Nat)
      <4>1. CASE tmp_batch_' = << >>
        BY ONLY <4>1
      <4>2. CASE tmp_batch_' = tmp_batch_
        BY ONLY <4>2, <3>2
      <4> QED BY <3>1, <4>1, <4>2
    <3>4. last_sequence' \in Nat
      BY ONLY <3>1, <3>2, <2>2
    <3> QED BY <3>1, <3>3, <3>4 DEF StoreTypes
  <2>4. StateTypes'
    BY <1>9, <2>2 DEF FinishLogging, NotifyAll, StateTypes
  <2> QED BY <2>1, <2>3, <2>4
<1>10. CASE PopGroup(c)
  <2>1. QueueTypes'
    BY <1>10, PopEffect DEF QueueTypes
  <2>2. StoreTypes' /\ StateTypes'
    BY <1>10, AcknowledgeType DEF PopGroup, Pop, StoreTypes, StateTypes
  <2> QED BY <2>1, <2>2
<1>11. CASE CompactMemTableWait(c)
  <2>1. QueueTypes'
    BY <1>11, CompactRangeEffect DEF CompactMemTableWait, QueueTypes
  <2>2. StoreTypes' /\ StateTypes'
    BY <1>11 DEF CompactMemTableWait, StoreTypes, StateTypes
  <2> QED BY <2>1, <2>2
<1>12. CASE TEST_CompactRange(c)
  <2>1. QueueTypes'
    BY <1>12, CompactRangeEffect DEF TEST_CompactRange, QueueTypes
  <2>2. StoreTypes'
    BY <1>12 DEF TEST_CompactRange, StoreTypes
  <2>3. StateTypes'
    BY <1>12, ScheduleType DEF TEST_CompactRange, StateTypes
  <2> QED BY <2>1, <2>2, <2>3
<1> QED BY <1>1, <1>2, <1>3, <1>4, <1>5, <1>6, <1>7, <1>8, <1>9, <1>10, <1>11, <1>12 DEF ClientStep

\* What the background thread does to the store: a memtable becomes a table and the
\* logs before the current one go; or logs that the manifest does not need go.
FlushMemTable ==
  /\ tables' = tables \cup imm_ /\ log_number' = logfile_number_ /\ imm_' = {} /\ has_imm_' = FALSE
  /\ DeleteObsoleteFiles(logfile_number_)
PruneLogs  == UNCHANGED <<tables, log_number, imm_, has_imm_>> /\ DeleteObsoleteFiles(log_number)
StoreSame  == UNCHANGED <<tables, log_number, imm_, has_imm_, logs>>
ClientSame == UNCHANGED <<writers_, mem_, logfile_number_, tmp_batch_, last_sequence, calls, acked,
                          suspending_compaction_, shutting_down_, suspends>>
BgMoves ==
  \/ bg' \in {AfterMemTable, NoWork}
  \/ bg' = MaybeScheduleCompaction(NoWork, has_imm_, manual_compaction_, num_l0, bg_error_)
  \/ bg' = [bg EXCEPT !.at = "end"]
  \/ bg' = [bg EXCEPT !.at = "build"] /\ has_imm_
  \/ bg' = [bg EXCEPT !.at = "build", !.inner = TRUE] /\ has_imm_
  \/ bg' = [bg EXCEPT !.at = "apply"] /\ bg.at = "build"
  \/ \E n \in Int : bg' = [bg EXCEPT !.at = "work", !.manual = TRUE, !.taken = n]
  \/ \E n \in Int : bg' = [bg EXCEPT !.at = "work", !.taken = n]
  \/ bg' = [bg EXCEPT !.at = "install", !.taken = 1]
  \/ \E ok \in BOOLEAN : bg' = [bg EXCEPT !.at = "finish", !.ok = ok]
  \/ bg' = [bg EXCEPT !.at = "install"]
BgEffect ==
  /\ ClientSame
  /\ \/ FlushMemTable /\ bg' = AfterMemTable
     \/ PruneLogs /\ bg' = [bg EXCEPT !.at = "end"]
     \/ StoreSame /\ BgMoves
  /\ bg_error_ \in BOOLEAN => bg_error_' \in BOOLEAN /\ (bg_error_ => bg_error_')
  /\ mutex_' \in {Free, Bg, mutex_} /\ waiting' \in SUBSET waiting
  /\ faults' \in {faults, faults + 0, faults + 1} /\ life' \in {life, "crashed"}
  /\ manual_compaction_' \in {manual_compaction_, NULL}
  /\ num_l0' = num_l0 \/ num_l0' = num_l0 - bg.taken \/ num_l0' \in {num_l0 + 0, num_l0 + 1}

\* What the background thread changes.
LEMMA BgStore == ASSUME BgStep PROVE BgEffect
<1> USE DEF BgUnchanged, version, ClientSame, StoreSame
<1>1. CASE BackgroundCall
  <2>1. \/ bg' = [bg EXCEPT !.at = "end"]
        \/ bg' = [bg EXCEPT !.at = "build"] /\ has_imm_
        \/ \E n \in 0 .. num_l0 : bg' = [bg EXCEPT !.at = "work", !.manual = TRUE, !.taken = n]
        \/ \E n \in 1 .. num_l0 : bg' = [bg EXCEPT !.at = "work", !.taken = n]
        \/ bg' = [bg EXCEPT !.at = "install", !.taken = 1]
    BY <1>1 DEF BackgroundCall, StartCompaction
  <2>2. BgMoves
    <3>1. (\A n \in 0 .. num_l0 : n \in Int) /\ (\A n \in 1 .. num_l0 : n \in Int)
      BY ONLY TRUE
    <3> QED BY ONLY <2>1, <3>1, Zenon DEF BgMoves
  <2>3. /\ ClientSame /\ StoreSame /\ UNCHANGED <<waiting, life, bg_error_, faults, num_l0>>
        /\ mutex_' \in {Free, Bg} /\ manual_compaction_' \in {manual_compaction_, NULL}
    BY <1>1 DEF BackgroundCall, StartCompaction
  <2> QED BY ONLY <2>2, <2>3 DEF BgEffect
<1>2. ASSUME NEW fails \in BOOLEAN, WriteLevel0Table(fails) PROVE BgEffect
  BY <1>2 DEF WriteLevel0Table, RecordBackgroundError, SignalOnError, NotifyAll, CountFault, HeldAfterMemTable, BgEffect, BgMoves
<1>3. ASSUME NEW fails \in BOOLEAN, CompactMemTable(fails) PROVE BgEffect
  BY <1>3 DEF CompactMemTable, RecordBackgroundError, SignalOnError, NotifyAll, CountFault, HeldAfterMemTable, BgEffect, BgMoves, FlushMemTable
<1>4. CASE PrioritizeImm
  BY <1>4 DEF PrioritizeImm, BgEffect, BgMoves
<1>5. ASSUME NEW fails \in BOOLEAN, WorkDone(fails) PROVE BgEffect
  BY <1>5 DEF WorkDone, CountFault, BgEffect, BgMoves
<1>6. CASE FinishWork
  BY <1>6 DEF FinishWork, CompactionEnds, RecordBackgroundError, SignalOnError, NotifyAll, BgEffect, BgMoves
<1>7. ASSUME NEW fails \in BOOLEAN, InstallCompactionResults(fails) PROVE BgEffect
  BY <1>7 DEF InstallCompactionResults, CompactionEnds, RecordBackgroundError, SignalOnError, NotifyAll, CountFault, BgEffect, PruneLogs
<1>8. CASE BackgroundCallEnd
  BY <1>8 DEF BackgroundCallEnd, NotifyAll, BgEffect, BgMoves
<1> QED BY <1>1, <1>2, <1>3, <1>4, <1>5, <1>6, <1>7, <1>8 DEF BgStep

\* Where the background thread goes next; it builds only while there is an imm_.
LEMMA BgWork ==
  ASSUME bg \in WorkRecord, BgMoves \/ bg' = AfterMemTable \/ bg' = [bg EXCEPT !.at = "end"]
  PROVE  /\ bg' \in WorkRecord
         /\ bg'.at \in {"build", "apply"} => has_imm_ \/ bg.at = "build"
         /\ bg' = AfterMemTable \/ bg' = [bg EXCEPT !.at = "end"] => bg'.at \notin {"build", "apply"}
<1>1. /\ AfterMemTable \in WorkRecord /\ AfterMemTable.at \in {"work", "end"}
      /\ [bg EXCEPT !.at = "end"] \in WorkRecord /\ [bg EXCEPT !.at = "end"].at = "end"
  BY ONLY bg \in WorkRecord DEF WorkRecord, AfterMemTable
<1>2. NoWork \in WorkRecord /\ NoWork.at = "idle"
  BY ONLY DEF NoWork, WorkRecord
<1>3. /\ MaybeScheduleCompaction(NoWork, has_imm_, manual_compaction_, num_l0, bg_error_) \in WorkRecord
      /\ MaybeScheduleCompaction(NoWork, has_imm_, manual_compaction_, num_l0, bg_error_).at \in {"idle", "scheduled"}
  BY ScheduleType
<1>4. CASE bg' = [bg EXCEPT !.at = "build"] /\ has_imm_
  BY ONLY <1>4, bg \in WorkRecord DEF WorkRecord, AfterMemTable
<1>5. CASE bg' = [bg EXCEPT !.at = "build", !.inner = TRUE] /\ has_imm_
  BY ONLY <1>5, bg \in WorkRecord DEF WorkRecord, AfterMemTable
<1>6. CASE bg' = [bg EXCEPT !.at = "apply"] /\ bg.at = "build"
  BY ONLY <1>6, bg \in WorkRecord DEF WorkRecord, AfterMemTable
<1>7. ASSUME NEW n \in Int, bg' = [bg EXCEPT !.at = "work", !.manual = TRUE, !.taken = n]
      PROVE  bg' \in WorkRecord /\ bg'.at = "work"
  BY ONLY <1>7, bg \in WorkRecord DEF WorkRecord
<1>8. ASSUME NEW n \in Int, bg' = [bg EXCEPT !.at = "work", !.taken = n]
      PROVE  bg' \in WorkRecord /\ bg'.at = "work"
  BY ONLY <1>8, bg \in WorkRecord DEF WorkRecord
<1>9. CASE bg' = [bg EXCEPT !.at = "install", !.taken = 1] \/ bg' = [bg EXCEPT !.at = "install"]
  <2>1. ASSUME NEW n \in Int, bg' = [bg EXCEPT !.at = "install", !.taken = n]
        PROVE  bg' \in WorkRecord /\ bg'.at = "install"
    BY ONLY <2>1, bg \in WorkRecord DEF WorkRecord
  <2>2. ASSUME bg' = [bg EXCEPT !.at = "install"] PROVE bg' \in WorkRecord /\ bg'.at = "install"
    BY ONLY <2>2, bg \in WorkRecord DEF WorkRecord
  <2>3. 1 \in Int
    OBVIOUS
  <2>4. bg' \in WorkRecord /\ bg'.at = "install"
    BY <1>9, <2>1, <2>2, <2>3, Zenon
  <2> QED BY ONLY <2>4
<1>10. ASSUME NEW ok \in BOOLEAN, bg' = [bg EXCEPT !.at = "finish", !.ok = ok]
       PROVE  bg' \in WorkRecord /\ bg'.at = "finish"
  BY ONLY <1>10, bg \in WorkRecord DEF WorkRecord
<1>11. CASE bg' = AfterMemTable \/ bg' = [bg EXCEPT !.at = "end"]
  BY <1>1, <1>11
<1>12. CASE bg' = NoWork \/ bg' = MaybeScheduleCompaction(NoWork, has_imm_, manual_compaction_, num_l0, bg_error_)
  BY <1>1, <1>2, <1>3, <1>12
<1>13. CASE \E n \in Int : \/ bg' = [bg EXCEPT !.at = "work", !.manual = TRUE, !.taken = n]
                           \/ bg' = [bg EXCEPT !.at = "work", !.taken = n]
  BY <1>1, <1>7, <1>8, <1>13
<1>14. CASE \E ok \in BOOLEAN : bg' = [bg EXCEPT !.at = "finish", !.ok = ok]
  BY <1>1, <1>10, <1>14
<1> QED BY <1>4, <1>5, <1>6, <1>9, <1>11, <1>12, <1>13, <1>14, Zenon DEF BgMoves

\* Logs go, the rest stay as they are.
LEMMA PrunedLogs ==
  ASSUME TypeOK, NEW needed \in Nat, DeleteObsoleteFiles(needed)
  PROVE  /\ DOMAIN logs' \in SUBSET Nat
         /\ logs' \in [DOMAIN logs' -> [recs : SUBSET Entry, synced : SUBSET Entry, doubt : SUBSET Entry]]
         /\ \A n \in DOMAIN logs' : n \in DOMAIN logs /\ logs'[n] = logs[n]
         /\ \A n \in DOMAIN logs : n >= needed => n \in DOMAIN logs'
<1>1. /\ DOMAIN logs \in SUBSET Nat /\ logs \in [DOMAIN logs -> [recs : SUBSET Entry, synced : SUBSET Entry, doubt : SUBSET Entry]]
  BY DEF TypeOK, StoreTypes
<1>2. logs' = [n \in {n \in DOMAIN logs : n >= needed} |-> logs[n]]
  BY DEF DeleteObsoleteFiles
<1> QED BY ONLY <1>1, <1>2

\* The background thread keeps the types.
LEMMA BgTypes == ASSUME TypeOK, QueueInv, BgStep PROVE TypeOK'
<1>1. BgEffect
  BY BgStore
<1>2. QueueTypes'
  BY <1>1, BgCallEffect DEF BgEffect, ClientSame, TypeOK, QueueTypes
<1>3. StoreTypes'
  <2>1. CASE FlushMemTable
    <3>1. DOMAIN logs' \in SUBSET Nat /\ logs' \in [DOMAIN logs' -> [recs : SUBSET Entry, synced : SUBSET Entry, doubt : SUBSET Entry]]
      BY <2>1, PrunedLogs DEF FlushMemTable, TypeOK, StoreTypes
    <3> QED BY <1>1, <2>1, <3>1 DEF BgEffect, ClientSame, FlushMemTable, TypeOK, StoreTypes
  <2>2. CASE PruneLogs
    <3>1. DOMAIN logs' \in SUBSET Nat /\ logs' \in [DOMAIN logs' -> [recs : SUBSET Entry, synced : SUBSET Entry, doubt : SUBSET Entry]]
      BY <2>2, PrunedLogs DEF PruneLogs, TypeOK, StoreTypes
    <3> QED BY <1>1, <2>2, <3>1 DEF BgEffect, ClientSame, PruneLogs, TypeOK, StoreTypes
  <2>3. CASE StoreSame
    BY <1>1, <2>3 DEF BgEffect, ClientSame, StoreSame, TypeOK, StoreTypes
  <2> QED BY <1>1, <2>1, <2>2, <2>3 DEF BgEffect
<1>4. StateTypes'
  <2>1. bg \in WorkRecord /\ bg.taken \in Int /\ num_l0 \in Int
    BY DEF TypeOK, StateTypes, WorkRecord
  <2>2. bg' \in WorkRecord
    BY <1>1, <2>1, BgWork DEF BgEffect
  <2>3. num_l0' \in Int
    BY <1>1, <2>1 DEF BgEffect
  <2>4. /\ mutex_' \in {Free, Bg, mutex_} /\ waiting' \in SUBSET waiting
        /\ faults' \in {faults, faults + 0, faults + 1} /\ life' \in {life, "crashed"}
        /\ manual_compaction_' \in {manual_compaction_, NULL} /\ ClientSame
        /\ bg_error_ \in BOOLEAN => bg_error_' \in BOOLEAN
    BY <1>1 DEF BgEffect
  <2> QED BY <2>2, <2>3, <2>4 DEF ClientSame, TypeOK, StateTypes
<1> QED BY <1>2, <1>3, <1>4 DEF TypeOK

\* Suspending, resuming and closing keep the types.
LEMMA OtherTypes ==
  ASSUME TypeOK, SuspendCompaction \/ ResumeCompaction \/ BeginClose \/ EndClose \/ UNCHANGED vars
  PROVE  TypeOK'
<1> USE DEF TypeOK, StoreTypes, StateTypes, QueueTypes, memory, version, flags
<1>1. CASE SuspendCompaction
  BY <1>1, SMTT(40) DEF SuspendCompaction
<1>2. CASE ResumeCompaction
  BY <1>2 DEF ResumeCompaction
<1>3. CASE BeginClose
  BY <1>3 DEF BeginClose
<1>4. CASE EndClose
  BY <1>4 DEF EndClose
<1>5. CASE UNCHANGED vars
  BY <1>5 DEF vars
<1> QED BY <1>1, <1>2, <1>3, <1>4, <1>5

\* Every step keeps the types.
LEMMA TypeStep ==
  ASSUME Inv, [Next]_vars
  PROVE  TypeOK'
  BY ClientTypes, BgTypes, OtherTypes DEF Inv, Next, Terminated

-------------------------------------------------------------------------------
(* Steps that log nothing.  They change neither the queue nor the numbers,   *)
(* and a writer they move is not between "log" and "relock".                 *)

QuietCall(x) ==
  /\ call'[x].kind = call[x].kind /\ call'[x].id = call[x].id
  /\ \/ call'[x] = call[x]
     \/ call[x].pc \in OtherPcs /\ call'[x].pc \in OtherPcs /\ (call[x].pc = "idle" => call'[x].pc = "idle")
     \/ call[x].pc = "write" /\ call[x].done /\ call'[x].pc \in OtherPcs
     \/ /\ call[x].pc = "write" /\ ~call[x].done /\ 1 \in Places /\ writers_[1] = x
        /\ call'[x].pc = "room" /\ ~call'[x].done
     \/ /\ call[x].pc \in {"room", "sleep"} /\ call'[x].done = call[x].done
        /\ \/ call'[x].pc \in {"room", "sleep"}
           \/ call'[x].pc = "group" /\ HasBatch(x) /\ ~bg_error_
           \/ call'[x].pc = "finish" /\ call'[x].last = x /\ (call'[x].ok => ~HasBatch(x))
QuietStore ==
  /\ Entries' = Entries /\ Records' \subseteq Records /\ Durable \subseteq Durable'
  /\ \/ UNCHANGED <<mem_, logfile_number_>> /\ logs'[logfile_number_] = logs[logfile_number_]
     \/ \A c \in Clients : call[c].pc \notin LoggingPcs
Quiet ==
  /\ UNCHANGED <<writers_, last_sequence, tmp_batch_, calls>> /\ (bg_error_ => bg_error_')
  /\ QuietStore /\ \A x \in Clients : QuietCall(x)
  /\ manual_compaction_' # NULL => call'[manual_compaction_'].pc = "manual"
  /\ \A i \in acked' : i \in acked \/ \E x \in Clients : Committed(x) /\ HasBatch(x) /\ i = call[x].id

\* Whoever logs is not touched.
LEMMA QuietLogging ==
  ASSUME Quiet, NEW c \in Clients
  PROVE  /\ call[c].pc \in LoggingPcs \/ call'[c].pc \in LoggingPcs => call'[c] = call[c]
         /\ call'[c].pc = "finish" => \/ call'[c] = call[c]
                                      \/ call'[c].last = c /\ (call'[c].ok => ~HasBatch(c)) /\ call[c].pc \in {"room", "sleep"}
         /\ call'[c].pc = "group" => call'[c] = call[c] \/ (HasBatch(c) /\ ~bg_error_)
         /\ call'[c].pc = "write" => call'[c] = call[c]
         /\ call'[c].kind = call[c].kind /\ call'[c].id = call[c].id
  BY Zenon DEF Quiet, QuietCall, LoggingPcs, OtherPcs

\* A quiet step leaves the write groups as they are.
LEMMA QuietGroups ==
  ASSUME Quiet, NEW c \in Clients, call'[c].last = call[c].last
  PROVE  \A x : InGroup(c, x)' <=> InGroup(c, x)
  BY DEF Quiet, InGroup, Places

\* A quiet step leaves the writes under way as they are.
LEMMA QuietPending ==
  ASSUME Quiet
  PROVE  \A e : Pending(e)' <=> Pending(e)
<1>1. \A c \in Clients : call[c].pc \in LoggingPcs \/ call'[c].pc \in LoggingPcs => call'[c] = call[c]
  BY QuietLogging
<1>2. \A c \in Clients : call'[c] = call[c] => Batch(c)' = Batch(c)
  BY DEF Batch
<1> QED BY <1>1, <1>2, Zenon DEF Pending

\* A quiet step keeps the queue of writers and the numbers of the calls.
LEMMA QuietQueue ==
  ASSUME Inv, Quiet
  PROVE  QueueInv' /\ IdInv'
<1>1. writers_' = writers_ /\ Places' = Places /\ calls' = calls
  BY DEF Quiet, Places
<1>2. \A i \in Places : writers_[i] \in Clients
  BY DEF Inv, TypeOK, QueueTypes, Places
<1>3. \A i \in Places : call'[writers_[i]].pc \in FrontPcs \cup {"write"} /\ ~call'[writers_[i]].done
  <2> SUFFICES ASSUME NEW i \in Places
               PROVE  call'[writers_[i]].pc \in FrontPcs \cup {"write"} /\ ~call'[writers_[i]].done
    OBVIOUS
  <2>1. QuietCall(writers_[i])
    BY <1>2 DEF Quiet
  <2>2. call[writers_[i]].pc \in FrontPcs \cup {"write"} /\ ~call[writers_[i]].done
    BY DEF Inv, QueueInv
  <2>3. call[writers_[i]].pc \notin OtherPcs
    BY <2>2 DEF FrontPcs, LoggingPcs, OtherPcs
  <2> QED BY <2>1, <2>2, <2>3, Zenon DEF QuietCall, FrontPcs
<1>4. \A c \in Clients : call'[c].pc \in FrontPcs => 1 \in Places /\ writers_[1] = c
  <2> SUFFICES ASSUME NEW c \in Clients, call'[c].pc \in FrontPcs PROVE 1 \in Places /\ writers_[1] = c
    OBVIOUS
  <2>1. call[c].pc \in FrontPcs => 1 \in Places /\ writers_[1] = c
    BY DEF Inv, QueueInv
  <2>2. call'[c].pc \notin OtherPcs
    BY DEF FrontPcs, LoggingPcs, OtherPcs
  <2> QED BY <2>1, <2>2 DEF Quiet, QuietCall, FrontPcs
<1>5. \A c \in Clients : call'[c].pc = "write" /\ ~call'[c].done => \E i \in Places : writers_[i] = c
  BY QuietLogging DEF Inv, QueueInv
<1>6. QueueInv'
  BY <1>1, <1>3, <1>4, <1>5 DEF Inv, QueueInv, Quiet
<1>7. \A c \in Clients : call'[c].id = call[c].id /\ (call'[c].pc # "idle" => call[c].pc # "idle")
  BY DEF Quiet, QuietCall, OtherPcs
<1> QED BY <1>1, <1>6, <1>7 DEF Inv, IdInv

\* A quiet step keeps the groups and their batches.
LEMMA QuietGroup ==
  ASSUME Inv, Quiet
  PROVE  GroupInv' /\ BatchInv'
<1>1. /\ writers_' = writers_ /\ Places' = Places /\ last_sequence' = last_sequence /\ tmp_batch_' = tmp_batch_
      /\ \A c \in Clients : HasBatch(c)' = HasBatch(c) /\ call'[c].id = call[c].id /\ call'[c].kind = call[c].kind
  BY DEF Quiet, QuietCall, Places, HasBatch
<1>2. \A c \in Clients : call'[c].pc \in LoggingPcs =>
        call'[c] = call[c] /\ Batch(c)' = Batch(c) /\ \A x : InGroup(c, x)' <=> InGroup(c, x)
  BY QuietLogging, QuietGroups DEF Batch
<1>3. ASSUME NEW c \in Clients, call'[c].pc \in LoggingPcs \cup {"finish"}
      PROVE  \E n \in Places : writers_[n] = call'[c].last
  <2>1. CASE call'[c] = call[c]
    BY <1>3, <2>1 DEF Inv, GroupInv
  <2>2. CASE call'[c] # call[c]
    <3>1. call'[c].last = c /\ call[c].pc \in {"room", "sleep"}
      BY <1>3, <2>2, QuietLogging
    <3>2. 1 \in Places /\ writers_[1] = c
      BY <3>1 DEF Inv, QueueInv, FrontPcs
    <3> QED BY <3>1, <3>2
  <2> QED BY <2>1, <2>2
<1>4. ASSUME NEW c \in Clients, call'[c].pc \in {"group"} \cup LoggingPcs PROVE HasBatch(c)
  BY <1>4, QuietLogging DEF Inv, GroupInv
<1>5. ASSUME NEW c \in Clients, NEW x \in Clients, call'[c].pc \in LoggingPcs, InGroup(c, x)'
      PROVE  /\ HasBatch(x) => \E e \in Batch(c)' : e.id = call'[x].id
             /\ call'[x].kind = "syncput" => call'[c].kind = "syncput"
  <2>1. call[c].pc \in LoggingPcs /\ InGroup(c, x)
    BY <1>2, <1>5
  <2> QED BY <1>1, <1>2, <1>5, <2>1 DEF Inv, GroupInv
<1>6. GroupInv'
  BY <1>1, <1>3, <1>4, <1>5 DEF GroupInv
<1>7. ASSUME NEW c \in Clients, call'[c].pc \in LoggingPcs
      PROVE  /\ \A i \in 1 .. Len(call'[c].batch) :
                  /\ call'[c].batch[i].seq = last_sequence + i
                  /\ \E x \in Clients : InGroup(c, x)' /\ call'[c].batch[i].id = call'[x].id
             /\ \A a, b \in Batch(c)' : a.id = b.id => a = b
  <2>1. call'[c] = call[c] /\ Batch(c)' = Batch(c) /\ \A x : InGroup(c, x)' <=> InGroup(c, x)
    BY <1>2, <1>7
  <2>2. call[c].pc \in LoggingPcs
    BY <1>7, <2>1
  <2>3. /\ \A i \in 1 .. Len(call[c].batch) :
             /\ call[c].batch[i].seq = last_sequence + i
             /\ \E x \in Clients : InGroup(c, x) /\ call[c].batch[i].id = call[x].id
        /\ \A a, b \in Batch(c) : a.id = b.id => a = b
    BY <2>2 DEF Inv, BatchInv
  <2>4. \A i \in 1 .. Len(call[c].batch) : \E x \in Clients : InGroup(c, x)' /\ call[c].batch[i].id = call'[x].id
    BY <1>1, <2>1, <2>3, ZenonT(60)
  <2>5. call'[c].batch = call[c].batch
    BY <2>1
  <2>6. \A a, b \in Batch(c)' : a.id = b.id => a = b
    BY ONLY <2>1, <2>3, Zenon
  <2>7. \A i \in 1 .. Len(call[c].batch) : call[c].batch[i].seq = last_sequence + i
    BY ONLY <2>3
  <2>8. \A i \in 1 .. Len(call'[c].batch) :
          /\ call'[c].batch[i].seq = last_sequence + i
          /\ \E x \in Clients : InGroup(c, x)' /\ call'[c].batch[i].id = call'[x].id
    BY ONLY <2>4, <2>5, <2>7
  <2> QED BY ONLY <2>6, <2>8
<1>8. tmp_batch_ # << >> => \E c \in Clients : call'[c].pc \in LoggingPcs /\ Len(call'[c].batch) > 1
  BY QuietLogging, Zenon DEF Inv, BatchInv
<1> QED BY <1>1, <1>6, <1>7, <1>8, Zenon DEF BatchInv

\* A writer that gives up in MakeRoomForWrite, or has nothing to write, is alone in its group.
LEMMA AloneInGroup ==
  ASSUME Inv, Quiet, NEW c \in Clients, call[c].pc \in {"room", "sleep"}, call'[c].last = c,
         NEW x, InGroup(c, x)'
  PROVE  x = c
<1>1. PICK i \in Places, n \in Places : i <= n /\ writers_[n] = c /\ writers_[i] = x
  BY DEF Quiet, InGroup, Places
<1>2. 1 \in Places /\ writers_[1] = c
  BY DEF Inv, QueueInv, FrontPcs
<1>3. n = 1
  BY <1>1, <1>2 DEF Inv, QueueInv
<1> QED BY <1>1, <1>2, <1>3 DEF Places

\* A quiet step keeps what is stored and how far the writes are.
LEMMA QuietStored ==
  ASSUME Inv, Quiet
  PROVE  StoredInv' /\ ProgressInv'
<1>1. /\ writers_' = writers_ /\ Places' = Places /\ last_sequence' = last_sequence /\ calls' = calls
      /\ Entries' = Entries /\ Records' \subseteq Records /\ Stored' \subseteq Stored
  BY DEF Quiet, QuietStore, Places, Stored
<1>2. \A e : Pending(e)' <=> Pending(e)
  BY QuietPending
<1>3. \A i \in Places : writers_[i] \in Clients /\ call'[writers_[i]].id = call[writers_[i]].id
  <2>1. \A i \in Places : writers_[i] \in Clients
    BY DEF Inv, TypeOK, QueueTypes, Places
  <2> QED BY <2>1, QuietLogging
<1>4. ASSUME NEW c \in Clients, call[c].pc = "finish"
      PROVE  call'[c] = call[c] /\ \A x : InGroup(c, x)' <=> InGroup(c, x)
  <2>1. call'[c] = call[c]
    BY <1>4 DEF Quiet, QuietCall, OtherPcs
  <2> QED BY <2>1, QuietGroups
<1>5. \A e \in Stored' : e.id <= calls /\ (e.seq <= last_sequence \/ Pending(e)')
  BY <1>1, <1>2, Zenon DEF Inv, StoredInv
<1>6. ASSUME NEW e \in Stored', NEW i \in Places, e.id = call'[writers_[i]].id
      PROVE  Pending(e)' \/ \E c \in Clients : call'[c].pc = "finish" /\ InGroup(c, writers_[i])'
  <2>1. Pending(e) \/ \E c \in Clients : call[c].pc = "finish" /\ InGroup(c, writers_[i])
    BY <1>1, <1>3, <1>6 DEF Inv, StoredInv
  <2>2. CASE Pending(e)
    BY <1>2, <2>2
  <2>3. ASSUME NEW c \in Clients, call[c].pc = "finish", InGroup(c, writers_[i])
        PROVE  call'[c].pc = "finish" /\ InGroup(c, writers_[i])'
    BY <1>1, <1>4, <2>3 DEF InGroup
  <2> QED BY <2>1, <2>2, <2>3
<1>7. StoredInv'
  <2>1. \A a, b \in Entries' : a.id = b.id <=> a.seq = b.seq
    BY <1>1 DEF Inv, StoredInv
  <2>2. ASSUME NEW e \in Stored', NEW i \in Places', e.id = call'[writers_'[i]].id
        PROVE  Pending(e)' \/ \E c \in Clients : call'[c].pc = "finish" /\ InGroup(c, writers_[i])'
    BY <1>1, <1>6, <2>2
  <2>3. \A e \in Stored' : e.id <= calls' /\ (e.seq <= last_sequence' \/ Pending(e)')
    BY <1>1, <1>5
  <2> QED BY ONLY <2>1, <2>2, <2>3, Zenon DEF StoredInv
<1>8. ASSUME NEW c \in Clients, call'[c].pc \in LoggingPcs
      PROVE  /\ call'[c] = call[c] /\ Batch(c)' = Batch(c) /\ call[c].pc \in LoggingPcs
             /\ mem_' = mem_ /\ logs'[logfile_number_'] = logs[logfile_number_]
  <2>1. call'[c] = call[c]
    BY <1>8, QuietLogging
  <2>2. call[c].pc \in LoggingPcs /\ Batch(c)' = Batch(c)
    BY <1>8, <2>1 DEF Batch
  <2> QED BY <2>1, <2>2 DEF Quiet, QuietStore
<1>9. ProgressInv'
  <2> SUFFICES ASSUME NEW c \in Clients, call'[c].pc \in LoggingPcs
               PROVE  /\ call'[c].pc = "log" => Batch(c)' \cap Records' = {}
                      /\ call'[c].pc \in {"log", "sync", "insert"} => Batch(c)' \cap Entries' = {}
                      /\ call'[c].pc \in {"sync", "insert"} => Batch(c)' \subseteq logs'[logfile_number_'].recs \cup logs'[logfile_number_'].doubt
                      /\ call'[c].pc = "insert" => call'[c].ok
                      /\ call'[c].pc = "insert" /\ call'[c].kind = "syncput" => Batch(c)' \subseteq logs'[logfile_number_'].synced \cup logs'[logfile_number_'].doubt
                      /\ call'[c].pc = "relock" /\ call'[c].ok =>
                           Batch(c)' \subseteq mem_' /\ (call'[c].kind = "syncput" => Batch(c)' \subseteq logs'[logfile_number_'].synced \cup logs'[logfile_number_'].doubt)
                      /\ call'[c].pc = "relock" /\ ~call'[c].ok => 
                           Batch(c)' \cap Entries' = {} /\ (~call'[c].error => Batch(c)' \cap Records' = {})
    BY DEF ProgressInv, LoggingPcs
  <2>1. /\ call'[c] = call[c] /\ Batch(c)' = Batch(c)
        /\ mem_' = mem_ /\ logs'[logfile_number_'] = logs[logfile_number_]
    BY <1>8
  <2> QED BY <1>1, <2>1 DEF Inv, ProgressInv
<1> QED BY <1>7, <1>9

\* A quiet step keeps the commit order and the writes whose fate is open.
LEMMA QuietCommit ==
  ASSUME Inv, Quiet
  PROVE  CommitInv' /\ LostInv'
<1>1. /\ Entries' = Entries /\ Records' \subseteq Records /\ Durable \subseteq Durable'
      /\ \A x \in Clients : call'[x].kind = call[x].kind /\ call'[x].id = call[x].id
  BY DEF Quiet, QuietStore, QuietCall
<1>2. ASSUME NEW x \in Clients, Committed(x)', HasBatch(x)' PROVE Committed(x) /\ HasBatch(x)
  <2>1. HasBatch(x)
    BY <1>1, <1>2 DEF HasBatch
  <2>2. CASE call'[x].pc = "write" /\ call'[x].done /\ call'[x].ok
    BY <2>1, <2>2, QuietLogging DEF Committed
  <2>3. ASSUME NEW c \in Clients, call'[c].pc = "finish", call'[c].ok, InGroup(c, x)' PROVE Committed(x)
    <3>1. CASE call'[c] = call[c]
      <4>1. InGroup(c, x)
        BY <2>3, <3>1, QuietGroups
      <4> QED BY <2>3, <3>1, <4>1 DEF Committed
    <3>2. CASE call'[c] # call[c]
      <4>1. call'[c].last = c /\ ~HasBatch(c) /\ call[c].pc \in {"room", "sleep"}
        BY <2>3, <3>2, QuietLogging
      <4>2. x = c
        BY <2>3, <4>1, AloneInGroup
      <4> QED BY <2>1, <4>1, <4>2
    <3> QED BY <3>1, <3>2
  <2> QED BY <1>2, <2>1, <2>2, <2>3 DEF Committed
<1>3. CommitInv'
  <2>1. ASSUME NEW x \in Clients, Committed(x)', HasBatch(x)'
        PROVE  \E e \in Entries' : e.id = call'[x].id /\ (call'[x].kind = "syncput" => e \in Durable')
    <3>1. \E e \in Entries : e.id = call[x].id /\ (call[x].kind = "syncput" => e \in Durable)
      BY <1>2, <2>1 DEF Inv, CommitInv
    <3> QED BY <1>1, <3>1
  <2>2. ASSUME NEW i \in acked' PROVE \E e \in Entries' : e.id = i
    <3>1. i \in acked \/ \E x \in Clients : Committed(x) /\ HasBatch(x) /\ i = call[x].id
      BY <2>2 DEF Quiet
    <3> QED BY <1>1, <3>1 DEF Inv, CommitInv
  <2> QED BY <2>1, <2>2, Zenon DEF CommitInv
<1>4. LostInv'
  <2> SUFFICES ASSUME NEW e \in Records' \ Entries'
               PROVE  Pending(e)' \/ /\ bg_error_' /\ \A c \in Clients : call'[c].pc \notin {"group"} \cup LoggingPcs
                                     /\ \A a \in Entries' : a.seq < e.seq
    BY Zenon DEF LostInv
  <2>1. e \in Records \ Entries
    BY <1>1
  <2>2. CASE Pending(e)
    BY <2>2, QuietPending
  <2>3. CASE bg_error_ /\ (\A c \in Clients : call[c].pc \notin {"group"} \cup LoggingPcs) /\ (\A a \in Entries : a.seq < e.seq)
    <3>1. \A c \in Clients : call'[c].pc \notin {"group"} \cup LoggingPcs
      BY <2>3, QuietLogging
    <3>2. bg_error_'
      BY <2>3 DEF Quiet
    <3> QED BY <1>1, <2>3, <3>1, <3>2
  <2> QED BY <2>1, <2>2, <2>3 DEF Inv, LostInv
<1> QED BY <1>3, <1>4

\* A quiet step keeps the invariant.
LEMMA QuietInv ==
  ASSUME Inv, Quiet, TypeOK', LogInv'
  PROVE  Inv'
  BY QuietQueue, QuietGroup, QuietStored, QuietCommit DEF Inv
-------------------------------------------------------------------------------
(* The memtable switch and the background thread are quiet.                  *)

\* The types of log numbers, memtables and tables.
LEMMA LogTypes ==
  ASSUME TypeOK
  PROVE  /\ logfile_number_ \in Nat /\ log_number \in Nat /\ \A n \in DOMAIN logs : n \in Nat
         /\ mem_ \in SUBSET Entry /\ imm_ \in SUBSET Entry /\ tables \in SUBSET Entry
  BY DEF TypeOK, StoreTypes

\* A step that leaves memtables, logs and tables alone loses nothing.
LEMMA StoreUnchanged ==
  ASSUME Inv, UNCHANGED <<memory, logs, tables, log_number>>, bg'.at \in {"build", "apply"} => has_imm_
  PROVE  QuietStore /\ LogInv'
<1> USE DEF memory
<1>1. Entries' = Entries /\ Records' = Records /\ Durable' = Durable
  BY DEF Entries, Records, Durable
<1>2. LogInv'
  BY DEF Inv, LogInv
<1> QED BY <1>1, <1>2 DEF QuietStore

\* Switching to a new memtable and log in MakeRoomForWrite loses nothing.
LEMMA SwitchQuiet ==
  ASSUME Inv, SwitchMemTable, UNCHANGED <<tables, log_number>>, NEW c \in Clients, call[c].pc = "room"
  PROVE  QuietStore /\ LogInv'
<1>1. /\ log_number <= logfile_number_ /\ logfile_number_ \in DOMAIN logs
      /\ (\A n \in DOMAIN logs : n <= logfile_number_ /\ logs[n].synced \subseteq logs[n].recs)
      /\ mem_ \subseteq logs[logfile_number_].recs \cup logs[logfile_number_].doubt /\ imm_ = {}
  BY DEF Inv, LogInv, SwitchMemTable
<1>2. logfile_number_ \in Nat /\ log_number \in Nat /\ \A n \in DOMAIN logs : n \in Nat
  BY LogTypes DEF Inv
<1>3. logfile_number_' = logfile_number_ + 1 /\ logfile_number_' \notin DOMAIN logs
  <2>1. logfile_number_' = logfile_number_ + 1
    BY DEF SwitchMemTable
  <2> QED BY ONLY <1>1, <1>2, <2>1
<1>4. /\ DOMAIN logs' = DOMAIN logs \cup {logfile_number_'} /\ logs'[logfile_number_'] = NewLog
      /\ \A n \in DOMAIN logs : logs'[n] = logs[n]
  <2>1. logs' = [n \in DOMAIN logs \cup {logfile_number_'} |-> IF n = logfile_number_' THEN NewLog ELSE logs[n]]
    BY DEF SwitchMemTable
  <2> QED BY ONLY <1>3, <2>1
<1>5. NewLog.recs = {} /\ NewLog.synced = {} /\ NewLog.doubt = {}
  BY ONLY DEF NewLog
<1>6. imm_' = mem_ /\ mem_' = {} /\ has_imm_' = TRUE /\ tables' = tables /\ log_number' = log_number
  BY DEF SwitchMemTable
<1>7. Entries' = Entries
  BY <1>1, <1>6 DEF Entries
<1>8. Records' \subseteq Records
  BY <1>4, <1>5 DEF Records
<1>9. Durable \subseteq Durable'
  <2> SUFFICES ASSUME NEW e \in Durable PROVE e \in Durable'
    OBVIOUS
  <2>1. CASE e \in tables
    BY <1>6, <2>1 DEF Durable
  <2>2. CASE e \in mem_ /\ e \in logs[logfile_number_].synced \cup logs[logfile_number_].doubt
    <3>1. e \in imm_' /\ logfile_number_ \in DOMAIN logs' /\ logfile_number_ >= log_number' /\ e \in logs'[logfile_number_].synced \cup logs'[logfile_number_].doubt
      BY <1>1, <1>2, <1>4, <1>6, <2>2
    <3> QED BY <3>1 DEF Durable
  <2> QED BY <1>1, <2>1, <2>2 DEF Durable
<1>10. \A d \in Clients : call[d].pc \notin LoggingPcs
  BY DEF Inv, QueueInv, FrontPcs, LoggingPcs
<1>11. LogInv'
  <2>1. log_number' <= logfile_number_' /\ \A n \in DOMAIN logs' : n <= logfile_number_'
    BY <1>1, <1>2, <1>3, <1>4, <1>6
  <2>2. ASSUME NEW e \in imm_' PROVE \E n \in DOMAIN logs' : n >= log_number' /\ e \in logs'[n].recs \cup logs'[n].doubt
    <3>1. logfile_number_ \in DOMAIN logs' /\ logfile_number_ >= log_number' /\ e \in logs'[logfile_number_].recs \cup logs'[logfile_number_].doubt
      BY <1>1, <1>2, <1>4, <1>6
    <3> QED BY <3>1
  <2>3. \A n \in DOMAIN logs' : logs'[n].synced \subseteq logs'[n].recs
    BY <1>1, <1>4, <1>5
  <2> QED BY <1>4, <1>6, <2>1, <2>2, <2>3 DEF LogInv
<1> QED BY <1>7, <1>8, <1>9, <1>10, <1>11 DEF QuietStore

\* CompactMemTable moves the entries of imm_ into a table and loses nothing.
LEMMA FlushQuiet ==
  ASSUME Inv, FlushMemTable, UNCHANGED <<mem_, logfile_number_>>, bg'.at \notin {"build", "apply"}
  PROVE  QuietStore /\ LogInv'
<1>1. /\ log_number <= logfile_number_ /\ logfile_number_ \in DOMAIN logs
      /\ (\A n \in DOMAIN logs : n <= logfile_number_ /\ logs[n].synced \subseteq logs[n].recs)
      /\ mem_ \subseteq logs[logfile_number_].recs \cup logs[logfile_number_].doubt
  BY DEF Inv, LogInv
<1>2. logfile_number_ \in Nat /\ log_number \in Nat /\ \A n \in DOMAIN logs : n \in Nat
  BY LogTypes DEF Inv
<1>3. /\ \A n \in DOMAIN logs' : n \in DOMAIN logs /\ logs'[n] = logs[n]
      /\ \A n \in DOMAIN logs : n >= logfile_number_ => n \in DOMAIN logs'
  BY <1>2, PrunedLogs DEF FlushMemTable, Inv
<1>4. /\ tables' = tables \cup imm_ /\ log_number' = logfile_number_ /\ imm_' = {} /\ has_imm_' = FALSE
      /\ mem_' = mem_ /\ logfile_number_' = logfile_number_
  BY DEF FlushMemTable
<1>5. logfile_number_ \in DOMAIN logs' /\ logs'[logfile_number_] = logs[logfile_number_]
  BY <1>1, <1>2, <1>3
<1>6. Entries' = Entries
  BY <1>4 DEF Entries
<1>7. Records' \subseteq Records
  BY <1>3 DEF Records
<1>8. Durable \subseteq Durable'
  BY <1>4, <1>5 DEF Durable
<1>9. LogInv'
  BY <1>1, <1>2, <1>3, <1>4, <1>5 DEF LogInv
<1> QED BY <1>4, <1>5, <1>6, <1>7, <1>8, <1>9 DEF QuietStore

\* DeleteObsoleteFiles removes only logs whose entries are in tables.
LEMMA PruneQuiet ==
  ASSUME Inv, PruneLogs, UNCHANGED <<mem_, logfile_number_>>, bg'.at \notin {"build", "apply"}
  PROVE  QuietStore /\ LogInv'
<1>1. /\ log_number <= logfile_number_ /\ logfile_number_ \in DOMAIN logs
      /\ (\A n \in DOMAIN logs : n <= logfile_number_ /\ logs[n].synced \subseteq logs[n].recs)
      /\ mem_ \subseteq logs[logfile_number_].recs \cup logs[logfile_number_].doubt
      /\ (\A e \in imm_ : \E n \in DOMAIN logs : n >= log_number /\ e \in logs[n].recs \cup logs[n].doubt)
      /\ (~has_imm_ => imm_ = {})
  BY DEF Inv, LogInv
<1>2. logfile_number_ \in Nat /\ log_number \in Nat /\ \A n \in DOMAIN logs : n \in Nat
  BY LogTypes DEF Inv
<1>3. /\ \A n \in DOMAIN logs' : n \in DOMAIN logs /\ logs'[n] = logs[n]
      /\ \A n \in DOMAIN logs : n >= log_number => n \in DOMAIN logs'
  BY <1>2, PrunedLogs DEF PruneLogs, Inv
<1>4. UNCHANGED <<tables, log_number, imm_, has_imm_, mem_, logfile_number_>>
  BY DEF PruneLogs
<1>5. logfile_number_ \in DOMAIN logs' /\ logs'[logfile_number_] = logs[logfile_number_]
  BY <1>1, <1>2, <1>3
<1>6. Entries' = Entries
  BY <1>4 DEF Entries
<1>7. Records' \subseteq Records
  BY <1>3 DEF Records
<1>8. Durable \subseteq Durable'
  BY <1>3, <1>4, <1>5 DEF Durable
<1>9. LogInv'
  BY <1>1, <1>2, <1>3, <1>4, <1>5 DEF LogInv
<1> QED BY <1>4, <1>5, <1>6, <1>7, <1>8, <1>9 DEF QuietStore

\* Every step of the background thread is quiet.
LEMMA BgQuiet ==
  ASSUME Inv, BgStep
  PROVE  Quiet /\ LogInv'
<1>1. BgEffect
  BY BgStore
<1>2. /\ \A x \in Clients : /\ call'[x].kind = call[x].kind /\ call'[x].id = call[x].id
                            /\ call'[x].pc = call[x].pc /\ (call'[x] = call[x] \/ call[x].pc = "manual")
  BY BgCallEffect DEF Inv
<1>3. \A x \in Clients : QuietCall(x)
  BY <1>2 DEF QuietCall, OtherPcs
<1>4. UNCHANGED <<writers_, last_sequence, tmp_batch_, calls, acked, mem_, logfile_number_>> /\ (bg_error_ => bg_error_')
  BY <1>1 DEF BgEffect, ClientSame, Inv, TypeOK, StateTypes
<1>5. manual_compaction_' # NULL => call'[manual_compaction_'].pc = "manual"
  <2>1. manual_compaction_' \in {manual_compaction_, NULL}
    BY <1>1 DEF BgEffect
  <2>2. manual_compaction_ # NULL => manual_compaction_ \in Clients /\ call[manual_compaction_].pc = "manual"
    BY DEF Inv, TypeOK, StateTypes, QueueInv
  <2> QED BY <1>2, <2>1, <2>2
<1>6. QuietStore /\ LogInv'
  <2>1. bg \in WorkRecord /\ (bg.at \in {"build", "apply"} => has_imm_)
    BY DEF Inv, TypeOK, StateTypes, LogInv
  <2>2. CASE FlushMemTable /\ bg' = AfterMemTable
    <3>1. bg'.at \notin {"build", "apply"}
      BY <2>1, <2>2, BgWork
    <3> QED BY <1>4, <2>2, <3>1, FlushQuiet
  <2>3. CASE PruneLogs /\ bg' = [bg EXCEPT !.at = "end"]
    <3>1. bg'.at \notin {"build", "apply"}
      BY <2>1, <2>3, BgWork
    <3> QED BY <1>4, <2>3, <3>1, PruneQuiet
  <2>4. CASE StoreSame /\ BgMoves
    <3>1. bg'.at \in {"build", "apply"} => has_imm_
      BY <2>1, <2>4, BgWork
    <3> QED BY <1>4, <2>4, <3>1, StoreUnchanged DEF StoreSame, memory
  <2> QED BY <1>1, <2>2, <2>3, <2>4 DEF BgEffect
<1> QED BY <1>3, <1>4, <1>5, <1>6 DEF Quiet

\* Suspending, resuming and closing are quiet.
LEMMA OtherQuiet ==
  ASSUME Inv, SuspendCompaction \/ ResumeCompaction \/ BeginClose \/ EndClose \/ UNCHANGED vars
  PROVE  Quiet /\ LogInv'
<1>1. UNCHANGED <<writers_, call, memory, tmp_batch_, last_sequence, logs, version, manual_compaction_,
                  bg_error_, bg, calls, acked>>
  BY DEF SuspendCompaction, ResumeCompaction, BeginClose, EndClose, vars, memory, version
<1>2. QuietStore /\ LogInv'
  BY <1>1, StoreUnchanged DEF version, Inv, LogInv
<1>3. \A x \in Clients : QuietCall(x)
  BY <1>1 DEF QuietCall
<1> QED BY <1>1, <1>2, <1>3 DEF Quiet, Inv, QueueInv

\* The owner of a manual compaction goes on waiting for it.
LEMMA ManualKept ==
  ASSUME Inv, NEW c \in Clients, call[c].pc # "manual", Others(c), manual_compaction_' = manual_compaction_
  PROVE  manual_compaction_' # NULL => call'[manual_compaction_'].pc = "manual"
  BY DEF Inv, TypeOK, StateTypes, QueueInv, Others

\* Waiting in the queue, and returning from it, is quiet.
LEMMA WaitTurnQuiet ==
  ASSUME Inv, NEW c \in Clients, WaitTurn(c)
  PROVE  Quiet /\ LogInv'
<1>1. /\ Others(c) /\ call[c].pc = "write" /\ call'[c].kind = call[c].kind /\ call'[c].id = call[c].id
      /\ call[c].done => call'[c].pc \in OtherPcs /\ acked' = acked \cup (IF call[c].ok THEN Acknowledge({c}) ELSE {})
      /\ ~call[c].done => acked' = acked
      /\ ~call[c].done => call' = call \/ (Head(writers_) = c /\ call'[c].pc = "room" /\ ~call'[c].done)
  BY WaitTurnEffect DEF Inv
<1>2. UNCHANGED <<writers_, memory, tmp_batch_, last_sequence, logs, version, manual_compaction_, bg_error_, bg, calls>>
  BY DEF WaitTurn
<1>3. ~call[c].done /\ Head(writers_) = c => 1 \in Places /\ writers_[1] = c
  <2>1. writers_ \in Seq(Clients)
    BY DEF Inv, TypeOK, QueueTypes
  <2>2. ~call[c].done => \E i \in Places : writers_[i] = c
    BY <1>1 DEF Inv, QueueInv
  <2> QED BY <2>1, <2>2 DEF Places
<1>4. \A x \in Clients : QuietCall(x)
  BY <1>1, <1>3 DEF QuietCall, Others
<1>5. \A i \in acked' : i \in acked \/ \E x \in Clients : Committed(x) /\ HasBatch(x) /\ i = call[x].id
  BY <1>1 DEF Acknowledge, Committed, HasBatch
<1>6. QuietStore /\ LogInv'
  BY <1>2, StoreUnchanged DEF version, Inv, LogInv
<1>7. manual_compaction_' # NULL => call'[manual_compaction_'].pc = "manual"
  BY <1>1, <1>2, ManualKept
<1> QED BY <1>2, <1>4, <1>5, <1>6, <1>7 DEF Quiet

\* MakeRoomForWrite is quiet.
LEMMA MakeRoomQuiet ==
  ASSUME Inv, NEW c \in Clients, MakeRoomForWrite(c)
  PROVE  Quiet /\ LogInv'
<1>1. /\ Others(c) /\ Kept(c) /\ call[c].pc = "room"
      /\ \/ call'[c].pc \in {"room", "sleep"}
         \/ call'[c].pc = "group" /\ HasBatch(c) /\ ~bg_error_
         \/ call'[c].pc = "finish" /\ call'[c].last = c /\ (call'[c].ok => ~HasBatch(c))
  BY MakeRoomEffect DEF Inv
<1>2. /\ SwitchMemTable \/ UNCHANGED <<memory, logs>>
      /\ UNCHANGED <<writers_, tmp_batch_, last_sequence, version, manual_compaction_, bg_error_, calls, acked>>
      /\ bg' = bg \/ bg' = MaybeScheduleCompaction(bg, TRUE, manual_compaction_, num_l0, FALSE)
  BY MakeRoomStore DEF Inv
<1>3. \A x \in Clients : QuietCall(x)
  <2>1. QuietCall(c)
    BY <1>1, Zenon DEF QuietCall, Kept
  <2>2. \A x \in Clients \ {c} : QuietCall(x)
    BY <1>1, Zenon DEF QuietCall, Others
  <2> QED BY <2>1, <2>2
<1>4. bg'.at \in {bg.at, "scheduled"} /\ (bg.at \in {"build", "apply"} => has_imm_)
  <2>1. bg \in WorkRecord /\ (bg.at \in {"build", "apply"} => has_imm_)
    BY DEF Inv, TypeOK, StateTypes, LogInv
  <2>2. bg'.at \in {bg.at, "scheduled"}
    BY ONLY <1>2, <2>1, ScheduleType
  <2> QED BY <2>1, <2>2
<1>5. QuietStore /\ LogInv'
  <2>1. CASE SwitchMemTable
    BY <1>1, <1>2, <2>1, SwitchQuiet DEF version
  <2>2. CASE UNCHANGED <<memory, logs>>
    BY <1>2, <1>4, <2>2, StoreUnchanged DEF version
  <2> QED BY <1>2, <2>1, <2>2
<1>6. manual_compaction_' # NULL => call'[manual_compaction_'].pc = "manual"
  BY <1>1, <1>2, ManualKept
<1> QED BY <1>2, <1>3, <1>5, <1>6 DEF Quiet

\* Waking up from the delay of a write is quiet.
LEMMA WakeUpQuiet ==
  ASSUME Inv, NEW c \in Clients, WakeUp(c)
  PROVE  Quiet /\ LogInv'
<1>1. Others(c) /\ Kept(c) /\ call[c].pc = "sleep" /\ call'[c].pc = "room"
  BY WakeUpEffect DEF Inv
<1>2. UNCHANGED <<writers_, memory, tmp_batch_, last_sequence, logs, version, manual_compaction_, bg_error_, bg, calls, acked>>
  BY DEF WakeUp
<1>3. \A x \in Clients : QuietCall(x)
  BY <1>1 DEF QuietCall, Others, Kept
<1>4. QuietStore /\ LogInv'
  BY <1>2, StoreUnchanged DEF version, Inv, LogInv
<1>5. manual_compaction_' # NULL => call'[manual_compaction_'].pc = "manual"
  BY <1>1, <1>2, ManualKept
<1> QED BY <1>2, <1>3, <1>4, <1>5 DEF Quiet

\* Waiting for a memtable or a manual compaction is quiet.
LEMMA CompactRangeQuiet ==
  ASSUME Inv, NEW c \in Clients, CompactMemTableWait(c) \/ TEST_CompactRange(c)
  PROVE  Quiet /\ LogInv'
<1>1. /\ Others(c) /\ call'[c].kind = call[c].kind /\ call'[c].id = call[c].id
      /\ call[c].pc \in {"memwait", "manual"} /\ call'[c].pc \in OtherPcs
  BY CompactRangeEffect DEF Inv
<1>2. /\ UNCHANGED <<writers_, memory, tmp_batch_, last_sequence, logs, version, bg_error_, calls, acked>>
      /\ bg' = bg \/ bg' = MaybeScheduleCompaction(bg, has_imm_, c, num_l0, bg_error_)
  BY DEF CompactMemTableWait, TEST_CompactRange
<1>3. \A x \in Clients : QuietCall(x)
  BY <1>1 DEF QuietCall, Others, OtherPcs
<1>4. bg'.at \in {bg.at, "scheduled"} /\ (bg.at \in {"build", "apply"} => has_imm_)
  BY <1>2, ScheduleType DEF Inv, TypeOK, StateTypes, LogInv
<1>5. QuietStore /\ LogInv'
  BY <1>2, <1>4, StoreUnchanged DEF version
<1>6. manual_compaction_' # NULL => call'[manual_compaction_'].pc = "manual"
  <2>1. CASE CompactMemTableWait(c)
    BY <1>1, <2>1, ManualKept DEF CompactMemTableWait, At
  <2>2. CASE TEST_CompactRange(c)
    <3>1. call[c].pc = "manual"
      BY <2>2 DEF TEST_CompactRange, At
    <3>2. \/ call' = call /\ manual_compaction_' \in {c, manual_compaction_}
          \/ manual_compaction_' = IF manual_compaction_ = c THEN NULL ELSE manual_compaction_
      BY <2>2 DEF TEST_CompactRange
    <3>3. manual_compaction_ # NULL => manual_compaction_ \in Clients /\ call[manual_compaction_].pc = "manual"
      BY DEF Inv, TypeOK, StateTypes, QueueInv
    <3> QED BY <1>1, <3>1, <3>2, <3>3 DEF Others
  <2> QED BY <2>1, <2>2
<1> QED BY <1>2, <1>3, <1>5, <1>6 DEF Quiet
-------------------------------------------------------------------------------
(* A new writer at the end of the queue.                                     *)

\* A new call keeps the invariant.
LEMMA CallInv ==
  ASSUME Inv, NEW c \in Clients, NEW kind \in Kinds, Call(c, kind), TypeOK'
  PROVE  Inv'
<1>1. /\ Others(c) /\ call'[c].pc = "write" /\ call'[c].id = calls + 1 /\ call'[c].done = FALSE
  BY CallEffect DEF Inv
<1>2. /\ writers_' = Append(writers_, c) /\ calls' = calls + 1 /\ call[c].pc = "idle"
      /\ UNCHANGED <<memory, tmp_batch_, last_sequence, logs, version, manual_compaction_, bg_error_, bg, acked>>
  BY DEF Call, At
<1>3. /\ writers_ \in Seq(Clients) /\ Len(writers_) \in Nat /\ calls \in Nat
      /\ \A x \in Clients : call[x].id \in Nat
  BY CallFacts DEF Inv, TypeOK, QueueTypes, StateTypes
<1>4. /\ Places' = 1 .. Len(writers_) + 1 /\ writers_'[Len(writers_) + 1] = c
      /\ \A i \in Places : i \in Places' /\ writers_'[i] = writers_[i] /\ writers_[i] \in Clients /\ writers_[i] # c
      /\ \A i \in Places' : i \in Places \/ (i = Len(writers_) + 1 /\ writers_'[i] = c)
  <2>1. \A i \in Places : writers_[i] \in Clients
    BY <1>3 DEF Places
  <2>2. \A i \in Places : writers_[i] # c
    BY <1>2 DEF Inv, QueueInv, FrontPcs, LoggingPcs
  <2>3. writers_' = Append(writers_, c)
    BY <1>2
  <2>4. /\ Len(writers_') = Len(writers_) + 1 /\ writers_'[Len(writers_) + 1] = c
        /\ \A i \in 1 .. Len(writers_) : writers_'[i] = writers_[i]
    BY ONLY <1>3, <2>3, c \in Clients
  <2> QED BY <1>3, <2>1, <2>2, <2>4 DEF Places
<1>5. \A x \in Clients \ {c} : call'[x] = call[x]
  BY <1>1 DEF Others
<1>6. QueueInv'
  <2>1. \A i, j \in Places' : writers_'[i] = writers_'[j] => i = j
    BY <1>4 DEF Inv, QueueInv
  <2>2. \A i \in Places' : call'[writers_'[i]].pc \in FrontPcs \cup {"write"} /\ ~call'[writers_'[i]].done
    BY <1>1, <1>4, <1>5 DEF Inv, QueueInv
  <2>3. ASSUME NEW x \in Clients, call'[x].pc \in FrontPcs PROVE 1 \in Places' /\ writers_'[1] = x
    <3>1. x # c
      BY <1>1, <2>3 DEF FrontPcs, LoggingPcs
    <3> QED BY <1>4, <1>5, <2>3, <3>1 DEF Inv, QueueInv
  <2>4. ASSUME NEW x \in Clients, call'[x].pc = "write", ~call'[x].done PROVE \E i \in Places' : writers_'[i] = x
    <3>1. CASE x = c
      <4>1. Len(writers_) + 1 \in Places' /\ writers_'[Len(writers_) + 1] = x
        BY <1>3, <1>4, <3>1
      <4> QED BY <4>1
    <3>2. CASE x # c
      <4>1. \E i \in Places : writers_[i] = x
        BY <1>5, <2>4, <3>2 DEF Inv, QueueInv
      <4> QED BY <1>4, <4>1
    <3> QED BY <3>1, <3>2
  <2>5. manual_compaction_' # NULL => call'[manual_compaction_'].pc = "manual"
    BY <1>1, <1>2, ManualKept
  <2> QED BY <2>1, <2>2, <2>3, <2>4, <2>5 DEF QueueInv
<1>7. IdInv'
  <2>1. \A x \in Clients : call[x].id <= calls
    BY DEF Inv, IdInv
  <2>2. \A x \in Clients : call'[x].id <= calls' /\ (call'[x].pc # "idle" => 1 <= call'[x].id)
    BY <1>1, <1>2, <1>3, <1>5, <2>1 DEF Inv, IdInv
  <2>3. \A x, y \in Clients : call'[x].id = call'[y].id /\ 1 <= call'[x].id => x = y
    BY <1>1, <1>3, <1>5, <2>1 DEF Inv, IdInv
  <2> QED BY <2>2, <2>3 DEF IdInv
<1>8. ASSUME NEW d \in Clients, call'[d].pc \in LoggingPcs \cup {"finish"}
      PROVE  /\ d # c /\ call'[d] = call[d] /\ Batch(d)' = Batch(d)
             /\ \A x : InGroup(d, x)' <=> InGroup(d, x)
  <2>1. d # c /\ call'[d] = call[d]
    BY <1>1, <1>5, <1>8 DEF LoggingPcs
  <2>2. PICK m \in Places : writers_[m] = call[d].last
    BY <1>8, <2>1 DEF Inv, GroupInv
  <2>3. \A n \in Places' : writers_'[n] = call[d].last => n = m
    BY <1>4, <2>2 DEF Inv, QueueInv
  <2>4. m \in Nat /\ m <= Len(writers_)
    BY <2>2 DEF Places
  <2>5. \A i \in Places' : i <= m => i \in Places
    BY <1>3, <1>4, <2>4
  <2>6. \A x : InGroup(d, x)' <=> InGroup(d, x)
    BY <1>4, <2>1, <2>2, <2>3, <2>5 DEF InGroup
  <2> QED BY <2>1, <2>6 DEF Batch
<1>9. \A d \in Clients, x \in Clients : InGroup(d, x) => x # c
  BY <1>4 DEF InGroup
<1>10. \A x \in Clients \ {c} : HasBatch(x)' = HasBatch(x)
  BY <1>5 DEF HasBatch
<1>11. GroupInv'
  <2>1. ASSUME NEW d \in Clients, call'[d].pc \in LoggingPcs \cup {"finish"}
        PROVE  \E n \in Places' : writers_'[n] = call'[d].last
    <3>1. \E n \in Places : writers_[n] = call[d].last
      BY <1>8, <2>1 DEF Inv, GroupInv
    <3> QED BY <1>4, <1>8, <2>1, <3>1
  <2>2. ASSUME NEW d \in Clients, call'[d].pc \in {"group"} \cup LoggingPcs PROVE HasBatch(d)'
    <3>1. d # c
      BY <1>1, <2>2 DEF LoggingPcs
    <3> QED BY <1>5, <1>10, <2>2, <3>1 DEF Inv, GroupInv
  <2>3. ASSUME NEW d \in Clients, NEW x \in Clients, call'[d].pc \in LoggingPcs, InGroup(d, x)'
        PROVE  /\ HasBatch(x)' => \E e \in Batch(d)' : e.id = call'[x].id
               /\ call'[x].kind = "syncput" => call'[d].kind = "syncput"
    <3>1. InGroup(d, x) /\ call'[d] = call[d] /\ Batch(d)' = Batch(d) /\ x # c
      BY <1>8, <1>9, <2>3
    <3>2. call'[x] = call[x] /\ HasBatch(x)' = HasBatch(x)
      BY <1>5, <1>10, <3>1
    <3> QED BY <2>3, <3>1, <3>2 DEF Inv, GroupInv
  <2> QED BY <2>1, <2>2, <2>3, Zenon DEF GroupInv
<1>12. BatchInv'
  <2>1. ASSUME NEW d \in Clients, call'[d].pc \in LoggingPcs
        PROVE  /\ \A i \in 1 .. Len(call'[d].batch) :
                    /\ call'[d].batch[i].seq = last_sequence' + i
                    /\ \E x \in Clients : InGroup(d, x)' /\ call'[d].batch[i].id = call'[x].id
               /\ \A a, b \in Batch(d)' : a.id = b.id => a = b
    <3>1. call'[d] = call[d] /\ Batch(d)' = Batch(d) /\ call[d].pc \in LoggingPcs /\ (\A x : InGroup(d, x)' <=> InGroup(d, x))
      BY <1>8, <2>1
    <3>2. /\ \A i \in 1 .. Len(call[d].batch) :
               /\ call[d].batch[i].seq = last_sequence + i
               /\ \E x \in Clients : InGroup(d, x) /\ call[d].batch[i].id = call[x].id
          /\ \A a, b \in Batch(d) : a.id = b.id => a = b
      BY <3>1 DEF Inv, BatchInv
    <3>3. \A i \in 1 .. Len(call[d].batch) : \E x \in Clients : InGroup(d, x)' /\ call[d].batch[i].id = call'[x].id
      BY <1>5, <1>9, <3>1, <3>2
    <3>4. call'[d].batch = call[d].batch /\ last_sequence' = last_sequence
      BY <1>2, <3>1
    <3>5. \A a, b \in Batch(d)' : a.id = b.id => a = b
      BY ONLY <3>1, <3>2, Zenon
    <3>6. \A i \in 1 .. Len(call[d].batch) : call[d].batch[i].seq = last_sequence + i
      BY ONLY <3>2
    <3>7. \A i \in 1 .. Len(call'[d].batch) :
            /\ call'[d].batch[i].seq = last_sequence' + i
            /\ \E x \in Clients : InGroup(d, x)' /\ call'[d].batch[i].id = call'[x].id
      BY ONLY <3>3, <3>4, <3>6
    <3> QED BY ONLY <3>5, <3>7
  <2>2. tmp_batch_' # << >> => \E d \in Clients : call'[d].pc \in LoggingPcs /\ Len(call'[d].batch) > 1
    <3>1. \A d \in Clients : call[d].pc \in LoggingPcs => call'[d] = call[d]
      BY <1>2, <1>5 DEF LoggingPcs
    <3> QED BY <1>2, <3>1, Zenon DEF Inv, BatchInv
  <2> QED BY <2>1, <2>2, Zenon DEF BatchInv
<1>13. \A e : Pending(e)' <=> Pending(e)
  <2>1. \A d \in Clients : call[d].pc \in LoggingPcs \/ call'[d].pc \in LoggingPcs => call'[d] = call[d] /\ Batch(d)' = Batch(d)
    BY <1>1, <1>2, <1>5 DEF LoggingPcs, Batch
  <2> QED BY <2>1, Zenon DEF Pending
<1>14. Entries' = Entries /\ Records' = Records /\ Durable' = Durable /\ Stored' = Stored
  BY <1>2 DEF Entries, Records, Durable, Stored, memory, version
<1>15. StoredInv'
  <2>1. \A e \in Stored : e \in Entry /\ e.id \in Nat /\ e.id <= calls
    <3>1. \A e \in Stored : e \in Entry
      BY DEF Inv, TypeOK, StoreTypes, Stored, Entries, Records
    <3> QED BY <3>1 DEF Inv, StoredInv, Entry
  <2>2. \A e \in Stored' : e.id <= calls' /\ (e.seq <= last_sequence' \/ Pending(e)')
    <3>1. \A e \in Stored : e.seq <= last_sequence \/ Pending(e)
      BY DEF Inv, StoredInv
    <3>2. \A e \in Stored : e.id <= calls'
      BY <1>2, <1>3, <2>1
    <3> QED BY <1>2, <1>13, <1>14, <3>1, <3>2
  <2>3. ASSUME NEW e \in Stored', NEW i \in Places', e.id = call'[writers_'[i]].id
        PROVE  Pending(e)' \/ \E d \in Clients : call'[d].pc = "finish" /\ InGroup(d, writers_[i])'
    <3>1. i \in Places /\ writers_'[i] = writers_[i] /\ e.id = call[writers_[i]].id
      BY <1>1, <1>3, <1>4, <1>5, <1>14, <2>1, <2>3
    <3>2. CASE Pending(e)
      BY <1>13, <3>2
    <3>3. ASSUME NEW d \in Clients, call[d].pc = "finish", InGroup(d, writers_[i])
          PROVE  call'[d].pc = "finish" /\ InGroup(d, writers_[i])'
      <4>1. call'[d] = call[d]
        BY <1>2, <1>5, <3>3
      <4>2. \A x : InGroup(d, x)' <=> InGroup(d, x)
        BY <1>8, <3>3, <4>1
      <4> QED BY <3>1, <3>3, <4>1, <4>2 DEF InGroup
    <3> QED BY <1>14, <2>3, <3>1, <3>2, <3>3 DEF Inv, StoredInv
  <2>4. \A a, b \in Entries' : a.id = b.id <=> a.seq = b.seq
    BY <1>14 DEF Inv, StoredInv
  <2> QED BY ONLY <2>2, <2>3, <2>4, Zenon DEF StoredInv
<1>16. ProgressInv'
  <2> SUFFICES ASSUME NEW d \in Clients, call'[d].pc \in LoggingPcs
               PROVE  /\ call'[d].pc = "log" => Batch(d)' \cap Records' = {}
                      /\ call'[d].pc \in {"log", "sync", "insert"} => Batch(d)' \cap Entries' = {}
                      /\ call'[d].pc \in {"sync", "insert"} => Batch(d)' \subseteq logs'[logfile_number_'].recs \cup logs'[logfile_number_'].doubt
                      /\ call'[d].pc = "insert" => call'[d].ok
                      /\ call'[d].pc = "insert" /\ call'[d].kind = "syncput" => Batch(d)' \subseteq logs'[logfile_number_'].synced \cup logs'[logfile_number_'].doubt
                      /\ call'[d].pc = "relock" /\ call'[d].ok =>
                           Batch(d)' \subseteq mem_' /\ (call'[d].kind = "syncput" => Batch(d)' \subseteq logs'[logfile_number_'].synced \cup logs'[logfile_number_'].doubt)
                      /\ call'[d].pc = "relock" /\ ~call'[d].ok => 
                           Batch(d)' \cap Entries' = {} /\ (~call'[d].error => Batch(d)' \cap Records' = {})
    BY DEF ProgressInv, LoggingPcs
  <2>1. call'[d] = call[d] /\ Batch(d)' = Batch(d)
    BY <1>8
  <2> QED BY <1>2, <1>14, <2>1 DEF Inv, ProgressInv, memory
<1>17. LogInv'
  BY <1>2 DEF Inv, LogInv, memory, version
<1>18. CommitInv'
  <2>1. ASSUME NEW x \in Clients, Committed(x)', HasBatch(x)'
        PROVE  \E e \in Entries' : e.id = call'[x].id /\ (call'[x].kind = "syncput" => e \in Durable')
    <3>1. x # c
      BY <1>1, <1>8, <1>9, <2>1 DEF Committed
    <3>2. Committed(x) /\ call'[x] = call[x] /\ HasBatch(x)
      BY <1>5, <1>8, <1>10, <2>1, <3>1 DEF Committed
    <3> QED BY <1>14, <3>2 DEF Inv, CommitInv
  <2>2. \A i \in acked' : \E e \in Entries' : e.id = i
    BY <1>2, <1>14 DEF Inv, CommitInv
  <2> QED BY <2>1, <2>2, Zenon DEF CommitInv
<1>19. LostInv'
  <2>1. \A d \in Clients : call[d].pc \notin {"group"} \cup LoggingPcs => call'[d].pc \notin {"group"} \cup LoggingPcs
    BY <1>1, <1>5 DEF LoggingPcs
  <2> QED BY <1>2, <1>13, <1>14, <2>1, Zenon DEF Inv, LostInv
<1> QED BY <1>6, <1>7, <1>11, <1>12, <1>15, <1>16, <1>17, <1>18, <1>19 DEF Inv
-------------------------------------------------------------------------------
(* The front writer numbers the group.                                       *)

\* Only the front writer can be past the wait of its turn.
LEMMA FrontOnly ==
  ASSUME Inv, NEW c \in Clients, call[c].pc \in FrontPcs
  PROVE  1 \in Places /\ writers_[1] = c /\ \A d \in Clients : call[d].pc \in FrontPcs => d = c
  BY DEF Inv, QueueInv

\* Nothing that is stored has the id of a writer in the queue before the group is logged.
LEMMA NothingStoredYet ==
  ASSUME Inv, NEW c \in Clients, call[c].pc = "group"
  PROVE  /\ \A e : ~Pending(e)
         /\ \A e \in Stored, i \in Places : e.id # call[writers_[i]].id
         /\ Records \subseteq Entries /\ tmp_batch_ = << >>
<1>1. \A d \in Clients : call[d].pc \notin LoggingPcs \cup {"finish"}
  BY FrontOnly DEF FrontPcs, LoggingPcs
<1>2. \A e : ~Pending(e)
  BY <1>1 DEF Pending
<1>3. \A e \in Stored, i \in Places : e.id # call[writers_[i]].id
  BY <1>1, <1>2 DEF Inv, StoredInv
<1>4. Records \subseteq Entries
  BY <1>2 DEF Inv, LostInv
<1> QED BY <1>1, <1>2, <1>3, <1>4 DEF Inv, BatchInv

\* BuildBatchGroup keeps the invariant: the group is a stretch of the queue.
LEMMA StartInv ==
  ASSUME Inv, NEW c \in Clients, StartLogging(c), TypeOK'
  PROVE  Inv'
<1>1. call[c].pc = "group"
  BY DEF StartLogging, Number, At
<1>2. /\ 1 \in Places /\ writers_[1] = c /\ \A d \in Clients : call[d].pc \in FrontPcs => d = c
  BY <1>1, FrontOnly DEF FrontPcs
<1>3. UNCHANGED <<writers_, last_sequence, memory, logs, version, manual_compaction_, bg_error_, bg, calls, acked>>
  BY DEF StartLogging, Number
<1>4. PICK n \in Places, b \in Seq(Entry) :
        /\ n = BuildBatchGroup
        /\ b = [r \in 1 .. Len(BatchIds(n)) |-> [seq |-> last_sequence + r, id |-> BatchIds(n)[r]]]
        /\ Len(b) = Len(BatchIds(n))
        /\ call' = [call EXCEPT ![c] = [call[c] EXCEPT !.pc = "log", !.last = writers_[n], !.batch = b]]
        /\ tmp_batch_' = IF Len(b) > 1 THEN BatchIds(n) ELSE tmp_batch_
  BY NumberFacts DEF Inv
<1>5. /\ call'[c].pc = "log" /\ call'[c].last = writers_[n] /\ call'[c].batch = b /\ Others(c)
      /\ call'[c].kind = call[c].kind /\ call'[c].id = call[c].id /\ call'[c].done = call[c].done
  <2> DEFINE r == [call[c] EXCEPT !.pc = "log", !.last = writers_[n], !.batch = b]
  <2>1. call[c] \in CallRecord /\ writers_[n] \in Clients
    BY CallFacts DEF Inv, TypeOK, QueueTypes, Places
  <2>2. /\ r \in CallRecord /\ r.pc = "log" /\ r.last = writers_[n] /\ r.batch = b
        /\ r.kind = call[c].kind /\ r.id = call[c].id /\ r.done = call[c].done
    BY ONLY <2>1, b \in Seq(Entry) DEF CallRecord, FrontPcs, LoggingPcs
  <2>3. Set(c, r)
    BY <1>4 DEF Set
  <2> HIDE DEF r
  <2>4. call'[c] = r /\ Others(c)
    BY <2>2, <2>3, SetFacts DEF Inv
  <2> QED BY <2>2, <2>4
<1>6. \A x \in Clients \ {c} : call'[x] = call[x]
  BY <1>5 DEF Others
<1>7. /\ \A e : ~Pending(e)
      /\ \A e \in Stored, i \in Places : e.id # call[writers_[i]].id
      /\ Records \subseteq Entries /\ tmp_batch_ = << >>
  BY <1>1, NothingStoredYet
<1>8. /\ \A r \in 1 .. Len(BatchIds(n)) : \E i \in 1 .. n : BatchIds(n)[r] = call[writers_[i]].id
      /\ \A i \in 1 .. n : HasBatch(writers_[i]) => \E r \in 1 .. Len(BatchIds(n)) : BatchIds(n)[r] = call[writers_[i]].id
      /\ \A r, t \in 1 .. Len(BatchIds(n)) : BatchIds(n)[r] = BatchIds(n)[t] => r = t
  BY BatchIdsFacts DEF Inv
<1>9. \A r \in 1 .. Len(b) : b[r].seq = last_sequence + r /\ b[r].id = BatchIds(n)[r]
  BY <1>4
<1>10. n \in Nat /\ Len(writers_) \in Nat /\ 1 .. n \subseteq Places /\ \A i \in Places : writers_[i] \in Clients
  BY DEF Inv, TypeOK, QueueTypes, Places
<1>11. Places' = Places /\ Stored' = Stored /\ Entries' = Entries /\ Records' = Records /\ Durable' = Durable
  BY <1>3 DEF Places, Stored, Entries, Records, Durable, memory, version
<1>12. \A x \in Clients : call'[x].id = call[x].id /\ call'[x].kind = call[x].kind /\ call'[x].done = call[x].done
                          /\ HasBatch(x)' = HasBatch(x)
  BY <1>5, <1>6 DEF HasBatch
<1>13. \A d \in Clients : call'[d].pc \in LoggingPcs \cup {"group", "finish"} => d = c
  BY <1>2, <1>6 DEF FrontPcs
<1>14. \A x : InGroup(c, x)' <=> \E i \in 1 .. n : writers_[i] = x
  <2>1. \A m \in Places : writers_[m] = writers_[n] <=> m = n
    BY DEF Inv, QueueInv
  <2>2. ASSUME NEW x PROVE InGroup(c, x)' <=> \E i \in Places, m \in Places : i <= m /\ writers_[m] = writers_[n] /\ writers_[i] = x
    BY <1>3, <1>5, <1>11 DEF InGroup
  <2>3. \A i \in Places : i <= n <=> i \in 1 .. n
    BY <1>10 DEF Places
  <2> QED BY <1>10, <2>1, <2>2, <2>3
<1>15. Batch(c)' = {b[i] : i \in 1 .. Len(b)}
  BY <1>5 DEF Batch
<1>16. QueueInv' /\ IdInv'
  <2>1. \A i \in Places : call'[writers_[i]].pc \in FrontPcs \cup {"write"} /\ ~call'[writers_[i]].done
    BY <1>5, <1>6, <1>10, <1>12 DEF Inv, QueueInv, FrontPcs, LoggingPcs
  <2>2. \A d \in Clients : call'[d].pc \in FrontPcs => writers_[1] = d
    BY <1>2, <1>6
  <2>3. \A d \in Clients : call'[d].pc = "write" /\ ~call'[d].done => \E i \in Places : writers_[i] = d
    BY <1>5, <1>6 DEF Inv, QueueInv
  <2>4. manual_compaction_' # NULL => call'[manual_compaction_'].pc = "manual"
    BY <1>1, <1>3, <1>5, ManualKept
  <2>5. QueueInv'
    BY <1>2, <1>3, <1>11, <2>1, <2>2, <2>3, <2>4 DEF Inv, QueueInv
  <2>6. \A x \in Clients : call'[x].pc # "idle" => call[x].pc # "idle"
    BY <1>1, <1>6
  <2>7. IdInv'
    <3>1. /\ \A x \in Clients : call[x].id <= calls /\ (call[x].pc # "idle" => 1 <= call[x].id)
          /\ \A x, y \in Clients : call[x].id = call[y].id /\ 1 <= call[x].id => x = y
      BY DEF Inv, IdInv
    <3> QED BY ONLY <1>3, <1>12, <2>6, <3>1 DEF IdInv
  <2> QED BY <2>5, <2>7
<1>17. GroupInv'
  <2>1. ASSUME NEW d \in Clients, call'[d].pc \in LoggingPcs \cup {"finish"}
        PROVE  \E m \in Places' : writers_'[m] = call'[d].last
    BY <1>3, <1>5, <1>11, <1>13, <2>1
  <2>2. ASSUME NEW d \in Clients, call'[d].pc \in {"group"} \cup LoggingPcs PROVE HasBatch(d)'
    BY <1>1, <1>12, <1>13, <2>2 DEF Inv, GroupInv
  <2>3. ASSUME NEW d \in Clients, NEW x \in Clients, call'[d].pc \in LoggingPcs, InGroup(d, x)'
        PROVE  /\ HasBatch(x)' => \E e \in Batch(d)' : e.id = call'[x].id
               /\ call'[x].kind = "syncput" => call'[d].kind = "syncput"
    <3>1. d = c
      BY <1>13, <2>3
    <3>2. PICK i \in 1 .. n : writers_[i] = x
      BY <1>14, <2>3, <3>1
    <3>3. HasBatch(x) => \E r \in 1 .. Len(b) : b[r].id = call[x].id
      <4> SUFFICES ASSUME HasBatch(x) PROVE \E r \in 1 .. Len(b) : b[r].id = call[x].id
        OBVIOUS
      <4>1. HasBatch(writers_[i])
        BY <3>2
      <4>2. PICK r \in 1 .. Len(BatchIds(n)) : BatchIds(n)[r] = call[writers_[i]].id
        BY <1>8, <4>1
      <4> QED BY <1>4, <1>9, <3>2, <4>2
    <3>4. call[x].kind = "syncput" => call[c].kind = "syncput"
      BY <1>2, <1>4, <3>2, GroupFacts DEF Inv
    <3> QED BY <1>12, <1>15, <3>1, <3>3, <3>4
  <2> QED BY <2>1, <2>2, <2>3, Zenon DEF GroupInv
<1>18. BatchInv'
  <2>1. ASSUME NEW d \in Clients, call'[d].pc \in LoggingPcs
        PROVE  /\ \A i \in 1 .. Len(call'[d].batch) :
                    /\ call'[d].batch[i].seq = last_sequence' + i
                    /\ \E x \in Clients : InGroup(d, x)' /\ call'[d].batch[i].id = call'[x].id
               /\ \A a, a2 \in Batch(d)' : a.id = a2.id => a = a2
    <3>1. d = c
      BY <1>13, <2>1
    <3>2. ASSUME NEW i \in 1 .. Len(b) PROVE \E x \in Clients : InGroup(c, x)' /\ b[i].id = call'[x].id
      <4>1. PICK j \in 1 .. n : BatchIds(n)[i] = call[writers_[j]].id
        BY <1>4, <1>8
      <4>2. writers_[j] \in Clients
        BY <1>10
      <4>3. PICK x \in Clients : x = writers_[j]
        BY <4>2
      <4>4. InGroup(c, x)'
        BY <1>14, <4>3
      <4> QED BY <1>9, <1>12, <4>1, <4>3, <4>4
    <3>3. \A a, a2 \in Batch(c)' : a.id = a2.id => a = a2
      BY <1>4, <1>8, <1>9, <1>15
    <3>4. \A i \in 1 .. Len(call'[c].batch) :
            /\ call'[c].batch[i].seq = last_sequence' + i
            /\ \E x \in Clients : InGroup(c, x)' /\ call'[c].batch[i].id = call'[x].id
      BY <1>3, <1>5, <1>9, <3>2
    <3> QED BY <3>1, <3>3, <3>4
  <2>2. tmp_batch_' # << >> => \E d \in Clients : call'[d].pc \in LoggingPcs /\ Len(call'[d].batch) > 1
    <3>1. call'[c].pc \in LoggingPcs
      BY <1>5 DEF LoggingPcs
    <3>2. tmp_batch_' # << >> => Len(call'[c].batch) > 1
      BY <1>4, <1>5, <1>7
    <3> QED BY ONLY <3>1, <3>2, c \in Clients, Zenon
  <2> QED BY <2>1, <2>2, Zenon DEF BatchInv
<1>19. \A e \in Batch(c)' : e \notin Stored
  <2> SUFFICES ASSUME NEW r \in 1 .. Len(b), b[r] \in Stored PROVE FALSE
    BY <1>15
  <2>1. PICK i \in 1 .. n : b[r].id = call[writers_[i]].id
    BY <1>4, <1>8, <1>9
  <2> QED BY <1>7, <1>10, <2>1
<1>20. StoredInv'
  <2>1. \A e \in Stored' : e.id <= calls' /\ (e.seq <= last_sequence' \/ Pending(e)')
    BY <1>3, <1>7, <1>11 DEF Inv, StoredInv
  <2>2. ASSUME NEW e \in Stored', NEW i \in Places', e.id = call'[writers_'[i]].id PROVE FALSE
    BY <1>3, <1>7, <1>10, <1>11, <1>12, <2>2
  <2>3. \A a, a2 \in Entries' : a.id = a2.id <=> a.seq = a2.seq
    BY <1>11 DEF Inv, StoredInv
  <2> QED BY ONLY <2>1, <2>2, <2>3, Zenon DEF StoredInv
<1>21. ProgressInv'
  <2>1. Batch(c)' \cap Records' = {} /\ Batch(c)' \cap Entries' = {}
    BY <1>11, <1>19 DEF Stored
  <2> QED BY <1>5, <1>13, <2>1 DEF ProgressInv, LoggingPcs
<1>22. LogInv'
  BY <1>3 DEF Inv, LogInv, memory, version
<1>23. CommitInv'
  <2>1. ASSUME NEW x \in Clients, Committed(x)', HasBatch(x)'
        PROVE  \E e \in Entries' : e.id = call'[x].id /\ (call'[x].kind = "syncput" => e \in Durable')
    <3>1. call'[x].pc = "write" /\ call'[x].done /\ call'[x].ok
      BY <1>5, <1>13, <2>1 DEF Committed
    <3>2. x # c
      BY <1>5, <3>1
    <3>3. call'[x] = call[x]
      BY <1>6, <3>2
    <3>4. Committed(x) /\ HasBatch(x)
      BY <1>12, <2>1, <3>1, <3>3 DEF Committed
    <3> QED BY <1>11, <3>3, <3>4 DEF Inv, CommitInv
  <2>2. \A i \in acked' : \E e \in Entries' : e.id = i
    BY <1>3, <1>11 DEF Inv, CommitInv
  <2> QED BY <2>1, <2>2, Zenon DEF CommitInv
<1>24. LostInv'
  BY <1>7, <1>11 DEF LostInv
<1> QED BY <1>16, <1>17, <1>18, <1>20, <1>21, <1>22, <1>23, <1>24 DEF Inv
-------------------------------------------------------------------------------
(* The front writer logs, syncs and inserts the group's batch.               *)

LogMove(c) ==
  /\ Others(c) /\ Kept(c) /\ call[c].pc \in LoggingPcs /\ call'[c].pc \in LoggingPcs /\ call'[c].last = call[c].last
  /\ UNCHANGED <<writers_, last_sequence, tmp_batch_, calls, acked, manual_compaction_, bg_error_>>

\* While the leader logs without the mutex the other calls stay as they are.
LEMMA LogMoveSame ==
  ASSUME Inv, NEW c \in Clients, LogMove(c)
  PROVE  /\ \A x \in Clients : /\ call'[x].kind = call[x].kind /\ call'[x].id = call[x].id
                               /\ call'[x].done = call[x].done /\ call'[x].batch = call[x].batch
                               /\ call'[x].last = call[x].last /\ Batch(x)' = Batch(x) /\ HasBatch(x)' = HasBatch(x)
                               /\ call[x].pc \in LoggingPcs <=> call'[x].pc \in LoggingPcs
         /\ \A x \in Clients : call[x].pc \in FrontPcs \/ call'[x].pc \in FrontPcs => x = c
         /\ \A x \in Clients \ {c} : call'[x] = call[x]
         /\ \A d \in Clients : \A x : InGroup(d, x)' <=> InGroup(d, x)
         /\ \A e : Pending(e)' <=> e \in Batch(c)
         /\ \A e : Pending(e) <=> e \in Batch(c)
         /\ Places' = Places /\ writers_' = writers_
<1>1. \A x \in Clients \ {c} : call'[x] = call[x]
  BY DEF LogMove, Others
<1>2. \A x \in Clients : /\ call'[x].kind = call[x].kind /\ call'[x].id = call[x].id
                         /\ call'[x].done = call[x].done /\ call'[x].batch = call[x].batch
                         /\ call'[x].last = call[x].last
                         /\ call[x].pc \in LoggingPcs <=> call'[x].pc \in LoggingPcs
  BY <1>1 DEF LogMove, Kept
<1>3. \A x \in Clients : Batch(x)' = Batch(x) /\ HasBatch(x)' = HasBatch(x)
  BY <1>2 DEF Batch, HasBatch
<1>4. Places' = Places /\ writers_' = writers_
  BY DEF LogMove, Places
<1>5. \A d \in Clients : \A x : InGroup(d, x)' <=> InGroup(d, x)
  BY <1>2, <1>4 DEF InGroup
<1>6. \A x \in Clients : call[x].pc \in FrontPcs \/ call'[x].pc \in FrontPcs => x = c
  BY <1>1, FrontOnly DEF LogMove, FrontPcs
<1>7. \A e : (Pending(e)' <=> e \in Batch(c)) /\ (Pending(e) <=> e \in Batch(c))
  <2>1. \A x \in Clients : call[x].pc \in LoggingPcs \/ call'[x].pc \in LoggingPcs => x = c
    BY <1>6 DEF FrontPcs
  <2>2. call[c].pc \in LoggingPcs /\ call'[c].pc \in LoggingPcs /\ Batch(c)' = Batch(c)
    BY <1>3 DEF LogMove
  <2> QED BY <2>1, <2>2, Zenon DEF Pending
<1> QED BY <1>1, <1>2, <1>3, <1>4, <1>5, <1>6, <1>7

\* While the leader logs, queue, groups and batches stay as they are.
LEMMA LogMoveQueue ==
  ASSUME Inv, NEW c \in Clients, LogMove(c)
  PROVE  QueueInv' /\ IdInv' /\ GroupInv' /\ BatchInv'
<1>1. /\ \A x \in Clients : /\ call'[x].kind = call[x].kind /\ call'[x].id = call[x].id
                            /\ call'[x].done = call[x].done /\ call'[x].batch = call[x].batch
                            /\ call'[x].last = call[x].last /\ Batch(x)' = Batch(x) /\ HasBatch(x)' = HasBatch(x)
                            /\ call[x].pc \in LoggingPcs <=> call'[x].pc \in LoggingPcs
      /\ \A x \in Clients : call[x].pc \in FrontPcs \/ call'[x].pc \in FrontPcs => x = c
      /\ \A x \in Clients \ {c} : call'[x] = call[x]
      /\ \A d \in Clients : \A x : InGroup(d, x)' <=> InGroup(d, x)
      /\ Places' = Places /\ writers_' = writers_
  BY LogMoveSame
<1>2. /\ call[c].pc \in LoggingPcs /\ call'[c].pc \in LoggingPcs /\ call[c].pc \in FrontPcs /\ call'[c].pc \in FrontPcs
      /\ call[c].pc \notin {"write", "manual", "idle"} /\ call'[c].pc # "write"
  BY DEF LogMove, FrontPcs, LoggingPcs
<1>3. UNCHANGED <<last_sequence, tmp_batch_, calls, manual_compaction_>>
  BY DEF LogMove
<1>4. QueueInv'
  <2>1. \A i \in Places : writers_[i] \in Clients
    BY DEF Inv, TypeOK, QueueTypes, Places
  <2>2. \A i \in Places : call'[writers_[i]].pc \in FrontPcs \cup {"write"} /\ ~call'[writers_[i]].done
    BY <1>1, <1>2, <2>1 DEF Inv, QueueInv
  <2>3. 1 \in Places /\ writers_[1] = c
    BY <1>2, FrontOnly
  <2>4. \A d \in Clients : call'[d].pc = "write" /\ ~call'[d].done => \E i \in Places : writers_[i] = d
    BY <1>1, <1>2 DEF Inv, QueueInv
  <2>5. manual_compaction_' # NULL => call'[manual_compaction_'].pc = "manual"
    BY <1>2, <1>3, ManualKept DEF LogMove
  <2> QED BY <1>1, <2>2, <2>3, <2>4, <2>5 DEF Inv, QueueInv
<1>5. IdInv'
  <2>1. /\ \A x \in Clients : call[x].id <= calls /\ (call[x].pc # "idle" => 1 <= call[x].id)
        /\ \A x, y \in Clients : call[x].id = call[y].id /\ 1 <= call[x].id => x = y
    BY DEF Inv, IdInv
  <2>2. \A x \in Clients : call'[x].pc # "idle" => call[x].pc # "idle"
    BY <1>1, <1>2
  <2> QED BY ONLY <1>1, <1>3, <2>1, <2>2 DEF IdInv
<1>6. GroupInv'
  <2>1. ASSUME NEW d \in Clients, call'[d].pc \in LoggingPcs \cup {"finish"}
        PROVE  \E m \in Places' : writers_'[m] = call'[d].last
    <3>1. call[d].pc \in LoggingPcs
      BY <1>1, <1>2, <2>1 DEF FrontPcs
    <3> QED BY <1>1, <3>1 DEF Inv, GroupInv
  <2>2. ASSUME NEW d \in Clients, call'[d].pc \in {"group"} \cup LoggingPcs PROVE HasBatch(d)'
    <3>1. call[d].pc \in LoggingPcs
      BY <1>1, <1>2, <2>2 DEF FrontPcs
    <3> QED BY <1>1, <3>1 DEF Inv, GroupInv
  <2>3. ASSUME NEW d \in Clients, NEW x \in Clients, call'[d].pc \in LoggingPcs, InGroup(d, x)'
        PROVE  /\ HasBatch(x)' => \E e \in Batch(d)' : e.id = call'[x].id
               /\ call'[x].kind = "syncput" => call'[d].kind = "syncput"
    <3>1. call[d].pc \in LoggingPcs /\ InGroup(d, x)
      BY <1>1, <2>3
    <3> QED BY <1>1, <3>1 DEF Inv, GroupInv
  <2> QED BY <2>1, <2>2, <2>3, Zenon DEF GroupInv
<1>7. BatchInv'
  <2>1. ASSUME NEW d \in Clients, call'[d].pc \in LoggingPcs
        PROVE  /\ \A i \in 1 .. Len(call'[d].batch) :
                    /\ call'[d].batch[i].seq = last_sequence' + i
                    /\ \E x \in Clients : InGroup(d, x)' /\ call'[d].batch[i].id = call'[x].id
               /\ \A a, b \in Batch(d)' : a.id = b.id => a = b
    <3>1. call[d].pc \in LoggingPcs
      BY <1>1, <2>1
    <3>2. /\ \A i \in 1 .. Len(call[d].batch) :
               /\ call[d].batch[i].seq = last_sequence + i
               /\ \E x \in Clients : InGroup(d, x) /\ call[d].batch[i].id = call[x].id
          /\ \A a, b \in Batch(d) : a.id = b.id => a = b
      BY <3>1 DEF Inv, BatchInv
    <3>3. \A i \in 1 .. Len(call[d].batch) : \E x \in Clients : InGroup(d, x)' /\ call[d].batch[i].id = call'[x].id
      BY <1>1, <3>2
    <3>4. call'[d].batch = call[d].batch /\ last_sequence' = last_sequence /\ Batch(d)' = Batch(d)
      BY <1>1, <1>3
    <3>5. \A a, b \in Batch(d)' : a.id = b.id => a = b
      BY ONLY <3>2, <3>4, Zenon
    <3>6. \A i \in 1 .. Len(call[d].batch) : call[d].batch[i].seq = last_sequence + i
      BY ONLY <3>2
    <3>7. \A i \in 1 .. Len(call'[d].batch) :
            /\ call'[d].batch[i].seq = last_sequence' + i
            /\ \E x \in Clients : InGroup(d, x)' /\ call'[d].batch[i].id = call'[x].id
      BY ONLY <3>3, <3>4, <3>6
    <3> QED BY ONLY <3>5, <3>7
  <2>2. tmp_batch_' # << >> => \E d \in Clients : call'[d].pc \in LoggingPcs /\ Len(call'[d].batch) > 1
    <3>1. tmp_batch_ # << >> => \E d \in Clients : call[d].pc \in LoggingPcs /\ Len(call[d].batch) > 1
      BY DEF Inv, BatchInv
    <3>2. \A d \in Clients : call[d].pc \in LoggingPcs /\ Len(call[d].batch) > 1 => call'[d].pc \in LoggingPcs /\ Len(call'[d].batch) > 1
      BY <1>1, Zenon
    <3> QED BY ONLY <1>3, <3>1, <3>2, Zenon
  <2> QED BY <2>1, <2>2, Zenon DEF BatchInv
<1> QED BY <1>4, <1>5, <1>6, <1>7

\* What is committed stays so when entries and durable entries only become more.
LEMMA LogMoveCommit ==
  ASSUME Inv, NEW c \in Clients, LogMove(c), Entries \subseteq Entries', Durable \subseteq Durable'
  PROVE  CommitInv'
<1>1. \A x \in Clients : /\ call'[x].kind = call[x].kind /\ call'[x].id = call[x].id /\ HasBatch(x)' = HasBatch(x)
  BY LogMoveSame
<1>2. acked' = acked /\ call'[c].pc \in LoggingPcs
  BY DEF LogMove
<1>3. ASSUME NEW x \in Clients, Committed(x)', HasBatch(x)'
      PROVE  \E e \in Entries' : e.id = call'[x].id /\ (call'[x].kind = "syncput" => e \in Durable')
  <2>1. call'[x].pc = "write" /\ call'[x].done /\ call'[x].ok
    <3>1. \A d \in Clients : call'[d].pc # "finish"
      BY <1>2, LogMoveSame DEF FrontPcs, LoggingPcs
    <3> QED BY <1>3, <3>1 DEF Committed
  <2>2. x # c
    BY <1>2, <2>1 DEF LoggingPcs
  <2>3. call'[x] = call[x]
    BY <2>2, LogMoveSame
  <2>4. Committed(x) /\ HasBatch(x)
    BY <1>1, <1>3, <2>1, <2>3 DEF Committed
  <2>5. \E e \in Entries : e.id = call[x].id /\ (call[x].kind = "syncput" => e \in Durable)
    BY <2>4 DEF Inv, CommitInv
  <2> QED BY <1>1, <2>5
<1>4. \A i \in acked' : \E e \in Entries' : e.id = i
  BY <1>2 DEF Inv, CommitInv
<1> QED BY <1>3, <1>4, Zenon DEF CommitInv

\* A record that is in no memtable or table belongs to the batch that is being logged.
LEMMA LogMoveLost ==
  ASSUME Inv, NEW c \in Clients, LogMove(c), Records' \subseteq Records \cup Batch(c), Entries \subseteq Entries'
  PROVE  LostInv'
<1>1. \A e \in Records \ Entries : e \in Batch(c)
  <2>1. \A e \in Records \ Entries : Pending(e)
    BY DEF Inv, LostInv, LogMove
  <2> QED BY <2>1, LogMoveSame
<1>2. \A e \in Records' \ Entries' : Pending(e)'
  BY <1>1, LogMoveSame
<1> QED BY <1>2 DEF LostInv

\* What the invariant says of the batch that is being logged.
LEMMA BatchFacts ==
  ASSUME Inv, NEW c \in Clients, call[c].pc \in LoggingPcs
  PROVE  /\ \A e \in Batch(c) : e \in Entry /\ e.id <= calls /\ last_sequence < e.seq
                                /\ e.seq <= last_sequence + Len(call[c].batch)
                                /\ \E i \in Places : writers_[i] \in Clients /\ InGroup(c, writers_[i]) /\ e.id = call[writers_[i]].id
         /\ \A a, b \in Batch(c) : a.id = b.id <=> a.seq = b.seq
         /\ last_sequence \in Nat /\ Len(call[c].batch) \in Nat
         /\ \A d \in Clients : call[d].pc # "finish"
         /\ \A e : Pending(e) <=> e \in Batch(c)
<1>1. call[c].batch \in Seq(Entry) /\ last_sequence \in Nat /\ Len(call[c].batch) \in Nat
  BY CallFacts DEF Inv, TypeOK, StoreTypes
<1>2. /\ \A i \in 1 .. Len(call[c].batch) :
           /\ call[c].batch[i].seq = last_sequence + i
           /\ \E x \in Clients : InGroup(c, x) /\ call[c].batch[i].id = call[x].id
      /\ \A a, b \in Batch(c) : a.id = b.id => a = b
  BY DEF Inv, BatchInv
<1>3. \A x \in Clients : call[x].id <= calls
  BY DEF Inv, IdInv
<1>4. \A i \in Places : writers_[i] \in Clients
  BY DEF Inv, TypeOK, QueueTypes, Places
<1>5. ASSUME NEW e \in Batch(c)
      PROVE  /\ e \in Entry /\ e.id <= calls /\ last_sequence < e.seq /\ e.seq <= last_sequence + Len(call[c].batch)
             /\ \E i \in Places : writers_[i] \in Clients /\ InGroup(c, writers_[i]) /\ e.id = call[writers_[i]].id
  <2>1. PICK i \in 1 .. Len(call[c].batch) : e = call[c].batch[i]
    BY DEF Batch
  <2>2. e \in Entry
    BY <1>1, <2>1
  <2>3. e.seq = last_sequence + i
    BY <1>2, <2>1
  <2>4. PICK x \in Clients : InGroup(c, x) /\ e.id = call[x].id
    BY <1>2, <2>1
  <2>5. PICK j \in Places : writers_[j] = x
    BY <2>4 DEF InGroup
  <2>6. last_sequence < e.seq /\ e.seq <= last_sequence + Len(call[c].batch)
    BY <1>1, <2>3
  <2>7. InGroup(c, writers_[j])
    BY <2>4, <2>5
  <2> QED BY <1>3, <1>4, <2>2, <2>4, <2>5, <2>6, <2>7
<1>6. ASSUME NEW a \in Batch(c), NEW b \in Batch(c) PROVE a.id = b.id <=> a.seq = b.seq
  <2>1. PICK i \in 1 .. Len(call[c].batch) : a = call[c].batch[i]
    BY DEF Batch
  <2>2. PICK j \in 1 .. Len(call[c].batch) : b = call[c].batch[j]
    BY DEF Batch
  <2>3. a.seq = last_sequence + i /\ b.seq = last_sequence + j
    BY <1>2, <2>1, <2>2
  <2>4. a.seq = b.seq => i = j
    BY <1>1, <2>3
  <2>5. a.id = b.id => a = b
    BY <1>2
  <2> QED BY <2>1, <2>2, <2>4, <2>5
<1>7. \A d \in Clients : call[d].pc \in LoggingPcs \cup {"finish"} => d = c
  BY FrontOnly DEF FrontPcs
<1>8. \A d \in Clients : call[d].pc # "finish"
  BY <1>7 DEF LoggingPcs
<1>9. \A e : Pending(e) <=> e \in Batch(c)
  BY <1>7, Zenon DEF Pending
<1> QED BY <1>1, <1>5, <1>6, <1>8, <1>9

\* Nothing else that is stored has an id or a number of the batch.
LEMMA BatchFresh ==
  ASSUME Inv, NEW c \in Clients, call[c].pc \in LoggingPcs, NEW a \in Stored, NEW b \in Batch(c),
         a.id = b.id \/ a.seq = b.seq
  PROVE  a \in Batch(c)
<1>1. PICK i \in Places : writers_[i] \in Clients /\ InGroup(c, writers_[i]) /\ b.id = call[writers_[i]].id
  BY BatchFacts
<1>2. /\ last_sequence < b.seq /\ last_sequence \in Nat /\ b \in Entry
      /\ (\A d \in Clients : call[d].pc # "finish") /\ (\A e : Pending(e) <=> e \in Batch(c))
  BY BatchFacts
<1>3. CASE a.id = b.id
  BY <1>1, <1>2, <1>3 DEF Inv, StoredInv
<1>4. CASE a.seq = b.seq
  <2>1. ~(a.seq <= last_sequence)
    BY <1>2, <1>4 DEF Entry
  <2> QED BY <1>2, <2>1 DEF Inv, StoredInv
<1> QED BY <1>3, <1>4

\* The stored entries are what they were, or the batch joins them.
LEMMA LogMoveStored ==
  ASSUME Inv, NEW c \in Clients, LogMove(c), Stored' \subseteq Stored \cup Batch(c),
         \A a, b \in Entries' : a.id = b.id <=> a.seq = b.seq
  PROVE  StoredInv'
<1>1. /\ \A x \in Clients : call'[x].id = call[x].id
      /\ \A e : Pending(e)' <=> e \in Batch(c)
      /\ \A e : Pending(e) <=> e \in Batch(c)
      /\ Places' = Places /\ writers_' = writers_ /\ calls' = calls /\ last_sequence' = last_sequence
      /\ call[c].pc \in LoggingPcs
  BY LogMoveSame DEF LogMove
<1>2. \A d \in Clients : call[d].pc # "finish"
  BY <1>1, BatchFacts
<1>3. \A e \in Stored' : e.id <= calls' /\ (e.seq <= last_sequence' \/ Pending(e)')
  BY <1>1, BatchFacts DEF Inv, StoredInv
<1>4. ASSUME NEW e \in Stored', NEW i \in Places', e.id = call'[writers_'[i]].id
      PROVE  Pending(e)' \/ \E d \in Clients : call'[d].pc = "finish" /\ InGroup(d, writers_[i])'
  <2>1. i \in Places /\ writers_[i] \in Clients /\ e.id = call[writers_[i]].id
    BY <1>1, <1>4 DEF Inv, TypeOK, QueueTypes, Places
  <2>2. CASE e \in Batch(c)
    BY <1>1, <2>2
  <2>3. CASE e \in Stored
    BY <1>1, <1>2, <2>1, <2>3 DEF Inv, StoredInv
  <2> QED BY <2>2, <2>3
<1> QED BY ONLY <1>3, <1>4, \A a, b \in Entries' : a.id = b.id <=> a.seq = b.seq, Zenon DEF StoredInv

\* The log file that a step writes to.
LEMMA CurrentLog ==
  ASSUME Inv
  PROVE  /\ logfile_number_ \in DOMAIN logs
         /\ \A n \in DOMAIN logs : logs[n] \in [recs : SUBSET Entry, synced : SUBSET Entry, doubt : SUBSET Entry]
  BY DEF Inv, LogInv, TypeOK, StoreTypes

\* How far the write of the leader is, one step on.
LEMMA LogMoveProgress ==
  ASSUME Inv, NEW c \in Clients, LogMove(c),
         /\ call'[c].pc # "log"
         /\ call'[c].pc \in {"sync", "insert"} => Batch(c) \cap Entries' = {} /\ Batch(c) \subseteq logs'[logfile_number_'].recs \cup logs'[logfile_number_'].doubt
         /\ call'[c].pc = "insert" => call'[c].ok
         /\ call'[c].pc = "insert" /\ call'[c].kind = "syncput" => Batch(c) \subseteq logs'[logfile_number_'].synced \cup logs'[logfile_number_'].doubt
         /\ call'[c].pc = "relock" /\ call'[c].ok =>
              Batch(c) \subseteq mem_' /\ (call'[c].kind = "syncput" => Batch(c) \subseteq logs'[logfile_number_'].synced \cup logs'[logfile_number_'].doubt)
         /\ call'[c].pc = "relock" /\ ~call'[c].ok =>
              Batch(c) \cap Entries' = {} /\ (~call'[c].error => Batch(c) \cap Records' = {})
  PROVE  ProgressInv'
<1>1. Batch(c)' = Batch(c) /\ \A d \in Clients : call'[d].pc \in LoggingPcs => d = c
  BY LogMoveSame DEF FrontPcs
<1> QED BY <1>1 DEF ProgressInv, LoggingPcs

\* log_->AddRecord keeps the invariant, also when it fails.
LEMMA AddInv ==
  ASSUME Inv, NEW c \in Clients, NEW fails \in BOOLEAN, AddRecord(c, fails), TypeOK'
  PROVE  Inv'
<1> DEFINE L == logfile_number_
<1>1. /\ Others(c) /\ Kept(c) /\ call[c].pc = "log" /\ call'[c].last = call[c].last
      /\ call'[c].ok = ~fails /\ call'[c].error = FALSE
      /\ call'[c].pc = IF fails THEN "relock" ELSE IF call[c].kind = "syncput" THEN "sync" ELSE "insert"
  BY AddRecordEffect DEF Inv
<1>2. /\ UNCHANGED <<writers_, imm_, has_imm_, mem_, tmp_batch_, last_sequence, logfile_number_, tables, log_number,
                     manual_compaction_, bg_error_, bg, calls, acked>>
      /\ logs' = IF fails \/ logs[logfile_number_].doubt # {}
                 THEN [logs EXCEPT ![logfile_number_].doubt = @ \cup ToSet(call[c].batch)]
                 ELSE [logs EXCEPT ![logfile_number_].recs = @ \cup ToSet(call[c].batch)]
  BY DEF AddRecord, LogStep, version
<1>3. LogMove(c)
  BY <1>1, <1>2 DEF LogMove, LoggingPcs
<1>4. L \in DOMAIN logs /\ \A n \in DOMAIN logs : logs[n] \in [recs : SUBSET Entry, synced : SUBSET Entry, doubt : SUBSET Entry]
  BY CurrentLog
<1>5. /\ DOMAIN logs' = DOMAIN logs
      /\ \A n \in DOMAIN logs : logs'[n].synced = logs[n].synced /\ (n # L => logs'[n] = logs[n])
      /\ logs[L].recs \subseteq logs'[L].recs /\ logs'[L].recs \subseteq logs[L].recs \cup Batch(c)
      /\ fails => logs'[L].recs = logs[L].recs
      /\ logs[L].doubt \subseteq logs'[L].doubt /\ Batch(c) \subseteq logs'[L].recs \cup logs'[L].doubt
  <2>1. ToSet(call[c].batch) = Batch(c)
    BY BatchType DEF Inv
  <2>2. CASE fails \/ logs[L].doubt # {}
    <3>1. logs' = [logs EXCEPT ![L].doubt = @ \cup Batch(c)]
      BY <1>2, <2>1, <2>2
    <3> HIDE DEF L
    <3> QED BY ONLY <1>4, <3>1
  <2>3. CASE ~(fails \/ logs[L].doubt # {})
    <3>1. logs' = [logs EXCEPT ![L].recs = @ \cup Batch(c)]
      BY <1>2, <2>1, <2>3
    <3> HIDE DEF L
    <3> QED BY ONLY <1>4, <2>3, <3>1
  <2> QED BY <2>2, <2>3
<1>6. \A n \in DOMAIN logs : logs[n].recs \subseteq logs'[n].recs /\ logs[n].doubt \subseteq logs'[n].doubt
  BY <1>5
<1>7. Entries' = Entries /\ Durable \subseteq Durable'
  <2>1. \A n \in DOMAIN logs : logs'[n].synced = logs[n].synced
    BY <1>5
  <2> QED BY <1>2, <1>4, <1>5, <1>6, <2>1 DEF Entries, Durable
<1>8. Records' \subseteq Records \cup Batch(c) /\ (fails => Records' = Records)
  <2>1. \A n \in DOMAIN logs : logs'[n].recs \subseteq logs[n].recs \cup Batch(c)
    BY <1>5
  <2>2. fails => \A n \in DOMAIN logs : logs'[n].recs = logs[n].recs
    BY <1>5
  <2> QED BY <1>5, <2>1, <2>2 DEF Records
<1>9. Batch(c) \cap Records = {} /\ Batch(c) \cap Entries = {}
  BY <1>1 DEF Inv, ProgressInv
<1>10. StoredInv'
  <2>1. \A a, b \in Entries' : a.id = b.id <=> a.seq = b.seq
    BY <1>7 DEF Inv, StoredInv
  <2>2. Stored' \subseteq Stored \cup Batch(c)
    BY <1>7, <1>8 DEF Stored
  <2> QED BY <1>3, <2>1, <2>2, LogMoveStored
<1>11. ProgressInv'
  <2>1. CASE fails
    BY <1>1, <1>3, <1>7, <1>8, <1>9, <2>1, LogMoveProgress DEF Kept
  <2>2. CASE ~fails
    <3>1. call'[c].pc = (IF call[c].kind = "syncput" THEN "sync" ELSE "insert") /\ call'[c].ok
      BY <1>1, <2>2
    <3>2. Batch(c) \subseteq logs'[logfile_number_'].recs \cup logs'[logfile_number_'].doubt /\ Batch(c) \cap Entries' = {}
      BY <1>2, <1>5, <1>7, <1>9, <2>2
    <3> QED BY <1>1, <1>3, <3>1, <3>2, LogMoveProgress DEF Kept
  <2> QED BY <2>1, <2>2
<1>12. LogInv'
  BY <1>2, <1>4, <1>5, <1>6 DEF Inv, LogInv
<1>13. CommitInv'
  BY <1>3, <1>7, LogMoveCommit
<1>14. LostInv'
  BY <1>3, <1>7, <1>8, LogMoveLost
<1> QED BY <1>3, <1>10, <1>11, <1>12, <1>13, <1>14, LogMoveQueue DEF Inv

\* logfile_->Sync keeps the invariant, also when it fails.
LEMMA SyncInv ==
  ASSUME Inv, NEW c \in Clients, NEW fails \in BOOLEAN, Sync(c, fails), TypeOK'
  PROVE  Inv'
<1> DEFINE L == logfile_number_
<1>1. /\ Others(c) /\ Kept(c) /\ call[c].pc = "sync" /\ call'[c].last = call[c].last
      /\ call'[c].ok = ~fails /\ call'[c].error = fails
      /\ call'[c].pc = IF fails THEN "relock" ELSE "insert"
  BY SyncEffect DEF Inv
<1>2. /\ UNCHANGED <<writers_, imm_, has_imm_, mem_, tmp_batch_, last_sequence, logfile_number_, tables, log_number,
                     manual_compaction_, bg_error_, bg, calls, acked>>
      /\ logs' = IF fails THEN logs ELSE [logs EXCEPT ![logfile_number_].synced = logs[logfile_number_].recs]
  BY DEF Sync, LogStep, version
<1>3. LogMove(c)
  BY <1>1, <1>2 DEF LogMove, LoggingPcs
<1>4. L \in DOMAIN logs /\ \A n \in DOMAIN logs : logs[n] \in [recs : SUBSET Entry, synced : SUBSET Entry, doubt : SUBSET Entry]
  BY CurrentLog
<1>5. /\ DOMAIN logs' = DOMAIN logs
      /\ \A n \in DOMAIN logs : logs'[n].recs = logs[n].recs /\ logs'[n].doubt = logs[n].doubt /\ (n # L => logs'[n] = logs[n])
      /\ logs'[L].synced = IF fails THEN logs[L].synced ELSE logs[L].recs
  <2>1. CASE fails
    BY <1>2, <2>1
  <2>2. CASE ~fails
    <3>1. logs' = [logs EXCEPT ![L].synced = logs[L].recs]
      BY <1>2, <2>2
    <3> HIDE DEF L
    <3> QED BY ONLY <1>4, <2>2, <3>1
  <2> QED BY <2>1, <2>2
<1>6. Entries' = Entries /\ Records' = Records /\ Stored' = Stored
  BY <1>2, <1>5 DEF Entries, Records, Stored
<1>7. \A n \in DOMAIN logs : logs[n].synced \subseteq logs[n].recs /\ logs[n].synced \subseteq logs'[n].synced
  BY <1>5 DEF Inv, LogInv
<1>8. /\ Batch(c) \cap Entries = {} /\ Batch(c) \subseteq logs[L].recs \cup logs[L].doubt
  BY <1>1 DEF Inv, ProgressInv
<1>9. Durable \subseteq Durable'
  BY <1>2, <1>4, <1>5, <1>7 DEF Durable
<1>10. StoredInv'
  <2>1. \A a, b \in Entries' : a.id = b.id <=> a.seq = b.seq
    BY <1>6 DEF Inv, StoredInv
  <2> QED BY <1>3, <1>6, <2>1, LogMoveStored
<1>11. ProgressInv'
  BY <1>1, <1>2, <1>3, <1>5, <1>6, <1>8, <1>4, LogMoveProgress DEF Kept
<1>12. LogInv'
  <2>1. \A n \in DOMAIN logs' : n <= logfile_number_' /\ logs'[n].synced \subseteq logs'[n].recs
    BY <1>2, <1>5, <1>7 DEF Inv, LogInv
  <2> QED BY <1>2, <1>4, <1>5, <2>1 DEF Inv, LogInv
<1>13. CommitInv'
  BY <1>3, <1>6, <1>9, LogMoveCommit
<1>14. LostInv'
  BY <1>3, <1>6, LogMoveLost
<1> QED BY <1>3, <1>10, <1>11, <1>12, <1>13, <1>14, LogMoveQueue DEF Inv

\* InsertInto keeps the invariant: no entry is inserted twice.
LEMMA InsertInv ==
  ASSUME Inv, NEW c \in Clients, InsertInto(c), TypeOK'
  PROVE  Inv'
<1>1. /\ Others(c) /\ Kept(c) /\ call[c].pc = "insert" /\ call'[c].last = call[c].last
      /\ call'[c].ok = call[c].ok /\ call'[c].pc = "relock"
  BY InsertEffect DEF Inv
<1>2. UNCHANGED <<writers_, imm_, has_imm_, logs, tmp_batch_, last_sequence, logfile_number_, tables, log_number,
                  manual_compaction_, bg_error_, bg, calls, acked>>
  BY DEF InsertInto, LogStep, version
<1>3. LogMove(c)
  BY <1>1, <1>2 DEF LogMove, LoggingPcs
<1>4. mem_' = mem_ \cup Batch(c)
  BY BatchType DEF InsertInto, Inv
<1>5. /\ Batch(c) \cap Entries = {} /\ Batch(c) \subseteq logs[logfile_number_].recs \cup logs[logfile_number_].doubt /\ call[c].ok
      /\ call[c].kind = "syncput" => Batch(c) \subseteq logs[logfile_number_].synced \cup logs[logfile_number_].doubt
  BY <1>1 DEF Inv, ProgressInv
<1>6. Entries' = Entries \cup Batch(c) /\ Records' = Records
  BY <1>2, <1>4 DEF Entries, Records
<1>7. Stored' \subseteq Stored \cup Batch(c)
  BY <1>6 DEF Stored
<1>8. Durable \subseteq Durable'
  BY <1>2, <1>4 DEF Durable
<1>9. call[c].pc \in LoggingPcs
  BY <1>1 DEF LoggingPcs
<1>10. ASSUME NEW a \in Entries', NEW b \in Entries' PROVE a.id = b.id <=> a.seq = b.seq
  <2>1. CASE a \in Entries /\ b \in Entries
    BY <2>1 DEF Inv, StoredInv
  <2>2. CASE a \in Batch(c) /\ b \in Batch(c)
    BY <1>9, <2>2, BatchFacts
  <2>3. \A x \in Entries, y \in Batch(c) : x.id # y.id /\ x.seq # y.seq
    BY <1>5, <1>9, BatchFresh DEF Stored
  <2> QED BY <1>6, <2>1, <2>2, <2>3
<1>11. StoredInv'
  BY <1>3, <1>7, <1>10, LogMoveStored
<1>12. ProgressInv'
  BY <1>1, <1>2, <1>3, <1>4, <1>5, LogMoveProgress DEF Kept
<1>13. LogInv'
  BY <1>2, <1>4, <1>5 DEF Inv, LogInv
<1>14. CommitInv'
  BY <1>3, <1>6, <1>8, LogMoveCommit
<1>15. LostInv'
  BY <1>3, <1>6, LogMoveLost
<1> QED BY <1>3, <1>11, <1>12, <1>13, <1>14, <1>15, LogMoveQueue DEF Inv
-------------------------------------------------------------------------------
(* The numbers become visible, and the group leaves the queue.               *)

\* Taking the mutex again and setting the last sequence keeps the invariant.
LEMMA FinishInv ==
  ASSUME Inv, NEW c \in Clients, FinishLogging(c), TypeOK'
  PROVE  Inv'
<1>1. /\ Others(c) /\ Kept(c) /\ call[c].pc = "relock" /\ call'[c].last = call[c].last
      /\ call'[c].ok = call[c].ok /\ call'[c].pc = "finish"
  BY FinishLoggingEffect DEF Inv
<1>2. /\ UNCHANGED <<writers_, memory, logs, version, manual_compaction_, bg, calls, acked>>
      /\ last_sequence' = last_sequence + Len(call[c].batch)
      /\ bg_error_' = (bg_error_ \/ call[c].error)
      /\ tmp_batch_' = IF Len(call[c].batch) > 1 THEN << >> ELSE tmp_batch_
  BY DEF FinishLogging
<1>3. /\ \A x \in Clients \ {c} : call'[x] = call[x]
      /\ \A x \in Clients : /\ call'[x].kind = call[x].kind /\ call'[x].id = call[x].id
                            /\ call'[x].done = call[x].done /\ call'[x].last = call[x].last
                            /\ HasBatch(x)' = HasBatch(x)
  BY <1>1 DEF Others, Kept, HasBatch
<1>4. Places' = Places /\ writers_' = writers_ /\ Entries' = Entries /\ Records' = Records /\ Durable' = Durable /\ Stored' = Stored
  BY <1>2 DEF Places, Entries, Records, Durable, Stored, memory, version
<1>5. call[c].pc \in LoggingPcs /\ call[c].pc \in FrontPcs
  BY <1>1 DEF LoggingPcs, FrontPcs
<1>6. 1 \in Places /\ writers_[1] = c /\ \A d \in Clients : call[d].pc \in FrontPcs => d = c
  BY <1>5, FrontOnly
<1>7. \A d \in Clients : /\ call'[d].pc \in FrontPcs => d = c
                         /\ call'[d].pc \notin {"group"} \cup LoggingPcs
  BY <1>1, <1>3, <1>6 DEF FrontPcs, LoggingPcs
<1>8. \A d \in Clients : \A x : InGroup(d, x)' <=> InGroup(d, x)
  BY <1>3, <1>4 DEF InGroup
<1>9. \A i \in Places : writers_[i] \in Clients
  BY DEF Inv, TypeOK, QueueTypes, Places
<1>10. QueueInv'
  <2>1. \A i \in Places : call'[writers_[i]].pc \in FrontPcs \cup {"write"} /\ ~call'[writers_[i]].done
    BY <1>1, <1>3, <1>9 DEF Inv, QueueInv, FrontPcs
  <2>2. \A d \in Clients : call'[d].pc = "write" /\ ~call'[d].done => \E i \in Places : writers_[i] = d
    BY <1>1, <1>3 DEF Inv, QueueInv
  <2>3. manual_compaction_' # NULL => call'[manual_compaction_'].pc = "manual"
    BY <1>1, <1>2, ManualKept
  <2> QED BY <1>4, <1>6, <1>7, <2>1, <2>2, <2>3 DEF Inv, QueueInv
<1>11. IdInv'
  <2>1. /\ \A x \in Clients : call[x].id <= calls /\ (call[x].pc # "idle" => 1 <= call[x].id)
        /\ \A x, y \in Clients : call[x].id = call[y].id /\ 1 <= call[x].id => x = y
    BY DEF Inv, IdInv
  <2>2. (\A x \in Clients : call'[x].pc # "idle" => call[x].pc # "idle") /\ calls' = calls
    BY <1>1, <1>2, <1>3
  <2> QED BY ONLY <1>3, <2>1, <2>2 DEF IdInv
<1>12. GroupInv'
  <2>1. ASSUME NEW d \in Clients, call'[d].pc \in LoggingPcs \cup {"finish"}
        PROVE  \E m \in Places' : writers_'[m] = call'[d].last
    <3>1. d = c
      BY <1>7, <2>1 DEF FrontPcs
    <3> QED BY <1>3, <1>4, <1>5, <3>1 DEF Inv, GroupInv
  <2> QED BY <1>7, <2>1, Zenon DEF GroupInv
<1>13. BatchInv'
  <2>1. tmp_batch_' = << >>
    <3>1. tmp_batch_ # << >> => Len(call[c].batch) > 1
      BY <1>6 DEF Inv, BatchInv, FrontPcs
    <3> QED BY <1>2, <3>1
  <2> QED BY <1>7, <2>1 DEF BatchInv
<1>14. /\ \A e \in Batch(c) : e \in Entry /\ e.id <= calls /\ last_sequence < e.seq
                              /\ e.seq <= last_sequence + Len(call[c].batch)
                              /\ \E i \in Places : writers_[i] \in Clients /\ InGroup(c, writers_[i]) /\ e.id = call[writers_[i]].id
       /\ last_sequence \in Nat /\ Len(call[c].batch) \in Nat
       /\ \A d \in Clients : call[d].pc # "finish"
       /\ \A e : Pending(e) <=> e \in Batch(c)
  BY <1>5, BatchFacts
<1>15. \A e \in Stored : e \in Entry
  BY DEF Inv, TypeOK, StoreTypes, Stored, Entries, Records
<1>16. StoredInv'
  <2>1. ASSUME NEW e \in Stored PROVE e.id <= calls /\ e.seq <= last_sequence'
    <3>1. e.id <= calls /\ (e.seq <= last_sequence \/ e \in Batch(c))
      BY <1>14 DEF Inv, StoredInv
    <3>2. e.seq \in Nat
      BY <1>15 DEF Entry
    <3> QED BY <1>2, <1>14, <3>1, <3>2
  <2>2. ASSUME NEW e \in Stored', NEW i \in Places', e.id = call'[writers_'[i]].id
        PROVE  call'[c].pc = "finish" /\ InGroup(c, writers_[i])'
    <3>1. i \in Places /\ writers_[i] \in Clients /\ e.id = call[writers_[i]].id /\ e \in Stored
      BY <1>3, <1>4, <1>9, <2>2
    <3>2. e \in Batch(c)
      BY <1>14, <3>1 DEF Inv, StoredInv
    <3>3. PICK j \in Places : writers_[j] \in Clients /\ InGroup(c, writers_[j]) /\ e.id = call[writers_[j]].id
      BY <1>14, <3>2
    <3>4. 1 <= call[writers_[i]].id
      BY <3>1 DEF Inv, QueueInv, IdInv, FrontPcs, LoggingPcs
    <3>5. writers_[i] = writers_[j]
      BY <3>1, <3>3, <3>4 DEF Inv, IdInv
    <3>6. InGroup(c, writers_[i])
      BY <3>3, <3>5
    <3> QED BY <1>1, <1>4, <1>8, <3>6 DEF InGroup
  <2>3. \A a, b \in Entries' : a.id = b.id <=> a.seq = b.seq
    BY <1>4 DEF Inv, StoredInv
  <2>4. \A e \in Stored' : e.id <= calls' /\ (e.seq <= last_sequence' \/ Pending(e)')
    BY <1>2, <1>4, <2>1
  <2> QED BY ONLY <2>2, <2>3, <2>4, c \in Clients, Zenon DEF StoredInv
<1>17. ProgressInv'
  BY <1>7 DEF ProgressInv, LoggingPcs
<1>18. LogInv'
  BY <1>2 DEF Inv, LogInv, memory, version
<1>19. /\ call[c].ok => Batch(c) \subseteq mem_ /\ (call[c].kind = "syncput" => Batch(c) \subseteq logs[logfile_number_].synced \cup logs[logfile_number_].doubt)
       /\ ~call[c].ok => Batch(c) \cap Entries = {} /\ (~call[c].error => Batch(c) \cap Records = {})
  BY <1>1 DEF Inv, ProgressInv
<1>20. CommitInv'
  <2>1. ASSUME NEW x \in Clients, Committed(x)', HasBatch(x)'
        PROVE  \E e \in Entries' : e.id = call'[x].id /\ (call'[x].kind = "syncput" => e \in Durable')
    <3>1. CASE call'[x].pc = "write" /\ call'[x].done /\ call'[x].ok
      <4>1. call'[x] = call[x]
        BY <1>1, <1>3, <3>1
      <4>2. Committed(x) /\ HasBatch(x)
        BY <1>3, <2>1, <3>1, <4>1 DEF Committed
      <4> QED BY <1>4, <4>1, <4>2 DEF Inv, CommitInv
    <3>2. ASSUME NEW d \in Clients, call'[d].pc = "finish", call'[d].ok, InGroup(d, x)'
          PROVE  \E e \in Entries : e.id = call[x].id /\ (call[x].kind = "syncput" => e \in Durable)
      <4>1. d = c /\ call[c].ok /\ InGroup(c, x) /\ HasBatch(x)
        BY <1>1, <1>3, <1>7, <1>8, <2>1, <3>2 DEF FrontPcs
      <4>2. PICK e \in Batch(c) : e.id = call[x].id
        BY <1>5, <4>1 DEF Inv, GroupInv
      <4>3. call[x].kind = "syncput" => call[c].kind = "syncput"
        BY <1>5, <4>1 DEF Inv, GroupInv
      <4>4. e \in Entries /\ (call[x].kind = "syncput" => e \in Durable)
        BY <1>19, <4>1, <4>3 DEF Entries, Durable
      <4> QED BY <4>2, <4>4
    <3> QED BY <1>3, <1>4, <2>1, <3>1, <3>2 DEF Committed
  <2>2. \A i \in acked' : \E e \in Entries' : e.id = i
    BY <1>2, <1>4 DEF Inv, CommitInv
  <2> QED BY <2>1, <2>2, Zenon DEF CommitInv
<1>21. LostInv'
  <2> SUFFICES ASSUME NEW e \in Records, e \notin Entries PROVE bg_error_' /\ \A a \in Entries : a.seq < e.seq
    BY <1>4, <1>7 DEF LostInv
  <2>1. e \in Batch(c)
    BY <1>5, <1>14 DEF Inv, LostInv
  <2>2. ~call[c].ok /\ call[c].error
    BY <1>19, <2>1 DEF Entries
  <2>3. bg_error_'
    BY <1>2, <2>2
  <2>4. ASSUME NEW a \in Entries PROVE a.seq < e.seq
    <3>1. a \in Stored /\ a.seq \in Nat /\ a \notin Batch(c)
      BY <1>15, <1>19, <2>2 DEF Stored, Entry
    <3>2. a.seq <= last_sequence /\ last_sequence < e.seq /\ e.seq \in Nat
      BY <1>14, <2>1, <3>1 DEF Inv, StoredInv, Entry
    <3> QED BY <1>14, <3>1, <3>2
  <2> QED BY <2>3, <2>4
<1> QED BY <1>10, <1>11, <1>12, <1>13, <1>16, <1>17, <1>18, <1>20, <1>21 DEF Inv

\* The loop that pops the group and reports its status keeps the invariant.
LEMMA PopInv ==
  ASSUME Inv, NEW c \in Clients, PopGroup(c), TypeOK'
  PROVE  Inv'
<1>1. PICK n \in Places :
        /\ writers_[n] = call[c].last /\ call[c].pc = "finish"
        /\ writers_' \in Seq(Clients) /\ Len(writers_') = Len(writers_) - n
        /\ \A i \in 1 .. Len(writers_) - n : writers_'[i] = writers_[n + i]
        /\ call' \in [Clients -> CallRecord]
        /\ \A x \in Clients : call'[x].kind = call[x].kind /\ call'[x].id = call[x].id
        /\ call'[c].pc \in OtherPcs
        /\ \A x \in Clients \ {c} :
             IF \E i \in 1 .. n : writers_[i] = x
             THEN call'[x].pc = call[x].pc /\ call'[x].done = TRUE /\ call'[x].ok = call[c].ok
             ELSE call'[x] = call[x]
  BY PopEffect, Zenon DEF Inv
<1>2. /\ UNCHANGED <<memory, logs, version, manual_compaction_, bg, calls, last_sequence, tmp_batch_, bg_error_>>
      /\ acked' = acked \cup (IF call[c].ok THEN Acknowledge({c}) ELSE {})
  BY DEF PopGroup, Pop
<1>3. /\ n \in Nat /\ Len(writers_) \in Nat /\ 1 <= n /\ n <= Len(writers_)
      /\ \A i \in Places : writers_[i] \in Clients
  BY DEF Inv, TypeOK, QueueTypes, Places
<1>4. 1 \in Places /\ writers_[1] = c /\ \A d \in Clients : call[d].pc \in FrontPcs => d = c
  BY <1>1, FrontOnly DEF FrontPcs
<1>5. \A d \in Clients : call'[d].pc \notin FrontPcs /\ (d # c => call'[d].pc = call[d].pc)
  BY <1>1, <1>4 DEF FrontPcs, LoggingPcs, OtherPcs
<1>6. \A d \in Clients : call'[d].pc \notin {"group", "finish"} \cup LoggingPcs
  BY <1>5 DEF FrontPcs
<1>7. Places' = 1 .. Len(writers_) - n /\ \A i \in Places' : n + i \in Places /\ writers_'[i] = writers_[n + i]
  BY <1>1, <1>3 DEF Places
<1>8. \A i \in Places' : \A j \in 1 .. n : j \in Places /\ writers_[j] # writers_'[i]
  BY <1>3, <1>7 DEF Inv, QueueInv, Places
<1>9. \A i \in Places' : /\ writers_'[i] \in Clients /\ writers_'[i] # c
                         /\ call'[writers_'[i]] = call[writers_'[i]]
  <2>1. \A i \in Places' : writers_'[i] \in Clients /\ writers_'[i] # c
    BY <1>3, <1>4, <1>7, <1>8
  <2> QED BY <1>1, <1>8, <2>1
<1>10. QueueInv'
  <2>1. \A i, j \in Places' : writers_'[i] = writers_'[j] => i = j
    BY <1>3, <1>7 DEF Inv, QueueInv
  <2>2. \A i \in Places' : call'[writers_'[i]].pc \in FrontPcs \cup {"write"} /\ ~call'[writers_'[i]].done
    <3>1. \A i \in Places : call[writers_[i]].pc \in FrontPcs \cup {"write"} /\ ~call[writers_[i]].done
      BY DEF Inv, QueueInv
    <3> QED BY <1>7, <1>9, <3>1
  <2>3. ASSUME NEW d \in Clients, call'[d].pc = "write", ~call'[d].done PROVE \E i \in Places' : writers_'[i] = d
    <3>1. d # c
      BY <1>1, <2>3 DEF OtherPcs
    <3>2. ~(\E i \in 1 .. n : writers_[i] = d) /\ call'[d] = call[d]
      BY <1>1, <2>3, <3>1
    <3>3. PICK i \in Places : writers_[i] = d
      BY <2>3, <3>2 DEF Inv, QueueInv
    <3>4. i - n \in Places' /\ n + (i - n) = i
      BY <1>3, <1>7, <3>2, <3>3 DEF Places
    <3>5. writers_'[i - n] = d
      BY <1>7, <3>3, <3>4
    <3> QED BY <3>4, <3>5
  <2>4. manual_compaction_' # NULL => call'[manual_compaction_'].pc = "manual"
    <3>1. manual_compaction_ # NULL => manual_compaction_ \in Clients /\ call[manual_compaction_].pc = "manual"
      BY DEF Inv, TypeOK, StateTypes, QueueInv
    <3> QED BY <1>1, <1>2, <1>5, <3>1
  <2> QED BY <1>5, <2>1, <2>2, <2>3, <2>4 DEF QueueInv
<1>11. IdInv'
  <2>1. /\ \A x \in Clients : call[x].id <= calls /\ (call[x].pc # "idle" => 1 <= call[x].id)
        /\ \A x, y \in Clients : call[x].id = call[y].id /\ 1 <= call[x].id => x = y
    BY DEF Inv, IdInv
  <2>2. (\A x \in Clients : call'[x].pc # "idle" => call[x].pc # "idle") /\ calls' = calls
    BY <1>1, <1>2, <1>5
  <2>3. \A x \in Clients : call'[x].id = call[x].id
    BY <1>1
  <2> QED BY ONLY <2>1, <2>2, <2>3 DEF IdInv
<1>12. GroupInv'
  BY <1>6, Zenon DEF GroupInv
<1>13. \A d \in Clients : call[d].pc \notin {"group"} \cup LoggingPcs
  BY <1>1, <1>4 DEF FrontPcs, LoggingPcs
<1>14. BatchInv'
  <2>1. tmp_batch_' = << >>
    BY <1>2, <1>13 DEF Inv, BatchInv
  <2> QED BY <1>6, <2>1 DEF BatchInv
<1>15. Entries' = Entries /\ Records' = Records /\ Durable' = Durable /\ Stored' = Stored
  BY <1>2 DEF Entries, Records, Durable, Stored, memory, version
<1>16. \A e : ~Pending(e)
  BY <1>13 DEF Pending
<1>17. \A x : InGroup(c, x) <=> \E i \in 1 .. n : writers_[i] = x
  <2>1. \A m \in Places : writers_[m] = call[c].last <=> m = n
    BY <1>1 DEF Inv, QueueInv
  <2>2. \A i \in Places : i <= n <=> i \in 1 .. n
    BY <1>3 DEF Places
  <2>3. 1 .. n \subseteq Places
    BY <1>3 DEF Places
  <2> QED BY <2>1, <2>2, <2>3 DEF InGroup
<1>18. StoredInv'
  <2>1. \A e \in Stored' : e.id <= calls' /\ (e.seq <= last_sequence' \/ Pending(e)')
    BY <1>2, <1>15, <1>16 DEF Inv, StoredInv
  <2>2. ASSUME NEW e \in Stored', NEW i \in Places', e.id = call'[writers_'[i]].id PROVE FALSE
    <3>1. n + i \in Places /\ writers_'[i] = writers_[n + i] /\ e.id = call[writers_[n + i]].id /\ e \in Stored
      BY <1>7, <1>9, <1>15, <2>2
    <3>2. PICK d \in Clients : call[d].pc = "finish" /\ InGroup(d, writers_[n + i])
      BY <1>16, <3>1 DEF Inv, StoredInv
    <3>3. d = c
      BY <1>4, <3>2 DEF FrontPcs
    <3>4. \E j \in 1 .. n : writers_[j] = writers_[n + i]
      BY <1>17, <3>2, <3>3
    <3> QED BY <1>8, <3>1, <3>4
  <2>3. \A a, b \in Entries' : a.id = b.id <=> a.seq = b.seq
    BY <1>15 DEF Inv, StoredInv
  <2> QED BY ONLY <2>1, <2>2, <2>3, Zenon DEF StoredInv
<1>19. ProgressInv'
  BY <1>6 DEF ProgressInv, LoggingPcs
<1>20. LogInv'
  BY <1>2 DEF Inv, LogInv, memory, version
<1>21. CommitInv'
  <2>1. ASSUME NEW x \in Clients, Committed(x)', HasBatch(x)'
        PROVE  \E e \in Entries' : e.id = call'[x].id /\ (call'[x].kind = "syncput" => e \in Durable')
    <3>1. call'[x].pc = "write" /\ call'[x].done /\ call'[x].ok /\ x # c
      BY <1>1, <1>6, <2>1 DEF Committed, OtherPcs
    <3>2. HasBatch(x)
      BY <1>1, <2>1 DEF HasBatch
    <3>3. Committed(x)
      <4>1. CASE \E i \in 1 .. n : writers_[i] = x
        <5>1. call[c].ok /\ InGroup(c, x)
          BY <1>1, <1>17, <3>1, <4>1
        <5> QED BY <1>1, <5>1 DEF Committed
      <4>2. CASE ~(\E i \in 1 .. n : writers_[i] = x)
        <5>1. call'[x] = call[x]
          BY <1>1, <3>1, <4>2
        <5> QED BY <3>1, <5>1 DEF Committed
      <4> QED BY <4>1, <4>2
    <3> QED BY <1>1, <1>15, <3>2, <3>3, ZenonT(60) DEF Inv, CommitInv
  <2>2. ASSUME NEW i \in acked' PROVE \E e \in Entries' : e.id = i
    <3>1. CASE i \in acked
      BY <1>15, <3>1 DEF Inv, CommitInv
    <3>2. CASE i \notin acked
      <4>1. call[c].ok /\ HasBatch(c) /\ i = call[c].id
        BY <1>2, <2>2, <3>2 DEF Acknowledge, HasBatch
      <4>2. InGroup(c, c)
        BY <1>3, <1>4, <1>17
      <4>3. Committed(c)
        BY <1>1, <4>1, <4>2 DEF Committed
      <4> QED BY <1>15, <4>1, <4>3 DEF Inv, CommitInv
    <3> QED BY <3>1, <3>2
  <2> QED BY <2>1, <2>2, Zenon DEF CommitInv
<1>22. LostInv'
  BY <1>2, <1>6, <1>15, <1>16 DEF Inv, LostInv
<1> QED BY <1>10, <1>11, <1>12, <1>14, <1>18, <1>19, <1>20, <1>21, <1>22 DEF Inv
-------------------------------------------------------------------------------
(* The invariant and what it gives.                                          *)

\* A new database satisfies the invariant.
LEMMA InitInv == Init => Inv
<1> SUFFICES ASSUME Init PROVE Inv
  OBVIOUS
<1>1. << >> \in Seq(Entry) /\ << >> \in Seq(Nat) /\ << >> \in Seq(Clients) /\ Len(<< >>) = 0
  OBVIOUS
<1>2. Idle \in CallRecord /\ Idle.pc = "idle" /\ Idle.id = 0 /\ Idle.done = FALSE
  BY ONLY <1>1 DEF Idle, CallRecord, OtherPcs
<1>3. call \in [Clients -> CallRecord] /\ \A c \in Clients : call[c].pc = "idle" /\ call[c].id = 0
  BY <1>2 DEF Init
<1>4. NoWork \in WorkRecord /\ NoWork.at = "idle"
  BY ONLY DEF NoWork, WorkRecord
<1>5. NewLog \in [recs : SUBSET Entry, synced : SUBSET Entry, doubt : SUBSET Entry] /\ NewLog.recs = {} /\ NewLog.synced = {} /\ NewLog.doubt = {}
  BY ONLY DEF NewLog
<1>6. DOMAIN logs = {1} /\ logs[1] = NewLog /\ logs \in [DOMAIN logs -> [recs : SUBSET Entry, synced : SUBSET Entry, doubt : SUBSET Entry]]
  BY <1>5 DEF Init
<1>7. /\ mutex_ = Free /\ writers_ = << >> /\ waiting = {} /\ mem_ = {} /\ imm_ = {} /\ has_imm_ = FALSE
      /\ tmp_batch_ = << >> /\ last_sequence = 0 /\ logfile_number_ = 1 /\ log_number = 1 /\ tables = {} /\ num_l0 = 0
      /\ manual_compaction_ = NULL /\ suspending_compaction_ = FALSE /\ shutting_down_ = FALSE
      /\ bg_error_ = FALSE /\ bg = NoWork /\ life = "open" /\ calls = 0 /\ faults = 0 /\ suspends = 0 /\ acked = {}
  BY DEF Init
<1>8. TypeOK
  <2>1. StoreTypes
    <3>1. tmp_batch_ \in Seq(Nat)
      BY <1>1, <1>7
    <3>2. /\ mem_ \in SUBSET Entry /\ imm_ \in SUBSET Entry /\ tables \in SUBSET Entry /\ has_imm_ \in BOOLEAN
          /\ last_sequence \in Nat /\ logfile_number_ \in Nat /\ log_number \in Nat
      BY <1>7
    <3>3. DOMAIN logs \in SUBSET Nat
      BY <1>6
    <3> QED BY <1>6, <3>1, <3>2, <3>3, Zenon DEF StoreTypes
  <2>2. StateTypes
    <3>1. bg \in WorkRecord
      BY <1>4, <1>7
    <3>2. /\ mutex_ \in Clients \cup {Free, Bg} /\ manual_compaction_ \in Clients \cup {NULL}
          /\ waiting \in SUBSET Clients /\ acked \in SUBSET Nat
      BY <1>7
    <3>3. /\ num_l0 \in Int /\ calls \in Nat /\ faults \in Nat /\ suspends \in Nat
      BY <1>7
    <3>4. /\ suspending_compaction_ \in BOOLEAN /\ shutting_down_ \in BOOLEAN /\ bg_error_ \in BOOLEAN
          /\ life \in {"open", "closing", "closed", "crashed"}
      BY <1>7
    <3> QED BY <3>1, <3>2, <3>3, <3>4, Zenon DEF StateTypes
  <2>3. QueueTypes
    BY <1>1, <1>3, <1>7 DEF QueueTypes
  <2> QED BY <2>1, <2>2, <2>3 DEF TypeOK
<1>9. Places = {}
  BY <1>1, <1>7 DEF Places
<1>10. \A c \in Clients : call[c].pc \notin FrontPcs \cup {"write"} /\ call[c].pc \notin LoggingPcs \cup {"group", "finish"}
  BY <1>3 DEF FrontPcs, LoggingPcs
<1>11. QueueInv /\ IdInv
  BY <1>3, <1>7, <1>9, <1>10 DEF QueueInv, IdInv
<1>12. GroupInv /\ BatchInv
  BY <1>7, <1>10 DEF GroupInv, BatchInv
<1>13. Entries = {} /\ Records = {} /\ Stored = {}
  BY <1>5, <1>6, <1>7 DEF Entries, Records, Stored
<1>14. StoredInv /\ LostInv
  BY <1>13 DEF StoredInv, LostInv
<1>15. ProgressInv
  BY <1>3 DEF ProgressInv
<1>16. LogInv
  BY <1>4, <1>5, <1>6, <1>7 DEF LogInv
<1>17. CommitInv
  BY <1>3, <1>7 DEF CommitInv, Committed
<1> QED BY <1>8, <1>11, <1>12, <1>14, <1>15, <1>16, <1>17 DEF Inv

\* Every step of a calling thread keeps the invariant.
LEMMA ClientInv ==
  ASSUME Inv, NEW c \in Clients, ClientStep(c), TypeOK'
  PROVE  Inv'
<1>1. CASE WaitTurn(c) \/ MakeRoomForWrite(c) \/ WakeUp(c) \/ CompactMemTableWait(c) \/ TEST_CompactRange(c)
  BY <1>1, WaitTurnQuiet, MakeRoomQuiet, WakeUpQuiet, CompactRangeQuiet, QuietInv
<1>2. CASE StartLogging(c) \/ InsertInto(c) \/ FinishLogging(c) \/ PopGroup(c)
  BY <1>2, StartInv, InsertInv, FinishInv, PopInv
<1>3. CASE \E fails \in BOOLEAN : AddRecord(c, fails) \/ Sync(c, fails)
  BY <1>3, AddInv, SyncInv
<1> QED BY <1>1, <1>2, <1>3 DEF ClientStep

\* The invariant of the threads is inductive.
LEMMA InvStep == Inv /\ [Next]_vars => Inv'
<1> SUFFICES ASSUME Inv, [Next]_vars PROVE Inv'
  OBVIOUS
<1>1. TypeOK'
  BY TypeStep
<1>2. ASSUME NEW c \in Clients, ClientStep(c) PROVE Inv'
  BY <1>1, <1>2, ClientInv
<1>3. ASSUME NEW c \in Clients, NEW kind \in Kinds, Call(c, kind) PROVE Inv'
  BY <1>1, <1>3, CallInv
<1>4. CASE BgStep
  BY <1>1, <1>4, BgQuiet, QuietInv
<1>5. CASE SuspendCompaction \/ ResumeCompaction \/ BeginClose \/ EndClose \/ UNCHANGED vars
  BY <1>1, <1>5, OtherQuiet, QuietInv
<1> QED BY <1>2, <1>3, <1>4, <1>5 DEF Next, Terminated

\* The invariant holds in every state that the threads reach.
THEOREM ThreadsInvariant == Spec => []Inv
  BY InitInv, InvStep, PTL DEF Spec

\* Every variable of DBImpl has its type in every reachable state.
THEOREM TypeCorrect == Spec => []TypeOK
<1>1. Inv => TypeOK
  BY DEF Inv
<1> QED BY <1>1, ThreadsInvariant, PTL

\* One writer at a time logs, inserts and switches memtables, and however BuildBatchGroup
\* groups the writes, each gets one sequence number and each number one write, for any
\* number of clients and calls.
THEOREM WritesAppliedOnce == Spec => []AppliedOnce
<1>1. Inv => AppliedOnce
  <2> SUFFICES ASSUME Inv PROVE AppliedOnce
    OBVIOUS
  <2>1. ASSUME NEW c \in Clients, call[c].pc \in {"room", "sleep", "group", "log", "sync", "insert", "relock", "finish"}
        PROVE  writers_ # << >> /\ Head(writers_) = c
    <3>1. 1 \in Places /\ writers_[1] = c
      BY <2>1, FrontOnly DEF FrontPcs, LoggingPcs
    <3>2. writers_ \in Seq(Clients)
      BY DEF Inv, TypeOK, QueueTypes
    <3> QED BY <3>1, <3>2 DEF Places
  <2> QED BY <2>1 DEF AppliedOnce, OneLogger, Inv, StoredInv
<1> QED BY <1>1, ThreadsInvariant, PTL

\* Entries change only when the front writer inserts its batch.
LEMMA EntriesStep ==
  ASSUME Inv, [Next]_vars
  PROVE  Entries' = Entries \/ \E c \in Clients : call[c].pc \in LoggingPcs /\ Entries' = Entries \cup Batch(c)
<1>1. CASE BgStep
  BY <1>1, BgQuiet DEF Quiet, QuietStore
<1>2. CASE SuspendCompaction \/ ResumeCompaction \/ BeginClose \/ EndClose \/ UNCHANGED vars
  BY <1>2, OtherQuiet DEF Quiet, QuietStore
<1>3. ASSUME NEW c \in Clients, MakeRoomForWrite(c) PROVE Entries' = Entries
  BY <1>3, MakeRoomQuiet DEF Quiet, QuietStore
<1>4. ASSUME NEW c \in Clients, InsertInto(c)
      PROVE  call[c].pc \in LoggingPcs /\ Entries' = Entries \cup Batch(c)
  <2>1. UNCHANGED <<imm_, tables>> /\ call[c].pc = "insert"
    BY <1>4 DEF InsertInto, LogStep, version, At
  <2>2. mem_' = mem_ \cup Batch(c)
    BY <1>4, BatchType DEF InsertInto, Inv
  <2> QED BY <2>1, <2>2 DEF Entries, LoggingPcs
<1>5. ASSUME NEW c \in Clients, \/ WaitTurn(c) \/ WakeUp(c) \/ StartLogging(c) \/ FinishLogging(c) \/ PopGroup(c)
                                \/ CompactMemTableWait(c) \/ TEST_CompactRange(c)
                                \/ \E fails \in BOOLEAN : AddRecord(c, fails) \/ Sync(c, fails)
                                \/ \E kind \in Kinds : Call(c, kind)
      PROVE  Entries' = Entries
  BY <1>5 DEF WaitTurn, WakeUp, StartLogging, Number, FinishLogging, PopGroup, Pop, CompactMemTableWait,
              TEST_CompactRange, AddRecord, Sync, LogStep, Call, memory, version, Entries
<1> QED BY <1>1, <1>2, <1>3, <1>4, <1>5, Zenon DEF Next, ClientStep, Terminated

\* What a reader sees at the sequence number it was given is what it sees after any step of
\* any thread: a group's entries carry numbers that are not visible yet.
THEOREM ReadersSeeTheSame == Spec => SnapshotsStable
<1>1. Inv /\ [Next]_vars => Below(last_sequence, Entries') = Below(last_sequence, Entries)
  <2> SUFFICES ASSUME Inv, [Next]_vars PROVE Below(last_sequence, Entries') = Below(last_sequence, Entries)
    OBVIOUS
  <2>1. ASSUME NEW c \in Clients, call[c].pc \in LoggingPcs, Entries' = Entries \cup Batch(c)
        PROVE  Below(last_sequence, Entries') = Below(last_sequence, Entries)
    <3>1. \A e \in Batch(c) : ~(e.seq <= last_sequence)
      BY <2>1, BatchFacts DEF Entry
    <3> QED BY <2>1, <3>1 DEF Below
  <2> QED BY <2>1, EntriesStep
<1> QED BY <1>1, ThreadsInvariant, PTL DEF Spec, SnapshotsStable

\* A write that a step acknowledges is committed: it is done, or its group is finished.
LEMMA AckStep ==
  ASSUME Inv, [Next]_vars, NEW i \in acked' \ acked
  PROVE  \E x \in Clients : Committed(x) /\ HasBatch(x) /\ i = call[x].id
<1>1. CASE BgStep
  BY <1>1, BgQuiet DEF Quiet
<1>2. CASE SuspendCompaction \/ ResumeCompaction \/ BeginClose \/ EndClose \/ UNCHANGED vars
  BY <1>2, OtherQuiet DEF Quiet
<1>3. ASSUME NEW c \in Clients, WaitTurn(c) PROVE \E x \in Clients : Committed(x) /\ HasBatch(x) /\ i = call[x].id
  BY <1>3, WaitTurnQuiet DEF Quiet
<1>4. ASSUME NEW c \in Clients, PopGroup(c) PROVE \E x \in Clients : Committed(x) /\ HasBatch(x) /\ i = call[x].id
  <2>1. acked' = acked \cup (IF call[c].ok THEN Acknowledge({c}) ELSE {}) /\ call[c].pc = "finish"
    BY <1>4 DEF PopGroup, Pop, At
  <2>2. call[c].ok /\ HasBatch(c) /\ i = call[c].id
    BY <2>1 DEF Acknowledge, HasBatch
  <2>3. 1 \in Places /\ writers_[1] = c
    BY <2>1, FrontOnly DEF FrontPcs
  <2>4. PICK n \in Places : writers_[n] = call[c].last
    BY <2>1 DEF Inv, GroupInv
  <2>5. 1 <= n
    BY <2>4 DEF Places
  <2>6. InGroup(c, c)
    BY <2>3, <2>4, <2>5 DEF InGroup
  <2> QED BY <2>1, <2>2, <2>6 DEF Committed
<1>5. ASSUME NEW c \in Clients, \/ MakeRoomForWrite(c) \/ WakeUp(c) \/ StartLogging(c) \/ FinishLogging(c) \/ InsertInto(c)
                                \/ CompactMemTableWait(c) \/ TEST_CompactRange(c)
                                \/ \E fails \in BOOLEAN : AddRecord(c, fails) \/ Sync(c, fails)
                                \/ \E kind \in Kinds : Call(c, kind)
      PROVE  acked' = acked
  BY <1>5 DEF MakeRoomForWrite, WakeUp, StartLogging, Number, FinishLogging, InsertInto, CompactMemTableWait,
              TEST_CompactRange, AddRecord, Sync, LogStep, Call
<1> QED BY <1>1, <1>2, <1>3, <1>4, <1>5 DEF Next, ClientStep, Terminated

\* What was acknowledged is in a log or a table that recovery reads, unless it is in doubt.
LEMMA InvRecoverable == Inv => AcknowledgedRecoverable
<1> SUFFICES ASSUME Inv, NEW i \in acked, i \notin InDoubt PROVE i \in Recoverable
  BY DEF AcknowledgedRecoverable
<1>1. PICK e \in Entries : e.id = i
  BY DEF Inv, CommitInv
<1>2. /\ logfile_number_ \in DOMAIN logs /\ logfile_number_ >= log_number
      /\ mem_ \subseteq logs[logfile_number_].recs \cup logs[logfile_number_].doubt
      /\ \A a \in imm_ : \E n \in DOMAIN logs : n >= log_number /\ a \in logs[n].recs \cup logs[n].doubt
  BY LogTypes DEF Inv, LogInv
<1>3. e \in tables \/ \E n \in DOMAIN logs : n >= log_number /\ e \in logs[n].recs \cup logs[n].doubt
  BY <1>1, <1>2 DEF Entries
<1>4. e \in tables \cup UNION {logs[n].recs : n \in {n \in DOMAIN logs : n >= log_number}}
  <2>1. \A n \in DOMAIN logs : e \notin logs[n].doubt
    BY <1>1 DEF InDoubt
  <2> QED BY <1>3, <2>1
<1> QED BY <1>1, <1>4 DEF Recoverable

\* Nothing is acknowledged behind a write whose fate is open.
LEMMA InvNothingBehind == Inv => NothingBehindIndeterminate
<1> SUFFICES ASSUME Inv, NEW e \in Indeterminate, NEW a \in Entries PROVE a.seq < e.seq
  BY DEF NothingBehindIndeterminate
<1>1. e \in Records \ Entries /\ e \notin Logging
  <2>1. Indeterminate = Records \ (Entries \cup Logging)
    BY Zenon DEF Indeterminate, Records
  <2> QED BY <2>1, Zenon
<1>2. ~Pending(e)
  <2> SUFFICES ASSUME NEW c \in Clients, call[c].pc \in LoggingPcs, e \in Batch(c) PROVE FALSE
    BY DEF Pending
  <2>1. e \in ToSet(call[c].batch)
    BY BatchType DEF Inv
  <2>2. e \in Logging
    BY <2>1 DEF Logging, LoggingPcs
  <2> QED BY <1>1, <2>2
<1> QED BY <1>1, <1>2 DEF Inv, LostInv

\* A synced write is on disk when it is acknowledged.
LEMMA InvSynced == Inv /\ [Next]_vars => SyncedOnDisk
<1> SUFFICES ASSUME Inv, [Next]_vars, NEW c \in Clients, call[c].kind = "syncput", call[c].id \in acked' \ acked,
                    call[c].id \notin InDoubt
             PROVE  call[c].id \in OnDisk
  BY DEF SyncedOnDisk
<1>1. PICK x \in Clients : Committed(x) /\ HasBatch(x) /\ call[c].id = call[x].id
  BY AckStep
<1>2. call[x].pc # "idle"
  <2>1. call[x].pc = "write" \/ \E i \in Places : writers_[i] = x
    BY <1>1 DEF Committed, InGroup
  <2>2. \A i \in Places : call[writers_[i]].pc # "idle"
    BY DEF Inv, QueueInv, FrontPcs, LoggingPcs
  <2> QED BY <2>1, <2>2
<1>3. x = c
  BY <1>1, <1>2 DEF Inv, IdInv
<1>4. PICK e \in Entries : e.id = call[c].id /\ e \in Durable
  BY <1>1, <1>3 DEF Inv, CommitInv
<1>5. e \in tables \cup UNION {logs[n].synced : n \in DOMAIN logs}
  <2>1. \A n \in DOMAIN logs : e \notin logs[n].doubt
    BY <1>4 DEF InDoubt
  <2> QED BY <1>4, <2>1, CurrentLog DEF Durable
<1> QED BY <1>4, <1>5 DEF OnDisk

\* An acknowledged write is in a table or in a log that the manifest needs, whenever the
\* process may die; one acknowledged as synced is on the disk, whoever logged it; both
\* but for the writes behind a failed AddRecord of the same log; and no write is
\* acknowledged behind a record that a failed sync left unknown.
THEOREM AcknowledgedWritesDurable == Spec => WritesDurable
<1>1. Inv /\ Inv' /\ [Next]_vars => AcknowledgedRecoverable' /\ SyncedOnDisk /\ NothingBehindIndeterminate'
  <2>1. Inv' => AcknowledgedRecoverable' /\ NothingBehindIndeterminate'
    BY InvRecoverable, InvNothingBehind, PTL
  <2> QED BY <2>1, InvSynced
<1>2. Inv /\ Inv' /\ [Next]_vars => [AcknowledgedRecoverable' /\ SyncedOnDisk /\ NothingBehindIndeterminate']_vars
  BY <1>1
<1> QED BY <1>2, ThreadsInvariant, PTL DEF Spec, WritesDurable
================================================================================
