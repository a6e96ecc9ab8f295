-------------------------------- MODULE SkipList --------------------------------
(***************************************************************************)
(* SkipList (skiplist.h), the table of a MemTable: one writer inserts, a   *)
(* reader searches at the same time without a lock.                        *)
(*                                                                         *)
(* A node is named by its key, a number; the head is 0 and Null stands     *)
(* behind all keys.  Every load and store of a link is a step.  A node     *)
(* comes from the arena with links nobody has written; acquire and release *)
(* order what a reader sees behind a link, so links are read in order.     *)
(* max_height_ is stored and loaded without a barrier: a reader may begin  *)
(* at any level below it.                                                  *)
(***************************************************************************)
EXTENDS Integers, FiniteSets

CONSTANTS
  Keys,          \* the keys inserted, in any order
  kMaxHeight

\* Keys are behind the head, and there is a last one.
ASSUME SkipListAssumption ==
  /\ Keys \subseteq Nat \ {0}
  /\ \E k \in Keys : \A j \in Keys : j <= k
  /\ kMaxHeight \in Nat \ {0}

VARIABLES
  next_,         \* next_[node][level], level 0 is the lowest
  max_height_,
  w,             \* the writer: what it inserts, and how far it is
  rd,            \* the reader: its operation, and where it is
  linked         \* ghost: the keys linked at level 0

slVars == <<next_, max_height_, w, rd, linked>>

head_   == 0
Null    == 1 + CHOOSE k \in Keys : \A j \in Keys : j <= k
Unset   == -1
Levels  == 0 .. kMaxHeight - 1
WIdle   == [key |-> 0, height |-> 0, level |-> 0, prev |-> [l \in Levels |-> head_], at |-> "idle"]
RIdle   == [op |-> "none", key |-> 0, x |-> head_, level |-> 0, old |-> {}, res |-> 0, at |-> "idle"]

slInit ==
  /\ next_ = [n \in Keys \cup {head_} |-> [l \in Levels |-> IF n = head_ THEN Null ELSE Unset]]
  /\ max_height_ = 1
  /\ w = WIdle
  /\ rd = RIdle
  /\ linked = {}

(***************************************************************************)
(* The writer.  Nobody else changes the list, so its search sees one list  *)
(* throughout: prev[l] is the last node before the key at level l.         *)
(***************************************************************************)
Chain(l) == {n \in Keys : next_[n][l] # Unset
                          /\ \E m \in Keys \cup {head_} : next_[m][l] = n}
PrevAt(k, l) == CHOOSE n \in {m \in Chain(l) : m < k} \cup {head_} :
                  \A m \in {m \in Chain(l) : m < k} : m <= n

InsertBegin(k, h) ==
  /\ w.at = "idle" /\ k \notin linked
  /\ max_height_' = IF h > max_height_ THEN h ELSE max_height_
  /\ w' = [key |-> k, height |-> h, level |-> 0, at |-> "link",
           prev |-> [l \in Levels |-> IF l < max_height_ THEN PrevAt(k, l) ELSE head_]]
  /\ UNCHANGED <<next_, rd, linked>>

\* The new node is published without its own link.
LinkNode_Late ==
  /\ w.at = "link"
  /\ next_' = [next_ EXCEPT ![w.prev[w.level]][w.level] = w.key]
  /\ w' = [w EXCEPT !.at = "publish"]
  /\ UNCHANGED <<max_height_, rd, linked>>

\* x->NoBarrier_SetNext(i, prev[i]->NoBarrier_Next(i))
LinkNode ==
  /\ w.at = "link"
  /\ next_' = [next_ EXCEPT ![w.key][w.level] = next_[w.prev[w.level]][w.level]]
  /\ w' = [w EXCEPT !.at = "publish"]
  /\ UNCHANGED <<max_height_, rd, linked>>

\* prev[i]->SetNext(i, x), and on to the next level.
PublishNode ==
  /\ w.at = "publish"
  /\ next_' = [next_ EXCEPT ![w.prev[w.level]][w.level] = w.key]
  /\ linked' = linked \cup {w.key}
  /\ w' = IF w.level + 1 < w.height THEN [w EXCEPT !.level = @ + 1, !.at = "link"] ELSE WIdle
  /\ UNCHANGED <<max_height_, rd>>

(***************************************************************************)
(* The reader: Seek (FindGreaterOrEqual), Prev (FindLessThan), SeekToLast  *)
(* (FindLast), SeekToFirst and Next.  old: what was linked when it began.  *)
(***************************************************************************)
ReadBegin(op, k) ==
  /\ rd.at = "idle"
  /\ \E h \in 1 .. max_height_ :
       rd' = [op |-> op, key |-> k, x |-> head_, level |-> IF op = "first" THEN 0 ELSE h - 1,
              old |-> linked, res |-> 0, at |-> "search"]
  /\ UNCHANGED <<next_, max_height_, w, linked>>

\* Whether the search goes on to the next node on its level.
Advances(n) ==
  \/ rd.op \in {"seek", "prev"} /\ n < rd.key
  \/ rd.op = "last" /\ n # Null

Search ==
  LET n == next_[rd.x][rd.level]
  IN  /\ rd.at = "search"
      /\ rd' = IF n # Unset /\ Advances(n) THEN [rd EXCEPT !.x = n]
               ELSE IF rd.level > 0 THEN [rd EXCEPT !.level = @ - 1]
               ELSE [rd EXCEPT !.at = "done", !.res = IF rd.op \in {"seek", "first"} THEN n ELSE rd.x]
      /\ UNCHANGED <<next_, max_height_, w, linked>>

\* Iterator::Next from the node found, or the end of the reads.
ReadNext ==
  /\ rd.at = "done"
  /\ IF rd.res \in Keys
     THEN rd' = [rd EXCEPT !.op = "first", !.x = rd.res, !.key = rd.res, !.level = 0,
                           !.old = linked, !.at = "search"]
     ELSE rd' = RIdle
  /\ UNCHANGED <<next_, max_height_, w, linked>>

ReadEnd == rd.at = "done" /\ rd' = RIdle /\ UNCHANGED <<next_, max_height_, w, linked>>

\* MemTable::Get: the node found by Seek belongs to the user key asked for.
\* A user key has two internal keys, the younger one first.
UserKeyOf(k) == k \div 2
Get(k) == rd.res \in Keys /\ UserKeyOf(rd.res) = UserKeyOf(k)

slNext ==
  \/ \E k \in Keys, h \in 1 .. kMaxHeight : InsertBegin(k, h)
  \/ LinkNode
  \/ PublishNode
  \/ \E k \in Keys, op \in {"seek", "prev"} : ReadBegin(op, k)
  \/ \E op \in {"last", "first"} : ReadBegin(op, 0)
  \/ Search
  \/ ReadNext
  \/ ReadEnd

--------------------------------------------------------------------------------
(***************************************************************************)
(* A search that runs beside inserts finds its place: the node it returns  *)
(* was inserted, is on the right side of the key, and no node that was     *)
(* linked when the search began lies in between; it never follows a link   *)
(* nobody has set (FindGreaterOrEqual, FindLessThan, FindLast; invariant   *)
(* (2) of skiplist.h).  So MemTable::Get finds an entry that was there     *)
(* before.                                                                 *)
(***************************************************************************)
FoundInserted == rd.at = "done" => rd.res \in linked \cup {head_, Null}
PlaceFound ==
  rd.at = "done" =>
    /\ rd.op = "seek" => /\ rd.res >= rd.key
                         /\ \A k \in rd.old : ~(rd.key <= k /\ k < rd.res)
                         /\ (\E k \in rd.old : k >= rd.key /\ UserKeyOf(k) = UserKeyOf(rd.key))
                              => Get(rd.key)
    /\ rd.op = "prev" => /\ rd.res < rd.key /\ rd.res # Unset
                         /\ \A k \in rd.old : ~(rd.res < k /\ k < rd.key)
    /\ rd.op = "last" => rd.res # Null /\ \A k \in rd.old : k <= rd.res
    /\ rd.op = "first" => rd.res > rd.x /\ \A k \in rd.old : ~(rd.x < k /\ k < rd.res)
SearchSound == FoundInserted /\ PlaceFound
================================================================================
