-------------------------------- MODULE LRUCache --------------------------------
(***************************************************************************)
(* A shard of the cache (cache.cc) and the two protocols its users follow: *)
(* TableCache::FindTable (one entry per open table, charge 1) and          *)
(* Table::BlockReader (blocks): look up, on a miss load without the mutex  *)
(* and insert, use, release.  Evict and Prune come at any time.            *)
(*                                                                         *)
(* A handle is a number; its record is free once it was given to free().   *)
(* The lists are a sequence, oldest first, and a set.                      *)
(***************************************************************************)
EXTENDS Integers, Sequences, FiniteSets, SequencesExt

CONSTANTS
  CacheKeys, Charges,
  Clients,
  Capacities,
  Handles         \* enough for every insert that can be alive

VARIABLES
  entry,          \* per handle: key, charge, refs, in_cache; Free if freed
  table_,         \* key -> handle, 0 if absent
  lru_, in_use_,
  capacity_,
  usage_,
  client          \* per client: idle, loading a key, or holding a handle

caVars == <<entry, table_, lru_, in_use_, capacity_, usage_, client>>

Free   == [key |-> 0, charge |-> 0, refs |-> 0, in_cache |-> FALSE]
CIdle  == [at |-> "idle", key |-> 0, h |-> 0]
Cache  == [entry |-> entry, table |-> table_, lru |-> lru_, use |-> in_use_, usage |-> usage_]

Become(c) ==
  /\ entry' = c.entry /\ table_' = c.table /\ lru_' = c.lru
  /\ in_use_' = c.use /\ usage_' = c.usage /\ UNCHANGED capacity_

caInit ==
  /\ entry = [h \in Handles |-> Free]
  /\ table_ = [k \in CacheKeys |-> 0]
  /\ lru_ = <<>> /\ in_use_ = {} /\ usage_ = 0 /\ capacity_ \in Capacities
  /\ client = [c \in Clients |-> CIdle]

\* LRU_Remove does not ask which list the entry is on.
LRU_Remove(c, h) ==
  [c EXCEPT !.lru = SelectSeq(@, LAMBDA g : g # h), !.use = @ \ {h}]

\* A new reference leaves the entry on the list of those nobody uses.
Ref_Stays(c, h) == [c EXCEPT !.entry[h].refs = @ + 1]

Ref(c, h) ==
  LET m == IF c.entry[h].refs = 1 /\ c.entry[h].in_cache
           THEN [LRU_Remove(c, h) EXCEPT !.use = @ \cup {h}] ELSE c
  IN  [m EXCEPT !.entry[h].refs = @ + 1]

Unref(c, h) ==
  LET d == [c EXCEPT !.entry[h].refs = @ - 1]
  IN  IF d.entry[h].refs = 0 THEN [d EXCEPT !.entry[h] = Free]
      ELSE IF d.entry[h].in_cache /\ d.entry[h].refs = 1
      THEN [LRU_Remove(d, h) EXCEPT !.lru = Append(@, h)]
      ELSE d

FinishErase(c, h) ==
  IF h = 0 THEN c
  ELSE LET r == LRU_Remove(c, h)
       IN  Unref([r EXCEPT !.entry[h].in_cache = FALSE, !.usage = @ - c.entry[h].charge], h)

\* HandleTable::Insert and Remove: at most one handle per key.
TableInsert(c, k, h) == FinishErase([c EXCEPT !.table[k] = h], c.table[k])
TableRemove(c, k)    == FinishErase([c EXCEPT !.table[k] = 0], c.table[k])

RECURSIVE EvictOld(_)
EvictOld(c) ==
  IF c.usage > capacity_ /\ c.lru # <<>>
  THEN EvictOld(TableRemove(c, c.entry[c.lru[1]].key)) ELSE c

Lookup(k) == Ref(Cache, table_[k])

\* TableCache::FindTable and, alike, the block cache in Table::BlockReader.
FindTable(c, k) ==
  /\ client[c].at = "idle"
  /\ IF table_[k] = 0
     THEN client' = [client EXCEPT ![c] = [at |-> "loading", key |-> k, h |-> 0]]
          /\ UNCHANGED <<entry, table_, lru_, in_use_, capacity_, usage_>>
     ELSE client' = [client EXCEPT ![c] = [at |-> "holding", key |-> k, h |-> table_[k]]]
          /\ Become(Lookup(k))

\* What was read is not cached: it is damaged, or BlockReader keeps it to itself.
BlockReader(c) ==
  /\ client[c].at = "loading"
  /\ client' = [client EXCEPT ![c] = CIdle]
  /\ UNCHANGED <<entry, table_, lru_, in_use_, capacity_, usage_>>

Insert(c, charge) ==
  LET k == client[c].key
      h == CHOOSE g \in Handles : entry[g] = Free
      e == [Cache EXCEPT !.entry[h] = [key |-> k, charge |-> charge, in_cache |-> capacity_ > 0,
                                       refs |-> IF capacity_ > 0 THEN 2 ELSE 1]]
      i == IF capacity_ = 0 THEN e
           ELSE TableInsert([e EXCEPT !.use = @ \cup {h}, !.usage = @ + charge], k, h)
  IN  /\ client[c].at = "loading"
      /\ Become(EvictOld(i))
      /\ client' = [client EXCEPT ![c] = [at |-> "holding", key |-> k, h |-> h]]

\* Get is done, or the iterator NewIterator returned is deleted.
Release(c) ==
  /\ client[c].at = "holding"
  /\ Become(Unref(Cache, client[c].h))
  /\ client' = [client EXCEPT ![c] = CIdle]

Erase(k) == table_[k] # 0 /\ Become(TableRemove(Cache, k)) /\ UNCHANGED client

RECURSIVE Pruned(_)
Pruned(c) == IF c.lru = <<>> THEN c ELSE Pruned(TableRemove(c, c.entry[c.lru[1]].key))
Prune == lru_ # <<>> /\ Become(Pruned(Cache)) /\ UNCHANGED client

caNext ==
  \/ \E c \in Clients, k \in CacheKeys : FindTable(c, k)
  \/ \E c \in Clients : BlockReader(c) \/ Release(c)
  \/ \E c \in Clients, g \in Charges : Insert(c, g)
  \/ \E k \in CacheKeys : Erase(k)
  \/ Prune

--------------------------------------------------------------------------------
Holders(h) == {c \in Clients : client[c].at = "holding" /\ client[c].h = h}
B(p)       == IF p THEN 1 ELSE 0

(***************************************************************************)
(* An entry lives exactly as long as somebody refers to it: refs counts    *)
(* the clients that hold it and the cache, whatever was erased, evicted,   *)
(* pruned or inserted twice meanwhile; the entry a client holds is still   *)
(* the one of its key; an entry only the cache refers to can be evicted,   *)
(* one in use cannot; usage_ is the charge of the entries in the cache;    *)
(* and it is above capacity_ by no more than the clients had in use when   *)
(* the last entry was inserted: Release evicts nothing, but the next       *)
(* Insert does (Ref, Unref, Insert, FinishErase, TableCache::Evict, and    *)
(* the comment on lru_ and in_use_ in cache.cc).                           *)
(***************************************************************************)
RefsExact ==
  /\ \A h \in Handles :
       /\ entry[h].refs = Cardinality(Holders(h)) + B(entry[h].in_cache)
       /\ entry[h].in_cache <=> \E k \in CacheKeys : table_[k] = h /\ entry[h].key = k
       /\ h \in Range(lru_) <=> entry[h].in_cache /\ Holders(h) = {}
       /\ h \in in_use_ <=> entry[h].in_cache /\ Holders(h) # {}
  /\ \A c \in Clients : client[c].at = "holding" => entry[client[c].h].key = client[c].key
  /\ usage_ = SumFunction([h \in Handles |-> IF entry[h].in_cache THEN entry[h].charge ELSE 0])
  /\ usage_ > capacity_ => usage_ <= Cardinality(Clients) * Max(Charges)
================================================================================
