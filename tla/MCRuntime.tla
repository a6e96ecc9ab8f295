------------------------------- MODULE MCRuntime -------------------------------
(***************************************************************************)
(* The parts the database runs on, each by itself: part says which one a   *)
(* behaviour is about, and the variables of the others stay as they are.   *)
(***************************************************************************)
EXTENDS MemTable, EnvLock, EnvFiles

CONSTANTS
  CacheKeys, Charges, Clients, Capacities, Handles,
  Threads, MaxItems,
  MemNames, FileIds, MemUsers, kBlockSize, MaxBytes, Chunks,
  Parts           \* the parts to run

VARIABLES
  part,
  entry, table_, lru_, in_use_, capacity_, usage_, client,
  notifies, started_bgthread_, queue_, bg, item, notify, count, ran,
  file_map_, mem, held, appended, leaked, crashed

CA == INSTANCE LRUCache
TH == INSTANCE EnvThread
ME == INSTANCE MemEnv

caV == <<entry, table_, lru_, in_use_, capacity_, usage_, client>>
thV == <<notifies, started_bgthread_, queue_, bg, item, notify, count, ran>>
meV == <<file_map_, mem, held, appended, leaked, crashed>>

vars == <<part, slVars, caV, arVars, thV, loVars, fiVars, meV>>

\* The nondeterminism of an initial state is kept to the part that runs.
Init ==
  /\ part \in Parts
  /\ slInit /\ CA!caInit /\ arInit /\ TH!thInit /\ loInit /\ fiInit /\ ME!meInit
  /\ part # "cache"  => capacity_ = CHOOSE c \in Capacities : TRUE
  /\ part # "thread" => notifies = FALSE
  /\ part # "lock"   => platform = CHOOSE p \in Platforms : TRUE
  /\ part # "files"  => sys = CHOOSE s \in Systems : TRUE
  /\ part # "files" \/ sys # "posix" => limits = CHOOSE l \in Limits : TRUE

slStep == part = "skiplist" /\ slNext
          /\ UNCHANGED <<part, caV, arVars, thV, loVars, fiVars, meV>>
caStep == part = "cache" /\ CA!caNext
          /\ UNCHANGED <<part, slVars, arVars, thV, loVars, fiVars, meV>>
arStep == part = "arena" /\ arNext
          /\ UNCHANGED <<part, slVars, caV, thV, loVars, fiVars, meV>>
thStep == part = "thread" /\ TH!thNext
          /\ UNCHANGED <<part, slVars, caV, arVars, loVars, fiVars, meV>>
loStep == part = "lock" /\ loNext
          /\ UNCHANGED <<part, slVars, caV, arVars, thV, fiVars, meV>>
fiStep == part = "files" /\ fiNext
          /\ UNCHANGED <<part, slVars, caV, arVars, thV, loVars, meV>>
meStep == part = "mem" /\ ME!meNext
          /\ UNCHANGED <<part, slVars, caV, arVars, thV, loVars, fiVars>>

Next == slStep \/ caStep \/ arStep \/ thStep \/ loStep \/ fiStep \/ meStep

\* A thread that can go on does: the background thread, and one that is
\* between the unlock and notify_one.
bgStep(A) == part = "thread" /\ A
             /\ UNCHANGED <<part, slVars, caV, arVars, loVars, fiVars, meV>>
Fairness ==
  /\ WF_vars(bgStep(TH!BGThread)) /\ WF_vars(bgStep(TH!Runs))
  /\ \A t \in Threads \cup {0} : WF_vars(bgStep(TH!Notify(t)))

Spec == Init /\ [][Next]_vars /\ Fairness

TwoLimits == {<<1, 0>>, <<0, 1>>}

--------------------------------------------------------------------------------
(* Entries of the cache and files in memory live exactly as long as        *)
(* somebody refers to them, and are on the lists that say so               *)
(* (LRUCache::Ref, Unref, FinishErase; FileState of the InMemoryEnv).      *)
RefsExact ==
  /\ part = "cache" => CA!RefsExact
  /\ part = "mem" => ME!MemFilesExact

(* Whatever is scheduled is run, once, in order (Schedule, BGThread).      *)
ScheduledRuns == part = "thread" => <>[]TH!AllRun
================================================================================
