-------------------------------- MODULE MemTable --------------------------------
(***************************************************************************)
(* A MemTable (memtable.cc): the skip list of its entries, in the memory   *)
(* an arena gives out.  The keys of the list and the addresses of the      *)
(* arena do not depend on each other, so a step is one of either.          *)
(***************************************************************************)
EXTENDS SkipList, Arena

mtVars == <<slVars, arVars>>

mtInit == slInit /\ arInit
mtNext == \/ slNext /\ UNCHANGED arVars
          \/ arNext /\ UNCHANGED slVars

mtSpec == mtInit /\ [][mtNext]_mtVars

(***************************************************************************)
(* A reader comes to nodes that were inserted only, and misses none that   *)
(* was there when it began, while the writer links new ones; and of the    *)
(* pieces of memory the arena gave out, for nodes and entries, no two      *)
(* overlap (SkipList, MemTable::Get, Arena::Allocate, AllocateAligned).    *)
(***************************************************************************)
MemTableSound == SearchSound /\ RegionsDisjoint
================================================================================
