---------------------------------- MODULE Arena ----------------------------------
(***************************************************************************)
(* Arena (arena.cc, arena.h), where a memtable's entries and the nodes of  *)
(* its skip list live.  Addresses are numbers; new char[n] returns any     *)
(* aligned place behind what is in use (external).                         *)
(***************************************************************************)
EXTENDS Integers, Sequences

CONSTANTS
  kBlockSize_, Align,
  Sizes,           \* the sizes asked for
  MaxAllocs        \* bound

ASSUME ArenaAssumption ==
  kBlockSize_ \in Nat /\ Align \in Nat \ {0} /\ Sizes \subseteq Nat \ {0}

VARIABLES
  alloc_ptr_, alloc_bytes_remaining_,
  top,             \* the end of the memory in use
  memory_usage_,
  given            \* ghost: regions handed out, with whether they are aligned

arVars == <<alloc_ptr_, alloc_bytes_remaining_, top, memory_usage_, given>>

arInit ==
  alloc_ptr_ = 0 /\ alloc_bytes_remaining_ = 0 /\ top = Align /\ memory_usage_ = 0 /\ given = <<>>

RoundUp(n) == ((n + Align - 1) \div Align) * Align

Give(a, n, aligned) == given' = Append(given, [at |-> a, n |-> n, aligned |-> aligned])

\* new char[n] in AllocateNewBlock: blocks are accounted with their pointer.
NewBlock(n) == /\ top' = RoundUp(top + n)
               /\ memory_usage_' = memory_usage_ + n + 8

\* A large object gets a block of its own; else the rest of the block is lost.
AllocateFallback(n, aligned) ==
  /\ Give(top, n, aligned)
  /\ IF n > kBlockSize_ \div 4 THEN NewBlock(n) /\ UNCHANGED <<alloc_ptr_, alloc_bytes_remaining_>>
     ELSE /\ NewBlock(kBlockSize_)
          /\ alloc_ptr_' = top + n /\ alloc_bytes_remaining_' = kBlockSize_ - n

Allocate(n) ==
  /\ Len(given) < MaxAllocs
  /\ IF n <= alloc_bytes_remaining_
     THEN /\ Give(alloc_ptr_, n, FALSE)
          /\ alloc_ptr_' = alloc_ptr_ + n /\ alloc_bytes_remaining_' = alloc_bytes_remaining_ - n
          /\ UNCHANGED <<top, memory_usage_>>
     ELSE AllocateFallback(n, FALSE)

AllocateAligned(n) ==
  LET slop == RoundUp(alloc_ptr_) - alloc_ptr_
  IN  /\ Len(given) < MaxAllocs
      /\ IF n + slop <= alloc_bytes_remaining_
         THEN /\ Give(alloc_ptr_ + slop, n, TRUE)
              /\ alloc_ptr_' = alloc_ptr_ + n + slop
              /\ alloc_bytes_remaining_' = alloc_bytes_remaining_ - n - slop
              /\ UNCHANGED <<top, memory_usage_>>
         ELSE AllocateFallback(n, TRUE)

arNext == \E n \in Sizes : Allocate(n) \/ AllocateAligned(n)

(***************************************************************************)
(* No two allocations overlap and none leaves the blocks, aligned ones are *)
(* aligned, whichever order of small, large and aligned requests came      *)
(* before (the assertion at the end of AllocateAligned, and its comment    *)
(* that AllocateFallback returns aligned memory).                          *)
(***************************************************************************)
RegionsDisjoint ==
  \A i \in 1 .. Len(given) :
    LET g == given[i]
    IN  /\ g.at + g.n <= top
        /\ g.aligned => g.at % Align = 0
        /\ \A j \in 1 .. i - 1 : given[j].at + given[j].n <= g.at \/ g.at + g.n <= given[j].at
================================================================================
