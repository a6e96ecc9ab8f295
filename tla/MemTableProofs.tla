----------------------------- MODULE MemTableProofs -----------------------------
(***************************************************************************)
(* What the entries of a MemTable rest on, for any set of keys, any height *)
(* of the skip list and any sizes asked of the arena.                      *)
(***************************************************************************)
EXTENDS MemTable, SequenceTheorems, WellFoundedInduction, TLAPS

(***************************************************************************)
(* The arena.  What was given out lies in memory the system gave, and      *)
(* outside the rest of the current block.                                  *)
(***************************************************************************)
Region == [at : Nat, n : Nat \ {0}, aligned : BOOLEAN]

ArenaTypeOK ==
  /\ alloc_ptr_ \in Nat /\ alloc_bytes_remaining_ \in Nat /\ top \in Nat
  /\ given \in Seq(Region)

Before(g, h) == g.at + g.n <= h.at
RestFree ==
  /\ alloc_ptr_ + alloc_bytes_remaining_ <= top
  /\ top % Align = 0
  /\ \A i \in 1 .. Len(given) :
       \/ given[i].at + given[i].n <= alloc_ptr_
       \/ alloc_ptr_ + alloc_bytes_remaining_ <= given[i].at

ArenaInv == ArenaTypeOK /\ RestFree /\ RegionsDisjoint

(***************************************************************************)
(* The skip list.  A node is published on a level once a link of the level *)
(* leads to it; the writer publishes from the lowest level up.             *)
(***************************************************************************)
WriterRec == [key : Keys \cup {head_}, height : 0 .. kMaxHeight, level : Levels,
              prev : [Levels -> Keys \cup {head_}], at : {"idle", "link", "publish"}]
ReaderRec == [op : {"none", "seek", "prev", "last", "first"}, key : Keys \cup {head_},
              x : Keys \cup {head_}, level : Levels, old : SUBSET Keys,
              res : Keys \cup {head_, Null}, at : {"idle", "search", "done"}]

SkipTypeOK ==
  /\ next_ \in [Keys \cup {head_} -> [Levels -> Keys \cup {Null, Unset}]]
  /\ max_height_ \in 1 .. kMaxHeight
  /\ w \in WriterRec /\ rd \in ReaderRec /\ linked \subseteq Keys

\* The nodes a search can come to on level l.
Published(l) == {k \in Keys : next_[k][l] # Unset /\ ~(w.at # "idle" /\ k = w.key /\ l >= w.level)}

\* A level: it runs from the head to Null in the order of the keys, and leaves out nothing.
LevelOK(l) ==
  /\ \A n \in Published(l) \cup {head_} :
       /\ next_[n][l] \in Published(l) \cup {Null} /\ n < next_[n][l]
       /\ \A k \in Published(l) : n < k => next_[n][l] <= k
  /\ \A k \in Published(l) : \E n \in Published(l) \cup {head_} : next_[n][l] = k
  /\ l >= max_height_ => Published(l) = {}

\* Who is on a level is on all levels below it.
ListInv ==
  /\ \A l \in Levels : LevelOK(l)
  /\ \A l, m \in Levels : m <= l => Published(l) \subseteq Published(m)
  /\ linked = Published(0)

\* The writer has found its places, and its node is in on the levels below.
WriterInv ==
  w.at # "idle" =>
    /\ w.key \in Keys /\ w.level < w.height /\ w.height <= max_height_
    /\ \A l \in Levels : l < w.level => w.key \in Published(l)
    /\ \A l \in Levels : l > w.level \/ (l = w.level /\ w.at = "link") => next_[w.key][l] = Unset
    /\ \A l \in w.level .. w.height - 1 :
         /\ w.prev[l] \in Published(l) \cup {head_} /\ w.prev[l] < w.key
         /\ \A k \in Published(l) : k < w.key => k <= w.prev[l]
    /\ w.at = "publish" => next_[w.key][w.level] = next_[w.prev[w.level]][w.level]

\* The reader is on a node of its level, before what it looks for.
ReaderInv ==
  /\ rd.old \subseteq linked /\ rd.res \in linked \cup {head_, Null}
  /\ rd.at = "search" =>
       /\ rd.x \in Published(rd.level) \cup {head_}
       /\ rd.op # "none"
       /\ rd.op \in {"seek", "prev"} => rd.key \in Keys /\ rd.x < rd.key
       /\ rd.op = "first" => rd.level = 0

\* The skip list, its writer and its reader.
SkipInv == SkipTypeOK /\ ListInv /\ WriterInv /\ ReaderInv /\ PlaceFound

--------------------------------------------------------------------------------
\* A multiple of a number is one, whatever division does with it.
LEMMA MultipleMod == ASSUME NEW a \in Nat \ {0}, NEW q \in Nat PROVE (q * a) % a = 0
  OBVIOUS

\* RoundUp gives the next multiple of Align.
LEMMA RoundUpIs == ASSUME NEW n \in Nat PROVE RoundUp(n) \in Nat /\ RoundUp(n) >= n /\ RoundUp(n) % Align = 0
<1> DEFINE x == n + Align - 1
           q == x \div Align
           r == x % Align
<1>1. x \in Nat /\ x >= n /\ Align \in Nat \ {0}
  BY ArenaAssumption
<1>2. q \in Nat /\ r \in 0 .. Align - 1 /\ x = q * Align + r
  BY <1>1
<1>3. q * Align \in Nat /\ q * Align >= n
  BY <1>1, <1>2
<1>4. (q * Align) % Align = 0
  BY <1>1, <1>2, MultipleMod
<1> QED BY <1>3, <1>4 DEF RoundUp

\* A region that is free and inside memory may be given out.
LEMMA GiveKeeps ==
  ASSUME ArenaInv, NEW a \in Nat, NEW n \in Sizes, NEW aligned \in BOOLEAN, Give(a, n, aligned),
         top' \in Nat, top <= top', a + n <= top', aligned => a % Align = 0,
         \A i \in 1 .. Len(given) : given[i].at + given[i].n <= a \/ a + n <= given[i].at
  PROVE  /\ given' \in Seq(Region) /\ RegionsDisjoint' /\ Len(given') = Len(given) + 1
         /\ given'[Len(given) + 1] = [at |-> a, n |-> n, aligned |-> aligned]
         /\ \A i \in 1 .. Len(given) : given'[i] = given[i]
<1> DEFINE g == [at |-> a, n |-> n, aligned |-> aligned]
<1>1. n \in Nat \ {0}
  BY ArenaAssumption
<1>2. given \in Seq(Region) /\ g \in Region /\ given' = Append(given, g)
  <2>1. g \in Region
    BY <1>1 DEF Region
  <2> QED BY <2>1 DEF ArenaInv, ArenaTypeOK, Give
<1>3. /\ given' \in Seq(Region) /\ Len(given') = Len(given) + 1 /\ given'[Len(given) + 1] = g
      /\ \A i \in 1 .. Len(given) : given'[i] = given[i]
  BY <1>2
<1>4. g.at = a /\ g.n = n /\ g.aligned = aligned
  OBVIOUS
<1>5. \A i \in 1 .. Len(given) : given[i] \in Region /\ given[i].at \in Nat /\ given[i].n \in Nat
  <2>1. \A i \in 1 .. Len(given) : given[i] \in Region
    BY <1>2
  <2> QED BY <2>1 DEF Region
<1>6. ASSUME NEW i \in 1 .. Len(given'), NEW j \in 1 .. i - 1
      PROVE  given'[j].at + given'[j].n <= given'[i].at \/ given'[i].at + given'[i].n <= given'[j].at
  <2> HIDE DEF g
  <2>1. Len(given) \in Nat /\ j \in 1 .. Len(given)
    BY <1>2, <1>3, <1>6
  <2>2. CASE i = Len(given) + 1
    BY <2>1, <2>2, <1>3, <1>4, <1>5
  <2>3. CASE i \in 1 .. Len(given)
    BY <2>1, <2>3, <1>3 DEF ArenaInv, RegionsDisjoint
  <2> QED BY <2>1, <2>2, <2>3, <1>3, <1>6
<1>7. ASSUME NEW i \in 1 .. Len(given')
      PROVE  given'[i].at + given'[i].n <= top' /\ (given'[i].aligned => given'[i].at % Align = 0)
  <2> HIDE DEF g
  <2>1. Len(given) \in Nat /\ top \in Nat
    BY <1>2 DEF ArenaInv, ArenaTypeOK
  <2>2. CASE i = Len(given) + 1
    BY <2>2, <1>3, <1>4
  <2>3. CASE i \in 1 .. Len(given)
    BY <2>1, <2>3, <1>3, <1>5 DEF ArenaInv, RegionsDisjoint
  <2> QED BY <2>1, <2>2, <2>3, <1>3, <1>7
<1> QED BY <1>3, <1>6, <1>7 DEF RegionsDisjoint

\* AllocateFallback: a block behind everything in use.
LEMMA FallbackKeeps ==
  ASSUME ArenaInv, NEW n \in Sizes, NEW aligned \in BOOLEAN, AllocateFallback(n, aligned)
  PROVE  ArenaInv'
<1>1. n \in Nat \ {0} /\ kBlockSize_ \in Nat /\ Align \in Nat \ {0}
  BY ArenaAssumption
<1>2. top \in Nat /\ top % Align = 0 /\ alloc_ptr_ \in Nat /\ alloc_bytes_remaining_ \in Nat
      /\ alloc_ptr_ + alloc_bytes_remaining_ <= top
  BY DEF ArenaInv, ArenaTypeOK, RestFree
<1>3. given \in Seq(Region) /\ \A i \in 1 .. Len(given) : given[i].at \in Nat /\ given[i].n \in Nat
  <2>1. given \in Seq(Region)
    BY DEF ArenaInv, ArenaTypeOK
  <2>2. \A i \in 1 .. Len(given) : given[i] \in Region
    BY <2>1
  <2> QED BY <2>1, <2>2 DEF Region
<1>4. \A i \in 1 .. Len(given) : given[i].at + given[i].n <= top
  BY DEF ArenaInv, RegionsDisjoint
<1>5. Give(top, n, aligned)
  BY DEF AllocateFallback
<1>6. CASE n > kBlockSize_ \div 4
  <2>1. top' = RoundUp(top + n) /\ alloc_ptr_' = alloc_ptr_ /\ alloc_bytes_remaining_' = alloc_bytes_remaining_
    BY <1>6 DEF AllocateFallback, NewBlock
  <2>2. top' \in Nat /\ top + n <= top' /\ top' % Align = 0 /\ top <= top'
    BY <2>1, <1>1, <1>2, RoundUpIs
  <2>3. /\ given' \in Seq(Region) /\ RegionsDisjoint' /\ Len(given') = Len(given) + 1
        /\ given'[Len(given) + 1] = [at |-> top, n |-> n, aligned |-> aligned]
        /\ \A i \in 1 .. Len(given) : given'[i] = given[i]
    BY <2>2, <1>2, <1>4, <1>5, GiveKeeps
  <2>4. ASSUME NEW i \in 1 .. Len(given')
        PROVE  given'[i].at + given'[i].n <= alloc_ptr_' \/ alloc_ptr_' + alloc_bytes_remaining_' <= given'[i].at
    <3>1. CASE i = Len(given) + 1
      BY <3>1, <2>1, <2>3, <1>2
    <3>2. CASE i \in 1 .. Len(given)
      BY <3>2, <2>1, <2>3 DEF ArenaInv, RestFree
    <3> QED BY <3>1, <3>2, <2>3, <2>4, <1>3
  <2> QED BY <2>1, <2>2, <2>3, <2>4, <1>2 DEF ArenaInv, ArenaTypeOK, RestFree
<1>7. CASE ~(n > kBlockSize_ \div 4)
  <2>1. /\ top' = RoundUp(top + kBlockSize_) /\ alloc_ptr_' = top + n
        /\ alloc_bytes_remaining_' = kBlockSize_ - n
    BY <1>7 DEF AllocateFallback, NewBlock
  <2>2. n <= kBlockSize_
    BY <1>7, <1>1
  <2>3. top' \in Nat /\ top + kBlockSize_ <= top' /\ top' % Align = 0 /\ top <= top' /\ top + n <= top'
    BY <2>1, <2>2, <1>1, <1>2, RoundUpIs
  <2>4. /\ given' \in Seq(Region) /\ RegionsDisjoint' /\ Len(given') = Len(given) + 1
        /\ given'[Len(given) + 1] = [at |-> top, n |-> n, aligned |-> aligned]
        /\ \A i \in 1 .. Len(given) : given'[i] = given[i]
    BY <2>3, <1>2, <1>4, <1>5, GiveKeeps
  <2>5. ASSUME NEW i \in 1 .. Len(given')
        PROVE  given'[i].at + given'[i].n <= alloc_ptr_' \/ alloc_ptr_' + alloc_bytes_remaining_' <= given'[i].at
    <3>1. CASE i = Len(given) + 1
      BY <3>1, <2>1, <2>4, <1>1, <1>2
    <3>2. CASE i \in 1 .. Len(given)
      BY <3>2, <2>1, <2>4, <1>1, <1>2, <1>3, <1>4
    <3> QED BY <3>1, <3>2, <2>4, <2>5, <1>3
  <2>6. alloc_ptr_' \in Nat /\ alloc_bytes_remaining_' \in Nat /\ alloc_ptr_' + alloc_bytes_remaining_' <= top'
    BY <2>1, <2>2, <2>3, <1>1, <1>2
  <2> QED BY <2>3, <2>4, <2>5, <2>6 DEF ArenaInv, ArenaTypeOK, RestFree
<1> QED BY <1>6, <1>7

\* A request that fits takes the front of the rest of the block.
LEMMA FrontKeeps ==
  ASSUME ArenaInv, NEW n \in Sizes, NEW aligned \in BOOLEAN, NEW slop \in Nat,
         n + slop <= alloc_bytes_remaining_, Give(alloc_ptr_ + slop, n, aligned),
         aligned => (alloc_ptr_ + slop) % Align = 0,
         alloc_ptr_' = alloc_ptr_ + n + slop,
         alloc_bytes_remaining_' = alloc_bytes_remaining_ - n - slop, top' = top
  PROVE  ArenaInv'
<1>1. n \in Nat \ {0}
  BY ArenaAssumption
<1>2. top \in Nat /\ top % Align = 0 /\ alloc_ptr_ \in Nat /\ alloc_bytes_remaining_ \in Nat
      /\ alloc_ptr_ + alloc_bytes_remaining_ <= top
  BY DEF ArenaInv, ArenaTypeOK, RestFree
<1>3. given \in Seq(Region) /\ \A i \in 1 .. Len(given) : given[i].at \in Nat /\ given[i].n \in Nat
  <2>1. given \in Seq(Region)
    BY DEF ArenaInv, ArenaTypeOK
  <2>2. \A i \in 1 .. Len(given) : given[i] \in Region
    BY <2>1
  <2> QED BY <2>1, <2>2 DEF Region
<1>4. \A i \in 1 .. Len(given) : \/ given[i].at + given[i].n <= alloc_ptr_
                                 \/ alloc_ptr_ + alloc_bytes_remaining_ <= given[i].at
  BY DEF ArenaInv, RestFree
<1> DEFINE a == alloc_ptr_ + slop
<1>5. /\ a \in Nat /\ a + n <= top'
      /\ \A i \in 1 .. Len(given) : given[i].at + given[i].n <= a \/ a + n <= given[i].at
  BY <1>1, <1>2, <1>3, <1>4
<1>6. Give(a, n, aligned) /\ (aligned => a % Align = 0) /\ top' \in Nat /\ top <= top'
  BY <1>2
<1>7. /\ given' \in Seq(Region) /\ RegionsDisjoint' /\ Len(given') = Len(given) + 1
      /\ given'[Len(given) + 1] = [at |-> a, n |-> n, aligned |-> aligned]
      /\ \A i \in 1 .. Len(given) : given'[i] = given[i]
  <2> HIDE DEF a
  <2> QED BY <1>5, <1>6, GiveKeeps
<1>8. ASSUME NEW i \in 1 .. Len(given')
      PROVE  given'[i].at + given'[i].n <= alloc_ptr_' \/ alloc_ptr_' + alloc_bytes_remaining_' <= given'[i].at
  <2>1. CASE i = Len(given) + 1
    <3>1. given'[i].at = a /\ given'[i].n = n
      BY <2>1, <1>7
    <3> QED BY <3>1, <1>1, <1>2
  <2>2. CASE i \in 1 .. Len(given)
    <3>1. given'[i] = given[i]
      BY <2>2, <1>7
    <3> QED BY <2>2, <3>1, <1>1, <1>2, <1>3, <1>4
  <2> QED BY <2>1, <2>2, <1>7, <1>8, <1>3
<1> QED BY <1>1, <1>2, <1>7, <1>8 DEF ArenaInv, ArenaTypeOK, RestFree

\* Every request keeps the arena in order.
LEMMA ArenaStep == ArenaInv /\ [arNext]_arVars => ArenaInv'
<1> SUFFICES ASSUME ArenaInv, [arNext]_arVars PROVE ArenaInv'
  OBVIOUS
<1>1. alloc_ptr_ \in Nat /\ alloc_bytes_remaining_ \in Nat
  BY DEF ArenaInv, ArenaTypeOK
<1>2. ASSUME NEW n \in Sizes, Allocate(n) PROVE ArenaInv'
  <2>1. CASE n <= alloc_bytes_remaining_
    <3>1. n \in Nat
      BY ArenaAssumption
    <3>2. /\ Give(alloc_ptr_, n, FALSE) /\ alloc_ptr_' = alloc_ptr_ + n
          /\ alloc_bytes_remaining_' = alloc_bytes_remaining_ - n /\ top' = top
      BY <1>2, <2>1 DEF Allocate
    <3>3. /\ Give(alloc_ptr_ + 0, n, FALSE) /\ alloc_ptr_' = alloc_ptr_ + n + 0
          /\ alloc_bytes_remaining_' = alloc_bytes_remaining_ - n - 0 /\ n + 0 <= alloc_bytes_remaining_
      <4>1. alloc_ptr_ + 0 = alloc_ptr_
        BY <1>1
      <4>2. Give(alloc_ptr_ + 0, n, FALSE)
        BY <3>2, <4>1, Zenon
      <4>3. /\ alloc_ptr_' = alloc_ptr_ + n + 0 /\ n + 0 <= alloc_bytes_remaining_
            /\ alloc_bytes_remaining_' = alloc_bytes_remaining_ - n - 0
        BY <3>1, <3>2, <2>1, <1>1
      <4> QED BY <4>2, <4>3, Zenon
    <3> QED BY <3>2, <3>3, FrontKeeps
  <2>2. CASE ~(n <= alloc_bytes_remaining_)
    BY <1>2, <2>2, FallbackKeeps DEF Allocate
  <2> QED BY <2>1, <2>2
<1>3. ASSUME NEW n \in Sizes, AllocateAligned(n) PROVE ArenaInv'
  <2> DEFINE slop == RoundUp(alloc_ptr_) - alloc_ptr_
  <2>1. slop \in Nat /\ (alloc_ptr_ + slop) % Align = 0
    BY <1>1, RoundUpIs
  <2>2. CASE n + slop <= alloc_bytes_remaining_
    <3>1. /\ Give(alloc_ptr_ + slop, n, TRUE) /\ alloc_ptr_' = alloc_ptr_ + n + slop
          /\ alloc_bytes_remaining_' = alloc_bytes_remaining_ - n - slop /\ top' = top
      BY <1>3, <2>2 DEF AllocateAligned
    <3> HIDE DEF slop
    <3> QED BY <2>1, <2>2, <3>1, FrontKeeps
  <2>3. CASE ~(n + slop <= alloc_bytes_remaining_)
    BY <1>3, <2>3, FallbackKeeps DEF AllocateAligned
  <2> QED BY <2>2, <2>3
<1>4. CASE UNCHANGED arVars
  BY <1>4 DEF arVars, ArenaInv, ArenaTypeOK, RestFree, RegionsDisjoint
<1> QED BY <1>2, <1>3, <1>4 DEF arNext

\* The arena starts with nothing given out.
LEMMA ArenaStart == arInit => ArenaInv
<1> SUFFICES ASSUME arInit PROVE ArenaInv
  OBVIOUS
<1>1. given = <<>> /\ Len(given) = 0 /\ given \in Seq(Region)
  BY DEF arInit
<1>2. Align \in Nat \ {0} /\ (1 * Align) % Align = 0
  BY ArenaAssumption, MultipleMod
<1> QED BY <1>1, <1>2 DEF arInit, ArenaInv, ArenaTypeOK, RestFree, RegionsDisjoint
--------------------------------------------------------------------------------
\* The order of the numbers as the set of pairs the library speaks of.
LEMMA LessThanPairs == OpToRel(<, Nat) = {ss \in Nat \X Nat : ss[1] < ss[2]}
  BY Zenon DEF OpToRel

\* A set of naturals below a bound has a greatest one.
LEMMA Greatest ==
  ASSUME NEW b \in Nat, NEW S \in SUBSET (0 .. b), S # {}
  PROVE  \E m \in S : \A k \in S : k <= m
<1> DEFINE T == {b - k : k \in S}
<1>1. T \in SUBSET Nat /\ T # {}
  <2>1. \A k \in S : b - k \in Nat
    OBVIOUS
  <2> QED BY <2>1
<1>2. \E m \in T : \A k \in T : ~ (<<k, m>> \in OpToRel(<, Nat))
  <2> HIDE DEF T
  <2> QED BY <1>1, NatLessThanWellFounded, WFMin
<1>3. \E m \in T : \A k \in T : ~ (k < m)
  <2>1. \A k, m \in Nat : k < m => <<k, m>> \in {ss \in Nat \X Nat : ss[1] < ss[2]}
    OBVIOUS
  <2> HIDE DEF T
  <2>2. \E m \in T : \A k \in T : ~ (<<k, m>> \in {ss \in Nat \X Nat : ss[1] < ss[2]})
    BY <1>2, LessThanPairs, Zenon
  <2> QED BY <1>1, <2>1, <2>2, Zenon
<1>4. PICK m \in T : \A k \in T : ~ (k < m)
  BY <1>3
<1>5. PICK j \in S : m = b - j
  BY <1>4
<1>6. ASSUME NEW k \in S PROVE k <= j
  <2>1. b - k \in T /\ m \in Int /\ k \in 0 .. b /\ j \in 0 .. b
    BY <1>1
  <2>2. ~ (b - k < m)
    BY <2>1, <1>4
  <2> HIDE DEF T
  <2> QED BY <2>1, <2>2, <1>5
<1> QED BY <1>6

\* The keys lie between the head and Null.
LEMMA KeyOrder == Null \in Nat /\ Unset \notin Nat /\ Unset # Null /\ \A k \in Keys : k \in Nat /\ head_ < k /\ k < Null
<1>1. PICK k \in Keys : \A j \in Keys : j <= k
  BY SkipListAssumption
<1> DEFINE m == CHOOSE i \in Keys : \A j \in Keys : j <= i
<1>2. m \in Keys /\ \A j \in Keys : j <= m
  BY <1>1
<1>3. m \in Nat /\ Null = 1 + m
  BY <1>2, SkipListAssumption DEF Null
<1> HIDE DEF m
<1>4. ASSUME NEW j \in Keys PROVE j \in Nat /\ head_ < j /\ j < Null
  <2>1. j \in Nat \ {0} /\ j <= m
    BY <1>2, SkipListAssumption
  <2> QED BY <2>1, <1>3 DEF head_
<1>5. Null \in Nat /\ Unset \notin Nat /\ Unset # Null
  BY <1>3 DEF Unset
<1> QED BY <1>4, <1>5

\* The writer's search on an idle list finds the last node before the key.
LEMMA PrevIs ==
  ASSUME SkipTypeOK, ListInv, w.at = "idle", NEW k \in Keys, NEW l \in Levels
  PROVE  /\ PrevAt(k, l) \in Published(l) \cup {head_} /\ PrevAt(k, l) < k
         /\ \A m \in Published(l) : m < k => m <= PrevAt(k, l)
<1>1. Chain(l) = Published(l)
  BY DEF Chain, Published, ListInv, LevelOK
<1> DEFINE S == {m \in Chain(l) : m < k} \cup {head_}
<1>2. S \in SUBSET (0 .. Null) /\ S # {}
  BY KeyOrder DEF Chain, head_
<1>3. PICK n \in S : \A m \in S : m <= n
  <2> HIDE DEF S
  <2> QED BY <1>2, KeyOrder, Greatest
<1>4. PrevAt(k, l) \in S /\ \A m \in {m \in Chain(l) : m < k} : m <= PrevAt(k, l)
  BY <1>3 DEF PrevAt
<1> QED BY <1>1, <1>4, KeyOrder

\* A step of the reader leaves the list and the writer alone.
LEMMA ReaderKeeps ==
  ASSUME SkipInv, UNCHANGED <<next_, max_height_, w, linked>>, rd' \in ReaderRec
  PROVE  SkipTypeOK' /\ ListInv' /\ WriterInv' /\ \A l \in Levels : Published(l)' = Published(l)
<1>1. \A l \in Levels : Published(l)' = Published(l)
  BY DEF Published
<1>2. \A l \in Levels : LevelOK(l)'
  BY <1>1 DEF SkipInv, ListInv, LevelOK
<1>3. 0 \in Levels
  BY SkipListAssumption DEF Levels
<1>4. ListInv'
  BY <1>1, <1>2, <1>3 DEF SkipInv, ListInv
<1>5. WriterInv'
  BY <1>1 DEF SkipInv, WriterInv, Published
<1> QED BY <1>1, <1>4, <1>5 DEF SkipInv, SkipTypeOK

\* What the writer adds to the list does not disturb a reader.
LEMMA WriterKeeps ==
  ASSUME SkipInv, rd' = rd, linked \subseteq linked', \A l \in Levels : Published(l) \subseteq Published(l)'
  PROVE  ReaderInv' /\ PlaceFound'
<1>1. rd.level \in Levels
  BY DEF SkipInv, SkipTypeOK, ReaderRec
<1>2. ReaderInv'
  BY <1>1 DEF SkipInv, ReaderInv
<1>3. PlaceFound'
  BY DEF SkipInv, PlaceFound, Get
<1> QED BY <1>2, <1>3

\* A reader that begins.
LEMMA ReadBeginKeeps ==
  ASSUME SkipInv, NEW op \in {"seek", "prev", "last", "first"}, NEW k \in Keys \cup {head_},
         op \in {"seek", "prev"} => k \in Keys, ReadBegin(op, k)
  PROVE  SkipInv'
<1>1. PICK h \in 1 .. max_height_ :
        rd' = [op |-> op, key |-> k, x |-> head_, level |-> IF op = "first" THEN 0 ELSE h - 1,
               old |-> linked, res |-> 0, at |-> "search"]
  BY DEF ReadBegin
<1>2. UNCHANGED <<next_, max_height_, w, linked>>
  BY DEF ReadBegin
<1>3. (IF op = "first" THEN 0 ELSE h - 1) \in Levels
  BY SkipListAssumption DEF SkipInv, SkipTypeOK, Levels
<1>4. rd' \in ReaderRec
  BY <1>1, <1>3 DEF SkipInv, SkipTypeOK, ReaderRec, head_
<1>5. SkipTypeOK' /\ ListInv' /\ WriterInv'
  BY <1>2, <1>4, ReaderKeeps
<1>6. /\ rd'.op = op /\ rd'.key = k /\ rd'.x = head_ /\ rd'.old = linked /\ rd'.res = 0 /\ rd'.at = "search"
      /\ op = "first" => rd'.level = 0
  BY <1>1
<1>7. ReaderInv'
  BY <1>2, <1>6, KeyOrder DEF ReaderInv, head_
<1>8. PlaceFound'
  BY <1>6 DEF PlaceFound
<1> QED BY <1>5, <1>7, <1>8 DEF SkipInv

\* An operation that ends on level 0 has found its place.
LEMMA SearchEnds ==
  ASSUME SkipInv, rd.at = "search", rd.level = 0, ~Advances(next_[rd.x][rd.level]), NEW res,
         res = IF rd.op \in {"seek", "first"} THEN next_[rd.x][rd.level] ELSE rd.x,
         UNCHANGED <<next_, max_height_, w, linked>>, rd' = [rd EXCEPT !.at = "done", !.res = res]
  PROVE  rd' \in ReaderRec /\ ReaderInv' /\ PlaceFound'
<1> DEFINE n == next_[rd.x][rd.level]
<1>1. 0 \in Levels /\ rd \in ReaderRec
  BY SkipListAssumption DEF Levels, SkipInv, SkipTypeOK
<1>2. /\ n \in linked \cup {Null} /\ rd.x < n /\ rd.x \in linked \cup {head_}
      /\ \A k \in linked : rd.x < k => n <= k
  BY <1>1 DEF SkipInv, ListInv, LevelOK, ReaderInv
<1>3. rd.old \subseteq linked /\ linked \subseteq Keys /\ res \in linked \cup {head_, Null}
  BY <1>2 DEF SkipInv, ReaderInv, SkipTypeOK
<1>4. rd' \in ReaderRec
  BY <1>1, <1>3 DEF ReaderRec
<1>5. rd'.op = rd.op /\ rd'.key = rd.key /\ rd'.x = rd.x /\ rd'.old = rd.old /\ rd'.res = res /\ rd'.at = "done"
  BY <1>1 DEF ReaderRec
<1>6. ReaderInv'
  BY <1>3, <1>5 DEF ReaderInv
<1>7. rd.op \in {"seek", "prev", "last", "first"} /\ rd.x \in Nat /\ n \in Nat /\ rd.key \in Nat
  BY <1>1, <1>2, <1>3, KeyOrder DEF SkipInv, ReaderInv, ReaderRec, head_
<1> HIDE DEF n
<1>8. CASE rd.op = "seek"
  <2>1. ~(n < rd.key) /\ res = n /\ rd.x < rd.key
    BY <1>8 DEF Advances, n, SkipInv, ReaderInv
  <2>2. res >= rd.key /\ \A k \in rd.old : ~(rd.key <= k /\ k < res)
    BY <2>1, <1>2, <1>3, <1>7, KeyOrder
  <2>3. ASSUME NEW k \in rd.old, k >= rd.key, UserKeyOf(k) = UserKeyOf(rd.key)
        PROVE  res \in Keys /\ UserKeyOf(res) = UserKeyOf(rd.key)
    <3>1. k \in Nat /\ k < Null /\ rd.key <= res /\ res <= k /\ res \in Nat
      BY <2>1, <2>2, <2>3, <1>3, <1>7, KeyOrder
    <3>2. res \in Keys
      BY <3>1, <2>1, <1>2, <1>3, KeyOrder
    <3> QED BY <3>1, <3>2, <2>3, <1>7 DEF UserKeyOf
  <2>4. rd'.op = "seek" /\ rd'.at = "done" /\ rd'.key = rd.key /\ rd'.old = rd.old /\ rd'.res = res
    BY <1>5, <1>8
  <2>5. (\E k \in rd.old : k >= rd.key /\ UserKeyOf(k) = UserKeyOf(rd.key)) => Get(rd.key)'
    BY <2>3, <2>4 DEF Get
  <2> QED BY ONLY <2>2, <2>4, <2>5, <1>4, <1>6 DEF PlaceFound
<1>9. CASE rd.op = "prev"
  <2>1. ~(n < rd.key) /\ res = rd.x /\ rd.x < rd.key
    BY <1>9 DEF Advances, n, SkipInv, ReaderInv
  <2>2. res < rd.key /\ res # Unset /\ \A k \in rd.old : ~(res < k /\ k < rd.key)
    BY <2>1, <1>2, <1>3, <1>7, KeyOrder
  <2>3. rd'.op = "prev" /\ rd'.at = "done" /\ rd'.key = rd.key /\ rd'.old = rd.old /\ rd'.res = res /\ rd'.x = rd.x
    BY <1>5, <1>9
  <2> QED BY ONLY <2>2, <2>3, <1>4, <1>6 DEF PlaceFound
<1>10. CASE rd.op = "last"
  <2>1. n = Null /\ res = rd.x
    BY <1>10 DEF Advances, n
  <2>2. res # Null /\ \A k \in rd.old : k <= res
    BY <2>1, <1>2, <1>3, <1>7, KeyOrder
  <2>3. rd'.op = "last" /\ rd'.at = "done" /\ rd'.key = rd.key /\ rd'.old = rd.old /\ rd'.res = res /\ rd'.x = rd.x
    BY <1>5, <1>10
  <2> QED BY ONLY <2>2, <2>3, <1>4, <1>6 DEF PlaceFound
<1>11. CASE rd.op = "first"
  <2>1. res = n
    BY <1>11 DEF n
  <2>2. res > rd.x /\ \A k \in rd.old : ~(rd.x < k /\ k < res)
    BY <2>1, <1>2, <1>3, <1>7, KeyOrder
  <2>3. rd'.op = "first" /\ rd'.at = "done" /\ rd'.key = rd.key /\ rd'.old = rd.old /\ rd'.res = res /\ rd'.x = rd.x
    BY <1>5, <1>11
  <2> QED BY ONLY <2>2, <2>3, <1>4, <1>6 DEF PlaceFound
<1> QED BY <1>4, <1>6, <1>7, <1>8, <1>9, <1>10, <1>11

\* A load of a link: on along the level, down, or the end.
LEMMA SearchKeeps == ASSUME SkipInv, Search PROVE SkipInv'
<1> DEFINE n == next_[rd.x][rd.level]
<1>1. UNCHANGED <<next_, max_height_, w, linked>> /\ rd.at = "search"
  BY DEF Search
<1>2. rd \in ReaderRec /\ rd.level \in Levels
  BY DEF SkipInv, SkipTypeOK, ReaderRec
<1>3. rd.x \in Published(rd.level) \cup {head_} /\ rd.op \in {"seek", "prev", "last", "first"}
  BY <1>1, <1>2 DEF SkipInv, ReaderInv, ReaderRec
<1>4. n \in Published(rd.level) \cup {Null} /\ n # Unset
  BY <1>2, <1>3, KeyOrder DEF SkipInv, ListInv, LevelOK, Published
<1>5. \A l \in Levels : Published(l)' = Published(l)
  BY <1>1 DEF Published
<1>6. rd.key \in Keys \cup {head_}
  BY <1>2 DEF ReaderRec
<1> HIDE DEF n
<1>7. CASE Advances(n)
  <2>1. rd' = [rd EXCEPT !.x = n]
    BY <1>4, <1>7 DEF Search, n
  <2>2. n \in Published(rd.level) /\ n \in Keys
    <3>1. n # Null
      <4>1. CASE rd.op \in {"seek", "prev"}
        BY <4>1, <1>6, <1>7, KeyOrder DEF Advances, head_
      <4>2. CASE rd.op = "last"
        BY <4>2, <1>7 DEF Advances
      <4>3. CASE rd.op = "first"
        BY <4>3, <1>7 DEF Advances
      <4> QED BY <4>1, <4>2, <4>3, <1>3
    <3> QED BY <3>1, <1>4 DEF Published
  <2>3. /\ rd'.op = rd.op /\ rd'.key = rd.key /\ rd'.x = n /\ rd'.old = rd.old /\ rd'.res = rd.res
        /\ rd'.at = "search" /\ rd'.level = rd.level /\ rd' \in ReaderRec
    BY <2>1, <2>2, <1>1, <1>2 DEF ReaderRec
  <2>4. rd.op \in {"seek", "prev"} => n < rd.key
    BY <1>7 DEF Advances
  <2>5. ReaderInv'
    BY <2>2, <2>3, <2>4, <1>1, <1>2, <1>5 DEF SkipInv, ReaderInv
  <2>6. PlaceFound'
    BY <2>3 DEF PlaceFound
  <2> QED BY <2>3, <2>5, <2>6, <1>1, ReaderKeeps DEF SkipInv
<1>8. CASE ~Advances(n) /\ rd.level > 0
  <2>1. rd' = [rd EXCEPT !.level = @ - 1]
    BY <1>8 DEF Search, n
  <2>2. rd.level - 1 \in Levels /\ rd.level - 1 <= rd.level
    BY <1>2, <1>8, SkipListAssumption DEF Levels
  <2>3. /\ rd'.op = rd.op /\ rd'.key = rd.key /\ rd'.x = rd.x /\ rd'.old = rd.old /\ rd'.res = rd.res
        /\ rd'.at = "search" /\ rd'.level = rd.level - 1 /\ rd' \in ReaderRec
    BY <2>1, <2>2, <1>1, <1>2 DEF ReaderRec
  <2>4. Published(rd.level) \subseteq Published(rd.level - 1)
    BY <2>2, <1>2 DEF SkipInv, ListInv
  <2>5. rd.op = "first" => rd.level = 0
    BY <1>1 DEF SkipInv, ReaderInv
  <2>6. ReaderInv'
    BY <2>2, <2>3, <2>4, <2>5, <1>1, <1>2, <1>5, <1>8 DEF SkipInv, ReaderInv, Levels
  <2>7. PlaceFound'
    BY <2>3 DEF PlaceFound
  <2> QED BY <2>3, <2>6, <2>7, <1>1, ReaderKeeps DEF SkipInv
<1>9. CASE ~Advances(n) /\ ~(rd.level > 0)
  <2>1. rd' = [rd EXCEPT !.at = "done", !.res = IF rd.op \in {"seek", "first"} THEN n ELSE rd.x]
    BY <1>9 DEF Search, n
  <2>2. rd.level = 0
    BY <1>2, <1>9 DEF Levels
  <2>3. rd' \in ReaderRec /\ ReaderInv' /\ PlaceFound'
    BY <2>1, <2>2, <1>1, <1>9, SearchEnds DEF n
  <2> QED BY <2>3, <1>1, ReaderKeeps DEF SkipInv
<1> QED BY <1>7, <1>8, <1>9

\* The iterator goes on from the node it found, or is done.
LEMMA ReadNextKeeps == ASSUME SkipInv, ReadNext \/ ReadEnd PROVE SkipInv'
<1>1. UNCHANGED <<next_, max_height_, w, linked>>
  BY DEF ReadNext, ReadEnd
<1>2. rd \in ReaderRec /\ 0 \in Levels /\ linked \subseteq Keys
  BY SkipListAssumption DEF SkipInv, SkipTypeOK, Levels
<1>3. CASE rd' = RIdle
  <2>1. /\ rd'.at = "idle" /\ rd'.old = {} /\ rd'.res = 0
    BY <1>3 DEF RIdle
  <2>2. rd' \in ReaderRec
    BY <1>2, <1>3 DEF RIdle, ReaderRec, head_
  <2>3. ReaderInv' /\ PlaceFound'
    BY <2>1 DEF ReaderInv, PlaceFound, head_
  <2> QED BY <2>2, <2>3, <1>1, ReaderKeeps DEF SkipInv
<1>4. CASE rd.res \in Keys /\ rd' = [rd EXCEPT !.op = "first", !.x = rd.res, !.key = rd.res, !.level = 0,
                                                !.old = linked, !.at = "search"]
  <2>1. /\ rd'.op = "first" /\ rd'.key = rd.res /\ rd'.x = rd.res /\ rd'.old = linked /\ rd'.res = rd.res
        /\ rd'.at = "search" /\ rd'.level = 0 /\ rd' \in ReaderRec
    BY <1>2, <1>4 DEF ReaderRec
  <2>2. rd.res \in linked
    BY <1>4, KeyOrder DEF SkipInv, ReaderInv, head_
  <2>3. linked = Published(0) /\ Published(0)' = Published(0)
    BY <1>1 DEF SkipInv, ListInv, Published
  <2>4. ReaderInv' /\ PlaceFound'
    BY <2>1, <2>2, <2>3, <1>1 DEF ReaderInv, PlaceFound
  <2> QED BY <2>1, <2>4, <1>1, ReaderKeeps DEF SkipInv
<1> QED BY <1>3, <1>4 DEF ReadNext, ReadEnd

\* Insert has found its place on every level, and the node may be higher than the list.
LEMMA InsertBeginKeeps ==
  ASSUME SkipInv, NEW k \in Keys, NEW h \in 1 .. kMaxHeight, InsertBegin(k, h)
  PROVE  SkipInv'
<1> DEFINE prev == [l \in Levels |-> IF l < max_height_ THEN PrevAt(k, l) ELSE head_]
<1>1. /\ w.at = "idle" /\ k \notin linked /\ UNCHANGED <<next_, rd, linked>>
      /\ max_height_' = IF h > max_height_ THEN h ELSE max_height_
      /\ w' = [key |-> k, height |-> h, level |-> 0, at |-> "link", prev |-> prev]
  BY DEF InsertBegin
<1>2. SkipTypeOK /\ ListInv /\ 0 \in Levels /\ max_height_ \in 1 .. kMaxHeight
  BY SkipListAssumption DEF SkipInv, SkipTypeOK, Levels
<1>3. \A l \in Levels : l < max_height_ =>
        /\ prev[l] \in Published(l) \cup {head_} /\ prev[l] < k
        /\ \A m \in Published(l) : m < k => m <= prev[l]
  BY <1>1, <1>2, PrevIs
<1>4. \A l \in Levels : ~(l < max_height_) => prev[l] = head_ /\ Published(l) = {}
  BY <1>2 DEF ListInv, LevelOK, Levels
<1>5. \A l \in Levels : next_[k][l] = Unset
  BY <1>1, <1>2 DEF ListInv, Published, Levels
<1>6. prev \in [Levels -> Keys \cup {head_}]
  BY <1>3, <1>4 DEF Published
<1> HIDE DEF prev
<1>7. w' \in WriterRec
  BY <1>1, <1>2, <1>6 DEF WriterRec
<1>8. w'.key = k /\ w'.height = h /\ w'.level = 0 /\ w'.at = "link" /\ w'.prev = prev
  BY <1>1
<1>9. \A l \in Levels : Published(l)' = Published(l)
  BY <1>1, <1>5, <1>8 DEF Published, Levels
<1>10. max_height_' \in 1 .. kMaxHeight /\ max_height_' >= max_height_ /\ max_height_' >= h
  BY <1>1, <1>2
<1>11. SkipTypeOK'
  BY <1>1, <1>7, <1>10 DEF SkipInv, SkipTypeOK
<1>12. ListInv'
  <2>1. \A l \in Levels : LevelOK(l)'
    BY <1>1, <1>2, <1>9, <1>10 DEF ListInv, LevelOK, Levels
  <2> QED BY <2>1, <1>1, <1>2, <1>9 DEF ListInv
<1>13. WriterInv'
  <2>1. ASSUME NEW l \in 0 .. h - 1
        PROVE  /\ prev[l] \in Published(l) \cup {head_} /\ prev[l] < k
               /\ \A m \in Published(l) : m < k => m <= prev[l]
    <3>1. l \in Levels
      BY SkipListAssumption DEF Levels
    <3> QED BY <3>1, <1>3, <1>4, KeyOrder
  <2>2. \A l \in 0 .. h - 1 : l \in Levels
    BY SkipListAssumption DEF Levels
  <2>3. \A l \in Levels : ~(l < 0)
    BY DEF Levels
  <2> QED BY <2>1, <2>2, <2>3, <1>1, <1>5, <1>8, <1>9, <1>10 DEF WriterInv
<1>14. ReaderInv' /\ PlaceFound'
  BY <1>1, <1>9, WriterKeeps
<1> QED BY <1>11, <1>12, <1>13, <1>14 DEF SkipInv

\* x->NoBarrier_SetNext: nobody can come to the node yet.
LEMMA LinkNodeKeeps == ASSUME SkipInv, LinkNode PROVE SkipInv'
<1> DEFINE l == w.level
           p == w.prev[l]
<1>1. /\ w.at = "link" /\ UNCHANGED <<max_height_, rd, linked>>
      /\ next_' = [next_ EXCEPT ![w.key][l] = next_[p][l]] /\ w' = [w EXCEPT !.at = "publish"]
  BY DEF LinkNode
<1>2. w \in WriterRec /\ next_ \in [Keys \cup {head_} -> [Levels -> Keys \cup {Null, Unset}]]
  BY DEF SkipInv, SkipTypeOK
<1>3. l \in Levels /\ w.key \in Keys /\ l < w.height /\ w.height \in Nat
  BY <1>1, <1>2 DEF SkipInv, WriterInv, WriterRec
<1>4. p \in Published(l) \cup {head_} /\ p < w.key /\ p \in Keys \cup {head_}
  BY <1>1, <1>3 DEF SkipInv, WriterInv, Published, Levels
<1>5. /\ w' \in WriterRec /\ w'.key = w.key /\ w'.height = w.height /\ w'.level = l /\ w'.prev = w.prev
      /\ w'.at = "publish"
  BY <1>1, <1>2 DEF WriterRec
<1>6. next_[p][l] \in Published(l) \cup {Null} /\ next_[p][l] \in Keys \cup {Null}
  BY <1>3, <1>4 DEF SkipInv, ListInv, LevelOK, Published
<1> HIDE DEF l, p
<1>7. next_' \in [Keys \cup {head_} -> [Levels -> Keys \cup {Null, Unset}]]
  BY <1>1, <1>2, <1>3, <1>6
<1>8. /\ \A n \in Keys \cup {head_} : n # w.key => next_'[n] = next_[n]
      /\ \A m \in Levels : m # l => next_'[w.key][m] = next_[w.key][m]
      /\ next_'[w.key][l] = next_[p][l]
  BY <1>1, <1>2, <1>3, <1>6
<1>9. w.key # head_ /\ p # w.key
  BY <1>3, <1>4, KeyOrder DEF head_
<1>10. \A m \in Levels : \A n \in Published(m) \cup {head_} : next_'[n][m] = next_[n][m]
  BY <1>1, <1>8, <1>9 DEF Published, SkipInv, WriterInv, l
<1>11. ASSUME NEW m \in Levels PROVE Published(m)' = Published(m)
  BY <1>1, <1>3, <1>5, <1>8 DEF Published, SkipInv, WriterInv, l, Levels
<1>12. SkipTypeOK'
  BY <1>1, <1>5, <1>7 DEF SkipInv, SkipTypeOK
<1>13. ListInv'
  <2>1. ASSUME NEW m \in Levels PROVE LevelOK(m)'
    BY <1>1, <1>10, <1>11 DEF SkipInv, ListInv, LevelOK
  <2> QED BY <2>1, <1>1, <1>11, SkipListAssumption DEF SkipInv, ListInv, Levels
<1>14. WriterInv'
  <2>1. \A m \in Levels : m > l => next_'[w.key][m] = Unset
    BY <1>1, <1>3, <1>8 DEF SkipInv, WriterInv, l, Levels
  <2>2. \A m \in l .. w.height - 1 : m \in Levels
    BY <1>2, <1>3, SkipListAssumption DEF Levels, WriterRec
  <2>3. next_'[w.key][l] = next_'[p][l]
    BY <1>3, <1>4, <1>8, <1>9
  <2> QED BY <2>1, <2>2, <2>3, <1>1, <1>3, <1>5, <1>11 DEF SkipInv, WriterInv, l, p
<1>15. ReaderInv' /\ PlaceFound'
  BY <1>1, <1>11, WriterKeeps
<1> QED BY <1>12, <1>13, <1>14, <1>15 DEF SkipInv

\* prev[i]->SetNext: the node is on this level as well, between its neighbours.
LEMMA PublishNodeKeeps == ASSUME SkipInv, PublishNode PROVE SkipInv'
<1>1. PICK l, p, k : l = w.level /\ p = w.prev[l] /\ k = w.key
  OBVIOUS
<1>2. /\ w.at = "publish" /\ UNCHANGED <<max_height_, rd>> /\ linked' = linked \cup {k}
      /\ next_' = [next_ EXCEPT ![p][l] = k]
      /\ w' = IF l + 1 < w.height THEN [w EXCEPT !.level = @ + 1, !.at = "link"] ELSE WIdle
  BY <1>1 DEF PublishNode
<1>3. w \in WriterRec /\ next_ \in [Keys \cup {head_} -> [Levels -> Keys \cup {Null, Unset}]]
  BY DEF SkipInv, SkipTypeOK
<1>4. l \in Levels /\ l \in Nat /\ k \in Keys /\ l < w.height /\ w.height \in 0 .. kMaxHeight /\ w.height <= max_height_
  BY <1>1, <1>2, <1>3 DEF SkipInv, WriterInv, WriterRec, Levels
<1>5. /\ p \in Published(l) \cup {head_} /\ p < k /\ p \in Keys \cup {head_}
      /\ \A m \in Published(l) : m < k => m <= p
  BY <1>1, <1>2, <1>4 DEF SkipInv, WriterInv, Published, Levels
<1>6. /\ next_[p][l] \in Published(l) \cup {Null} /\ next_[k][l] = next_[p][l] /\ p < next_[p][l]
      /\ \A m \in Published(l) : p < m => next_[p][l] <= m
  BY <1>1, <1>2, <1>4, <1>5 DEF SkipInv, WriterInv, ListInv, LevelOK
<1>7. k \notin Published(l) /\ next_[k][l] # Unset
  BY <1>1, <1>2, <1>4, <1>6, KeyOrder DEF Published
<1>8. \A m \in Levels : m > l => next_[k][m] = Unset
  BY <1>1, <1>2, <1>4 DEF SkipInv, WriterInv
<1>9. \A m \in Levels : m < l => k \in Published(m)
  BY <1>1, <1>2, <1>4 DEF SkipInv, WriterInv
<1>10. k < next_[k][l]
  <2>1. CASE next_[p][l] = Null
    BY <2>1, <1>4, <1>6, KeyOrder
  <2>2. CASE next_[p][l] \in Published(l)
    <3>1. next_[p][l] \in Keys /\ next_[p][l] # k
      BY <2>2, <1>7 DEF Published
    <3> QED BY <3>1, <2>2, <1>4, <1>5, <1>6, KeyOrder DEF head_
  <2> QED BY <2>1, <2>2, <1>6
<1>11. /\ w' \in WriterRec
       /\ \/ w'.at = "idle" /\ ~(l + 1 < w.height)
          \/ /\ w'.at = "link" /\ w'.key = k /\ w'.height = w.height /\ w'.level = l + 1 /\ w'.prev = w.prev
             /\ l + 1 < w.height
  <2>1. CASE l + 1 < w.height
    <3>1. l + 1 \in Levels
      BY <2>1, <1>4, SkipListAssumption DEF Levels
    <3>2. w' = [w EXCEPT !.level = l + 1, !.at = "link"]
      BY <2>1, <1>1, <1>2
    <3> QED BY <3>1, <3>2, <2>1, <1>1, <1>3 DEF WriterRec
  <2>2. CASE ~(l + 1 < w.height)
    <3>1. 0 \in Levels /\ w' = WIdle
      BY <2>2, <1>2, SkipListAssumption DEF Levels
    <3> QED BY <3>1, <2>2, SkipListAssumption DEF WIdle, WriterRec, head_
  <2> QED BY <2>1, <2>2
<1>12. /\ next_' \in [Keys \cup {head_} -> [Levels -> Keys \cup {Null, Unset}]]
       /\ next_'[p][l] = k
       /\ \A n \in Keys \cup {head_}, m \in Levels : n # p \/ m # l => next_'[n][m] = next_[n][m]
  BY <1>2, <1>3, <1>4, <1>5
<1>13. k # head_ /\ k # Unset /\ k # Null
  BY <1>4, KeyOrder DEF head_
<1>14. p \in Keys => next_[p][l] # Unset /\ p # k
  BY <1>5, <1>13, KeyOrder DEF Published, head_
<1>15. ASSUME NEW m \in Levels PROVE Published(m)' = IF m = l THEN Published(m) \cup {k} ELSE Published(m)
  <2> DEFINE old(n) == next_[n][m] # Unset /\ ~(n = k /\ m >= l)
             new(n) == next_'[n][m] # Unset /\ ~(w'.at # "idle" /\ n = w'.key /\ m >= w'.level)
  <2>1. Published(m) = {n \in Keys : old(n)} /\ Published(m)' = {n \in Keys : new(n)}
    BY <1>1, <1>2 DEF Published
  <2>2. ASSUME NEW n \in Keys PROVE new(n) <=> old(n) \/ (m = l /\ n = k)
    <3>1. next_'[n][m] # Unset <=> next_[n][m] # Unset
      BY <1>12, <1>13, <1>14
    <3>2. CASE n = k
      <4>1. CASE m < l
        BY <4>1, <3>1, <3>2, <1>4, <1>11 DEF Levels
      <4>2. CASE m = l
        BY <4>2, <3>1, <3>2, <1>4, <1>7, <1>11
      <4>3. CASE m > l
        BY <4>3, <3>1, <3>2, <1>4, <1>8 DEF Levels
      <4> QED BY <4>1, <4>2, <4>3, <1>4 DEF Levels
    <3>3. CASE n # k
      BY <3>1, <3>3, <1>11
    <3> QED BY <3>2, <3>3
  <2> HIDE DEF old, new
  <2> QED BY <2>1, <2>2, <1>4
<1>16. SkipTypeOK'
  BY <1>2, <1>4, <1>11, <1>12 DEF SkipInv, SkipTypeOK
<1>17. ASSUME NEW m \in Levels, m # l PROVE LevelOK(m)'
  BY <1>2, <1>12, <1>15, <1>17 DEF SkipInv, ListInv, LevelOK, Published
<1>18. LevelOK(l)'
  <2>1. Published(l)' = Published(l) \cup {k} /\ Published(l) \subseteq Keys
    BY <1>4, <1>15 DEF Published
  <2>2. \A n \in Published(l) \cup {head_} : n # p => next_'[n][l] = next_[n][l]
    BY <2>1, <1>4, <1>12
  <2>3. next_'[k][l] = next_[p][l] /\ next_'[p][l] = k
    BY <1>4, <1>5, <1>6, <1>12, KeyOrder DEF head_
  <2>4. LevelOK(l)
    BY <1>4 DEF SkipInv, ListInv
  <2>5. ASSUME NEW n \in Published(l)' \cup {head_}
        PROVE  /\ next_'[n][l] \in Published(l)' \cup {Null} /\ n < next_'[n][l]
               /\ \A j \in Published(l)' : n < j => next_'[n][l] <= j
    <3>1. CASE n = k
      <4>1. next_'[n][l] \in Published(l)' \cup {Null} /\ n < next_'[n][l]
        BY <3>1, <2>1, <2>3, <1>6, <1>10
      <4>2. ASSUME NEW j \in Published(l)', n < j PROVE next_'[n][l] <= j
        <5>1. j \in Published(l) /\ j \in Nat /\ k \in Nat /\ p \in Nat
          BY <4>2, <3>1, <2>1, <1>4, <1>5, KeyOrder DEF head_
        <5>2. p < j
          BY <5>1, <4>2, <3>1, <1>5
        <5> QED BY <5>1, <5>2, <3>1, <2>3, <1>6
      <4> QED BY <4>1, <4>2
    <3>2. CASE n = p
      <4>1. ASSUME NEW j \in Published(l)', n < j PROVE k <= j
        <5>1. j \in Nat /\ k \in Nat /\ p \in Nat
          BY <2>1, <1>4, <1>5, KeyOrder DEF head_
        <5>2. CASE j = k
          BY <5>1, <5>2
        <5>3. CASE j \in Published(l)
          BY <5>1, <5>3, <4>1, <3>2, <1>5
        <5> QED BY <5>2, <5>3, <2>1
      <4> QED BY <4>1, <3>2, <2>1, <2>3, <1>5
    <3>3. CASE n # k /\ n # p
      <4>1. n \in Published(l) \cup {head_} /\ next_'[n][l] = next_[n][l]
        BY <3>3, <2>1, <2>2
      <4>2. /\ next_[n][l] \in Published(l) \cup {Null} /\ n < next_[n][l]
            /\ \A j \in Published(l) : n < j => next_[n][l] <= j
        BY <4>1, <2>4 DEF LevelOK
      <4>3. n < k => next_[n][l] <= k
        <5>1. n \in Nat /\ k \in Nat /\ p \in Nat
          BY <4>1, <2>1, <1>4, <1>5, KeyOrder DEF head_
        <5>2. CASE n < p
          <6>1. p \in Published(l)
            BY <5>1, <5>2, <1>5 DEF head_
          <6>2. next_[n][l] \in Nat
            BY <4>2, <2>1, KeyOrder
          <6> QED BY <6>1, <6>2, <5>1, <5>2, <4>2, <1>5
        <5>3. CASE p < n
          BY <5>1, <5>3, <4>1, <1>5, KeyOrder DEF head_
        <5> QED BY <5>1, <5>2, <5>3, <3>3
      <4> QED BY <4>1, <4>2, <4>3, <2>1
    <3> QED BY <3>1, <3>2, <3>3
  <2>6. ASSUME NEW j \in Published(l)' PROVE \E n \in Published(l)' \cup {head_} : next_'[n][l] = j
    <3>1. CASE j = k
      BY <3>1, <2>1, <2>3, <1>5
    <3>2. CASE j # k /\ j = next_[p][l]
      BY <3>2, <2>1, <2>3
    <3>3. CASE j # k /\ j # next_[p][l]
      <4>1. PICK n \in Published(l) \cup {head_} : next_[n][l] = j
        BY <3>3, <2>1, <2>4 DEF LevelOK
      <4> QED BY <4>1, <3>3, <2>1, <2>2
    <3> QED BY <3>1, <3>2, <3>3
  <2>7. ~(l >= max_height_')
    BY <1>2, <1>4 DEF SkipInv, SkipTypeOK
  <2> QED BY <2>5, <2>6, <2>7 DEF LevelOK
<1>19. ListInv'
  <2>1. \A m \in Levels : LevelOK(m)'
    BY <1>17, <1>18
  <2>2. ASSUME NEW m \in Levels, NEW j \in Levels, j <= m PROVE Published(m)' \subseteq Published(j)'
    <3>1. Published(m) \subseteq Published(j)
      BY <2>2 DEF SkipInv, ListInv
    <3>2. CASE m = l /\ j # l
      <4>1. k \in Published(j)
        BY <3>2, <2>2, <1>4, <1>9 DEF Levels
      <4> QED BY <4>1, <3>1, <3>2, <1>15
    <3> QED BY <3>1, <3>2, <1>15
  <2>3. linked' = Published(0)'
    <3>1. 0 \in Levels /\ linked = Published(0)
      BY SkipListAssumption DEF SkipInv, ListInv, Levels
    <3>2. CASE l = 0
      BY <3>1, <3>2, <1>2, <1>15
    <3>3. CASE l # 0
      <4>1. k \in Published(0)
        BY <3>1, <3>3, <1>4, <1>9
      <4> QED BY <4>1, <3>1, <3>3, <1>2, <1>15
    <3> QED BY <3>2, <3>3
  <2> QED BY <2>1, <2>2, <2>3 DEF ListInv
<1>20. WriterInv'
  <2> SUFFICES ASSUME w'.at # "idle" PROVE WriterInv'
    BY DEF WriterInv
  <2>1. /\ w'.at = "link" /\ w'.key = k /\ w'.height = w.height /\ w'.level = l + 1 /\ w'.prev = w.prev
        /\ l + 1 < w.height
    BY <1>11
  <2>2. \A m \in Levels : m < l + 1 => k \in Published(m)'
    BY <1>4, <1>9, <1>15 DEF Levels
  <2>3. \A m \in Levels : m >= l + 1 => next_'[k][m] = Unset
    BY <1>4, <1>8, <1>12 DEF Levels
  <2>4. ASSUME NEW m \in (l + 1) .. w.height - 1
        PROVE  /\ w.prev[m] \in Published(m)' \cup {head_} /\ w.prev[m] < k
               /\ \A j \in Published(m)' : j < k => j <= w.prev[m]
    <3>1. m \in Levels /\ m # l /\ m \in l .. w.height - 1
      BY <1>4, SkipListAssumption DEF Levels
    <3>2. Published(m)' = Published(m)
      BY <3>1, <1>15
    <3> QED BY <3>1, <3>2, <1>2, <1>1, <1>4 DEF SkipInv, WriterInv
  <2>5. k \in Keys /\ w.height <= max_height_'
    BY <1>2, <1>4
  <2>6. \A m \in Levels : m > l + 1 \/ m = l + 1 => m >= l + 1
    BY <1>4 DEF Levels
  <2> QED BY <2>1, <2>2, <2>3, <2>4, <2>5, <2>6 DEF WriterInv
<1>21. ReaderInv' /\ PlaceFound'
  <2>1. \A m \in Levels : Published(m) \subseteq Published(m)'
    BY <1>15
  <2> QED BY <2>1, <1>2, WriterKeeps
<1> QED BY <1>16, <1>19, <1>20, <1>21 DEF SkipInv

\* Every load and store keeps the list in order.
LEMMA SkipStep == SkipInv /\ [slNext]_slVars => SkipInv'
<1> SUFFICES ASSUME SkipInv, [slNext]_slVars PROVE SkipInv'
  OBVIOUS
<1>1. CASE \E k \in Keys, h \in 1 .. kMaxHeight : InsertBegin(k, h)
  BY <1>1, InsertBeginKeeps
<1>2. CASE LinkNode
  BY <1>2, LinkNodeKeeps
<1>3. CASE PublishNode
  BY <1>3, PublishNodeKeeps
<1>4. CASE \E k \in Keys, op \in {"seek", "prev"} : ReadBegin(op, k)
  BY <1>4, ReadBeginKeeps
<1>5. CASE \E op \in {"last", "first"} : ReadBegin(op, 0)
  BY <1>5, ReadBeginKeeps DEF head_
<1>6. CASE Search
  BY <1>6, SearchKeeps
<1>7. CASE ReadNext \/ ReadEnd
  BY <1>7, ReadNextKeeps
<1>8. CASE UNCHANGED slVars
  <2>1. rd' \in ReaderRec /\ UNCHANGED <<next_, max_height_, w, linked>> /\ rd' = rd
    BY <1>8 DEF slVars, SkipInv, SkipTypeOK
  <2>2. \A l \in Levels : Published(l)' = Published(l)
    BY <2>1, ReaderKeeps
  <2> QED BY <2>1, <2>2, ReaderKeeps, WriterKeeps DEF SkipInv
<1> QED BY <1>1, <1>2, <1>3, <1>4, <1>5, <1>6, <1>7, <1>8 DEF slNext

\* An empty list.
LEMMA SkipStart == slInit => SkipInv
<1> SUFFICES ASSUME slInit PROVE SkipInv
  OBVIOUS
<1>1. 0 \in Levels /\ 0 \in 0 .. kMaxHeight /\ 1 \in 1 .. kMaxHeight
  BY SkipListAssumption DEF Levels
<1>2. next_ \in [Keys \cup {head_} -> [Levels -> Keys \cup {Null, Unset}]]
  BY DEF slInit
<1>3. w.at = "idle" /\ w \in WriterRec /\ rd.at = "idle" /\ rd.old = {} /\ rd.res = 0 /\ rd \in ReaderRec
  <2>1. w = WIdle /\ w.at = "idle" /\ rd = RIdle /\ rd.at = "idle" /\ rd.old = {} /\ rd.res = 0
    BY DEF slInit, WIdle, RIdle
  <2>2. WIdle \in WriterRec
    BY <1>1 DEF WIdle, WriterRec, head_
  <2>3. RIdle \in ReaderRec
    BY <1>1 DEF RIdle, ReaderRec, head_
  <2> QED BY <2>1, <2>2, <2>3
<1>4. \A l \in Levels : Published(l) = {} /\ next_[head_][l] = Null
  BY KeyOrder DEF slInit, Published, head_
<1>5. ListInv
  <2>1. \A l \in Levels : LevelOK(l)
    <3>1. head_ < Null
      BY SkipListAssumption, KeyOrder DEF head_
    <3> QED BY <3>1, <1>4 DEF LevelOK
  <2>2. linked = {}
    BY DEF slInit
  <2> QED BY <2>1, <2>2, <1>1, <1>4 DEF ListInv
<1> QED BY <1>1, <1>2, <1>3, <1>5 DEF slInit, SkipInv, SkipTypeOK, WriterInv, ReaderInv, PlaceFound, head_

--------------------------------------------------------------------------------
(***************************************************************************)
(* A MemTable of any size: a reader that runs beside the writer comes to   *)
(* nodes that were inserted and to no others, misses none that was linked  *)
(* when it began, and follows no link nobody has set (SkipList,            *)
(* MemTable::Get); and no two pieces of memory the arena gave out overlap  *)
(* (Arena).                                                                *)
(***************************************************************************)
THEOREM EntriesSafe == mtSpec => []MemTableSound
<1> DEFINE TableInv == SkipInv /\ ArenaInv
<1>1. mtInit => TableInv
  BY SkipStart, ArenaStart DEF mtInit
<1>2. TableInv /\ [mtNext]_mtVars => TableInv'
  <2>1. [mtNext]_mtVars => [slNext]_slVars /\ [arNext]_arVars
    BY DEF mtNext, mtVars
  <2> QED BY <2>1, SkipStep, ArenaStep
<1>3. TableInv => MemTableSound
  BY DEF SkipInv, ReaderInv, FoundInserted, SearchSound, ArenaInv, MemTableSound
<1> QED BY <1>1, <1>2, <1>3, PTL DEF mtSpec
================================================================================
