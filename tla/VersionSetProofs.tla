---------------------------- MODULE VersionSetProofs ---------------------------
(***************************************************************************)
(* Proofs about VersionSet.tla: compactions work on live files, reads find *)
(* what was written, wherever compactions have put it, and every           *)
(* compaction takes entries further down, or drops some.                   *)
(***************************************************************************)
EXTENDS VersionSet, SequenceTheorems, FiniteSetTheorems, WellFoundedInduction, TLAPS

-----------------------------------------------------------------------------
(* Natural numbers, and functions that are defined by recursion *)

\* The library's well-founded order on the naturals, as a set of pairs.
LEMMA LessThanPairs == OpToRel(<, Nat) = {r \in Nat \X Nat : r[1] < r[2]}
  BY Zenon DEF OpToRel

\* A set of naturals has a least element.
LEMMA LeastNat ==
  ASSUME NEW T \in SUBSET Nat, T # {}
  PROVE  \E m \in T : \A k \in T : m <= k
<1>1. \E m \in T : \A k \in T : ~ (<<k, m>> \in OpToRel(<, Nat))
  BY NatLessThanWellFounded, WFMin
<1>2. \E m \in T : \A k \in T : ~ (<<k, m>> \in {r \in Nat \X Nat : r[1] < r[2]})
  BY <1>1, LessThanPairs, Zenon
<1>3. \A k, m \in Nat : k < m => <<k, m>> \in {r \in Nat \X Nat : r[1] < r[2]}
  OBVIOUS
<1>4. \E m \in T : \A k \in T : ~ (k < m)
  BY <1>2, <1>3, Zenon
<1> QED BY <1>4

\* Induction up to a number: a set that goes on from each number to the next has all.
LEMMA UpTo ==
  ASSUME NEW n \in Nat, NEW P, 0 \in P, \A i \in 1 .. n : i - 1 \in P => i \in P
  PROVE  \A i \in 0 .. n : i \in P
<1> DEFINE T == {i \in 0 .. n : i \notin P}
<1> SUFFICES ASSUME T # {} PROVE FALSE
  OBVIOUS
<1>1. PICK m \in T : \A k \in T : m <= k
  <2>1. T \in SUBSET Nat
    OBVIOUS
  <2> HIDE DEF T
  <2> QED BY <2>1, LeastNat
<1>2. m \in 1 .. n /\ m - 1 \in 0 .. n /\ m - 1 \notin T
  BY <1>1
<1> QED BY <1>1, <1>2

\* What a recursion over 0 .. n with steps in a set S defines exists.
Steps(F, n, e, G) == F[0] = e /\ \A i \in 1 .. n : F[i] = G[i][F[i - 1]]
LEMMA Recursion ==
  ASSUME NEW n \in Nat, NEW S, NEW e \in S, NEW G \in [1 .. n -> [S -> S]]
  PROVE  \E F \in [0 .. n -> S] : Steps(F, n, e, G)
<1> DEFINE Defines(F, m) == F[0] = e /\ \A i \in 1 .. m : F[i] = G[i][F[i - 1]]
           P == {m \in 0 .. n : \E F \in [0 .. m -> S] : Defines(F, m)}
<1>1. 0 \in P
  <2>1. [i \in 0 .. 0 |-> e] \in [0 .. 0 -> S] /\ Defines([i \in 0 .. 0 |-> e], 0)
    OBVIOUS
  <2>2. \E F \in [0 .. 0 -> S] : Defines(F, 0)
    BY <2>1
  <2> QED BY <2>2
<1>2. ASSUME NEW m \in 1 .. n, m - 1 \in P PROVE m \in P
  <2>1. PICK F \in [0 .. m - 1 -> S] : Defines(F, m - 1)
    BY <1>2
  <2> DEFINE H == [i \in 0 .. m |-> IF i = m THEN G[m][F[m - 1]] ELSE F[i]]
  <2>2. F[m - 1] \in S /\ G[m][F[m - 1]] \in S
    OBVIOUS
  <2>3. H \in [0 .. m -> S]
    BY <2>2
  <2>4. H[0] = e
    BY <2>1
  <2>5. ASSUME NEW i \in 1 .. m PROVE H[i] = G[i][H[i - 1]]
    <3>1. CASE i = m
      BY <3>1
    <3>2. CASE i # m
      <4>1. i \in 1 .. m - 1 /\ i - 1 \in 0 .. m - 1
        BY <3>2
      <4>2. H[i] = F[i] /\ H[i - 1] = F[i - 1]
        BY <4>1
      <4> QED BY <2>1, <4>1, <4>2
    <3> QED BY <3>1, <3>2
  <2> HIDE DEF H
  <2>6. \E F1 \in [0 .. m -> S] : Defines(F1, m)
    BY <2>3, <2>4, <2>5
  <2>7. m \in 0 .. n
    OBVIOUS
  <2> QED BY <2>6, <2>7, Zenon
<1> HIDE DEF P
<1>3. \A i \in 0 .. n : i \in P
  <2>1. \A m \in 1 .. n : m - 1 \in P => m \in P
    BY <1>2
  <2> QED BY <1>1, <2>1, UpTo
<1>4. \E F \in [0 .. n -> S] : Defines(F, n)
  <2>1. n \in 0 .. n
    OBVIOUS
  <2>2. n \in P
    BY <1>3, <2>1
  <2> QED BY <2>2, Zenon DEF P
<1> QED BY <1>4, Zenon DEF Steps

-----------------------------------------------------------------------------
(* The elements of sequences *)

LEMMA Elements ==
  ASSUME NEW S, NEW s \in Seq(S)
  PROVE  /\ ToSet(s) = {s[i] : i \in 1 .. Len(s)} /\ ToSet(s) \in SUBSET S
         /\ IsFiniteSet(ToSet(s)) /\ Cardinality(ToSet(s)) <= Len(s)
<1>1. Len(s) \in Nat /\ DOMAIN s = 1 .. Len(s) /\ \A i \in 1 .. Len(s) : s[i] \in S
  OBVIOUS
<1>2. ToSet(s) = {s[i] : i \in 1 .. Len(s)}
  BY <1>1 DEF ToSet
<1> DEFINE f == [i \in 1 .. Len(s) |-> s[i]]
<1>3. f \in Surjection(1 .. Len(s), ToSet(s))
  <2>1. f \in [1 .. Len(s) -> ToSet(s)]
    BY <1>2
  <2>2. \A y \in ToSet(s) : \E i \in 1 .. Len(s) : f[i] = y
    BY <1>2
  <2> QED BY <2>1, <2>2 DEF Surjection
<1>4. IsFiniteSet(1 .. Len(s)) /\ Cardinality(1 .. Len(s)) = Len(s)
  <2>1. 1 \in Int /\ Len(s) \in Int
    BY <1>1
  <2>2. IsFiniteSet(1 .. Len(s)) /\ Cardinality(1 .. Len(s)) = IF 1 > Len(s) THEN 0 ELSE Len(s) - 1 + 1
    BY <2>1, FS_Interval
  <2> QED BY <1>1, <2>2
<1> HIDE DEF f
<1>5. IsFiniteSet(ToSet(s)) /\ Cardinality(ToSet(s)) <= Cardinality(1 .. Len(s))
  BY <1>3, <1>4, FS_Surjection
<1> QED BY <1>1, <1>2, <1>4, <1>5

LEMMA Concat ==
  ASSUME NEW S, NEW s \in Seq(S), NEW t \in Seq(S)
  PROVE  /\ s \o t \in Seq(S) /\ Len(s \o t) = Len(s) + Len(t)
         /\ \A i \in 1 .. Len(s) : (s \o t)[i] = s[i]
         /\ \A i \in 1 .. Len(t) : (s \o t)[Len(s) + i] = t[i]
         /\ ToSet(s \o t) = ToSet(s) \cup ToSet(t)
<1> DEFINE n == Len(s)
           k == Len(t)
           q == s \o t
<1>1. n \in Nat /\ k \in Nat
  OBVIOUS
<1>2. q \in Seq(S) /\ Len(q) = n + k
  OBVIOUS
<1>3. \A i \in 1 .. n + k : q[i] = IF i <= n THEN s[i] ELSE t[i - n]
  OBVIOUS
<1> HIDE DEF n, k, q
<1>4. \A i \in 1 .. n : q[i] = s[i]
  BY <1>1, <1>3
<1>5. \A i \in 1 .. k : q[n + i] = t[i]
  <2>1. ASSUME NEW i \in 1 .. k PROVE q[n + i] = t[i]
    <3>1. n + i \in 1 .. n + k /\ ~(n + i <= n) /\ (n + i) - n = i
      BY <1>1
    <3>2. q[n + i] = t[(n + i) - n]
      BY <1>3, <3>1
    <3> QED BY <3>1, <3>2
  <2> QED BY <2>1
<1>6. ToSet(q) = ToSet(s) \cup ToSet(t)
  <2>1. ToSet(q) = {q[i] : i \in 1 .. n + k} /\ ToSet(s) = {s[i] : i \in 1 .. n} /\ ToSet(t) = {t[i] : i \in 1 .. k}
    BY <1>2, Elements DEF n, k
  <2>2. \A i \in 1 .. n + k : i \in 1 .. n \/ i - n \in 1 .. k
    BY <1>1
  <2>3. \A i \in 1 .. n : i \in 1 .. n + k
    BY <1>1
  <2>4. \A i \in 1 .. k : n + i \in 1 .. n + k
    BY <1>1
  <2>5. \A i \in 1 .. n + k : i - n \in 1 .. k => q[i] = t[i - n]
    BY <1>1, <1>3
  <2> QED BY <1>4, <1>5, <2>1, <2>2, <2>3, <2>4, <2>5
<1> QED BY <1>2, <1>4, <1>5, <1>6 DEF n, k, q

-----------------------------------------------------------------------------
(* Sorting by rank *)

Orders(R, S) ==
  /\ \A x \in S : <<x, x>> \notin R
  /\ \A x, y \in S : x # y => <<x, y>> \in R \/ <<y, x>> \in R
  /\ \A x, y, z \in S : <<x, y>> \in R /\ <<y, z>> \in R => <<x, z>> \in R
Below(x, R, S) == {y \in S : <<y, x>> \in R}

\* In a finite set that is ordered each number below its size is the rank of one element.
LEMMA Ranks ==
  ASSUME NEW S, IsFiniteSet(S), NEW R, Orders(R, S)
  PROVE  /\ Cardinality(S) \in Nat
         /\ \A x \in S : Cardinality(Below(x, R, S)) \in 0 .. Cardinality(S) - 1
         /\ \A x, y \in S : <<x, y>> \in R => Cardinality(Below(x, R, S)) < Cardinality(Below(y, R, S))
         /\ \A i \in 0 .. Cardinality(S) - 1 : \E x \in S : Cardinality(Below(x, R, S)) = i
<1> DEFINE rank(x) == Cardinality(Below(x, R, S))
           n == Cardinality(S)
<1>1. n \in Nat
  BY FS_CardinalityType
<1>2. ASSUME NEW x \in S
      PROVE  IsFiniteSet(Below(x, R, S)) /\ rank(x) \in Nat /\ rank(x) + 1 <= n
             /\ IsFiniteSet(Below(x, R, S) \cup {x}) /\ Cardinality(Below(x, R, S) \cup {x}) = rank(x) + 1
  <2>1. Below(x, R, S) \subseteq S /\ x \notin Below(x, R, S)
    BY DEF Below, Orders
  <2>2. IsFiniteSet(Below(x, R, S))
    BY <2>1, FS_Subset
  <2>3. rank(x) \in Nat
    BY <2>2, FS_CardinalityType
  <2>4. IsFiniteSet(Below(x, R, S) \cup {x}) /\ Cardinality(Below(x, R, S) \cup {x}) = rank(x) + 1
    BY <2>1, <2>2, FS_AddElement
  <2>5. Cardinality(Below(x, R, S) \cup {x}) <= n
    <3>1. Below(x, R, S) \cup {x} \in SUBSET S
      BY <2>1
    <3> QED BY <3>1, FS_Subset
  <2> QED BY <2>2, <2>3, <2>4, <2>5
<1>3. ASSUME NEW x \in S, NEW y \in S, <<x, y>> \in R PROVE rank(x) < rank(y)
  <2>1. Below(x, R, S) \cup {x} \in SUBSET Below(y, R, S)
    BY <1>3 DEF Below, Orders
  <2>2. Cardinality(Below(x, R, S) \cup {x}) <= rank(y)
    BY <1>2, <2>1, FS_Subset
  <2>3. rank(x) \in Nat /\ rank(y) \in Nat /\ rank(x) + 1 <= rank(y)
    BY <1>2, <2>2
  <2> QED BY <2>3
<1>4. ASSUME NEW x \in S PROVE rank(x) \in 0 .. n - 1
  <2>1. rank(x) \in Nat /\ rank(x) + 1 <= n
    BY <1>2
  <2> HIDE DEF rank, n
  <2> QED BY <1>1, <2>1
<1>5. ASSUME NEW i \in 0 .. n - 1 PROVE \E x \in S : rank(x) = i
  <2> DEFINE f == [x \in S |-> rank(x)]
             T == 0 .. n - 1
  <2>1. f \in [S -> T]
    <3> HIDE DEF rank, n
    <3> QED BY <1>4
  <2>2. \A x, y \in S : f[x] = f[y] => x = y
    <3>1. \A x, y \in S : x # y => rank(x) < rank(y) \/ rank(y) < rank(x)
      BY <1>3 DEF Orders
    <3>2. \A x \in S : rank(x) \in Nat
      BY <1>2
    <3> HIDE DEF rank
    <3> QED BY <3>1, <3>2
  <2>3. IsFiniteSet(T) /\ Cardinality(T) = n
    <3>1. 0 \in Int /\ n - 1 \in Int
      BY <1>1
    <3>2. IsFiniteSet(0 .. n - 1) /\ Cardinality(0 .. n - 1) = IF 0 > n - 1 THEN 0 ELSE (n - 1) - 0 + 1
      BY <3>1, FS_Interval
    <3> QED BY <1>1, <3>2
  <2> HIDE DEF f, T
  <2>4. f \in Injection(S, T)
    BY <2>1, <2>2 DEF Injection, IsInjective
  <2>5. f \in Surjection(S, T)
    BY <2>3, <2>4, FS_Injection
  <2>6. \E x \in S : f[x] = i
    BY <2>5 DEF Surjection, T
  <2> QED BY <2>6 DEF f
<1> HIDE DEF rank, n
<1>6. /\ n \in Nat
      /\ \A x \in S : rank(x) \in 0 .. n - 1
      /\ \A x, y \in S : <<x, y>> \in R => rank(x) < rank(y)
      /\ \A i \in 0 .. n - 1 : \E x \in S : rank(x) = i
  BY <1>1, <1>3, <1>4, <1>5
<1> QED BY <1>6 DEF rank, n
\* The sequence of the elements by their ranks has them all, in order.
LEMMA ByRank ==
  ASSUME NEW S, IsFiniteSet(S), NEW R, Orders(R, S),
         NEW q \in [1 .. Cardinality(S) -> S],
         \A i \in 1 .. Cardinality(S) : Cardinality(Below(q[i], R, S)) = i - 1
  PROVE  /\ q \in Seq(S) /\ Len(q) = Cardinality(S) /\ ToSet(q) = S
         /\ \A i, j \in 1 .. Len(q) : i < j => <<q[i], q[j]>> \in R
<1> DEFINE rank(x) == Cardinality(Below(x, R, S))
           n == Cardinality(S)
<1>1. /\ n \in Nat
      /\ \A x \in S : rank(x) \in 0 .. n - 1
      /\ \A x, y \in S : <<x, y>> \in R => rank(x) < rank(y)
      /\ \A i \in 0 .. n - 1 : \E x \in S : rank(x) = i
  BY Ranks
<1>2. q \in [1 .. n -> S] /\ \A i \in 1 .. n : rank(q[i]) = i - 1
  OBVIOUS
<1> HIDE DEF rank, n
<1>3. ASSUME NEW i \in 1 .. n PROVE q[i] \in S /\ rank(q[i]) = i - 1
  BY <1>2
<1>5. q \in Seq(S) /\ Len(q) = n /\ DOMAIN q = 1 .. n
  BY ONLY <1>1, <1>2, n \in Nat
<1>6. \A x, y \in S : rank(x) = rank(y) => x = y
  <2>1. \A x, y \in S : x # y => rank(x) < rank(y) \/ rank(y) < rank(x)
    <3>1. \A x, y \in S : x # y => <<x, y>> \in R \/ <<y, x>> \in R
      BY Zenon DEF Orders
    <3> QED BY <1>1, <3>1, Zenon
  <2>2. \A x \in S : rank(x) \in Int
    BY <1>1
  <2> QED BY <2>1, <2>2
<1>7. ToSet(q) = S
  <2>1. ASSUME NEW x \in S PROVE \E i \in 1 .. n : q[i] = x
    <3>1. rank(x) + 1 \in 1 .. n /\ (rank(x) + 1) - 1 = rank(x)
      BY <1>1
    <3>2. q[rank(x) + 1] \in S /\ rank(q[rank(x) + 1]) = rank(x)
      BY <1>3, <3>1
    <3>3. q[rank(x) + 1] = x
      BY <1>6, <3>2
    <3> QED BY <3>1, <3>3
  <2>2. \A i \in DOMAIN q : q[i] \in S
    BY <1>3, <1>5
  <2> QED BY <1>5, <2>1, <2>2 DEF ToSet
<1>8. ASSUME NEW i \in 1 .. n, NEW j \in 1 .. n, i < j PROVE <<q[i], q[j]>> \in R
  <2>1. q[i] \in S /\ q[j] \in S /\ rank(q[i]) = i - 1 /\ rank(q[j]) = j - 1
    BY <1>3
  <2>2. q[i] # q[j]
    BY <1>8, <2>1
  <2>3. ~(<<q[j], q[i]>> \in R)
    <3>1. ~(rank(q[j]) < rank(q[i]))
      BY <1>8, <2>1
    <3> QED BY <1>1, <2>1, <3>1
  <2> QED BY <2>1, <2>2, <2>3 DEF Orders
<1>9. \A i, j \in 1 .. Len(q) : i < j => <<q[i], q[j]>> \in R
  BY <1>5, <1>8
<1> QED BY <1>5, <1>7, <1>9 DEF n
\* The first in an order.
LEMMA Least ==
  ASSUME NEW S, IsFiniteSet(S), S # {}, NEW R, Orders(R, S)
  PROVE  \E x \in S : \A y \in S : y = x \/ <<x, y>> \in R
<1>1. Cardinality(S) \in Nat /\ Cardinality(S) # 0
  BY FS_CardinalityType, FS_EmptySet
<1>2. 0 \in 0 .. Cardinality(S) - 1
  BY <1>1
<1>3. PICK x \in S : Cardinality(Below(x, R, S)) = 0
  BY <1>2, Ranks
<1>4. IsFiniteSet(Below(x, R, S))
  <2>1. Below(x, R, S) \in SUBSET S
    BY DEF Below
  <2> QED BY <2>1, FS_Subset
<1>5. Below(x, R, S) = {}
  BY <1>3, <1>4, FS_EmptySet
<1> QED BY <1>5 DEF Below, Orders

-----------------------------------------------------------------------------
(* Keys and files *)

IKeys == [user : Nat, seq : Nat, del : BOOLEAN]
Distinct(W) == \A a, b \in W : a.seq = b.seq => a = b
KeyPairs == {p \in IKeys \X IKeys : ILess(p[1], p[2])}
PairsDown == {p \in IKeys \X IKeys : ILess(p[2], p[1])}

LEMMA KeyLess ==
  /\ \A a \in IKeys : ~ILess(a, a)
  /\ \A a, b, k \in IKeys : ILess(a, b) /\ ILess(b, k) => ILess(a, k)
  /\ \A a, b \in IKeys : ILess(a, b) => ~ILess(b, a)
  /\ \A a, b \in IKeys : ~ILess(a, b) /\ ~ILess(b, a) => a.user = b.user /\ a.seq = b.seq
<1>1. \A a \in IKeys : a.user \in Nat /\ a.seq \in Nat
  BY DEF IKeys
<1> QED BY <1>1 DEF ILess

LEMMA KeyOrder ==
  ASSUME NEW W \in SUBSET IKeys, Distinct(W)
  PROVE  Orders(KeyPairs, W) /\ Orders(PairsDown, W)
<1>1. \A x \in W : x \in IKeys /\ x.user \in Nat /\ x.seq \in Nat
  BY DEF IKeys
<1>2. \A x \in W : ~ILess(x, x)
  BY <1>1 DEF ILess
<1>3. \A x, y \in W : x # y => ILess(x, y) \/ ILess(y, x)
  BY <1>1 DEF ILess, Distinct
<1>4. \A x, y, z \in W : ILess(x, y) /\ ILess(y, z) => ILess(x, z)
  BY <1>1 DEF ILess
<1>5. \A x, y \in W : (<<x, y>> \in KeyPairs <=> ILess(x, y)) /\ (<<x, y>> \in PairsDown <=> ILess(y, x))
  BY <1>1 DEF KeyPairs, PairsDown
<1> HIDE DEF KeyPairs, PairsDown, ILess
<1> QED BY <1>2, <1>3, <1>4, <1>5, Zenon DEF Orders

\* The least and the greatest of some keys.
LEMMA IMinIs ==
  ASSUME NEW W \in SUBSET IKeys, Distinct(W), IsFiniteSet(W), NEW S \in SUBSET W, S # {}
  PROVE  /\ IMin(S) \in S /\ \A j \in S : j = IMin(S) \/ ILess(IMin(S), j)
         /\ IMax(S) \in S /\ \A j \in S : j = IMax(S) \/ ILess(j, IMax(S))
<1>1. IsFiniteSet(S) /\ S \in SUBSET IKeys /\ Distinct(S)
  <2>1. IsFiniteSet(S)
    BY FS_Subset
  <2> QED BY <2>1 DEF Distinct
<1>2. Orders(KeyPairs, S) /\ Orders(PairsDown, S)
  BY <1>1, KeyOrder
<1>3. \E x \in S : \A y \in S : y = x \/ <<x, y>> \in KeyPairs
  BY <1>1, <1>2, Least
<1>4. \E x \in S : \A y \in S : y = x \/ <<x, y>> \in PairsDown
  BY <1>1, <1>2, Least
<1>5. \A x, y \in S : (<<x, y>> \in KeyPairs => ILess(x, y)) /\ (<<x, y>> \in PairsDown => ILess(y, x))
  BY DEF KeyPairs, PairsDown
<1>6. \E x \in S : \A j \in S : x = j \/ j = x \/ ILess(x, j)
  BY <1>3, <1>5, Zenon
<1>7. \E k \in S : \A j \in S : j = k \/ ILess(k, j)
  BY <1>3, <1>5, Zenon
<1>8. \E k \in S : \A j \in S : j = k \/ ILess(j, k)
  BY <1>4, <1>5, Zenon
<1>9. IMin(S) \in S /\ \A j \in S : j = IMin(S) \/ ILess(IMin(S), j)
  BY <1>7, Zenon DEF IMin
<1>10. IMax(S) \in S /\ \A j \in S : j = IMax(S) \/ ILess(j, IMax(S))
  BY <1>8, Zenon DEF IMax
<1> QED BY <1>9, <1>10

\* A file has some of the keys, and knows the first and the last of them.
FileSet(W) ==
  {f \in [num : Nat, keys : SUBSET W, smallest : W, largest : W] :
     /\ f.smallest \in f.keys /\ f.largest \in f.keys
     /\ \A k \in f.keys : /\ k = f.smallest \/ ILess(f.smallest, k)
                          /\ k = f.largest \/ ILess(k, f.largest)}
\* Different files have different numbers.
Numbered(S) == \A f, g \in S : f.num = g.num => f = g

LEMMA NewFileIs ==
  ASSUME NEW W \in SUBSET IKeys, Distinct(W), IsFiniteSet(W), NEW S \in SUBSET W, S # {}, NEW n \in Nat
  PROVE  NewFile(n, S) \in FileSet(W) /\ NewFile(n, S).num = n /\ NewFile(n, S).keys = S
<1>1. /\ IMin(S) \in S /\ \A j \in S : j = IMin(S) \/ ILess(IMin(S), j)
      /\ IMax(S) \in S /\ \A j \in S : j = IMax(S) \/ ILess(j, IMax(S))
  BY IMinIs
<1> QED BY ONLY <1>1, S \in SUBSET W, n \in Nat DEF NewFile, FileSet
\* What InOrder makes of a set has all its elements, in order.
LEMMA Sorts ==
  ASSUME NEW S, IsFiniteSet(S), NEW R, Orders(R, S), NEW q,
         q = [i \in 1 .. Cardinality(S) |-> q[i]],
         \A i \in 1 .. Cardinality(S) :
           (\E x \in S : Cardinality(Below(x, R, S)) = i - 1) =>
             q[i] \in S /\ Cardinality(Below(q[i], R, S)) = i - 1
  PROVE  /\ q \in Seq(S) /\ Len(q) = Cardinality(S) /\ ToSet(q) = S
         /\ \A i, j \in 1 .. Len(q) : i < j => <<q[i], q[j]>> \in R
<1> DEFINE n == Cardinality(S)
<1>1. n \in Nat
  BY FS_CardinalityType
<1>2. ASSUME NEW i \in 1 .. n PROVE q[i] \in S /\ Cardinality(Below(q[i], R, S)) = i - 1
  <2>1. i - 1 \in 0 .. n - 1
    <3> HIDE DEF n
    <3> QED BY <1>1
  <2> QED BY <2>1, Ranks
<1>3. q \in [1 .. n -> S]
  <2>1. q = [i \in 1 .. n |-> q[i]]
    OBVIOUS
  <2> HIDE DEF n
  <2> QED BY <1>2, <2>1
<1>4. \A i \in 1 .. Cardinality(S) : Cardinality(Below(q[i], R, S)) = i - 1
  BY <1>2
<1> QED BY <1>3, <1>4, ByRank

\* SortedKeys: all the keys, in order.
LEMMA SortedKeysIs ==
  ASSUME NEW W \in SUBSET IKeys, Distinct(W), IsFiniteSet(W)
  PROVE  /\ SortedKeys(W) \in Seq(W) /\ ToSet(SortedKeys(W)) = W
         /\ \A i, j \in 1 .. Len(SortedKeys(W)) : i < j => ILess(SortedKeys(W)[i], SortedKeys(W)[j])
<1> DEFINE q == SortedKeys(W)
           n == Cardinality(W)
<1>1. Orders(KeyPairs, W)
  BY KeyOrder
<1>2. ASSUME NEW x \in W PROVE Below(x, KeyPairs, W) = {y \in W : ILess(y, x)}
  BY DEF Below, KeyPairs
<1>3. q = [i \in 1 .. n |-> CHOOSE x \in W : Cardinality({y \in W : ILess(y, x)}) = i - 1]
  BY DEF SortedKeys, InOrder
<1>4. q = [i \in 1 .. n |-> q[i]]
  BY <1>3, Zenon
<1>5. ASSUME NEW i \in 1 .. n, \E x \in W : Cardinality(Below(x, KeyPairs, W)) = i - 1
      PROVE  q[i] \in W /\ Cardinality(Below(q[i], KeyPairs, W)) = i - 1
  <2>1. \E x \in W : Cardinality({y \in W : ILess(y, x)}) = i - 1
    BY <1>2, <1>5, Zenon
  <2>2. q[i] = CHOOSE x \in W : Cardinality({y \in W : ILess(y, x)}) = i - 1
    BY <1>3, Zenon
  <2> HIDE DEF q
  <2>3. q[i] \in W /\ Cardinality({y \in W : ILess(y, q[i])}) = i - 1
    BY <2>1, <2>2, Zenon
  <2> QED BY <1>2, <2>3
<1> HIDE DEF q
<1>6. /\ q \in Seq(W) /\ ToSet(q) = W
      /\ \A i, j \in 1 .. Len(q) : i < j => <<q[i], q[j]>> \in KeyPairs
  BY <1>1, <1>4, <1>5, Sorts
<1>7. \A i, j \in 1 .. Len(q) : i < j => ILess(q[i], q[j])
  BY <1>6 DEF KeyPairs
<1> QED BY <1>6, <1>7 DEF q
FilePairs(S) == {p \in S \X S : FileLess(p[1], p[2])}
NewerPairs(S) == {p \in S \X S : p[1].num > p[2].num}
NumberPairs == {p \in Nat \X Nat : p[1] < p[2]}

LEMMA FileOrder ==
  ASSUME NEW W \in SUBSET IKeys, Distinct(W), NEW S \in SUBSET FileSet(W), Numbered(S)
  PROVE  Orders(FilePairs(S), S) /\ Orders(NewerPairs(S), S)
<1>1. \A f \in S : f.num \in Nat /\ f.smallest \in W /\ f.smallest \in IKeys
  BY DEF FileSet
<1>2. /\ \A x \in W : ~ILess(x, x)
      /\ \A x, y \in W : x # y => ILess(x, y) \/ ILess(y, x)
      /\ \A x, y, z \in W : ILess(x, y) /\ ILess(y, z) => ILess(x, z)
  <2>1. Orders(KeyPairs, W)
    BY KeyOrder
  <2>2. \A x, y \in W : <<x, y>> \in KeyPairs <=> ILess(x, y)
    BY DEF KeyPairs
  <2> QED BY <2>1, <2>2, Zenon DEF Orders
<1>3. \A f, g \in S : f # g => f.num < g.num \/ g.num < f.num
  BY <1>1 DEF Numbered
<1>4. \A f \in S : ~FileLess(f, f)
  BY <1>1, <1>2 DEF FileLess
<1>5. \A f, g \in S : f # g => FileLess(f, g) \/ FileLess(g, f)
  BY <1>1, <1>2, <1>3, Zenon DEF FileLess
<1>6. \A f, g, h \in S : FileLess(f, g) /\ FileLess(g, h) => FileLess(f, h)
  <2> HIDE DEF ILess
  <2> QED BY <1>1, <1>2 DEF FileLess
<1>7. \A f, g \in S : (<<f, g>> \in FilePairs(S) <=> FileLess(f, g)) /\ (<<f, g>> \in NewerPairs(S) <=> f.num > g.num)
  BY DEF FilePairs, NewerPairs
<1>8. Orders(FilePairs(S), S)
  <2> HIDE DEF FileLess, FilePairs
  <2> QED BY <1>4, <1>5, <1>6, <1>7, Zenon DEF Orders
<1>9. Orders(NewerPairs(S), S)
  <2> HIDE DEF NewerPairs
  <2> QED BY <1>1, <1>3, <1>7 DEF Orders
<1> QED BY <1>8, <1>9

LEMMA SortedFilesIs ==
  ASSUME NEW W \in SUBSET IKeys, Distinct(W),
         NEW S \in SUBSET FileSet(W), Numbered(S), IsFiniteSet(S)
  PROVE  /\ SortedFiles(S) \in Seq(S) /\ ToSet(SortedFiles(S)) = S
         /\ \A i, j \in 1 .. Len(SortedFiles(S)) : i < j => FileLess(SortedFiles(S)[i], SortedFiles(S)[j])
<1> DEFINE q == SortedFiles(S)
           n == Cardinality(S)
           R == FilePairs(S)
<1>1. Orders(R, S)
  BY FileOrder
<1>2. ASSUME NEW x \in S PROVE Below(x, R, S) = {y \in S : FileLess(y, x)}
  BY DEF Below, FilePairs
<1>3. q = [i \in 1 .. n |-> CHOOSE x \in S : Cardinality({y \in S : FileLess(y, x)}) = i - 1]
  BY DEF SortedFiles, InOrder
<1>4. q = [i \in 1 .. n |-> q[i]]
  BY <1>3, Zenon
<1>5. ASSUME NEW i \in 1 .. n, \E x \in S : Cardinality(Below(x, R, S)) = i - 1
      PROVE  q[i] \in S /\ Cardinality(Below(q[i], R, S)) = i - 1
  <2>1. \E x \in S : Cardinality({y \in S : FileLess(y, x)}) = i - 1
    <3> HIDE DEF R
    <3> QED BY <1>2, <1>5, Zenon
  <2>2. q[i] = CHOOSE x \in S : Cardinality({y \in S : FileLess(y, x)}) = i - 1
    BY <1>3, Zenon
  <2> HIDE DEF q
  <2>3. q[i] \in S /\ Cardinality({y \in S : FileLess(y, q[i])}) = i - 1
    BY <2>1, <2>2, Zenon
  <2> QED BY <1>2, <2>3
<1> HIDE DEF q, R
<1>6. /\ q \in Seq(S) /\ ToSet(q) = S
      /\ \A i, j \in 1 .. Len(q) : i < j => <<q[i], q[j]>> \in R
  BY <1>1, <1>4, <1>5, Sorts
<1>7. \A i, j \in 1 .. Len(q) : i < j => FileLess(q[i], q[j])
  BY <1>6 DEF R, FilePairs
<1> QED BY <1>6, <1>7 DEF q

LEMMA NewestFirstIs ==
  ASSUME NEW W \in SUBSET IKeys, Distinct(W),
         NEW S \in SUBSET FileSet(W), Numbered(S), IsFiniteSet(S)
  PROVE  /\ NewestFirst(S) \in Seq(S) /\ ToSet(NewestFirst(S)) = S
         /\ \A i, j \in 1 .. Len(NewestFirst(S)) : i < j => NewestFirst(S)[i].num > NewestFirst(S)[j].num
<1> DEFINE q == NewestFirst(S)
           n == Cardinality(S)
           R == NewerPairs(S)
<1>1. Orders(R, S)
  BY FileOrder
<1>2. ASSUME NEW x \in S PROVE Below(x, R, S) = {y \in S : y.num > x.num}
  BY DEF Below, NewerPairs
<1>3. q = [i \in 1 .. n |-> CHOOSE x \in S : Cardinality({y \in S : y.num > x.num}) = i - 1]
  BY DEF NewestFirst, InOrder
<1>4. q = [i \in 1 .. n |-> q[i]]
  BY <1>3, Zenon
<1>5. ASSUME NEW i \in 1 .. n, \E x \in S : Cardinality(Below(x, R, S)) = i - 1
      PROVE  q[i] \in S /\ Cardinality(Below(q[i], R, S)) = i - 1
  <2>1. \E x \in S : Cardinality({y \in S : y.num > x.num}) = i - 1
    <3> HIDE DEF R
    <3> QED BY <1>2, <1>5, Zenon
  <2>2. q[i] = CHOOSE x \in S : Cardinality({y \in S : y.num > x.num}) = i - 1
    BY <1>3, Zenon
  <2> HIDE DEF q
  <2>3. q[i] \in S /\ Cardinality({y \in S : y.num > q[i].num}) = i - 1
    BY <2>1, <2>2, Zenon
  <2> QED BY <1>2, <2>3
<1> HIDE DEF q, R
<1>6. /\ q \in Seq(S) /\ ToSet(q) = S
      /\ \A i, j \in 1 .. Len(q) : i < j => <<q[i], q[j]>> \in R
  BY <1>1, <1>4, <1>5, Sorts
<1>7. \A i, j \in 1 .. Len(q) : i < j => q[i].num > q[j].num
  BY <1>6 DEF R, NewerPairs
<1> QED BY <1>6, <1>7 DEF q

Sub(q, files) ==
  \A m, n \in 1 .. Len(q) : m < n =>
    \E i, j \in 1 .. Len(files) : i < j /\ files[i] = q[m] /\ files[j] = q[n]

\* The files of a level that overlap a range are files of the level, in their order.
LEMMA OverlappingIs ==
  ASSUME NEW W, NEW files \in Seq(FileSet(W)), NEW lo, NEW hi
  PROVE  /\ Overlapping(files, lo, hi) \in Seq(FileSet(W))
         /\ ToSet(Overlapping(files, lo, hi)) =
              {f \in ToSet(files) : f.largest.user >= lo /\ f.smallest.user <= hi}
         /\ Sub(Overlapping(files, lo, hi), files)
<1> DEFINE S == {i \in DOMAIN files : files[i].largest.user >= lo /\ files[i].smallest.user <= hi}
           q == InOrder(S, <)
           n == Cardinality(S)
           R == NumberPairs
           o == [k \in DOMAIN q |-> files[q[k]]]
<1>0. Overlapping(files, lo, hi) = o
  BY DEF Overlapping
<1>1. IsFiniteSet(S) /\ S \in SUBSET Nat /\ DOMAIN files = 1 .. Len(files)
  <2>1. S \in SUBSET (1 .. Len(files)) /\ Len(files) \in Nat
    OBVIOUS
  <2>2. IsFiniteSet(1 .. Len(files))
    BY <2>1, FS_Interval
  <2> QED BY <2>1, <2>2, FS_Subset
<1>2. S = {i \in 1 .. Len(files) : files[i].largest.user >= lo /\ files[i].smallest.user <= hi}
  OBVIOUS
<1>3. q = [i \in 1 .. n |-> CHOOSE x \in S : Cardinality({y \in S : y < x}) = i - 1]
  BY DEF InOrder
<1> HIDE DEF S, q
<1>4. Orders(R, S)
  BY <1>1 DEF Orders, NumberPairs
<1>5. ASSUME NEW x \in S PROVE Below(x, R, S) = {y \in S : y < x}
  BY <1>1 DEF Below, NumberPairs
<1>6. q = [i \in 1 .. n |-> q[i]]
  <2> DEFINE e(i) == CHOOSE x \in S : Cardinality({y \in S : y < x}) = i - 1
  <2>1. q = [i \in 1 .. n |-> e(i)]
    BY <1>3
  <2> HIDE DEF e
  <2> QED BY <2>1
<1>7. ASSUME NEW i \in 1 .. n, \E x \in S : Cardinality(Below(x, R, S)) = i - 1
      PROVE  q[i] \in S /\ Cardinality(Below(q[i], R, S)) = i - 1
  <2>1. \E x \in S : Cardinality({y \in S : y < x}) = i - 1
    <3> HIDE DEF R
    <3> QED BY <1>5, <1>7, Zenon
  <2>2. q[i] = CHOOSE x \in S : Cardinality({y \in S : y < x}) = i - 1
    BY <1>3, Zenon
  <2>3. q[i] \in S /\ Cardinality({y \in S : y < q[i]}) = i - 1
    BY <2>1, <2>2, Zenon
  <2> QED BY <1>5, <2>3
<1>8. /\ q \in Seq(S) /\ ToSet(q) = S
      /\ \A i, j \in 1 .. Len(q) : i < j => q[i] < q[j]
  <2>1. /\ q \in Seq(S) /\ ToSet(q) = S
        /\ \A i, j \in 1 .. Len(q) : i < j => <<q[i], q[j]>> \in R
    <3> HIDE DEF R
    <3> QED BY <1>1, <1>4, <1>6, <1>7, Sorts
  <2> QED BY <2>1 DEF NumberPairs
<1>9. DOMAIN q = 1 .. Len(q) /\ Len(q) \in Nat /\ \A k \in 1 .. Len(q) : q[k] \in S
  BY ONLY <1>8
<1>10. \A i \in S : i \in 1 .. Len(files) /\ files[i] \in FileSet(W)
  BY <1>2
<1>11. o \in Seq(FileSet(W)) /\ Len(o) = Len(q) /\ DOMAIN o = 1 .. Len(q)
  <2>1. o \in [1 .. Len(q) -> FileSet(W)]
    BY <1>9, <1>10
  <2> HIDE DEF o
  <2> QED BY ONLY <1>9, <2>1
<1>12. \A k \in 1 .. Len(q) : o[k] = files[q[k]]
  BY <1>9
<1>13. ToSet(o) = {files[i] : i \in S}
  <2> HIDE DEF o
  <2>1. ToSet(o) = {o[k] : k \in 1 .. Len(q)}
    BY <1>11 DEF ToSet
  <2>2. ToSet(q) = {q[k] : k \in 1 .. Len(q)}
    BY <1>9 DEF ToSet
  <2>3. \A i : i \in S <=> \E k \in 1 .. Len(q) : i = q[k]
    BY ONLY <1>8, <2>2
  <2> QED BY ONLY <1>12, <2>1, <2>3
<1>14. ToSet(o) = {f \in ToSet(files) : f.largest.user >= lo /\ f.smallest.user <= hi}
  <2>1. ToSet(files) = {files[i] : i \in 1 .. Len(files)}
    BY DEF ToSet
  <2> HIDE DEF o
  <2> QED BY <1>2, <1>13, <2>1
<1>15. ASSUME NEW m \in 1 .. Len(o), NEW k \in 1 .. Len(o), m < k
       PROVE  \E i, j \in 1 .. Len(files) : i < j /\ files[i] = o[m] /\ files[j] = o[k]
  <2>1. q[m] < q[k] /\ q[m] \in S /\ q[k] \in S /\ o[m] = files[q[m]] /\ o[k] = files[q[k]]
    BY <1>8, <1>9, <1>11, <1>12, <1>15
  <2> HIDE DEF o
  <2> QED BY <1>10, <2>1
<1> HIDE DEF o
<1>16. Sub(o, files)
  BY <1>15 DEF Sub
<1> QED BY ONLY <1>0, <1>11, <1>14, <1>16
-----------------------------------------------------------------------------
(* Sizes *)

\* TotalFileSize adds up one file after the other.
Adds(sum, files) ==
  \A i \in 0 .. Len(files) : sum[i] = IF i = 0 THEN 0 ELSE sum[i - 1] + Cardinality(files[i].keys)

LEMMA TotalTurns ==
  ASSUME NEW files, Len(files) \in Nat, \A i \in 1 .. Len(files) : Cardinality(files[i].keys) \in Nat
  PROVE  \E sum : TotalFileSize(files) = sum[Len(files)] /\ Adds(sum, files)
<1> DEFINE n == Len(files)
           size(i) == Cardinality(files[i].keys)
           G == [i \in 1 .. n |-> [x \in Nat |-> x + size(i)]]
           Is(F) == F = [i \in 0 .. n |-> IF i = 0 THEN 0 ELSE F[i - 1] + size(i)]
           sum == CHOOSE F : Is(F)
<1>1. n \in Nat /\ \A i \in 1 .. n : size(i) \in Nat
  OBVIOUS
<1>2. TotalFileSize(files) = sum[n]
  BY DEF TotalFileSize
<1> HIDE DEF n, size
<1>3. \E F : Is(F)
  <2>1. G \in [1 .. n -> [Nat -> Nat]]
    BY <1>1
  <2>2. PICK F \in [0 .. n -> Nat] : Steps(F, n, 0, G)
    <3> HIDE DEF G
    <3>1. n \in Nat /\ 0 \in Nat
      BY <1>1
    <3> QED BY <2>1, <3>1, Recursion
  <2>3. ASSUME NEW i \in 1 .. n PROVE F[i] = F[i - 1] + size(i)
    <3>1. i - 1 \in 0 .. n
      BY <1>1
    <3>2. F[i - 1] \in Nat
      BY <3>1
    <3> QED BY <2>2, <3>2 DEF Steps
  <2>4. Is(F)
    <3>1. F = [i \in 0 .. n |-> F[i]]
      OBVIOUS
    <3>2. \A i \in 0 .. n : F[i] = IF i = 0 THEN 0 ELSE F[i - 1] + size(i)
      BY <1>1, <2>2, <2>3 DEF Steps
    <3> QED BY <3>1, <3>2
  <2> QED BY <2>4, Zenon
<1>4. Is(sum)
  BY <1>3, Zenon
<1> HIDE DEF sum
<1>5. \A i \in 0 .. n : sum[i] = IF i = 0 THEN 0 ELSE sum[i - 1] + size(i)
  BY <1>4
<1> QED BY <1>2, <1>5 DEF Adds, n, size

\* Sizes are numbers, and nothing has size 0.
LEMMA TotalIs ==
  ASSUME NEW files, Len(files) \in Nat, \A i \in 1 .. Len(files) : Cardinality(files[i].keys) \in Nat
  PROVE  TotalFileSize(files) \in Nat /\ (Len(files) = 0 => TotalFileSize(files) = 0)
<1> DEFINE n == Len(files)
           size(i) == Cardinality(files[i].keys)
<1>1. n \in Nat /\ \A i \in 1 .. n : size(i) \in Nat
  OBVIOUS
<1>2. PICK sum : TotalFileSize(files) = sum[n] /\ Adds(sum, files)
  BY TotalTurns
<1>5. \A i \in 0 .. n : sum[i] = IF i = 0 THEN 0 ELSE sum[i - 1] + size(i)
  BY <1>2 DEF Adds
<1> HIDE DEF n, size
<1>6. \A i \in 0 .. n : i \in {j \in 0 .. n : sum[j] \in Nat}
  <2> DEFINE P == {j \in 0 .. n : sum[j] \in Nat}
  <2>1. 0 \in P
    BY <1>1, <1>5
  <2>2. \A i \in 1 .. n : i - 1 \in P => i \in P
    BY <1>1, <1>5
  <2> HIDE DEF P
  <2>3. \A i \in 0 .. n : i \in P
    BY <1>1, <2>1, <2>2, UpTo
  <2> QED BY <2>3 DEF P
<1>7. sum[n] \in Nat /\ (n = 0 => sum[n] = 0)
  BY <1>1, <1>5, <1>6
<1> QED BY <1>2, <1>7 DEF n
-----------------------------------------------------------------------------
(* The binary search *)

\* What the search for a key among n files keeps: what is left is an interval that
\* gets smaller, and the key is beyond the files below it.
Narrowed(files, ikey, n) ==
  {s \in [left : 0 .. n, right : 0 .. n] :
     /\ s.left <= s.right
     /\ \A i \in 1 .. n : i <= s.left => ILess(files[i].largest, ikey)
     /\ s.right < n => ~ILess(files[s.right + 1].largest, ikey)}
Ascending(files) ==
  \A i, j \in 1 .. Len(files) : i < j => ILess(files[i].largest, files[j].largest)

LEMMA HalveNarrows ==
  ASSUME NEW W \in SUBSET IKeys, NEW files \in Seq(FileSet(W)), NEW ikey \in IKeys,
         NEW s \in [left : 0 .. Len(files), right : 0 .. Len(files)], s.left <= s.right
  PROVE  LET t == Halve(files, ikey, s) IN
         /\ t \in [left : 0 .. Len(files), right : 0 .. Len(files)] /\ t.left <= t.right
         /\ t.right - t.left <= s.right - s.left
         /\ s.left < s.right => t.right - t.left < s.right - s.left
         /\ Ascending(files) /\ s \in Narrowed(files, ikey, Len(files)) => t \in Narrowed(files, ikey, Len(files))
<1> DEFINE n == Len(files)
           t == Halve(files, ikey, s)
           mid == (s.left + s.right) \div 2
<1>1. n \in Nat /\ s.left \in 0 .. n /\ s.right \in 0 .. n
  OBVIOUS
<1>2. CASE s.left >= s.right
  <2>1. t = s
    BY <1>2 DEF Halve
  <2> HIDE DEF t, n
  <2> QED BY <1>1, <1>2, <2>1 DEF t, n
<1>3. CASE s.left < s.right
  <2>1. mid \in Nat /\ s.left <= mid /\ mid < s.right /\ mid + 1 \in 1 .. n
    BY <1>1, <1>3
  <2>2. ~(s.left >= s.right)
    BY <1>1, <1>3
  <2>3. t = IF ILess(files[mid + 1].largest, ikey) THEN [s EXCEPT !.left = mid + 1] ELSE [s EXCEPT !.right = mid]
    BY <2>2 DEF Halve
  <2> HIDE DEF t, n, mid
  <2>4. CASE ILess(files[mid + 1].largest, ikey)
    <3>1. t \in [left : 0 .. n, right : 0 .. n] /\ t.left = mid + 1 /\ t.right = s.right
      BY ONLY <1>1, <2>1, <2>3, <2>4, s \in [left : 0 .. n, right : 0 .. n] DEF n
    <3>2. ASSUME Ascending(files), s \in Narrowed(files, ikey, n) PROVE t \in Narrowed(files, ikey, n)
      <4>1. ASSUME NEW i \in 1 .. n, i <= mid + 1 PROVE ILess(files[i].largest, ikey)
        <5>1. CASE i = mid + 1
          BY <2>4, <5>1
        <5>2. CASE i < mid + 1
          <6>1. ILess(files[i].largest, files[mid + 1].largest)
            BY <2>1, <3>2, <5>2 DEF Ascending, n
          <6>2. files[i].largest \in IKeys /\ files[mid + 1].largest \in IKeys
            BY <2>1 DEF n, FileSet
          <6> HIDE DEF ILess
          <6> QED BY <2>4, <6>1, <6>2, KeyLess
        <5> QED BY <2>1, <4>1, <5>1, <5>2
      <4>2. t.left <= t.right
        BY <1>1, <2>1, <3>1
      <4>3. t.right < n => ~ILess(files[t.right + 1].largest, ikey)
        BY <3>1, <3>2 DEF Narrowed
      <4> HIDE DEF ILess
      <4> QED BY <3>1, <4>1, <4>2, <4>3 DEF Narrowed
    <3> QED BY <1>1, <1>3, <2>1, <3>1, <3>2 DEF t, n
  <2>5. CASE ~ILess(files[mid + 1].largest, ikey)
    <3>1. t \in [left : 0 .. n, right : 0 .. n] /\ t.left = s.left /\ t.right = mid
      BY ONLY <1>1, <2>1, <2>3, <2>5, s \in [left : 0 .. n, right : 0 .. n] DEF n
    <3>2. ASSUME s \in Narrowed(files, ikey, n) PROVE t \in Narrowed(files, ikey, n)
      <4>1. \A i \in 1 .. n : i <= t.left => ILess(files[i].largest, ikey)
        BY <3>1, <3>2 DEF Narrowed
      <4> HIDE DEF ILess
      <4> QED BY <2>1, <2>5, <3>1, <4>1 DEF Narrowed
    <3> QED BY <1>1, <1>3, <2>1, <3>1, <3>2 DEF t, n
  <2> QED BY <2>4, <2>5
<1> QED BY <1>1, <1>2, <1>3
\* FindFile finds the first file that does not end before the key.
LEMMA FindFileIs ==
  ASSUME NEW W \in SUBSET IKeys, NEW files \in Seq(FileSet(W)), NEW ikey \in IKeys
  PROVE  /\ FindFile(files, ikey) \in 1 .. Len(files) + 1
         /\ Ascending(files) =>
              /\ \A i \in 1 .. Len(files) : i < FindFile(files, ikey) => ILess(files[i].largest, ikey)
              /\ FindFile(files, ikey) <= Len(files) => ~ILess(files[FindFile(files, ikey)].largest, ikey)
<1> DEFINE n == Len(files)
           S == {s \in [left : 0 .. n, right : 0 .. n] : s.left <= s.right}
           start == [left |-> 0, right |-> n]
           G == [i \in 1 .. n |-> [s \in S |-> Halve(files, ikey, s)]]
           Is(F) == F = [i \in 0 .. n |-> IF i = 0 THEN start ELSE Halve(files, ikey, F[i - 1])]
           after == CHOOSE F : Is(F)
<1>1. n \in Nat
  OBVIOUS
<1>2. FindFile(files, ikey) = after[n].right + 1
  BY DEF FindFile
<1>3. ASSUME NEW s \in S
      PROVE  LET t == Halve(files, ikey, s) IN
             /\ t \in S
             /\ t.right - t.left <= s.right - s.left
             /\ s.left < s.right => t.right - t.left < s.right - s.left
             /\ Ascending(files) /\ s \in Narrowed(files, ikey, n) => t \in Narrowed(files, ikey, n)
  <2>1. s \in [left : 0 .. n, right : 0 .. n] /\ s.left <= s.right
    OBVIOUS
  <2>2. LET t == Halve(files, ikey, s) IN
         /\ t \in [left : 0 .. n, right : 0 .. n] /\ t.left <= t.right
         /\ t.right - t.left <= s.right - s.left
         /\ s.left < s.right => t.right - t.left < s.right - s.left
         /\ Ascending(files) /\ s \in Narrowed(files, ikey, n) => t \in Narrowed(files, ikey, n)
    BY <2>1, HalveNarrows
  <2> QED BY <2>2
<1>4. start \in S
  BY <1>1
<1>5. \A s \in S : s.left \in 0 .. n /\ s.right \in 0 .. n /\ s.left <= s.right
  OBVIOUS
<1>6. start.left = 0 /\ start.right = n /\ start \in Narrowed(files, ikey, n)
  <2>1. start \in [left : 0 .. n, right : 0 .. n] /\ start.left = 0 /\ start.right = n /\ 0 <= n
    BY <1>1
  <2> HIDE DEF start, n
  <2> QED BY <1>1, <2>1 DEF Narrowed
<1> HIDE DEF n, S, start
<1>7. \E F : Is(F)
  <2>1. G \in [1 .. n -> [S -> S]]
    <3>1. \A s \in S : Halve(files, ikey, s) \in S
      BY <1>3
    <3> QED BY <3>1
  <2>2. PICK F \in [0 .. n -> S] : Steps(F, n, start, G)
    <3> HIDE DEF G
    <3> QED BY <1>1, <1>4, <2>1, Recursion
  <2>3. ASSUME NEW i \in 1 .. n PROVE F[i] = Halve(files, ikey, F[i - 1])
    <3>1. i - 1 \in 0 .. n
      BY <1>1
    <3>2. F[i - 1] \in S
      BY <3>1
    <3> QED BY <2>2, <3>2 DEF Steps
  <2>4. Is(F)
    <3>1. F = [i \in 0 .. n |-> F[i]]
      OBVIOUS
    <3>2. \A i \in 0 .. n : F[i] = IF i = 0 THEN start ELSE Halve(files, ikey, F[i - 1])
      BY <1>1, <2>2, <2>3 DEF Steps
    <3> QED BY <3>1, <3>2
  <2> QED BY <2>4, Zenon
<1>8. Is(after)
  BY <1>7, Zenon
<1> HIDE DEF after
<1>9. \A i \in 0 .. n : after[i] = IF i = 0 THEN start ELSE Halve(files, ikey, after[i - 1])
  BY <1>8
<1> DEFINE Good(i) == /\ after[i] \in S
                      /\ after[i].right - after[i].left <= n - i
                      /\ Ascending(files) => after[i] \in Narrowed(files, ikey, n)
           P == {i \in 0 .. n : Good(i)}
<1>10. 0 \in P
  BY <1>1, <1>4, <1>6, <1>9
<1>11. ASSUME NEW i \in 1 .. n, i - 1 \in P PROVE i \in P
  <2> DEFINE s == after[i - 1]
             t == after[i]
  <2>1. t = Halve(files, ikey, s) /\ i \in 0 .. n
    BY <1>1, <1>9
  <2>2. s \in S /\ s.right - s.left <= n - (i - 1) /\ (Ascending(files) => s \in Narrowed(files, ikey, n))
    BY <1>11
  <2> HIDE DEF s, t
  <2>3. /\ t \in S
        /\ t.right - t.left <= s.right - s.left
        /\ s.left < s.right => t.right - t.left < s.right - s.left
        /\ Ascending(files) => t \in Narrowed(files, ikey, n)
    BY <1>3, <2>1, <2>2
  <2>4. t.right - t.left <= n - i
    <3>1. s.left \in Int /\ s.right \in Int /\ t.left \in Int /\ t.right \in Int /\ s.left <= s.right
      BY <1>5, <2>2, <2>3
    <3>2. n \in Int /\ i \in Int /\ i <= n
      BY <1>1
    <3>3. (t.left <= t.right)
      BY <1>5, <2>3
    <3>4. s.left = s.right => t.right - t.left <= 0
      BY <2>3, <3>1
    <3> QED BY <2>2, <2>3, <3>1, <3>2, <3>4
  <2> QED BY <2>1, <2>3, <2>4 DEF t
<1>12. Good(n)
  <2>1. \A i \in 0 .. n : i \in P
    <3>1. \A i \in 1 .. n : i - 1 \in P => i \in P
      BY <1>11
    <3> HIDE DEF P
    <3> QED BY <1>1, <1>10, <3>1, UpTo
  <2> QED BY <1>1, <2>1
<1> DEFINE e == after[n]
<1>13. e.left = e.right /\ e.right \in 0 .. n /\ (Ascending(files) => e \in Narrowed(files, ikey, n))
  <2>1. e \in S /\ e.right - e.left <= n - n /\ (Ascending(files) => e \in Narrowed(files, ikey, n))
    BY <1>12
  <2> HIDE DEF e
  <2>2. e.left \in 0 .. n /\ e.right \in 0 .. n /\ e.left <= e.right
    BY <1>5, <2>1
  <2> QED BY <1>1, <2>1, <2>2
<1> HIDE DEF e
<1>14. FindFile(files, ikey) = e.right + 1
  BY <1>2 DEF e
<1>15. ASSUME Ascending(files)
       PROVE  /\ \A i \in 1 .. n : i < e.right + 1 => ILess(files[i].largest, ikey)
              /\ e.right + 1 <= n => ~ILess(files[e.right + 1].largest, ikey)
  <2> HIDE DEF ILess
  <2>1. e \in Narrowed(files, ikey, n)
    BY <1>13, <1>15
  <2> QED BY <1>1, <1>13, <2>1 DEF Narrowed
<1> HIDE DEF ILess
<1> QED BY <1>1, <1>13, <1>14, <1>15 DEF n
-----------------------------------------------------------------------------
(* Versions, and the files a read searches *)

Versions(W) == [Levels -> Seq(FileSet(W))]
\* The files of a level, as LevelsDisjoint and Sound have them.
LevelSound(files) == \A i \in 1 .. Len(files) - 1 : files[i].largest.user < files[i + 1].smallest.user

LEMMA LevelSoundMeans ==
  ASSUME NEW W \in SUBSET IKeys, NEW files \in Seq(FileSet(W)), LevelSound(files)
  PROVE  /\ \A i, j \in 1 .. Len(files) : i < j => files[i].largest.user < files[j].smallest.user
         /\ Ascending(files)
<1> DEFINE n == Len(files)
           P(i) == {d \in 0 .. n : i + d + 1 <= n => files[i].largest.user < files[i + d + 1].smallest.user}
<1>1. n \in Nat
  OBVIOUS
<1>2. ASSUME NEW i \in 1 .. n
      PROVE  /\ files[i] \in FileSet(W) /\ files[i].smallest \in IKeys /\ files[i].largest \in IKeys
             /\ files[i].smallest.user \in Nat /\ files[i].largest.user \in Nat
             /\ files[i].smallest.user <= files[i].largest.user
  <2>1. files[i] \in FileSet(W)
    OBVIOUS
  <2>2. files[i].smallest \in IKeys /\ files[i].largest \in IKeys /\ files[i].largest \in files[i].keys
        /\ (files[i].largest = files[i].smallest \/ ILess(files[i].smallest, files[i].largest))
    BY <2>1 DEF FileSet
  <2> QED BY <2>1, <2>2 DEF ILess, IKeys
<1>3. ASSUME NEW i \in 1 .. n PROVE \A d \in 0 .. n : d \in P(i)
  <2>1. 0 \in P(i)
    BY <1>1, <1>2 DEF LevelSound
  <2>2. ASSUME NEW d \in 1 .. n, d - 1 \in P(i) PROVE d \in P(i)
    <3>1. CASE i + d + 1 <= n
      <4>1. i + (d - 1) + 1 = i + d /\ i + d \in 1 .. n /\ i + d \in 1 .. n - 1 /\ i + d + 1 \in 1 .. n
        BY <1>1, <3>1
      <4>2. files[i].largest.user < files[i + d].smallest.user
        BY <2>2, <4>1
      <4>3. files[i + d].largest.user < files[i + d + 1].smallest.user
        BY <4>1 DEF LevelSound
      <4>4. /\ files[i].largest.user \in Nat /\ files[i + d].smallest.user \in Nat
            /\ files[i + d].largest.user \in Nat /\ files[i + d + 1].smallest.user \in Nat
            /\ files[i + d].smallest.user <= files[i + d].largest.user
        BY <1>2, <4>1
      <4>5. files[i].largest.user < files[i + d + 1].smallest.user
        <5> DEFINE a == files[i].largest.user
                   b == files[i + d].smallest.user
                   c == files[i + d].largest.user
                   e == files[i + d + 1].smallest.user
        <5>1. a \in Nat /\ b \in Nat /\ c \in Nat /\ e \in Nat /\ a < b /\ b <= c /\ c < e
          BY <4>2, <4>3, <4>4
        <5> HIDE DEF a, b, c, e
        <5>2. a < e
          BY <5>1
        <5> QED BY <5>2 DEF a, e
      <4> QED BY <4>5
    <3> QED BY <3>1
  <2> HIDE DEF P
  <2>3. \A d \in 1 .. n : d - 1 \in P(i) => d \in P(i)
    BY <2>2
  <2> QED BY <1>1, <2>1, <2>3, UpTo
<1>4. ASSUME NEW i \in 1 .. n, NEW j \in 1 .. n, i < j
      PROVE  files[i].largest.user < files[j].smallest.user
  <2>1. j - i - 1 \in 0 .. n /\ i + (j - i - 1) + 1 = j /\ j <= n
    BY <1>1, <1>4
  <2>2. j - i - 1 \in P(i)
    BY <1>3, <2>1
  <2> QED BY <2>1, <2>2
<1>5. \A i, j \in 1 .. n : i < j => ILess(files[i].largest, files[j].largest)
  <2>1. ASSUME NEW i \in 1 .. n, NEW j \in 1 .. n, i < j PROVE files[i].largest.user < files[j].largest.user
    BY <1>2, <1>4, <2>1
  <2> QED BY <2>1 DEF ILess
<1> QED BY <1>4, <1>5 DEF Ascending

\* The answer q for one level: at most one of its files, and the one that can hold the key.
FoundAt(v, level, user, snapshot, q) ==
  /\ q = << >> \/ \E f \in ToSet(v[level]) : q = <<[level |-> level, file |-> f]>>
  /\ \A f \in ToSet(v[level]) :
       LevelSound(v[level]) /\ (\E k \in f.keys : k.user = user /\ k.seq <= snapshot) =>
         q = <<[level |-> level, file |-> f]>>

\* The file of a level that is searched is the one that can hold what a read looks for.
LEMMA FileAtIs ==
  ASSUME NEW W \in SUBSET IKeys, NEW v \in Versions(W), NEW level \in Levels,
         NEW user \in Nat, NEW snapshot \in Nat
  PROVE  FoundAt(v, level, user, snapshot, FileAt(v, level, user, snapshot))
<1> DEFINE files == v[level]
           ikey == IKey(user, snapshot, FALSE)
           i == FindFile(files, ikey)
           q == FileAt(v, level, user, snapshot)
<1>1. files \in Seq(FileSet(W)) /\ Len(files) \in Nat
  BY DEF Versions
<1>2. ikey \in IKeys /\ ikey.user = user /\ ikey.seq = snapshot
  BY DEF IKey, IKeys
<1>3. q = IF i <= Len(files) /\ user >= files[i].smallest.user
          THEN <<[level |-> level, file |-> files[i]]>> ELSE << >>
  BY DEF FileAt
<1>4. ToSet(files) = {files[j] : j \in 1 .. Len(files)}
  BY <1>1 DEF ToSet
<1> HIDE DEF files, ikey, q
<1>5. /\ i \in 1 .. Len(files) + 1
      /\ Ascending(files) =>
           /\ \A j \in 1 .. Len(files) : j < i => ILess(files[j].largest, ikey)
           /\ i <= Len(files) => ~ILess(files[i].largest, ikey)
  BY <1>1, <1>2, FindFileIs
<1> HIDE DEF i
<1>6. q = << >> \/ \E f \in ToSet(files) : q = <<[level |-> level, file |-> f]>>
  <2>1. CASE i <= Len(files) /\ user >= files[i].smallest.user
    <3>1. i \in 1 .. Len(files)
      BY <1>1, <1>5, <2>1
    <3>2. files[i] \in ToSet(files)
      BY <1>4, <3>1
    <3>3. q = <<[level |-> level, file |-> files[i]]>>
      BY <1>3, <2>1
    <3> QED BY <3>2, <3>3
  <2>2. CASE ~(i <= Len(files) /\ user >= files[i].smallest.user)
    BY <1>3, <2>2
  <2> QED BY <2>1, <2>2
<1>7. ASSUME NEW f \in ToSet(files), LevelSound(files), NEW k \in f.keys, k.user = user, k.seq <= snapshot
      PROVE  q = <<[level |-> level, file |-> f]>>
  <2>1. PICK j \in 1 .. Len(files) : f = files[j]
    BY <1>4
  <2>2. /\ \A j1, j2 \in 1 .. Len(files) : j1 < j2 => files[j1].largest.user < files[j2].smallest.user
        /\ Ascending(files)
    BY <1>1, <1>7, LevelSoundMeans
  <2>3. f \in FileSet(W) /\ k \in IKeys /\ f.largest \in IKeys /\ f.smallest \in IKeys
    BY <1>1, <2>1 DEF FileSet
  <2>4. (k = f.smallest \/ ILess(f.smallest, k)) /\ (k = f.largest \/ ILess(k, f.largest))
    BY <1>7, <2>3 DEF FileSet
  <2>5. /\ user \in Nat /\ f.smallest.user \in Nat /\ f.largest.user \in Nat /\ k.seq \in Nat
        /\ f.largest.seq \in Nat
    BY <2>3 DEF IKeys
  <2>6. f.smallest.user <= user /\ user <= f.largest.user
        /\ (f.largest.user = user => f.largest.seq <= k.seq)
    <3>1. f.smallest.user <= k.user
      BY ONLY <2>4, <2>5, <1>7 DEF ILess
    <3>2. k.user <= f.largest.user /\ (f.largest.user = k.user => f.largest.seq <= k.seq)
      BY ONLY <2>4, <2>5, <1>7 DEF ILess
    <3> QED BY ONLY <1>7, <3>1, <3>2
  <2>7. ~ILess(files[j].largest, ikey)
    BY ONLY <1>2, <1>7, <2>1, <2>5, <2>6, snapshot \in Nat DEF ILess
  <2>8. ~(j < i)
    BY <1>5, <2>2, <2>7
  <2>9. ~(i < j)
    <3>1. SUFFICES ASSUME i < j PROVE FALSE
      OBVIOUS
    <3>2. i \in 1 .. Len(files)
      BY <1>1, <1>5, <3>1
    <3>3. files[i].largest.user < f.smallest.user /\ files[i].largest \in IKeys
      BY <1>1, <2>1, <2>2, <3>1, <3>2 DEF FileSet
    <3>4. files[i].largest.user < user
      BY <2>5, <2>6, <3>3 DEF IKeys
    <3>5. ILess(files[i].largest, ikey)
      BY <1>2, <3>4 DEF ILess
    <3> QED BY <1>5, <2>2, <3>2, <3>5
  <2>10. i = j
    BY <1>1, <1>5, <2>8, <2>9
  <2> QED BY <1>1, <1>3, <2>1, <2>5, <2>6, <2>10
<1>8. FoundAt(v, level, user, snapshot, q)
  BY <1>6, <1>7, Zenon DEF files, FoundAt
<1> QED BY <1>8 DEF q
\* What the search of the levels 1 .. l adds, in order.
FoundIn(W) == [level : Levels, file : FileSet(W)]
Down(v, user, snapshot, l, q) ==
  /\ \A i \in 1 .. Len(q) : q[i].level \in 1 .. l /\ q[i].file \in ToSet(v[q[i].level])
  /\ \A i, j \in 1 .. Len(q) : i < j => q[i].level < q[j].level
  /\ \A m \in 1 .. l : \A e : FileAt(v, m, user, snapshot) = <<e>> => \E i \in 1 .. Len(q) : q[i] = e

LEMMA DownOne ==
  ASSUME NEW W \in SUBSET IKeys, NEW v \in Versions(W), NEW user \in Nat, NEW snapshot \in Nat,
         NEW l \in 1 .. kNumLevels - 1, NEW q \in Seq(FoundIn(W))
  PROVE  /\ q \o FileAt(v, l, user, snapshot) \in Seq(FoundIn(W))
         /\ Down(v, user, snapshot, l - 1, q) => Down(v, user, snapshot, l, q \o FileAt(v, l, user, snapshot))
<1> DEFINE at == FileAt(v, l, user, snapshot)
           r == q \o at
<1>1. l \in Levels /\ kNumLevels \in Nat /\ l \in Nat
  BY VersionAssumption DEF Levels
<1>2. at = << >> \/ \E f \in ToSet(v[l]) : at = <<[level |-> l, file |-> f]>>
  <2>1. FoundAt(v, l, user, snapshot, at)
    BY <1>1, FileAtIs
  <2> HIDE DEF at
  <2> QED BY ONLY <2>1 DEF FoundAt
<1>3. ToSet(v[l]) \subseteq FileSet(W)
  BY <1>1 DEF Versions, ToSet
<1> HIDE DEF at, r
<1>4. CASE at = << >>
  <2>1. r = q
    BY <1>4 DEF r
  <2>2. ASSUME Down(v, user, snapshot, l - 1, q) PROVE Down(v, user, snapshot, l, q)
    <3>1. \A m \in 1 .. l : \A e : FileAt(v, m, user, snapshot) = <<e>> => \E i \in 1 .. Len(q) : q[i] = e
      <4>1. ASSUME NEW m \in 1 .. l, NEW e, FileAt(v, m, user, snapshot) = <<e>>
            PROVE  \E i \in 1 .. Len(q) : q[i] = e
        <5>1. m # l
          <6>1. <<e>> # << >>
            OBVIOUS
          <6> QED BY <1>4, <4>1, <6>1, Zenon DEF at
        <5>2. m \in 1 .. l - 1
          BY <1>1, <5>1
        <5> QED BY <2>2, <4>1, <5>2 DEF Down
      <4> QED BY <4>1
    <3>2. \A i \in 1 .. Len(q) : q[i].level \in 1 .. l /\ q[i].file \in ToSet(v[q[i].level])
      <4>1. 1 .. l - 1 \subseteq 1 .. l
        BY <1>1
      <4> QED BY <2>2, <4>1 DEF Down
    <3> QED BY <2>2, <3>1, <3>2 DEF Down
  <2> QED BY <2>1, <2>2 DEF at, r
<1>5. ASSUME NEW f \in ToSet(v[l]), at = <<[level |-> l, file |-> f]>>
      PROVE  r \in Seq(FoundIn(W)) /\ (Down(v, user, snapshot, l - 1, q) => Down(v, user, snapshot, l, r))
  <2> DEFINE x == [level |-> l, file |-> f]
             n == Len(q)
  <2>1. x \in FoundIn(W) /\ x.level = l /\ x.file = f
    BY <1>1, <1>3 DEF FoundIn
  <2> HIDE DEF x
  <2>2. r = q \o <<x>>
    BY <1>5 DEF r, x
  <2>3. r \in Seq(FoundIn(W)) /\ n \in Nat /\ Len(r) = n + 1 /\ r[n + 1] = x /\ \A i \in 1 .. n : r[i] = q[i]
    BY <2>1, <2>2
  <2>4. ASSUME Down(v, user, snapshot, l - 1, q) PROVE Down(v, user, snapshot, l, r)
    <3>1. \A i \in 1 .. n : q[i].level \in 1 .. l - 1 /\ q[i].file \in ToSet(v[q[i].level])
      BY <2>4 DEF Down
    <3>2. ASSUME NEW i \in 1 .. n + 1 PROVE r[i].level \in 1 .. l /\ r[i].file \in ToSet(v[r[i].level])
      <4>1. CASE i = n + 1
        BY <1>1, <1>5, <2>1, <2>3, <4>1
      <4>2. CASE i # n + 1
        <5>1. i \in 1 .. n
          BY <2>3, <4>2
        <5>2. r[i] = q[i] /\ q[i].level \in 1 .. l - 1 /\ q[i].file \in ToSet(v[q[i].level])
          BY <2>3, <3>1, <5>1
        <5>3. 1 .. l - 1 \subseteq 1 .. l
          BY <1>1
        <5> QED BY <5>2, <5>3
      <4> QED BY <4>1, <4>2
    <3>3. ASSUME NEW i \in 1 .. n + 1, NEW j \in 1 .. n + 1, i < j PROVE r[i].level < r[j].level
      <4>1. i \in 1 .. n /\ r[i] = q[i] /\ q[i].level \in 1 .. l - 1
        BY <2>3, <3>1, <3>3
      <4>2. CASE j = n + 1
        BY <1>1, <2>1, <2>3, <4>1, <4>2
      <4>3. CASE j # n + 1
        <5>1. j \in 1 .. n /\ r[j] = q[j]
          BY <2>3, <4>3
        <5> QED BY <2>4, <3>3, <4>1, <5>1 DEF Down
      <4> QED BY <4>2, <4>3
    <3>4. ASSUME NEW m \in 1 .. l, NEW e, FileAt(v, m, user, snapshot) = <<e>>
          PROVE  \E i \in 1 .. n + 1 : r[i] = e
      <4>1. CASE m = l
        <5>1. <<e>> = <<x>>
          BY <1>5, <3>4, <4>1 DEF at, x
        <5>2. e = x
          BY <5>1
        <5> QED BY <2>3, <5>2
      <4>2. CASE m # l
        <5>1. m \in 1 .. l - 1
          BY <1>1, <4>2
        <5>2. PICK i \in 1 .. n : q[i] = e
          BY <2>4, <3>4, <5>1 DEF Down
        <5> QED BY <2>3, <5>2
      <4> QED BY <4>1, <4>2
    <3> QED BY <2>3, <3>2, <3>3, <3>4 DEF Down
  <2> QED BY <2>3, <2>4
<1> QED BY <1>2, <1>4, <1>5 DEF at, r

LEMMA SearchedIs ==
  ASSUME NEW W \in SUBSET IKeys, NEW v \in Versions(W), NEW user \in Nat, NEW snapshot \in Nat,
         NEW level0 \in Seq(FileSet(W))
  PROVE  \E q \in Seq(FoundIn(W)) :
           /\ Down(v, user, snapshot, kNumLevels - 1, q)
           /\ Searched(v, user, snapshot, level0) =
                [i \in DOMAIN level0 |-> [level |-> 0, file |-> level0[i]]] \o q
<1> DEFINE n == kNumLevels - 1
           S == Seq(FoundIn(W))
           Step(q, l) == q \o FileAt(v, l, user, snapshot)
           G == [l \in 1 .. n |-> [q \in S |-> Step(q, l)]]
           Is(F) == F = [l \in Levels |-> IF l = 0 THEN << >> ELSE Step(F[l - 1], l)]
           below == CHOOSE F : Is(F)
<1>1. n \in Nat /\ Levels = 0 .. n /\ n > 0
  BY VersionAssumption DEF Levels
<1>2. Searched(v, user, snapshot, level0) =
        [i \in DOMAIN level0 |-> [level |-> 0, file |-> level0[i]]] \o below[n]
  BY DEF Searched
<1>3. ASSUME NEW l \in 1 .. n, NEW q \in S
      PROVE  Step(q, l) \in S /\ (Down(v, user, snapshot, l - 1, q) => Down(v, user, snapshot, l, Step(q, l)))
  BY DownOne
<1>4. << >> \in S /\ Down(v, user, snapshot, 0, << >>)
  <2>1. << >> \in S /\ Len(<< >>) = 0
    OBVIOUS
  <2> QED BY <2>1 DEF Down
<1> HIDE DEF n, S, Step
<1>5. \E F : Is(F)
  <2>1. G \in [1 .. n -> [S -> S]]
    BY <1>3
  <2>2. PICK F \in [0 .. n -> S] : Steps(F, n, << >>, G)
    <3> HIDE DEF G
    <3> QED BY <1>1, <1>4, <2>1, Recursion
  <2>3. ASSUME NEW l \in 1 .. n PROVE F[l] = Step(F[l - 1], l)
    <3>1. l - 1 \in 0 .. n
      BY <1>1
    <3>2. F[l - 1] \in S
      BY <3>1
    <3> QED BY <2>2, <3>2 DEF Steps
  <2>4. Is(F)
    <3>1. F = [i \in 0 .. n |-> F[i]]
      OBVIOUS
    <3>2. \A i \in 0 .. n : F[i] = IF i = 0 THEN << >> ELSE Step(F[i - 1], i)
      BY <1>1, <2>2, <2>3 DEF Steps
    <3> QED BY <1>1, <3>1, <3>2
  <2> QED BY <2>4, Zenon
<1>6. Is(below)
  BY <1>5, Zenon
<1> HIDE DEF below
<1>7. \A l \in 0 .. n : below[l] = IF l = 0 THEN << >> ELSE Step(below[l - 1], l)
  BY <1>1, <1>6
<1> DEFINE Good(l) == below[l] \in S /\ Down(v, user, snapshot, l, below[l])
           P == {l \in 0 .. n : Good(l)}
<1>8. 0 \in P
  <2>1. below[0] = << >>
    BY <1>1, <1>7
  <2> QED BY <1>1, <1>4, <2>1
<1>9. ASSUME NEW l \in 1 .. n, l - 1 \in P PROVE l \in P
  <2>1. below[l] = Step(below[l - 1], l) /\ l \in 0 .. n
    BY <1>1, <1>7
  <2> QED BY <1>3, <1>9, <2>1
<1>10. Good(n)
  <2>1. \A i \in 0 .. n : i \in P
    <3>1. \A i \in 1 .. n : i - 1 \in P => i \in P
      BY <1>9
    <3> HIDE DEF P
    <3> QED BY <1>1, <1>8, <3>1, UpTo
  <2> QED BY <1>1, <2>1
<1> QED BY <1>2, <1>10 DEF n, S

\* The list q of files a read searches: the newer ones first, none left out that can
\* hold the key.
SearchOf(W, v, user, snapshot, q) ==
  /\ q \in Seq(FoundIn(W))
  /\ \A i \in 1 .. Len(q) : q[i].file \in ToSet(v[q[i].level])
  /\ \A i, j \in 1 .. Len(q) : i < j =>
       \/ q[i].level < q[j].level
       \/ q[i].level = 0 /\ q[j].level = 0 /\ q[i].file.num > q[j].file.num
  /\ \A f \in InRange(v, user) : \E i \in 1 .. Len(q) : q[i] = [level |-> 0, file |-> f]
  /\ \A m \in 1 .. kNumLevels - 1 : \A e : FileAt(v, m, user, snapshot) = <<e>> =>
       \E i \in 1 .. Len(q) : q[i] = e

\* A read searches files of the version, the newer ones first, and leaves out none that
\* can hold what it looks for.
LEMMA SearchIs ==
  ASSUME NEW W \in SUBSET IKeys, Distinct(W), NEW v \in Versions(W), Numbered(ToSet(v[0])),
         NEW user \in Nat, NEW snapshot \in Nat
  PROVE  SearchOf(W, v, user, snapshot, ForEachOverlapping(v, user, snapshot))
<1> DEFINE S == InRange(v, user)
           top == NewestFirst(S)
           z == [i \in DOMAIN top |-> [level |-> 0, file |-> top[i]]]
           q == ForEachOverlapping(v, user, snapshot)
<1>1. 0 \in Levels /\ v[0] \in Seq(FileSet(W)) /\ kNumLevels \in Nat /\ kNumLevels > 1
  BY VersionAssumption DEF Levels, Versions
<1>2. S \in SUBSET FileSet(W) /\ S \subseteq ToSet(v[0]) /\ Numbered(S) /\ IsFiniteSet(S)
  <2>1. ToSet(v[0]) \subseteq FileSet(W)
    BY <1>1 DEF ToSet
  <2>2. IsFiniteSet(ToSet(v[0]))
    BY <1>1, Elements
  <2>3. S \subseteq ToSet(v[0])
    BY DEF InRange
  <2>4. IsFiniteSet(S)
    BY <2>2, <2>3, FS_Subset
  <2>5. Numbered(S)
    BY <2>3 DEF Numbered
  <2> QED BY <2>1, <2>3, <2>4, <2>5
<1> HIDE DEF S, top
<1>3. /\ top \in Seq(S) /\ ToSet(top) = S
      /\ \A i, j \in 1 .. Len(top) : i < j => top[i].num > top[j].num
  BY <1>2, NewestFirstIs DEF top
<1>4. top \in Seq(FileSet(W)) /\ DOMAIN top = 1 .. Len(top) /\ Len(top) \in Nat
  BY <1>2, <1>3
<1>5. PICK r \in Seq(FoundIn(W)) : Down(v, user, snapshot, kNumLevels - 1, r) /\ q = z \o r
  BY <1>4, SearchedIs DEF ForEachOverlapping, top, S
<1> HIDE DEF q
<1>6. z \in Seq(FoundIn(W)) /\ Len(z) = Len(top) /\ \A i \in 1 .. Len(top) : z[i].level = 0 /\ z[i].file = top[i]
  <2>1. \A i \in 1 .. Len(top) : top[i] \in FileSet(W)
    BY <1>4
  <2>2. z \in [1 .. Len(top) -> FoundIn(W)]
    BY <1>1, <1>4, <2>1 DEF FoundIn
  <2>3. \A i \in 1 .. Len(top) : z[i].level = 0 /\ z[i].file = top[i]
    BY <1>4
  <2> HIDE DEF z
  <2>4. z \in Seq(FoundIn(W)) /\ Len(z) = Len(top)
    BY ONLY <1>4, <2>2
  <2> QED BY <2>3, <2>4
<1>7. \A i \in 1 .. Len(top) : top[i] \in ToSet(v[0])
  BY <1>2, <1>3, <1>4
<1> DEFINE n == Len(top)
           k == Len(r)
<1>8. n \in Nat /\ k \in Nat
  BY <1>4, <1>5
<1>9. /\ q \in Seq(FoundIn(W)) /\ Len(q) = n + k
      /\ \A i \in 1 .. n : q[i] = z[i]
      /\ \A i \in 1 .. k : q[n + i] = r[i]
  <2> HIDE DEF z, FoundIn
  <2>1. /\ z \o r \in Seq(FoundIn(W)) /\ Len(z \o r) = Len(z) + Len(r)
        /\ \A i \in 1 .. Len(z) : (z \o r)[i] = z[i]
        /\ \A i \in 1 .. Len(r) : (z \o r)[Len(z) + i] = r[i]
    <3>1. z \in Seq(FoundIn(W)) /\ r \in Seq(FoundIn(W))
      BY <1>6
    <3> QED BY ONLY <3>1, Concat
  <2>2. q = z \o r /\ Len(z) = Len(top)
    BY <1>5, <1>6
  <2> QED BY ONLY <2>1, <2>2 DEF n, k
<1>10. ASSUME NEW i \in 1 .. Len(q)
       PROVE  \/ i \in 1 .. n /\ q[i].level = 0 /\ q[i].file = top[i]
              \/ i - n \in 1 .. k /\ q[i] = r[i - n] /\ q[i].level \in 1 .. kNumLevels - 1
                 /\ q[i].file \in ToSet(v[q[i].level])
  <2>1. CASE i <= n
    <3>1. i \in 1 .. n
      BY <1>8, <2>1
    <3> QED BY <1>6, <1>9, <3>1
  <2>2. CASE i > n
    <3>1. i - n \in 1 .. k /\ n + (i - n) = i
      BY <1>8, <1>9, <2>2
    <3>2. q[i] = r[i - n]
      BY <1>9, <3>1
    <3>3. r[i - n].level \in 1 .. kNumLevels - 1 /\ r[i - n].file \in ToSet(v[r[i - n].level])
      BY <1>5, <3>1 DEF Down
    <3> QED BY <3>1, <3>2, <3>3
  <2> QED BY <1>8, <2>1, <2>2
<1> HIDE DEF z, n, k
<1>11. \A i \in 1 .. Len(q) : q[i].file \in ToSet(v[q[i].level])
  <2>1. ASSUME NEW i \in 1 .. Len(q) PROVE q[i].file \in ToSet(v[q[i].level])
    <3>1. CASE i \in 1 .. n /\ q[i].level = 0 /\ q[i].file = top[i]
      BY <1>7, <3>1 DEF n
    <3> QED BY <1>10, <3>1
  <2> QED BY <2>1
<1>12. ASSUME NEW i \in 1 .. Len(q), NEW j \in 1 .. Len(q), i < j
       PROVE  \/ q[i].level < q[j].level
              \/ q[i].level = 0 /\ q[j].level = 0 /\ q[i].file.num > q[j].file.num
  <2>1. CASE i \in 1 .. n /\ j \in 1 .. n
    <3>1. ~(i - n \in 1 .. k) /\ ~(j - n \in 1 .. k)
      BY <1>8, <2>1
    <3>2. q[i].level = 0 /\ q[j].level = 0 /\ q[i].file = top[i] /\ q[j].file = top[j]
      BY <1>10, <3>1
    <3> QED BY <1>3, <1>12, <2>1, <3>2 DEF n
  <2>2. CASE i \in 1 .. n /\ ~(j \in 1 .. n)
    <3>1. ~(i - n \in 1 .. k)
      BY <1>8, <2>2
    <3>2. q[i].level = 0 /\ q[j].level \in 1 .. kNumLevels - 1
      BY <1>10, <2>2, <3>1
    <3> QED BY <1>1, <3>2
  <2>3. CASE ~(i \in 1 .. n)
    <3>1. ~(j \in 1 .. n)
      BY <1>8, <1>9, <1>12, <2>3
    <3>2. i - n \in 1 .. k /\ j - n \in 1 .. k /\ q[i] = r[i - n] /\ q[j] = r[j - n]
      BY <1>10, <2>3, <3>1
    <3>3. i - n < j - n
      BY <1>8, <1>12
    <3>4. r[i - n].level < r[j - n].level
      BY <1>5, <3>2, <3>3 DEF Down, k
    <3> QED BY <3>2, <3>4
  <2> QED BY <2>1, <2>2, <2>3
<1>13. ASSUME NEW f \in S PROVE \E i \in 1 .. Len(q) : q[i] = [level |-> 0, file |-> f]
  <2>1. PICK i \in 1 .. n : top[i] = f
    BY <1>3, <1>4 DEF ToSet, n
  <2>2. q[i] = [level |-> 0, file |-> f] /\ i \in 1 .. Len(q)
    BY <1>4, <1>8, <1>9, <2>1 DEF z, n
  <2> QED BY <2>2
<1>14. ASSUME NEW m \in 1 .. kNumLevels - 1, NEW e, FileAt(v, m, user, snapshot) = <<e>>
       PROVE  \E i \in 1 .. Len(q) : q[i] = e
  <2>1. PICK i \in 1 .. k : r[i] = e
    BY <1>5, <1>14 DEF Down, k
  <2>2. n + i \in 1 .. Len(q) /\ q[n + i] = e
    BY <1>8, <1>9, <2>1
  <2> QED BY <2>2
<1> HIDE DEF FoundIn
<1>15. SearchOf(W, v, user, snapshot, q)
  BY <1>9, <1>11, <1>12, <1>13, <1>14 DEF S, SearchOf
<1> QED BY <1>15 DEF q
-----------------------------------------------------------------------------
(* The files that overlap a range *)

LEMMA MinIs ==
  ASSUME NEW T \in SUBSET Nat, T # {}
  PROVE  Min(T) \in T /\ \A k \in T : Min(T) <= k
<1>1. \E m \in T : \A k \in T : m <= k
  BY LeastNat
<1> QED BY <1>1, Zenon DEF Min

LEMMA MaxIs ==
  ASSUME NEW T \in SUBSET Nat, IsFiniteSet(T), T # {}
  PROVE  Max(T) \in T /\ \A k \in T : Max(T) >= k
<1> DEFINE R == {p \in Nat \X Nat : p[1] > p[2]}
<1>1. Orders(R, T)
  BY DEF Orders
<1>2. PICK m \in T : \A k \in T : k = m \/ <<m, k>> \in R
  <2> HIDE DEF R
  <2> QED BY <1>1, Least
<1>3. ASSUME NEW k \in T PROVE m >= k
  <2>1. m \in Nat /\ k \in Nat
    OBVIOUS
  <2>2. <<m, k>> \in R => m > k
    OBVIOUS
  <2> HIDE DEF R
  <2>3. k = m \/ m > k
    BY <1>2, <2>2
  <2> QED BY <2>1, <2>3
<1> QED BY <1>3, Zenon DEF Max

Hit(f, lo, hi) == f.largest.user >= lo /\ f.smallest.user <= hi
Apart(f, g) == f.largest.user < g.smallest.user \/ g.largest.user < f.smallest.user
Over(files, r) == {f \in ToSet(files) : Hit(f, r[1], r[2])}

LEMMA FileIs ==
  ASSUME NEW W \in SUBSET IKeys, NEW f \in FileSet(W)
  PROVE  /\ f.num \in Nat /\ f.keys \in SUBSET W /\ f.keys # {}
         /\ f.smallest \in W /\ f.largest \in W /\ f.smallest \in IKeys /\ f.largest \in IKeys
         /\ f.smallest \in f.keys /\ f.largest \in f.keys
         /\ f.smallest.user \in Nat /\ f.largest.user \in Nat /\ f.smallest.user <= f.largest.user
         /\ \A k \in f.keys : /\ k \in IKeys /\ k.user \in Nat /\ k.seq \in Nat
                              /\ f.smallest.user <= k.user /\ k.user <= f.largest.user
<1>1. /\ f.num \in Nat /\ f.keys \in SUBSET W /\ f.smallest \in W /\ f.largest \in W
      /\ f.smallest \in f.keys /\ f.largest \in f.keys
      /\ \A k \in f.keys : /\ k = f.smallest \/ ILess(f.smallest, k)
                           /\ k = f.largest \/ ILess(k, f.largest)
  BY DEF FileSet
<1>2. \A k \in f.keys : k \in IKeys /\ k.user \in Nat /\ k.seq \in Nat
  BY <1>1 DEF IKeys
<1>3. \A k \in f.keys : f.smallest.user <= k.user /\ k.user <= f.largest.user
  BY <1>1, <1>2 DEF ILess
<1> QED BY <1>1, <1>2, <1>3

\* A file that overlaps widens the range.
Widened(S, lo, hi, lo1, hi1) ==
  /\ lo1 <= lo /\ hi <= hi1
  /\ \A f \in S : lo1 <= f.smallest.user /\ f.largest.user <= hi1
  /\ (\A f \in S : lo <= f.smallest.user /\ f.largest.user <= hi) => lo1 = lo /\ hi1 = hi
LEMMA WidenIs ==
  ASSUME NEW W \in SUBSET IKeys, NEW files \in Seq(FileSet(W)), NEW lo \in Nat, NEW hi \in Nat
  PROVE  \E lo1, hi1 \in Nat : /\ Widen(files, <<lo, hi>>) = <<lo1, hi1>>
                               /\ Widened(Over(files, <<lo, hi>>), lo, hi, lo1, hi1)
<1> DEFINE S == Over(files, <<lo, hi>>)
           A == {lo} \cup {f.smallest.user : f \in S}
           B == {hi} \cup {f.largest.user : f \in S}
<1>1. ToSet(Overlapping(files, lo, hi)) = S
  BY OverlappingIs DEF Over, Hit
<1>2. Widen(files, <<lo, hi>>) = <<Min(A), Max(B)>>
  BY <1>1, Zenon DEF Widen
<1>3. \A f \in S : f.smallest.user \in Nat /\ f.largest.user \in Nat
  <2>1. ToSet(files) \in SUBSET FileSet(W)
    BY Elements
  <2> QED BY <2>1, FileIs DEF Over
<1>4. A \in SUBSET Nat /\ A # {} /\ B \in SUBSET Nat /\ B # {}
  <2> HIDE DEF S
  <2> QED BY <1>3
<1>5. IsFiniteSet(B)
  <2>1. IsFiniteSet(S)
    <3>1. IsFiniteSet(ToSet(files)) /\ S \in SUBSET ToSet(files)
      BY Elements DEF Over
    <3> QED BY <3>1, FS_Subset
  <2> DEFINE T == {f.largest.user : f \in S}
             g == [f \in S |-> f.largest.user]
  <2> HIDE DEF S
  <2>2. g \in Surjection(S, T)
    BY DEF Surjection
  <2> HIDE DEF g, T
  <2>3. IsFiniteSet(T)
    BY <2>1, <2>2, FS_Surjection
  <2>4. IsFiniteSet({hi})
    BY FS_Singleton
  <2>5. IsFiniteSet({hi} \cup T)
    BY <2>3, <2>4, FS_Union
  <2> QED BY <2>5 DEF T
<1>6. Min(A) \in A /\ \A k \in A : Min(A) <= k
  <2> HIDE DEF A
  <2> QED BY <1>4, MinIs
<1>7. Max(B) \in B /\ \A k \in B : Max(B) >= k
  <2> HIDE DEF B
  <2> QED BY <1>4, <1>5, MaxIs
<1> DEFINE lo1 == Min(A)
           hi1 == Max(B)
<1>8. lo1 \in Nat /\ hi1 \in Nat
  <2> HIDE DEF A, B
  <2> QED BY <1>4, <1>6, <1>7
<1>9. \A k \in A : lo1 <= k
  BY <1>6
<1>10. \A k \in B : k <= hi1
  <2> HIDE DEF B
  <2> QED BY <1>4, <1>7
<1>11. lo1 \in {lo} \cup {f.smallest.user : f \in S} /\ hi1 \in {hi} \cup {f.largest.user : f \in S}
  BY <1>6, <1>7
<1> HIDE DEF lo1, hi1, S
<1>12. lo1 <= lo /\ hi <= hi1 /\ \A f \in S : lo1 <= f.smallest.user /\ f.largest.user <= hi1
  BY <1>9, <1>10
<1>13. (\A f \in S : lo <= f.smallest.user /\ f.largest.user <= hi) => lo1 = lo /\ hi1 = hi
  BY <1>3, <1>8, <1>11, <1>12
<1> QED BY <1>2, <1>8, <1>12, <1>13 DEF lo1, hi1, S, Widened
\* After as many turns as there are files the range no longer grows.
LEMMA WidenedIs ==
  ASSUME NEW W \in SUBSET IKeys, NEW files \in Seq(FileSet(W)), NEW lo \in Nat, NEW hi \in Nat, NEW widen,
         widen = [k \in 0 .. Len(files) |-> IF k = 0 THEN <<lo, hi>> ELSE Widen(files, widen[k - 1])]
  PROVE  LET r == widen[Len(files)] IN
         /\ r[1] \in Nat /\ r[2] \in Nat /\ r[1] <= lo /\ hi <= r[2]
         /\ \A f \in Over(files, r) : r[1] <= f.smallest.user /\ f.largest.user <= r[2]
<1> DEFINE n == Len(files)
           S(r) == Over(files, r)
           In(r) == \A f \in S(r) : r[1] <= f.smallest.user /\ f.largest.user <= r[2]
           Good(k) == /\ widen[k] \in Nat \X Nat /\ widen[k][1] <= lo /\ hi <= widen[k][2]
                      /\ In(widen[k]) \/ Cardinality(S(widen[k])) > k
           P == {k \in 0 .. n : Good(k)}
<1>1. n \in Nat /\ IsFiniteSet(ToSet(files)) /\ Cardinality(ToSet(files)) <= n /\ ToSet(files) \in SUBSET FileSet(W)
  BY Elements
<1>2. \A k \in 0 .. n : widen[k] = IF k = 0 THEN <<lo, hi>> ELSE Widen(files, widen[k - 1])
  BY Zenon
<1>3. ASSUME NEW r PROVE IsFiniteSet(S(r)) /\ Cardinality(S(r)) \in Nat /\ Cardinality(S(r)) <= n
  <2>1. S(r) \in SUBSET ToSet(files)
    BY DEF Over
  <2>2. IsFiniteSet(S(r)) /\ Cardinality(S(r)) <= Cardinality(ToSet(files))
    BY <1>1, <2>1, FS_Subset
  <2>3. Cardinality(S(r)) \in Nat /\ Cardinality(ToSet(files)) \in Nat
    BY <1>1, <2>2, FS_CardinalityType
  <2> HIDE DEF S
  <2> QED BY <1>1, <2>2, <2>3
<1>4. \A f \in ToSet(files) : f.smallest.user \in Nat /\ f.largest.user \in Nat
  BY <1>1, FileIs
<1>5. 0 \in P
  <2>1. widen[0] = <<lo, hi>>
    BY <1>1, <1>2
  <2>2. In(<<lo, hi>>) \/ Cardinality(S(<<lo, hi>>)) > 0
    <3>1. CASE S(<<lo, hi>>) = {}
      <4> HIDE DEF S
      <4> QED BY <3>1
    <3>2. CASE S(<<lo, hi>>) # {}
      <4> HIDE DEF S
      <4>1. Cardinality(S(<<lo, hi>>)) # 0
        BY <1>3, <3>2, FS_EmptySet
      <4> QED BY <1>3, <4>1
    <3> QED BY <3>1, <3>2
  <2> HIDE DEF S
  <2> QED BY <1>1, <2>1, <2>2
<1> HIDE DEF n
<1>6. ASSUME NEW k \in 1 .. n, k - 1 \in P PROVE k \in P
  <2> DEFINE r == widen[k - 1]
             t == widen[k]
  <2>1. t = Widen(files, r) /\ k \in 0 .. n
    <3>1. k \in 0 .. n /\ k # 0
      BY <1>1
    <3> QED BY ONLY <1>2, <3>1
  <2>2. r \in Nat \X Nat /\ r[1] <= lo /\ hi <= r[2] /\ (In(r) \/ Cardinality(S(r)) > k - 1)
    BY <1>6
  <2> HIDE DEF r, t
  <2>3. PICK a, b \in Nat : r = <<a, b>>
    BY <2>2
  <2>0. PICK a1, b1 \in Nat : t = <<a1, b1>> /\ Widened(S(r), a, b, a1, b1)
    <3>1. \E lo1, hi1 \in Nat : Widen(files, <<a, b>>) = <<lo1, hi1>>
                              /\ Widened(Over(files, <<a, b>>), a, b, lo1, hi1)
      BY WidenIs
    <3> QED BY <2>1, <2>3, <3>1
  <2>4. /\ t = <<a1, b1>> /\ a1 <= a /\ b <= b1
        /\ \A f \in S(r) : a1 <= f.smallest.user /\ f.largest.user <= b1
        /\ (\A f \in S(r) : a <= f.smallest.user /\ f.largest.user <= b) => a1 = a /\ b1 = b
    <3> HIDE DEF S
    <3> QED BY <2>0 DEF Widened
  <2>5. S(r) \in SUBSET S(t)
    <3>1. ASSUME NEW f \in ToSet(files), Hit(f, a, b) PROVE Hit(f, a1, b1)
      <4>1. f.smallest.user \in Nat /\ f.largest.user \in Nat
        BY <1>4
      <4> QED BY ONLY <2>4, <3>1, <4>1, a \in Nat, b \in Nat, a1 \in Nat, b1 \in Nat DEF Hit
    <3> QED BY <2>3, <2>4, <3>1 DEF Over
  <2>6. t \in Nat \X Nat /\ t[1] <= lo /\ hi <= t[2]
    BY ONLY <2>2, <2>3, <2>4, lo \in Nat, hi \in Nat, a \in Nat, b \in Nat, a1 \in Nat, b1 \in Nat
  <2>7. In(t) \/ Cardinality(S(t)) > k
    <3>1. CASE In(r)
      <4>1. \A f \in S(r) : a <= f.smallest.user /\ f.largest.user <= b
        <5> HIDE DEF S
        <5> QED BY <2>3, <3>1
      <4>2. t = r
        BY <2>3, <2>4, <4>1
      <4> QED BY <3>1, <4>2
    <3>2. CASE S(t) = S(r)
      <4> HIDE DEF S
      <4> QED BY <2>4, <3>2
    <3>3. CASE Cardinality(S(r)) > k - 1 /\ S(t) # S(r)
      <4> HIDE DEF S
      <4>1. Cardinality(S(r)) < Cardinality(S(t))
        <5>1. Cardinality(S(r)) <= Cardinality(S(t)) /\ (Cardinality(S(r)) = Cardinality(S(t)) => S(r) = S(t))
          BY <1>3, <2>5, FS_Subset
        <5> QED BY <1>3, <3>3, <5>1
      <4>2. Cardinality(S(r)) \in Nat /\ Cardinality(S(t)) \in Nat /\ k \in Nat
        BY <1>1, <1>3
      <4> QED BY <3>3, <4>1, <4>2
    <3> QED BY <2>2, <3>1, <3>2, <3>3
  <2> HIDE DEF S
  <2> QED BY <2>1, <2>6, <2>7 DEF t
<1>7. Good(n)
  <2>1. \A k \in 0 .. n : k \in P
    <3>1. \A k \in 1 .. n : k - 1 \in P => k \in P
      BY <1>6
    <3> HIDE DEF P
    <3>2. n \in Nat
      BY <1>1
    <3> QED BY <1>5, <3>1, <3>2, UpTo
  <2>2. n \in P
    <3>1. n \in 0 .. n
      BY <1>1
    <3> HIDE DEF P
    <3> QED BY <2>1, <3>1
  <2> QED BY <2>2
<1> DEFINE e == widen[n]
<1>8. e \in Nat \X Nat /\ e[1] <= lo /\ hi <= e[2] /\ In(e)
  <2>1. ~(Cardinality(S(e)) > n)
    <3>1. Cardinality(S(e)) \in Nat /\ Cardinality(S(e)) <= n
      BY <1>3
    <3> HIDE DEF S, e
    <3> QED BY <1>1, <3>1
  <2> HIDE DEF S
  <2> QED BY <1>7, <2>1
<1> QED BY <1>8 DEF n
\* GetOverlappingInputs takes every file of the level that overlaps the range; and in
\* level 0 no file is left that overlaps one it takes.
Takes(W, files, level, lo, hi, q) ==
  /\ q \in Seq(FileSet(W)) /\ ToSet(q) \subseteq ToSet(files)
  /\ \A f \in ToSet(files) : Hit(f, lo, hi) => f \in ToSet(q)
  /\ level = 0 => \A f \in ToSet(files) \ ToSet(q), g \in ToSet(q) : Apart(f, g)

LEMMA GetOverlappingIs ==
  ASSUME NEW W \in SUBSET IKeys, NEW v \in Versions(W), NEW level \in Levels, NEW lo \in Nat, NEW hi \in Nat
  PROVE  Takes(W, v[level], level, lo, hi, GetOverlappingInputs(v, level, lo, hi))
<1> DEFINE files == v[level]
           n == Len(files)
           S == Nat \X Nat
           start == <<lo, hi>>
           G == [k \in 1 .. n |-> [s \in S |-> Widen(files, s)]]
           Is(F) == F = [k \in 0 .. n |-> IF k = 0 THEN start ELSE Widen(files, F[k - 1])]
           widen == CHOOSE F : Is(F)
           r == IF level = 0 THEN widen[n] ELSE start
           q == GetOverlappingInputs(v, level, lo, hi)
<1>1. files \in Seq(FileSet(W)) /\ n \in Nat /\ ToSet(files) \in SUBSET FileSet(W)
  <2>1. files \in Seq(FileSet(W))
    BY DEF Versions
  <2> HIDE DEF files
  <2> QED BY <2>1, Elements
<1>2. q = Overlapping(files, r[1], r[2])
  BY DEF GetOverlappingInputs
<1> HIDE DEF q, files
<1>3. \E F : Is(F)
  <2>1. \A s \in S : Widen(files, s) \in S
    <3>1. ASSUME NEW a \in Nat, NEW b \in Nat PROVE Widen(files, <<a, b>>) \in S
      BY <1>1, WidenIs
    <3>2. \A s \in S : \E a, b \in Nat : s = <<a, b>>
      OBVIOUS
    <3> HIDE DEF S
    <3> QED BY <3>1, <3>2
  <2>2. start \in S
    OBVIOUS
  <2> HIDE DEF S, start, n
  <2>3. G \in [1 .. n -> [S -> S]]
    BY <2>1
  <2>4. PICK F \in [0 .. n -> S] : Steps(F, n, start, G)
    <3> HIDE DEF G
    <3> QED BY <1>1, <2>2, <2>3, Recursion
  <2>5. ASSUME NEW k \in 1 .. n PROVE F[k] = Widen(files, F[k - 1])
    <3>1. k - 1 \in 0 .. n
      BY <1>1
    <3>2. F[k - 1] \in S
      BY <3>1
    <3> QED BY <2>4, <3>2 DEF Steps
  <2>6. Is(F)
    <3>1. F = [i \in 0 .. n |-> F[i]]
      OBVIOUS
    <3>2. \A i \in 0 .. n : F[i] = IF i = 0 THEN start ELSE Widen(files, F[i - 1])
      BY <1>1, <2>4, <2>5 DEF Steps
    <3> QED BY <3>1, <3>2
  <2> QED BY <2>6, Zenon
<1>4. Is(widen)
  BY <1>3, Zenon
<1> HIDE DEF widen
<1>5. LET e == widen[n] IN
      /\ e[1] \in Nat /\ e[2] \in Nat /\ e[1] <= lo /\ hi <= e[2]
      /\ \A f \in Over(files, e) : e[1] <= f.smallest.user /\ f.largest.user <= e[2]
  BY <1>1, <1>4, WidenedIs
<1>6. /\ r[1] \in Nat /\ r[2] \in Nat /\ r[1] <= lo /\ hi <= r[2]
      /\ level = 0 => \A f \in Over(files, r) : r[1] <= f.smallest.user /\ f.largest.user <= r[2]
      /\ level # 0 => r = <<lo, hi>>
  BY <1>5
<1> HIDE DEF r
<1>7. q \in Seq(FileSet(W)) /\ ToSet(q) = Over(files, r) /\ Sub(q, files)
  <2>1. /\ Overlapping(files, r[1], r[2]) \in Seq(FileSet(W))
        /\ ToSet(Overlapping(files, r[1], r[2])) =
              {f \in ToSet(files) : f.largest.user >= r[1] /\ f.smallest.user <= r[2]}
        /\ Sub(Overlapping(files, r[1], r[2]), files)
    BY <1>1, OverlappingIs
  <2> QED BY <1>2, <2>1, Zenon DEF Over, Hit
<1>8. \A f \in ToSet(files) : f.smallest.user \in Nat /\ f.largest.user \in Nat
  BY <1>1, FileIs
<1>9. \A f \in ToSet(files) : Hit(f, lo, hi) => f \in ToSet(q)
  <2>1. ASSUME NEW f \in ToSet(files), Hit(f, lo, hi) PROVE Hit(f, r[1], r[2])
    BY <1>6, <1>8, <2>1 DEF Hit
  <2> QED BY <1>7, <2>1 DEF Over
<1>11. ASSUME level = 0, NEW f \in ToSet(files) \ ToSet(q), NEW g \in ToSet(q) PROVE Apart(f, g)
  <2>1. r[1] <= g.smallest.user /\ g.largest.user <= r[2] /\ g \in ToSet(files)
    BY <1>6, <1>7, <1>11 DEF Over
  <2>2. ~Hit(f, r[1], r[2])
    BY <1>7 DEF Over
  <2>3. /\ f.smallest.user \in Nat /\ f.largest.user \in Nat
        /\ g.smallest.user \in Nat /\ g.largest.user \in Nat
    BY <1>8, <2>1
  <2> QED BY <1>6, <2>1, <2>2, <2>3 DEF Hit, Apart
<1>12. ToSet(q) \subseteq ToSet(files)
  BY <1>7 DEF Over
<1> QED BY <1>7, <1>9, <1>11, <1>12, Zenon DEF q, files, Takes
-----------------------------------------------------------------------------
(* The inputs of a compaction *)

\* Without assumptions on the range: files of the level, in their order.
LEMMA GetOverlappingIn ==
  ASSUME NEW W, NEW v \in Versions(W), NEW level \in Levels, NEW lo, NEW hi
  PROVE  LET q == GetOverlappingInputs(v, level, lo, hi) IN
         q \in Seq(FileSet(W)) /\ ToSet(q) \subseteq ToSet(v[level]) /\ Sub(q, v[level])
<1>1. v[level] \in Seq(FileSet(W))
  BY DEF Versions
<1>2. ASSUME NEW a, NEW b
      PROVE  LET q == Overlapping(v[level], a, b) IN
             q \in Seq(FileSet(W)) /\ ToSet(q) \subseteq ToSet(v[level]) /\ Sub(q, v[level])
  <2>1. /\ Overlapping(v[level], a, b) \in Seq(FileSet(W))
        /\ ToSet(Overlapping(v[level], a, b)) =
              {f \in ToSet(v[level]) : f.largest.user >= a /\ f.smallest.user <= b}
        /\ Sub(Overlapping(v[level], a, b), v[level])
    BY <1>1, OverlappingIs
  <2> QED BY <2>1
<1> QED BY <1>2 DEF GetOverlappingInputs

LEMMA GetRangeIs ==
  ASSUME NEW W \in SUBSET IKeys, Distinct(W), IsFiniteSet(W), NEW files \in Seq(FileSet(W)), ToSet(files) # {}
  PROVE  LET r == GetRange(files) IN
         /\ r.lo \in W /\ r.hi \in W /\ r.lo.user \in Nat /\ r.hi.user \in Nat
         /\ \A f \in ToSet(files) : r.lo.user <= f.smallest.user /\ f.largest.user <= r.hi.user
         /\ \E f \in ToSet(files) : r.lo = f.smallest
         /\ \E f \in ToSet(files) : r.hi = f.largest
<1> DEFINE T == ToSet(files)
           A == {f.smallest : f \in T}
           B == {f.largest : f \in T}
           r == GetRange(files)
<1>1. T \in SUBSET FileSet(W)
  BY Elements
<1>2. \A f \in T : f.smallest \in W /\ f.largest \in W
  BY <1>1, FileIs
<1>3. r.lo = IMin(A) /\ r.hi = IMax(B)
  BY DEF GetRange
<1> HIDE DEF T, r
<1>4. A \in SUBSET W /\ B \in SUBSET W /\ A # {} /\ B # {}
  BY <1>2 DEF T
<1>5. /\ IMin(A) \in A /\ \A j \in A : j = IMin(A) \/ ILess(IMin(A), j)
      /\ IMax(B) \in B /\ \A j \in B : j = IMax(B) \/ ILess(j, IMax(B))
  <2> HIDE DEF A, B
  <2> QED BY <1>4, IMinIs
<1>6. r.lo \in A /\ \A j \in A : j = r.lo \/ ILess(r.lo, j)
  <2> HIDE DEF A
  <2> QED BY <1>3, <1>5
<1>7. r.hi \in B /\ \A j \in B : j = r.hi \/ ILess(j, r.hi)
  <2> HIDE DEF B
  <2> QED BY <1>3, <1>5
<1>8. r.lo \in W /\ r.hi \in W /\ r.lo.user \in Nat /\ r.hi.user \in Nat
  <2>1. r.lo \in W /\ r.hi \in W
    <3> HIDE DEF A, B
    <3> QED BY <1>4, <1>6, <1>7
  <2> QED BY <2>1 DEF IKeys
<1>9. ASSUME NEW f \in T PROVE r.lo.user <= f.smallest.user /\ f.largest.user <= r.hi.user
  <2>1. f.smallest \in A /\ f.largest \in B /\ f.smallest.user \in Nat /\ f.largest.user \in Nat
    BY <1>2 DEF IKeys
  <2>2. (f.smallest = r.lo \/ ILess(r.lo, f.smallest)) /\ (f.largest = r.hi \/ ILess(f.largest, r.hi))
    <3> HIDE DEF A, B
    <3> QED BY <1>6, <1>7, <2>1
  <2> QED BY ONLY <1>8, <2>1, <2>2 DEF ILess
<1> QED BY <1>6, <1>7, <1>8, <1>9 DEF r, T
\* The files a compaction takes are files of its version.
CompactionOf(W, v, c) ==
  /\ c.level \in 0 .. kNumLevels - 2 /\ c.version = v
  /\ c.inputs[1] \in Seq(FileSet(W)) /\ ToSet(c.inputs[1]) # {} /\ ToSet(c.inputs[1]) \subseteq ToSet(v[c.level])
  /\ c.inputs[2] \in Seq(FileSet(W)) /\ ToSet(c.inputs[2]) \subseteq ToSet(v[c.level + 1])
  /\ c.grandparents \in Seq(FileSet(W))
\* No file that a compaction leaves in the next level overlaps one that it takes from
\* its own, and in level 0 none that it leaves at all.
LeavesApart(files, S, T) == \A f \in ToSet(files) \ S, g \in T : Apart(f, g)
Closed(v, c) ==
  /\ LeavesApart(v[c.level + 1], ToSet(c.inputs[2]), ToSet(c.inputs[1]))
  /\ c.level = 0 => LeavesApart(v[0], ToSet(c.inputs[1]), ToSet(c.inputs[1]))

LEMMA CompactionFields ==
  ASSUME NEW W, NEW v \in Versions(W), NEW level \in 0 .. kNumLevels - 2, NEW in0, NEW in1
  PROVE  LET c == Compaction(v, level, in0, in1) IN
         /\ c.level = level /\ c.inputs[1] = in0 /\ c.inputs[2] = in1 /\ c.version = v
         /\ c.grandparents \in Seq(FileSet(W))
<1> DEFINE c == Compaction(v, level, in0, in1)
           r == GetRange(in0 \o in1)
           gp == GetOverlappingInputs(v, level + 2, r.lo.user, r.hi.user)
<1>1. c.level = level /\ c.inputs = <<in0, in1>> /\ c.version = v
  BY DEF Compaction
<1>2. c.grandparents = IF level + 2 < kNumLevels THEN gp ELSE << >>
  BY DEF Compaction, Within
<1>3. level + 2 < kNumLevels => gp \in Seq(FileSet(W))
  <2>1. SUFFICES ASSUME level + 2 < kNumLevels PROVE gp \in Seq(FileSet(W))
    OBVIOUS
  <2>2. level + 2 \in Levels
    BY <2>1, VersionAssumption DEF Levels
  <2> HIDE DEF r
  <2> QED BY <2>2, GetOverlappingIn
<1> HIDE DEF gp
<1>4. << >> \in Seq(FileSet(W))
  OBVIOUS
<1>5. c.grandparents \in Seq(FileSet(W))
  BY <1>2, <1>3, <1>4
<1> QED BY <1>1, <1>5

LEMMA SetupOtherInputsIs ==
  ASSUME NEW W \in SUBSET IKeys, Distinct(W), IsFiniteSet(W), NEW v \in Versions(W),
         NEW level \in 0 .. kNumLevels - 2, NEW inputs0 \in Seq(FileSet(W)),
         ToSet(inputs0) # {}, ToSet(inputs0) \subseteq ToSet(v[level])
  PROVE  LET c == SetupOtherInputs(v, level, inputs0) IN
         /\ CompactionOf(W, v, c) /\ c.level = level
         /\ (level = 0 => LeavesApart(v[0], ToSet(inputs0), ToSet(inputs0))) => Closed(v, c)
<1> DEFINE Take(l, r) == GetOverlappingInputs(v, l, r.lo.user, r.hi.user)
           inputs1 == Take(level + 1, GetRange(inputs0))
           expanded0 == Take(level, GetRange(inputs0 \o inputs1))
           expanded1 == Take(level + 1, GetRange(expanded0))
           c == SetupOtherInputs(v, level, inputs0)
<1>1. level \in Levels /\ level + 1 \in Levels /\ level + 1 # 0 /\ level \in Nat
  BY VersionAssumption DEF Levels
<1>2. \/ c = Compaction(v, level, inputs0, inputs1)
      \/ c = Compaction(v, level, expanded0, expanded1)
  BY DEF SetupOtherInputs, Within
<1> HIDE DEF c
<1> DEFINE r0 == GetRange(inputs0)
<1>3. /\ r0.lo.user \in Nat /\ r0.hi.user \in Nat
      /\ \A f \in ToSet(inputs0) : r0.lo.user <= f.smallest.user /\ f.largest.user <= r0.hi.user
      /\ \E f \in ToSet(inputs0) : r0.lo = f.smallest
      /\ \E f \in ToSet(inputs0) : r0.hi = f.largest
  BY GetRangeIs
<1>4. Takes(W, v[level + 1], level + 1, r0.lo.user, r0.hi.user, inputs1)
  <2> HIDE DEF r0
  <2>1. Takes(W, v[level + 1], level + 1, r0.lo.user, r0.hi.user, Take(level + 1, r0))
    BY <1>1, <1>3, GetOverlappingIs
  <2> QED BY <2>1 DEF r0
<1> HIDE DEF inputs1
<1> DEFINE r1 == GetRange(inputs0 \o inputs1)
<1>5. inputs0 \o inputs1 \in Seq(FileSet(W)) /\ ToSet(inputs0 \o inputs1) = ToSet(inputs0) \cup ToSet(inputs1)
  BY <1>4, Concat DEF Takes
<1>6. /\ r1.lo.user \in Nat /\ r1.hi.user \in Nat
      /\ \A f \in ToSet(inputs0) : r1.lo.user <= f.smallest.user /\ f.largest.user <= r1.hi.user
  BY <1>5, GetRangeIs
<1>7. Takes(W, v[level], level, r1.lo.user, r1.hi.user, expanded0)
  <2> HIDE DEF r1
  <2>1. Takes(W, v[level], level, r1.lo.user, r1.hi.user, Take(level, r1))
    BY <1>1, <1>6, GetOverlappingIs
  <2> QED BY <2>1 DEF r1
<1> HIDE DEF expanded0
<1>8. \A f \in ToSet(v[level]) \cup ToSet(v[level + 1]) :
         f.smallest.user \in Nat /\ f.largest.user \in Nat /\ f.smallest.user <= f.largest.user
  <2>1. v[level] \in Seq(FileSet(W)) /\ v[level + 1] \in Seq(FileSet(W))
    BY <1>1 DEF Versions
  <2>2. ToSet(v[level]) \in SUBSET FileSet(W) /\ ToSet(v[level + 1]) \in SUBSET FileSet(W)
    BY <2>1, Elements
  <2> QED BY <2>2, FileIs
<1>9. ToSet(inputs0) \subseteq ToSet(expanded0) /\ ToSet(expanded0) # {}
  <2>1. ASSUME NEW f \in ToSet(inputs0) PROVE Hit(f, r1.lo.user, r1.hi.user)
    <3> HIDE DEF r1
    <3>1. f.smallest.user \in Nat /\ f.largest.user \in Nat /\ f.smallest.user <= f.largest.user
      BY <1>8
    <3>2. r1.lo.user <= f.smallest.user /\ f.largest.user <= r1.hi.user
      BY <1>6
    <3> QED BY ONLY <1>6, <3>1, <3>2 DEF Hit
  <2> QED BY <1>7, <2>1 DEF Takes
<1> DEFINE r2 == GetRange(expanded0)
<1>10. /\ r2.lo.user \in Nat /\ r2.hi.user \in Nat
       /\ \A f \in ToSet(expanded0) : r2.lo.user <= f.smallest.user /\ f.largest.user <= r2.hi.user
  BY <1>7, <1>9, GetRangeIs DEF Takes
<1>11. Takes(W, v[level + 1], level + 1, r2.lo.user, r2.hi.user, expanded1)
  <2> HIDE DEF r2
  <2>1. Takes(W, v[level + 1], level + 1, r2.lo.user, r2.hi.user, Take(level + 1, r2))
    BY <1>1, <1>10, GetOverlappingIs
  <2> QED BY <2>1 DEF r2
<1> HIDE DEF expanded1
<1>13. ASSUME NEW r, r.lo.user \in Nat, r.hi.user \in Nat, NEW g \in ToSet(v[level]),
              r.lo.user <= g.smallest.user, g.largest.user <= r.hi.user,
              NEW f \in ToSet(v[level + 1]), ~Apart(f, g)
       PROVE  Hit(f, r.lo.user, r.hi.user)
  <2>1. /\ f.smallest.user \in Nat /\ f.largest.user \in Nat
        /\ g.smallest.user \in Nat /\ g.largest.user \in Nat /\ g.smallest.user <= g.largest.user
    BY <1>8
  <2> DEFINE lo == r.lo.user
             hi == r.hi.user
             fs == f.smallest.user
             fl == f.largest.user
             gs == g.smallest.user
             gl == g.largest.user
  <2>2. lo \in Nat /\ hi \in Nat /\ lo <= gs /\ gl <= hi /\ ~(fl < gs \/ gl < fs)
    BY ONLY <1>13 DEF Apart
  <2>3. fs \in Nat /\ fl \in Nat /\ gs \in Nat /\ gl \in Nat /\ gs <= gl
    BY ONLY <2>1
  <2> HIDE DEF lo, hi, fs, fl, gs, gl
  <2>4. fl >= lo /\ fs <= hi
    BY ONLY <2>2, <2>3
  <2> QED BY ONLY <2>4 DEF Hit, lo, hi, fs, fl
<1>14. CASE c = Compaction(v, level, inputs0, inputs1)
  <2>1. c.level = level /\ c.inputs[1] = inputs0 /\ c.inputs[2] = inputs1 /\ c.version = v
        /\ c.grandparents \in Seq(FileSet(W))
    BY <1>14, CompactionFields
  <2>2. CompactionOf(W, v, c)
    BY <1>4, <2>1 DEF CompactionOf, Takes
  <2>3. LeavesApart(v[level + 1], ToSet(inputs1), ToSet(inputs0))
    <3> HIDE DEF r0
    <3>1. ASSUME NEW f \in ToSet(v[level + 1]), NEW g \in ToSet(inputs0), ~Apart(f, g) PROVE f \in ToSet(inputs1)
      <4>1. r0.lo.user <= g.smallest.user /\ g.largest.user <= r0.hi.user /\ g \in ToSet(v[level])
        BY <1>3
      <4>2. Hit(f, r0.lo.user, r0.hi.user)
        BY <1>3, <1>13, <3>1, <4>1
      <4> QED BY <1>4, <4>2 DEF Takes
    <3> QED BY <3>1 DEF LeavesApart
  <2> QED BY <2>1, <2>2, <2>3, Zenon DEF Closed, c
<1>15. CASE c = Compaction(v, level, expanded0, expanded1)
  <2>1. c.level = level /\ c.inputs[1] = expanded0 /\ c.inputs[2] = expanded1 /\ c.version = v
        /\ c.grandparents \in Seq(FileSet(W))
    BY <1>15, CompactionFields
  <2>2. CompactionOf(W, v, c)
    BY <1>7, <1>9, <1>11, <2>1 DEF CompactionOf, Takes
  <2>3. LeavesApart(v[level + 1], ToSet(expanded1), ToSet(expanded0))
    <3> HIDE DEF r2
    <3>1. ASSUME NEW f \in ToSet(v[level + 1]), NEW g \in ToSet(expanded0), ~Apart(f, g) PROVE f \in ToSet(expanded1)
      <4>1. r2.lo.user <= g.smallest.user /\ g.largest.user <= r2.hi.user /\ g \in ToSet(v[level])
        BY <1>7, <1>10 DEF Takes
      <4>2. Hit(f, r2.lo.user, r2.hi.user)
        BY <1>10, <1>13, <3>1, <4>1
      <4> QED BY <1>11, <4>2 DEF Takes
    <3> QED BY <3>1 DEF LeavesApart
  <2>4. level = 0 => LeavesApart(v[0], ToSet(expanded0), ToSet(expanded0))
    BY <1>7 DEF Takes, LeavesApart
  <2> QED BY <2>1, <2>2, <2>3, <2>4, Zenon DEF Closed, c
<1> QED BY <1>2, <1>14, <1>15
LEMMA MaxBytesIs == \A level \in Levels : MaxBytesForLevel[level] \in Nat /\ MaxBytesForLevel[level] > 0
<1> DEFINE n == kNumLevels - 1
           S == Nat \ {0}
           Step(x, i) == IF i > 1 THEN 10 * x ELSE BaseLevelBytes
           G == [i \in 1 .. n |-> [x \in S |-> Step(x, i)]]
           Is(F) == F = [i \in Levels |-> IF i > 1 THEN 10 * F[i - 1] ELSE BaseLevelBytes]
           m == CHOOSE F : Is(F)
<1>1. n \in Nat /\ Levels = 0 .. n /\ n > 0 /\ BaseLevelBytes \in S
  BY VersionAssumption DEF Levels
<1>2. MaxBytesForLevel = m
  BY DEF MaxBytesForLevel
<1>3. \A x \in S : 10 * x \in S
  OBVIOUS
<1> HIDE DEF n, S
<1>4. \E F : Is(F)
  <2>1. G \in [1 .. n -> [S -> S]]
    BY <1>1, <1>3
  <2>2. PICK F \in [0 .. n -> S] : Steps(F, n, BaseLevelBytes, G)
    <3> HIDE DEF G
    <3> QED BY <1>1, <2>1, Recursion
  <2>3. ASSUME NEW i \in 1 .. n PROVE F[i] = IF i > 1 THEN 10 * F[i - 1] ELSE BaseLevelBytes
    <3>1. i - 1 \in 0 .. n
      BY <1>1
    <3>2. F[i - 1] \in S
      BY <3>1
    <3>3. F[i] = G[i][F[i - 1]]
      BY <2>2 DEF Steps
    <3> QED BY ONLY <3>2, <3>3, i \in 1 .. n DEF Step
  <2>4. Is(F)
    <3>1. F = [i \in 0 .. n |-> F[i]]
      OBVIOUS
    <3>2. F[0] = BaseLevelBytes
      BY <2>2 DEF Steps
    <3>3. \A i \in 0 .. n : F[i] = IF i > 1 THEN 10 * F[i - 1] ELSE BaseLevelBytes
      <4>1. \A i \in 0 .. n : i = 0 \/ i \in 1 .. n
        BY <1>1
      <4> QED BY <2>3, <3>2, <4>1
    <3> QED BY <1>1, <3>1, <3>3
  <2> QED BY <2>4, Zenon
<1>5. Is(m)
  BY <1>4, Zenon
<1> HIDE DEF m
<1>6. \A i \in 0 .. n : m[i] = IF i > 1 THEN 10 * m[i - 1] ELSE BaseLevelBytes
  BY <1>1, <1>5
<1> DEFINE P == {i \in 0 .. n : m[i] \in S}
<1>7. 0 \in P
  BY <1>1, <1>6
<1>8. ASSUME NEW i \in 1 .. n, i - 1 \in P PROVE i \in P
  <2>1. m[i] = IF i > 1 THEN 10 * m[i - 1] ELSE BaseLevelBytes
    BY <1>1, <1>6
  <2>2. i \in 0 .. n /\ m[i - 1] \in S
    BY <1>1, <1>8
  <2> QED BY <1>1, <1>3, <2>1, <2>2
<1>9. \A i \in 0 .. n : i \in P
  <2>1. \A i \in 1 .. n : i - 1 \in P => i \in P
    BY <1>8
  <2> HIDE DEF P
  <2> QED BY <1>1, <1>7, <2>1, UpTo
<1> QED BY <1>1, <1>2, <1>9 DEF S

LEMMA TotalOfFiles ==
  ASSUME NEW W, IsFiniteSet(W), NEW files \in Seq(FileSet(W))
  PROVE  TotalFileSize(files) \in Nat /\ (Len(files) = 0 => TotalFileSize(files) = 0)
<1>1. ASSUME NEW i \in 1 .. Len(files) PROVE Cardinality(files[i].keys) \in Nat
  <2>1. files[i].keys \in SUBSET W
    <3>1. files[i] \in FileSet(W)
      OBVIOUS
    <3> QED BY <3>1 DEF FileSet
  <2> QED BY <2>1, FS_Subset, FS_CardinalityType
<1>2. Len(files) \in Nat
  OBVIOUS
<1> QED BY <1>1, <1>2, TotalIs

\* Finalize picks a level that has a next one; and if a compaction is due it has files.
LEMMA FinalizeIs ==
  ASSUME NEW W, IsFiniteSet(W), NEW v \in Versions(W)
  PROVE  /\ Finalize(v).level \in 0 .. kNumLevels - 2
         /\ Finalize(v).due => Len(v[Finalize(v).level]) > 0
<1> DEFINE n == kNumLevels - 2
           S == 0 .. n
           Better(level, b) == IF Above(Score(v, level), Score(v, b)) THEN level ELSE b
           G == [i \in 1 .. n |-> [b \in S |-> Better(i, b)]]
           Is(F) == F = [i \in 0 .. n |-> IF i = 0 THEN 0 ELSE Better(i, F[i - 1])]
           best == CHOOSE F : Is(F)
           l == best[n]
<1>1. n \in Nat
  BY VersionAssumption
<1>2. Finalize(v).level = l /\ Finalize(v).due = (Score(v, l)[1] >= Score(v, l)[2])
  BY DEF Finalize
<1>3. \A i \in 1 .. n : \A b \in S : Better(i, b) \in S
  OBVIOUS
<1>4. 0 \in S
  BY <1>1
<1> HIDE DEF n, S, Better
<1>5. \E F : Is(F)
  <2>1. G \in [1 .. n -> [S -> S]]
    BY <1>3
  <2>2. PICK F \in [0 .. n -> S] : Steps(F, n, 0, G)
    <3> HIDE DEF G
    <3> QED BY <1>1, <1>4, <2>1, Recursion
  <2>3. ASSUME NEW i \in 1 .. n PROVE F[i] = Better(i, F[i - 1])
    <3>1. i - 1 \in 0 .. n
      BY <1>1
    <3>2. F[i - 1] \in S
      BY <3>1
    <3> QED BY <2>2, <3>2 DEF Steps
  <2>4. Is(F)
    <3>1. F = [i \in 0 .. n |-> F[i]]
      OBVIOUS
    <3>2. \A i \in 0 .. n : F[i] = IF i = 0 THEN 0 ELSE Better(i, F[i - 1])
      BY <1>1, <2>2, <2>3 DEF Steps
    <3> QED BY <3>1, <3>2
  <2> QED BY <2>4, Zenon
<1>6. Is(best)
  BY <1>5, Zenon
<1> HIDE DEF best
<1>7. \A i \in 0 .. n : best[i] = IF i = 0 THEN 0 ELSE Better(i, best[i - 1])
  BY <1>6
<1> DEFINE P == {i \in 0 .. n : best[i] \in S}
<1>8. 0 \in P
  BY <1>1, <1>4, <1>7
<1>9. ASSUME NEW i \in 1 .. n, i - 1 \in P PROVE i \in P
  <2>1. best[i] = Better(i, best[i - 1]) /\ i \in 0 .. n /\ best[i - 1] \in S
    BY <1>1, <1>7, <1>9
  <2> QED BY <1>3, <2>1
<1>10. l \in S
  <2>1. \A i \in 1 .. n : i - 1 \in P => i \in P
    BY <1>9
  <2>2. \A i \in 0 .. n : i \in P
    <3> HIDE DEF P
    <3> QED BY <1>1, <1>8, <2>1, UpTo
  <2> QED BY <1>1, <2>2
<1> HIDE DEF l
<1>11. l \in Levels
  BY <1>1, <1>10, VersionAssumption DEF n, S, Levels
<1>12. ASSUME Score(v, l)[1] >= Score(v, l)[2] PROVE Len(v[l]) > 0
  <2>1. v[l] \in Seq(FileSet(W)) /\ v[0] \in Seq(FileSet(W))
    <3>1. 0 \in Levels
      BY VersionAssumption DEF Levels
    <3> QED BY <1>11, <3>1 DEF Versions
  <2>2. CASE l = 0
    <3>1. Score(v, l) = <<Len(v[0]), kL0_CompactionTrigger>>
      BY <2>2 DEF Score
    <3>2. Len(v[0]) >= kL0_CompactionTrigger /\ Len(v[0]) \in Nat
      BY <1>12, <2>1, <3>1
    <3> QED BY <2>2, <3>2, VersionAssumption
  <2>3. CASE l # 0
    <3>1. Score(v, l) = <<TotalFileSize(v[l]), MaxBytesForLevel[l]>>
      BY <2>3 DEF Score
    <3>2. TotalFileSize(v[l]) >= MaxBytesForLevel[l]
      BY <1>12, <3>1
    <3>3. MaxBytesForLevel[l] \in Nat /\ MaxBytesForLevel[l] > 0
      BY <1>11, MaxBytesIs
    <3>4. TotalFileSize(v[l]) \in Nat /\ (Len(v[l]) = 0 => TotalFileSize(v[l]) = 0)
      BY <2>1, TotalOfFiles
    <3>5. Len(v[l]) # 0 /\ Len(v[l]) \in Nat
      BY <2>1, <3>2, <3>3, <3>4
    <3> QED BY <3>5
  <2> QED BY <2>2, <2>3
<1> QED BY <1>2, <1>10, <1>12 DEF S, n
LEMMA CompactionFromIs ==
  ASSUME NEW W \in SUBSET IKeys, Distinct(W), IsFiniteSet(W), NEW v \in Versions(W),
         NEW level \in 0 .. kNumLevels - 2, NEW first \in ToSet(v[level])
  PROVE  LET c == CompactionFrom(v, level, first) IN
         CompactionOf(W, v, c) /\ c.level = level /\ Closed(v, c)
<1>1. level \in Levels /\ (level = 0 => 0 \in Levels)
  BY VersionAssumption DEF Levels
<1>2. v[level] \in Seq(FileSet(W))
  BY <1>1 DEF Versions
<1>3. first \in FileSet(W)
  BY <1>2, Elements
<1>4. /\ first.smallest.user \in Nat /\ first.largest.user \in Nat
      /\ first.smallest.user <= first.largest.user
  BY <1>3, FileIs
<1> DEFINE q == GetOverlappingInputs(v, 0, first.smallest.user, first.largest.user)
           inputs == IF level = 0 THEN q ELSE <<first>>
<1>5. level = 0 => /\ q \in Seq(FileSet(W)) /\ first \in ToSet(q) /\ ToSet(q) \subseteq ToSet(v[level])
                   /\ LeavesApart(v[0], ToSet(q), ToSet(q))
  <2>1. SUFFICES ASSUME level = 0
                 PROVE  /\ q \in Seq(FileSet(W)) /\ first \in ToSet(q) /\ ToSet(q) \subseteq ToSet(v[0])
                        /\ LeavesApart(v[0], ToSet(q), ToSet(q))
    OBVIOUS
  <2>2. Takes(W, v[0], 0, first.smallest.user, first.largest.user, q)
    BY <1>1, <1>4, <2>1, GetOverlappingIs
  <2>3. Hit(first, first.smallest.user, first.largest.user)
    BY <1>4 DEF Hit
  <2>4. first \in ToSet(v[0])
    BY <2>1
  <2> HIDE DEF q
  <2> QED BY <2>2, <2>3, <2>4 DEF Takes, LeavesApart
<1> HIDE DEF q
<1>6. <<first>> \in Seq(FileSet(W)) /\ ToSet(<<first>>) = {first}
  BY <1>3 DEF ToSet
<1>7. /\ inputs \in Seq(FileSet(W)) /\ ToSet(inputs) # {} /\ ToSet(inputs) \subseteq ToSet(v[level])
      /\ level = 0 => LeavesApart(v[0], ToSet(inputs), ToSet(inputs))
  BY <1>5, <1>6
<1> HIDE DEF inputs
<1>8. LET c == SetupOtherInputs(v, level, inputs) IN
      /\ CompactionOf(W, v, c) /\ c.level = level
      /\ (level = 0 => LeavesApart(v[0], ToSet(inputs), ToSet(inputs))) => Closed(v, c)
  BY <1>7, SetupOtherInputsIs
<1>9. CompactionFrom(v, level, first) = SetupOtherInputs(v, level, inputs)
  BY DEF CompactionFrom, inputs, q
<1> QED BY <1>7, <1>8, <1>9

\* What BackgroundCompaction and CompactRange pick, if anything.
LEMMA PickCompactionIs ==
  ASSUME NEW W \in SUBSET IKeys, Distinct(W), IsFiniteSet(W), NEW v \in Versions(W), NEW pointers, NEW to,
         to # None => to.level \in 0 .. kNumLevels - 2 /\ to.file \in ToSet(v[to.level])
  PROVE  LET c == PickCompaction(v, pointers, to) IN
         c = None \/ (CompactionOf(W, v, c) /\ Closed(v, c))
<1> DEFINE size == Finalize(v)
           files == v[size.level]
           pointer == pointers[size.level]
           I == {k \in 1 .. Len(files) : pointer = None \/ ILess(pointer, files[k].largest)}
           i == IF I # {} THEN Min(I) ELSE 0
           first == FirstBehind(files, pointer)
<1>1. size.level \in 0 .. kNumLevels - 2 /\ (size.due => Len(files) > 0)
  BY FinalizeIs
<1>2. files \in Seq(FileSet(W)) /\ Len(files) \in Nat /\ ToSet(files) = {files[k] : k \in 1 .. Len(files)}
  <2>1. size.level \in Levels
    BY <1>1, VersionAssumption DEF Levels
  <2>2. files \in Seq(FileSet(W))
    BY <2>1 DEF Versions
  <2> HIDE DEF files
  <2> QED BY <2>2, Elements
<1>3. first = IF i = 0 THEN files[1] ELSE files[i]
  BY DEF FirstBehind, SelectInSeq
<1> HIDE DEF size, files, first
<1>4. i \in 0 .. Len(files)
  <2>1. I \in SUBSET Nat /\ \A k \in I : k \in 1 .. Len(files)
    OBVIOUS
  <2> HIDE DEF I
  <2>2. CASE I = {}
    BY <1>2, <2>2
  <2>3. CASE I # {}
    <3>1. Min(I) \in I
      <4>1. I \in SUBSET Nat /\ I # {}
        BY <2>1, <2>3
      <4> QED BY ONLY <4>1, MinIs
    <3>2. Min(I) \in 1 .. Len(files)
      BY <2>1, <3>1
    <3>3. i = Min(I)
      BY <2>3
    <3> HIDE DEF i
    <3> QED BY <1>2, <3>2, <3>3
  <2> QED BY <2>2, <2>3
<1> HIDE DEF i
<1>5. size.due => first \in ToSet(files)
  BY <1>1, <1>2, <1>3, <1>4
<1>6. \/ size.due /\ PickCompaction(v, pointers, to) = CompactionFrom(v, size.level, first)
      \/ to # None /\ PickCompaction(v, pointers, to) = CompactionFrom(v, to.level, to.file)
      \/ PickCompaction(v, pointers, to) = None
  BY DEF PickCompaction, size, first, files
<1>7. CASE size.due /\ PickCompaction(v, pointers, to) = CompactionFrom(v, size.level, first)
  BY <1>1, <1>5, <1>7, CompactionFromIs DEF files
<1>8. CASE to # None /\ PickCompaction(v, pointers, to) = CompactionFrom(v, to.level, to.file)
  BY <1>8, CompactionFromIs
<1> QED BY <1>6, <1>7, <1>8
LEMMA CompactRangeIs ==
  ASSUME NEW W \in SUBSET IKeys, Distinct(W), IsFiniteSet(W), NEW v \in Versions(W),
         NEW level \in 0 .. kNumLevels - 2, NEW lo \in Nat, NEW hi \in Nat
  PROVE  LET c == CompactRange(v, level, lo, hi) IN
         c = None \/ (CompactionOf(W, v, c) /\ Closed(v, c))
<1> DEFINE files == GetOverlappingInputs(v, level, lo, hi)
           full == {i \in DOMAIN files : TotalFileSize(SubSeq(files, 1, i)) >= TargetFileSize}
           inputs == IF level > 0 /\ full # {} THEN SubSeq(files, 1, Min(full)) ELSE files
           c == CompactRange(v, level, lo, hi)
<1>1. c = IF files = << >> THEN None ELSE SetupOtherInputs(v, level, inputs)
  BY DEF CompactRange
<1>2. level \in Levels
  BY VersionAssumption DEF Levels
<1>3. Takes(W, v[level], level, lo, hi, files)
  BY <1>2, GetOverlappingIs
<1>4. full \in SUBSET (1 .. Len(files))
  <2> HIDE DEF files
  <2> QED BY <1>3 DEF Takes
<1> HIDE DEF files, full, c
<1>5. files \in Seq(FileSet(W)) /\ Len(files) \in Nat /\ ToSet(files) = {files[i] : i \in 1 .. Len(files)}
      /\ ToSet(files) \subseteq ToSet(v[level])
  BY <1>3, Elements DEF Takes
<1>6. ASSUME NEW k \in 1 .. Len(files)
      PROVE  /\ SubSeq(files, 1, k) \in Seq(FileSet(W)) /\ ToSet(SubSeq(files, 1, k)) # {}
             /\ ToSet(SubSeq(files, 1, k)) \subseteq ToSet(files)
  <2> DEFINE q == SubSeq(files, 1, k)
  <2>1. q \in Seq(FileSet(W)) /\ Len(q) = k /\ \A i \in 1 .. k : q[i] = files[i]
    BY ONLY <1>5, k \in 1 .. Len(files)
  <2> HIDE DEF q
  <2>2. ToSet(q) = {q[i] : i \in 1 .. k}
    BY <2>1, Elements
  <2>3. 1 \in 1 .. k /\ \A i \in 1 .. k : i \in 1 .. Len(files)
    BY <1>5
  <2> QED BY <1>5, <2>1, <2>2, <2>3 DEF q
<1>7. ASSUME files # << >>
      PROVE  /\ inputs \in Seq(FileSet(W)) /\ ToSet(inputs) # {} /\ ToSet(inputs) \subseteq ToSet(v[level])
             /\ level = 0 => inputs = files
  <2>1. CASE level > 0 /\ full # {}
    <3>1. Min(full) \in full
      <4>1. full \in SUBSET Nat
        BY <1>4
      <4> QED BY ONLY <2>1, <4>1, MinIs
    <3>2. inputs = SubSeq(files, 1, Min(full)) /\ Min(full) \in 1 .. Len(files)
      BY <1>4, <2>1, <3>1
    <3> HIDE DEF inputs
    <3> QED BY <1>5, <1>6, <2>1, <3>2
  <2>2. CASE ~(level > 0 /\ full # {})
    <3>1. inputs = files
      BY <2>2
    <3>2. 1 \in 1 .. Len(files)
      BY <1>5, <1>7
    <3> HIDE DEF inputs
    <3> QED BY <1>5, <3>1, <3>2
  <2> QED BY <2>1, <2>2
<1> HIDE DEF inputs
<1>8. CASE files # << >>
  <2>1. level = 0 => LeavesApart(v[0], ToSet(inputs), ToSet(inputs))
    BY <1>3, <1>7, <1>8 DEF Takes, LeavesApart
  <2> DEFINE d == SetupOtherInputs(v, level, inputs)
  <2>2. CompactionOf(W, v, d) /\ ((level = 0 => LeavesApart(v[0], ToSet(inputs), ToSet(inputs))) => Closed(v, d))
    BY <1>7, <1>8, SetupOtherInputsIs
  <2> QED BY <1>1, <1>8, <2>1, <2>2 DEF c
<1> QED BY <1>1, <1>8 DEF c
-----------------------------------------------------------------------------
(* The file a read charges *)

\* A read that has to go past its first file charges one that has a next level.
Charged(v, seek) == seek # None => seek.level \in 0 .. kNumLevels - 2 /\ seek.file \in ToSet(v[seek.level])

LEMMA FirstOfTwo ==
  ASSUME NEW W \in SUBSET IKeys, Distinct(W), NEW v \in Versions(W), Numbered(ToSet(v[0])),
         NEW user \in Nat, NEW snapshot \in Nat
  PROVE  LET q == ForEachOverlapping(v, user, snapshot) IN
         Len(q) \in Nat /\ DOMAIN q = 1 .. Len(q) /\ (Len(q) >= 2 => Charged(v, q[1]))
<1> DEFINE q == ForEachOverlapping(v, user, snapshot)
<1>0. SearchOf(W, v, user, snapshot, q)
  BY SearchIs
<1> HIDE DEF q
<1>1. q \in Seq(FoundIn(W)) /\ \A i \in 1 .. Len(q) : q[i].file \in ToSet(v[q[i].level])
  BY <1>0 DEF SearchOf
<1>2. \A i, j \in 1 .. Len(q) : i < j =>
        \/ q[i].level < q[j].level
        \/ q[i].level = 0 /\ q[j].level = 0 /\ q[i].file.num > q[j].file.num
  BY <1>0 DEF SearchOf
<1>3. Len(q) \in Nat /\ DOMAIN q = 1 .. Len(q) /\ \A i \in 1 .. Len(q) : q[i] \in FoundIn(W)
  BY <1>1
<1>4. ASSUME Len(q) >= 2
      PROVE  Charged(v, q[1])
  <2>1. 1 \in 1 .. Len(q) /\ 2 \in 1 .. Len(q)
    BY <1>3, <1>4
  <2>2. q[1].level \in Levels /\ q[2].level \in Levels
    BY <1>3, <2>1 DEF FoundIn
  <2>3. q[1].level < q[2].level \/ q[1].level = 0
    BY <1>2, <2>1
  <2>4. q[1].level \in 0 .. kNumLevels - 2
    <3> DEFINE a == q[1].level
               b == q[2].level
    <3>1. a \in Levels /\ b \in Levels /\ (a < b \/ a = 0)
      BY <2>2, <2>3
    <3> HIDE DEF a, b
    <3>2. a \in 0 .. kNumLevels - 2
      BY <3>1, VersionAssumption DEF Levels
    <3> QED BY <3>2 DEF a
  <2> QED BY <1>1, <2>1, <2>4 DEF Charged
<1> QED BY <1>3, <1>4 DEF q

LEMMA SeekIs ==
  ASSUME NEW W \in SUBSET IKeys, Distinct(W), NEW v \in Versions(W), Numbered(ToSet(v[0])),
         NEW user \in Nat, NEW snapshot \in Nat
  PROVE  Charged(v, VersionGet(v, user, snapshot).seek_file) /\ Charged(v, ReadSample(v, user, snapshot))
<1> DEFINE q == ForEachOverlapping(v, user, snapshot)
           seen == [i \in DOMAIN q |-> Visible(q[i].file.keys, user, snapshot)]
           hits == {i \in DOMAIN seen : seen[i] # None}
           read == IF hits = {} THEN Len(q) ELSE Min(hits)
           seek == IF read >= 2 THEN q[1] ELSE None
<1>1. VersionGet(v, user, snapshot).seek_file = seek
  BY DEF VersionGet
<1>2. ReadSample(v, user, snapshot) = IF Len(q) >= 2 THEN q[1] ELSE None
  BY DEF ReadSample
<1>3. hits \subseteq DOMAIN q
  OBVIOUS
<1>4. Len(q) \in Nat /\ DOMAIN q = 1 .. Len(q) /\ (Len(q) >= 2 => Charged(v, q[1]))
  BY FirstOfTwo
<1>5. Charged(v, None)
  BY DEF Charged
<1> HIDE DEF q, hits
<1>6. read \in Nat /\ read <= Len(q)
  <2>1. CASE hits = {}
    BY <1>4, <2>1
  <2>2. CASE hits # {}
    <3>1. hits \in SUBSET Nat
      BY <1>3, <1>4
    <3>2. Min(hits) \in hits
      BY ONLY <2>2, <3>1, MinIs
    <3> QED BY <1>3, <1>4, <2>2, <3>2
  <2> QED BY <2>1, <2>2
<1> HIDE DEF read
<1>7. Charged(v, seek)
  BY <1>4, <1>5, <1>6
<1> QED BY <1>1, <1>2, <1>4, <1>5, <1>7
-----------------------------------------------------------------------------
(* What an edit makes of a version *)

LiveFiles(v) == UNION {ToSet(v[level]) : level \in Levels}
KeysOf(S) == UNION {f.keys : f \in S}
Added(edit) == {e[2] : e \in edit.added}
Kept(v, edit, level) ==
  {f \in ToSet(v[level]) : <<level, f.num>> \notin edit.deleted}
  \cup {e[2] : e \in {e \in edit.added : e[1] = level}}

LEMMA SaveToIs ==
  ASSUME NEW W \in SUBSET IKeys, Distinct(W), NEW v \in Versions(W), NEW edit,
         IsFiniteSet(edit.added), Added(edit) \subseteq FileSet(W), Numbered(LiveFiles(v) \cup Added(edit))
  PROVE  /\ SaveTo(v, edit) \in Versions(W)
         /\ \A level \in Levels : ToSet(SaveTo(v, edit)[level]) = Kept(v, edit, level)
         /\ LiveFiles(SaveTo(v, edit)) \subseteq LiveFiles(v) \cup Added(edit)
<1>1. ASSUME NEW level \in Levels
      PROVE  /\ SortedFiles(Kept(v, edit, level)) \in Seq(FileSet(W))
             /\ ToSet(SortedFiles(Kept(v, edit, level))) = Kept(v, edit, level)
             /\ Kept(v, edit, level) \subseteq LiveFiles(v) \cup Added(edit)
  <2> DEFINE S == Kept(v, edit, level)
             A == {e \in edit.added : e[1] = level}
             B == {f \in ToSet(v[level]) : <<level, f.num>> \notin edit.deleted}
             C == {e[2] : e \in A}
  <2>1. ToSet(v[level]) \in SUBSET FileSet(W) /\ IsFiniteSet(ToSet(v[level]))
    <3>1. v[level] \in Seq(FileSet(W))
      BY DEF Versions
    <3> QED BY <3>1, Elements
  <2>2. S = B \cup C
    BY DEF Kept
  <2>3. B \subseteq ToSet(v[level]) /\ A \subseteq edit.added /\ C \subseteq Added(edit)
    BY DEF Added
  <2>4. IsFiniteSet(B) /\ IsFiniteSet(A)
    BY <2>1, <2>3, FS_Subset
  <2>5. IsFiniteSet(C)
    <3> DEFINE second == [e \in A |-> e[2]]
    <3>1. C = {second[e] : e \in A}
      OBVIOUS
    <3> HIDE DEF A, C
    <3>2. second \in Surjection(A, C)
      BY ONLY <3>1 DEF Surjection
    <3> QED BY ONLY <2>4, <3>2, FS_Surjection
  <2>6. ToSet(v[level]) \subseteq LiveFiles(v)
    BY DEF LiveFiles
  <2> HIDE DEF S, A, B, C
  <2>7. IsFiniteSet(S)
    BY <2>2, <2>4, <2>5, FS_Union
  <2>8. S \subseteq LiveFiles(v) \cup Added(edit) /\ S \subseteq FileSet(W)
    BY <2>1, <2>2, <2>3, <2>6
  <2>9. Numbered(S)
    BY <2>8 DEF Numbered
  <2>10. SortedFiles(S) \in Seq(S) /\ ToSet(SortedFiles(S)) = S
    BY <2>7, <2>8, <2>9, SortedFilesIs
  <2>11. SortedFiles(S) \in Seq(FileSet(W))
    BY ONLY <2>8, <2>10
  <2> QED BY <2>8, <2>10, <2>11 DEF S
<1>2. SaveTo(v, edit) = [level \in Levels |-> SortedFiles(Kept(v, edit, level))]
  BY DEF SaveTo, Kept
<1>3. SaveTo(v, edit) \in Versions(W)
  BY <1>1, <1>2 DEF Versions
<1>4. \A level \in Levels : ToSet(SaveTo(v, edit)[level]) = Kept(v, edit, level)
  BY <1>1, <1>2
<1>5. ASSUME NEW f \in LiveFiles(SaveTo(v, edit))
      PROVE  f \in LiveFiles(v) \cup Added(edit)
  <2>1. PICK level \in Levels : f \in ToSet(SaveTo(v, edit)[level])
    BY DEF LiveFiles
  <2> QED BY <1>1, <1>4, <2>1
<1> QED BY <1>3, <1>4, <1>5
-----------------------------------------------------------------------------
(* The work of a compaction *)

\* The state of the loop: the output files so far are not empty.
Outputs(W) == Seq((SUBSET W) \ {{}})
WorkStates(W, n) ==
  [user : Int, last : Nat, open : SUBSET W, outs : Outputs(W),
   gp : 0 .. n, seen : BOOLEAN, bytes : Nat, stop : BOOLEAN]

LEMMA ShouldStopBeforeIs ==
  ASSUME NEW W, IsFiniteSet(W), NEW c, c.grandparents \in Seq(FileSet(W)),
         NEW s \in WorkStates(W, Len(c.grandparents)), NEW ikey
  PROVE  LET t == ShouldStopBefore(c, s, ikey) IN
         /\ t \in WorkStates(W, Len(c.grandparents))
         /\ t.user = s.user /\ t.last = s.last /\ t.open = s.open /\ t.outs = s.outs
<1> DEFINE files == c.grandparents
           passed == {i \in s.gp + 1 .. Len(files) : \A j \in s.gp + 1 .. i : ILess(files[j].largest, ikey)}
           n == Cardinality(passed)
           more == IF s.seen THEN TotalFileSize(SubSeq(files, s.gp + 1, s.gp + n)) ELSE 0
           bytes == s.bytes + more
           t == ShouldStopBefore(c, s, ikey)
           full == bytes > MaxGrandParentOverlapBytes
           left == IF full THEN 0 ELSE bytes
           gp == s.gp + n
<1>1. t = [s EXCEPT !.gp = @ + n, !.seen = TRUE, !.stop = full, !.bytes = left]
  BY DEF ShouldStopBefore
<1>2. /\ s.user \in Int /\ s.last \in Nat /\ s.open \in SUBSET W /\ s.outs \in Outputs(W)
      /\ s.gp \in 0 .. Len(files) /\ s.bytes \in Nat
      /\ s = [user |-> s.user, last |-> s.last, open |-> s.open, outs |-> s.outs,
              gp |-> s.gp, seen |-> s.seen, bytes |-> s.bytes, stop |-> s.stop]
  BY DEF WorkStates
<1>3. Len(files) \in Nat
  OBVIOUS
<1>4. passed \in SUBSET (s.gp + 1 .. Len(files))
  OBVIOUS
<1>5. n \in Nat /\ gp \in 0 .. Len(files)
  <2> DEFINE a == s.gp
             l == Len(files)
  <2>1. a \in Nat /\ l \in Nat /\ a <= l
    BY <1>2, <1>3
  <2> HIDE DEF a, l, passed
  <2>2. IsFiniteSet(a + 1 .. l) /\ Cardinality(a + 1 .. l) = l - a
    <3>1. a + 1 \in Int /\ l \in Int
      BY <2>1
    <3>2. /\ IsFiniteSet(a + 1 .. l)
          /\ Cardinality(a + 1 .. l) = IF a + 1 > l THEN 0 ELSE l - (a + 1) + 1
      BY ONLY <3>1, FS_Interval
    <3> QED BY <2>1, <3>2
  <2>3. passed \in SUBSET (a + 1 .. l)
    BY <1>4 DEF a, l
  <2>4. IsFiniteSet(passed) /\ n \in Nat /\ n <= l - a
    BY ONLY <2>2, <2>3, FS_Subset, FS_CardinalityType
  <2> HIDE DEF n
  <2> QED BY <2>1, <2>4 DEF a, l
<1> HIDE DEF files, passed, n
<1>6. more \in Nat
  <2>1. CASE s.seen
    <3> DEFINE q == SubSeq(files, s.gp + 1, s.gp + n)
    <3>1. files \in Seq(FileSet(W))
      BY DEF files
    <3>2. s.gp + 1 \in 1 .. Len(files) + 1 /\ s.gp + n \in 0 .. Len(files)
      BY <1>2, <1>3, <1>5
    <3>3. q \in Seq(FileSet(W))
      BY ONLY <3>1, <3>2
    <3> HIDE DEF q
    <3>4. TotalFileSize(q) \in Nat
      BY <3>3, TotalOfFiles
    <3> QED BY <2>1, <3>4 DEF q
  <2>2. CASE ~s.seen
    BY <2>2
  <2> QED BY <2>1, <2>2
<1> HIDE DEF more
<1>7. left \in Nat
  BY <1>2, <1>6
<1> HIDE DEF full, left
<1>8. t = [user |-> s.user, last |-> s.last, open |-> s.open, outs |-> s.outs,
           gp |-> gp, seen |-> TRUE, bytes |-> left, stop |-> full]
  BY ONLY <1>1, <1>2
<1>9. full \in BOOLEAN
  BY DEF full
<1> HIDE DEF t, gp
<1>10. t \in WorkStates(W, Len(files))
  BY ONLY <1>2, <1>5, <1>7, <1>8, <1>9 DEF WorkStates
<1>11. t.user = s.user /\ t.last = s.last /\ t.open = s.open /\ t.outs = s.outs
  BY ONLY <1>8
<1> QED BY <1>10, <1>11 DEF t, files
LEMMA FinishIs ==
  ASSUME NEW W, NEW n \in Nat, NEW s \in WorkStates(W, n)
  PROVE  /\ FinishCompactionOutputFile(s) \in WorkStates(W, n)
         /\ FinishCompactionOutputFile(s).user = s.user /\ FinishCompactionOutputFile(s).last = s.last
         /\ FinishCompactionOutputFile(s).open = {}
         /\ FinishCompactionOutputFile(s).outs = IF s.open = {} THEN s.outs ELSE Append(s.outs, s.open)
<1>1. /\ s.user \in Int /\ s.last \in Nat /\ s.open \in SUBSET W /\ s.outs \in Outputs(W)
      /\ s.gp \in 0 .. n /\ s.seen \in BOOLEAN /\ s.bytes \in Nat /\ s.stop \in BOOLEAN
      /\ s = [user |-> s.user, last |-> s.last, open |-> s.open, outs |-> s.outs,
              gp |-> s.gp, seen |-> s.seen, bytes |-> s.bytes, stop |-> s.stop]
  BY DEF WorkStates
<1>2. CASE s.open = {}
  BY <1>1, <1>2 DEF FinishCompactionOutputFile
<1>3. CASE s.open # {}
  <2> DEFINE t == FinishCompactionOutputFile(s)
             outs == Append(s.outs, s.open)
  <2>1. t = [s EXCEPT !.open = {}, !.outs = Append(@, s.open)]
    BY <1>3 DEF FinishCompactionOutputFile
  <2>2. outs \in Outputs(W)
    <3>1. s.open \in (SUBSET W) \ {{}} /\ s.outs \in Seq((SUBSET W) \ {{}})
      BY <1>1, <1>3 DEF Outputs
    <3> QED BY ONLY <3>1 DEF Outputs
  <2>3. t = [user |-> s.user, last |-> s.last, open |-> {}, outs |-> outs,
             gp |-> s.gp, seen |-> s.seen, bytes |-> s.bytes, stop |-> s.stop]
    BY ONLY <1>1, <2>1
  <2> HIDE DEF t
  <2>4. t \in WorkStates(W, n) /\ t.user = s.user /\ t.last = s.last /\ t.open = {} /\ t.outs = outs
    <3> HIDE DEF outs
    <3> QED BY ONLY <1>1, <2>2, <2>3 DEF WorkStates
  <2> QED BY <1>3, <2>4 DEF t
<1> QED BY <1>2, <1>3

\* The keys in the outputs, the open one included.
Held(s) == s.open \cup UNION ToSet(s.outs)
\* The rules of Drop, for the key before and its number.
Gone(c, user, last, k, smallest_snapshot) ==
  \/ user = k.user /\ last <= smallest_snapshot
  \/ k.del /\ k.seq <= smallest_snapshot /\ IsBaseLevelForKey(c, k.user)

LEMMA FinishHolds ==
  ASSUME NEW W, NEW n \in Nat, NEW s \in WorkStates(W, n)
  PROVE  /\ Held(FinishCompactionOutputFile(s)) = Held(s)
         /\ Held(FinishCompactionOutputFile(s)) = UNION ToSet(FinishCompactionOutputFile(s).outs)
<1> DEFINE t == FinishCompactionOutputFile(s)
<1>1. t.open = {} /\ t.outs = IF s.open = {} THEN s.outs ELSE Append(s.outs, s.open)
  BY FinishIs
<1> HIDE DEF t
<1>2. s.outs \in Seq((SUBSET W) \ {{}}) /\ s.open \in SUBSET W
  BY DEF WorkStates, Outputs
<1>3. ToSet(Append(s.outs, s.open)) = ToSet(s.outs) \cup {s.open}
  <2> DEFINE q == s.outs
             x == s.open
             r == Append(q, x)
             S == SUBSET W
  <2>1. q \in Seq(S) /\ r \in Seq(S)
    <3>1. q \in Seq(S)
      BY ONLY <1>2
    <3>2. x \in S
      BY ONLY <1>2
    <3> HIDE DEF q, x, S
    <3> QED BY ONLY <3>1, <3>2
  <2> HIDE DEF q, x, S
  <2>2. Len(q) \in Nat /\ Len(r) = Len(q) + 1 /\ r[Len(q) + 1] = x /\ \A i \in 1 .. Len(q) : r[i] = q[i]
    BY <2>1
  <2> HIDE DEF r
  <2>3. ToSet(q) = {q[i] : i \in 1 .. Len(q)} /\ ToSet(r) = {r[i] : i \in 1 .. Len(r)}
    BY ONLY <2>1, Elements
  <2>4. \A i : i \in 1 .. Len(r) <=> i \in 1 .. Len(q) \/ i = Len(q) + 1
    BY ONLY <2>2
  <2>5. ToSet(r) = ToSet(q) \cup {x}
    BY ONLY <2>2, <2>3, <2>4
  <2> QED BY <2>5 DEF q, r, x
<1>4. Held(t) = UNION ToSet(t.outs)
  BY <1>1 DEF Held
<1>5. UNION ToSet(t.outs) = Held(s)
  <2>1. CASE s.open = {}
    BY <1>1, <2>1 DEF Held
  <2>2. CASE s.open # {}
    <3>1. ToSet(t.outs) = ToSet(s.outs) \cup {s.open}
      BY <1>1, <1>3, <2>2
    <3> QED BY <3>1 DEF Held
  <2> QED BY <2>1, <2>2
<1> QED BY <1>4, <1>5 DEF t

\* A turn of the loop adds the key to the outputs, or drops it.
LEMMA CompactKeyIs ==
  ASSUME NEW W \in SUBSET IKeys, IsFiniteSet(W), NEW c, c.grandparents \in Seq(FileSet(W)),
         NEW s \in WorkStates(W, Len(c.grandparents)), NEW k \in W, NEW smallest_snapshot
  PROVE  LET t == CompactKey(c, s, k, smallest_snapshot) IN
         /\ t \in WorkStates(W, Len(c.grandparents)) /\ t.user = k.user /\ t.last = k.seq
         /\ Held(t) = IF Gone(c, s.user, s.last, k, smallest_snapshot) THEN Held(s) ELSE Held(s) \cup {k}
<1> DEFINE n == Len(c.grandparents)
           s1 == ShouldStopBefore(c, s, k)
           s2 == CloseIf(s1.stop, s1)
           s3 == IF Drop(c, s2, k, smallest_snapshot) THEN s2 ELSE [s2 EXCEPT !.open = @ \cup {k}]
           s4 == CloseIf(Cardinality(s3.open) >= TargetFileSize, s3)
           t == CompactKey(c, s, k, smallest_snapshot)
           gone == Gone(c, s.user, s.last, k, smallest_snapshot)
<1>1. t = [s4 EXCEPT !.user = k.user, !.last = k.seq]
  BY DEF CompactKey
<1>2. n \in Nat
  OBVIOUS
<1>3. s1 \in WorkStates(W, n) /\ Held(s1) = Held(s) /\ s1.user = s.user /\ s1.last = s.last
  BY ShouldStopBeforeIs DEF Held
<1> HIDE DEF s1, n
<1>4. s2 \in WorkStates(W, n) /\ Held(s2) = Held(s) /\ s2.user = s.user /\ s2.last = s.last
  <2>1. FinishCompactionOutputFile(s1) \in WorkStates(W, n) /\ Held(FinishCompactionOutputFile(s1)) = Held(s1)
        /\ FinishCompactionOutputFile(s1).user = s1.user /\ FinishCompactionOutputFile(s1).last = s1.last
    BY <1>2, <1>3, FinishIs, FinishHolds
  <2> QED BY <1>3, <2>1 DEF CloseIf
<1> HIDE DEF s2
<1>5. Drop(c, s2, k, smallest_snapshot) <=> gone
  BY <1>4 DEF Drop, Drops, Gone
<1>6. s3 \in WorkStates(W, n) /\ Held(s3) = IF gone THEN Held(s) ELSE Held(s) \cup {k}
  <2> DEFINE open == s2.open \cup {k}
             r == [s2 EXCEPT !.open = @ \cup {k}]
  <2>1. /\ s2.user \in Int /\ s2.last \in Nat /\ s2.open \in SUBSET W /\ s2.outs \in Outputs(W)
        /\ s2.gp \in 0 .. n /\ s2.seen \in BOOLEAN /\ s2.bytes \in Nat /\ s2.stop \in BOOLEAN
        /\ s2 = [user |-> s2.user, last |-> s2.last, open |-> s2.open, outs |-> s2.outs,
                 gp |-> s2.gp, seen |-> s2.seen, bytes |-> s2.bytes, stop |-> s2.stop]
    BY <1>4 DEF WorkStates
  <2>2. open \in SUBSET W
    BY <2>1
  <2>3. r = [user |-> s2.user, last |-> s2.last, open |-> open, outs |-> s2.outs,
             gp |-> s2.gp, seen |-> s2.seen, bytes |-> s2.bytes, stop |-> s2.stop]
    <3>1. r = [s2 EXCEPT !.open = open]
      OBVIOUS
    <3> HIDE DEF open, r
    <3> QED BY ONLY <2>1, <3>1
  <2> HIDE DEF open, r
  <2>4. r \in WorkStates(W, n) /\ r.open = open /\ r.outs = s2.outs
    BY ONLY <2>1, <2>2, <2>3 DEF WorkStates
  <2>5. Held(r) = Held(s2) \cup {k}
    BY <2>4 DEF Held, open
  <2>6. s3 = IF gone THEN s2 ELSE r
    BY <1>5 DEF r
  <2> HIDE DEF gone, s3
  <2> QED BY <1>4, <2>4, <2>5, <2>6
<1> HIDE DEF s3, gone
<1>7. s4 \in WorkStates(W, n) /\ Held(s4) = Held(s3)
  <2>1. FinishCompactionOutputFile(s3) \in WorkStates(W, n) /\ Held(FinishCompactionOutputFile(s3)) = Held(s3)
    BY <1>2, <1>6, FinishIs, FinishHolds
  <2>2. s4 = FinishCompactionOutputFile(s3) \/ s4 = s3
    BY DEF CloseIf
  <2> QED BY <1>6, <2>1, <2>2
<1> HIDE DEF s4
<1>8. s4 = [user |-> s4.user, last |-> s4.last, open |-> s4.open, outs |-> s4.outs,
            gp |-> s4.gp, seen |-> s4.seen, bytes |-> s4.bytes, stop |-> s4.stop]
  BY <1>7 DEF WorkStates
<1> DEFINE user == k.user
           last == k.seq
<1> HIDE DEF user, last, t
<1>9. t = [s4 EXCEPT !.user = user, !.last = last]
  BY ONLY <1>1 DEF user, last
<1>10. t = [user |-> user, last |-> last, open |-> s4.open, outs |-> s4.outs,
            gp |-> s4.gp, seen |-> s4.seen, bytes |-> s4.bytes, stop |-> s4.stop]
  BY ONLY <1>8, <1>9
<1>11. /\ s4.open \in SUBSET W /\ s4.outs \in Outputs(W)
       /\ s4.gp \in 0 .. n /\ s4.seen \in BOOLEAN /\ s4.bytes \in Nat /\ s4.stop \in BOOLEAN
  BY <1>7 DEF WorkStates
<1>12. user \in Int /\ last \in Nat
  BY DEF IKeys, user, last
<1>13. t \in WorkStates(W, n) /\ t.user = user /\ t.last = last /\ t.open = s4.open /\ t.outs = s4.outs
  BY ONLY <1>10, <1>11, <1>12 DEF WorkStates
<1>14. Held(t) = Held(s4)
  BY <1>13 DEF Held
<1> QED BY <1>6, <1>7, <1>13, <1>14 DEF t, gone, user, last, n

\* The states of the loop of DoCompactionWork over the keys of the inputs.
InputKeys(c) == UNION {f.keys : f \in ToSet(c.inputs[1] \o c.inputs[2])}
Turns(W, c, smallest_snapshot, E) ==
  LET input == SortedKeys(InputKeys(c))
      n == Len(input)
  IN  /\ input \in Seq(W) /\ InputKeys(c) \in SUBSET W
      /\ \A i \in 0 .. n : E[i] \in WorkStates(W, Len(c.grandparents))
      /\ E[0].user = -1 /\ E[0].open = {} /\ E[0].outs = << >>
      /\ \A i \in 1 .. n : E[i] = CompactKey(c, E[i - 1], input[i], smallest_snapshot)
      /\ DoCompactionWork(c, smallest_snapshot) = FinishCompactionOutputFile(E[n]).outs

LEMMA WorkTurns ==
  ASSUME NEW W \in SUBSET IKeys, Distinct(W), IsFiniteSet(W), NEW v, NEW c, CompactionOf(W, v, c),
         NEW smallest_snapshot
  PROVE  \E E : Turns(W, c, smallest_snapshot, E)
<1> DEFINE start == [user |-> -1, last |-> 0, open |-> {}, outs |-> << >>,
                     gp |-> 0, seen |-> FALSE, bytes |-> 0, stop |-> FALSE]
           keys == InputKeys(c)
           input == SortedKeys(keys)
           n == Len(input)
           S == WorkStates(W, Len(c.grandparents))
           Is(F) == F = [i \in 0 .. n |-> IF i = 0 THEN start
                                 ELSE CompactKey(c, F[i - 1], input[i], smallest_snapshot)]
           G == [i \in 1 .. n |-> [s \in S |-> CompactKey(c, s, input[i], smallest_snapshot)]]
<1>1. DoCompactionWork(c, smallest_snapshot) = FinishCompactionOutputFile((CHOOSE F : Is(F))[n]).outs
  BY DEF DoCompactionWork, InputKeys
<1>2. c.grandparents \in Seq(FileSet(W)) /\ Len(c.grandparents) \in Nat
  BY DEF CompactionOf
<1>3. input \in Seq(W) /\ n \in Nat /\ keys \in SUBSET W
  <2>1. ToSet(c.inputs[1] \o c.inputs[2]) \in SUBSET FileSet(W)
    <3>1. c.inputs[1] \in Seq(FileSet(W)) /\ c.inputs[2] \in Seq(FileSet(W))
      BY DEF CompactionOf
    <3>2. c.inputs[1] \o c.inputs[2] \in Seq(FileSet(W))
      BY ONLY <3>1, Concat
    <3> QED BY ONLY <3>2, Elements
  <2>2. keys \in SUBSET W
    BY <2>1 DEF FileSet, InputKeys
  <2>3. keys \in SUBSET IKeys /\ Distinct(keys) /\ IsFiniteSet(keys)
    <3>1. IsFiniteSet(keys)
      BY <2>2, FS_Subset
    <3> QED BY <2>2, <3>1 DEF Distinct
  <2> HIDE DEF keys
  <2>4. input \in Seq(keys)
    BY ONLY <2>3, SortedKeysIs DEF input
  <2> HIDE DEF input
  <2> QED BY ONLY <2>2, <2>4 DEF n
<1> HIDE DEF input
<1>4. ASSUME NEW i \in 1 .. n, NEW s \in S
      PROVE  CompactKey(c, s, input[i], smallest_snapshot) \in S
  <2>1. input[i] \in W
    BY <1>3
  <2> QED BY <1>2, <2>1, CompactKeyIs
<1>5. start \in S
  <2>1. << >> \in Outputs(W)
    BY DEF Outputs
  <2>2. 0 \in 0 .. Len(c.grandparents)
    BY <1>2
  <2> QED BY ONLY <2>1, <2>2 DEF WorkStates
<1> HIDE DEF n, S, start
<1>6. G \in [1 .. n -> [S -> S]]
  BY <1>4
<1> HIDE DEF G
<1>7. \E F \in [0 .. n -> S] : Steps(F, n, start, G)
  BY ONLY <1>3, <1>5, <1>6, Recursion
<1>8. PICK F \in [0 .. n -> S] : Steps(F, n, start, G)
  BY <1>7
<1>9. F[0] = start /\ \A i \in 1 .. n : F[i] = G[i][F[i - 1]]
  BY <1>8 DEF Steps
<1>10. \A i \in 1 .. n : i \in 0 .. n /\ i - 1 \in 0 .. n /\ i # 0
  BY <1>3
<1>11. \A i \in 1 .. n : F[i] = CompactKey(c, F[i - 1], input[i], smallest_snapshot)
  BY <1>8, <1>9, <1>10 DEF G
<1>12. Is(F)
  <2>1. \A i \in 0 .. n : i = 0 \/ i \in 1 .. n
    BY <1>3
  <2>2. \A i \in 0 .. n : F[i] = IF i = 0 THEN start ELSE CompactKey(c, F[i - 1], input[i], smallest_snapshot)
    BY <1>9, <1>10, <1>11, <2>1
  <2> QED BY <1>8, <2>2
<1> DEFINE E == CHOOSE F1 : Is(F1)
<1>13. Is(E)
  <2> HIDE DEF Is
  <2> QED BY <1>12, Zenon
<1> HIDE DEF E
<1>14. \A i \in 0 .. n : E[i] \in S
  <2> DEFINE P == {i \in 0 .. n : E[i] \in S}
  <2>1. 0 \in P
    BY <1>3, <1>5, <1>13
  <2>2. ASSUME NEW i \in 1 .. n, i - 1 \in P
        PROVE  i \in P
    <3>1. E[i] = CompactKey(c, E[i - 1], input[i], smallest_snapshot)
      BY <1>10, <1>13
    <3>2. E[i - 1] \in S
      BY <2>2
    <3>3. E[i] \in S
      BY <1>4, <3>1, <3>2
    <3> QED BY <1>10, <3>3
  <2> HIDE DEF P
  <2>3. \A i \in 0 .. n : i \in P
    BY ONLY <1>3, <2>1, <2>2, UpTo
  <2> QED BY <2>3 DEF P
<1>15. E[0].user = -1 /\ E[0].open = {} /\ E[0].outs = << >>
  <2>1. 0 \in 0 .. n
    BY <1>3
  <2>2. E[0] = start
    BY <1>13, <2>1
  <2> QED BY <2>2 DEF start
<1>16. \A i \in 1 .. n : E[i] = CompactKey(c, E[i - 1], input[i], smallest_snapshot)
  BY <1>10, <1>13
<1>17. DoCompactionWork(c, smallest_snapshot) = FinishCompactionOutputFile(E[n]).outs
  BY <1>1 DEF E
<1> HIDE DEF Is
<1>18. Turns(W, c, smallest_snapshot, E)
  BY ONLY <1>3, <1>14, <1>15, <1>16, <1>17 DEF Turns, S, n, input
<1> QED BY <1>18

\* DoCompactionWork: the outputs, which are not empty, have keys of the inputs.
LEMMA DoCompactionWorkIs ==
  ASSUME NEW W \in SUBSET IKeys, Distinct(W), IsFiniteSet(W), NEW v, NEW c, CompactionOf(W, v, c),
         NEW smallest_snapshot
  PROVE  DoCompactionWork(c, smallest_snapshot) \in Outputs(W)
<1>1. PICK E : Turns(W, c, smallest_snapshot, E)
  BY WorkTurns
<1> DEFINE n == Len(SortedKeys(InputKeys(c)))
<1>2. n \in Nat /\ n \in 0 .. n
  BY <1>1 DEF Turns
<1>3. E[n] \in WorkStates(W, Len(c.grandparents)) /\ DoCompactionWork(c, smallest_snapshot) = FinishCompactionOutputFile(E[n]).outs
  BY <1>1, <1>2 DEF Turns
<1>4. Len(c.grandparents) \in Nat
  BY DEF CompactionOf
<1> HIDE DEF n
<1>5. FinishCompactionOutputFile(E[n]) \in WorkStates(W, Len(c.grandparents))
  BY <1>3, <1>4, FinishIs
<1> QED BY <1>3, <1>5 DEF WorkStates
LEMMA PickLevelIs ==
  ASSUME NEW v, NEW lo, NEW hi
  PROVE  PickLevelForMemTableOutput(v, lo, hi) \in 0 .. kMaxMemCompactLevel
<1> DEFINE stays(level) == \/ OverlapInLevel(v, level + 1, lo, hi)
                           \/ /\ level + 2 < kNumLevels
                              /\ TotalFileSize(GetOverlappingInputs(v, level + 2, lo, hi)) > MaxGrandParentOverlapBytes
           T == {kMaxMemCompactLevel} \cup {l \in 0 .. kMaxMemCompactLevel - 1 : stays(l)}
<1>1. PickLevelForMemTableOutput(v, lo, hi) = IF OverlapInLevel(v, 0, lo, hi) THEN 0 ELSE Min(T)
  BY DEF PickLevelForMemTableOutput
<1>2. kMaxMemCompactLevel \in Nat
  BY VersionAssumption
<1>3. T \subseteq 0 .. kMaxMemCompactLevel /\ T \in SUBSET Nat /\ T # {}
  <2> HIDE DEF stays
  <2> QED BY <1>2
<1> HIDE DEF T
<1>4. Min(T) \in T
  BY ONLY <1>3, MinIs
<1>5. PickLevelForMemTableOutput(v, lo, hi) = 0 \/ PickLevelForMemTableOutput(v, lo, hi) = Min(T)
  BY <1>1
<1>6. 0 \in 0 .. kMaxMemCompactLevel /\ Min(T) \in 0 .. kMaxMemCompactLevel
  <2>1. 0 \in 0 .. kMaxMemCompactLevel
    BY ONLY <1>2
  <2>2. Min(T) \in 0 .. kMaxMemCompactLevel
    BY ONLY <1>3, <1>4, Zenon
  <2> QED BY ONLY <2>1, <2>2, Zenon
<1> QED BY <1>5, <1>6

-----------------------------------------------------------------------------
(* The inputs of a compaction are live *)

\* What was written: every entry has a sequence number of its own.
KeysInv ==
  /\ last_sequence_ \in Nat
  /\ written \in SUBSET IKeys /\ IsFiniteSet(written) /\ Distinct(written)
  /\ \A k \in written : k.seq <= last_sequence_
  /\ mem_ \subseteq written /\ imm_ \subseteq written
  /\ snapshots_ \in Seq(Nat)
\* The files of the current version, with numbers of their own.
FilesInv ==
  /\ current_ \in Versions(written)
  /\ next_file_number_ \in Nat
  /\ Numbered(LiveFiles(current_))
  /\ \A f \in LiveFiles(current_) : f.num < next_file_number_
\* The compaction that runs, and the one that reads want.
WorkInv ==
  /\ running # None =>
       /\ CompactionOf(written, running.c.version, running.c)
       /\ \A w \in {1, 2} : ToSet(running.c.inputs[w]) \subseteq ToSet(current_[running.c.level + w - 1])
  /\ Charged(current_, file_to_compact_)
LiveInv == KeysInv /\ FilesInv /\ WorkInv

LEMMA LiveInvMeans == LiveInv => InputsLive
<1> SUFFICES ASSUME LiveInv PROVE InputsLive
  OBVIOUS
<1>1. running # None => \A w \in {1, 2} : ToSet(running.c.inputs[w]) \subseteq Files(running.c.level + w - 1)
  BY DEF LiveInv, WorkInv, Files
<1>2. file_to_compact_ # None =>
        file_to_compact_.level < kNumLevels - 1 /\ file_to_compact_.file \in Files(file_to_compact_.level)
  <2> DEFINE l == file_to_compact_.level
  <2>1. file_to_compact_ # None => l \in 0 .. kNumLevels - 2
    BY DEF LiveInv, WorkInv, Charged
  <2> HIDE DEF l
  <2>2. file_to_compact_ # None => l < kNumLevels - 1
    BY <2>1, VersionAssumption
  <2> QED BY <2>2 DEF LiveInv, WorkInv, Charged, Files, l
<1> QED BY <1>1, <1>2 DEF InputsLive

\* More keys do not take anything away.
LEMMA MoreKeys ==
  ASSUME NEW W, NEW W1, W \subseteq W1
  PROVE  /\ FileSet(W) \subseteq FileSet(W1) /\ Versions(W) \subseteq Versions(W1)
         /\ \A v, c : CompactionOf(W, v, c) => CompactionOf(W1, v, c)
<1>1. FileSet(W) \subseteq FileSet(W1)
  BY DEF FileSet
<1>2. Seq(FileSet(W)) \subseteq Seq(FileSet(W1))
  BY ONLY <1>1
<1>3. Versions(W) \subseteq Versions(W1)
  BY ONLY <1>2 DEF Versions
<1>4. \A v, c : CompactionOf(W, v, c) => CompactionOf(W1, v, c)
  BY <1>2 DEF CompactionOf
<1> QED BY <1>1, <1>3, <1>4

LEMMA LiveInit == Init => LiveInv
<1> SUFFICES ASSUME Init PROVE LiveInv
  OBVIOUS
<1>1. KeysInv
  <2>1. written = {} /\ mem_ = {} /\ imm_ = {} /\ snapshots_ = << >> /\ last_sequence_ = 0
    BY DEF Init
  <2>2. IsFiniteSet({})
    BY FS_EmptySet
  <2> QED BY <2>1, <2>2 DEF KeysInv, Distinct
<1>2. FilesInv
  <2>1. current_ = [level \in Levels |-> << >>] /\ next_file_number_ = 2
    BY DEF Init
  <2>2. current_ \in Versions(written)
    BY <2>1 DEF Versions
  <2>3. LiveFiles(current_) = {}
    <3>1. \A level \in Levels : ToSet(current_[level]) = {}
      BY <2>1 DEF ToSet
    <3> QED BY <3>1 DEF LiveFiles
  <2> QED BY <2>1, <2>2, <2>3 DEF FilesInv, Numbered
<1>3. WorkInv
  BY DEF Init, WorkInv, Charged
<1> QED BY <1>1, <1>2, <1>3 DEF LiveInv

LEMMA LiveWrite ==
  ASSUME LiveInv, NEW user \in Keys, NEW del \in BOOLEAN, Write(user, del)
  PROVE  LiveInv'
<1> DEFINE k == IKey(user, last_sequence_ + 1, del)
<1>1. /\ last_sequence_' = last_sequence_ + 1 /\ written' = written \cup {k} /\ mem_' = mem_ \cup {k}
      /\ imm_' = imm_ /\ snapshots_' = snapshots_ /\ running' = running
      /\ current_' = current_ /\ next_file_number_' = next_file_number_ /\ file_to_compact_' = file_to_compact_
  BY DEF Write, versions
<1>2. KeysInv
  BY DEF LiveInv
<1>3. k \in IKeys /\ k.seq = last_sequence_ + 1
  BY <1>2, VersionSetAssumption DEF IKey, IKeys, KeysInv
<1> HIDE DEF k
<1>4. KeysInv'
  <2>1. IsFiniteSet(written')
    BY <1>1, <1>2, FS_AddElement DEF KeysInv
  <2>2. Distinct(written')
    <3>1. \A a \in written : a.seq \in Nat /\ a.seq <= last_sequence_
      BY <1>2 DEF KeysInv, IKeys
    <3>2. \A a \in written : a.seq # k.seq
      BY <1>2, <1>3, <3>1 DEF KeysInv
    <3> QED BY <1>1, <1>2, <3>2 DEF KeysInv, Distinct
  <2>3. \A a \in written' : a.seq <= last_sequence_'
    <3>1. \A a \in written : a.seq \in Nat /\ a.seq <= last_sequence_
      BY <1>2 DEF KeysInv, IKeys
    <3> QED BY <1>1, <1>2, <1>3, <3>1 DEF KeysInv
  <2> QED BY <1>1, <1>2, <1>3, <2>1, <2>2, <2>3 DEF KeysInv
<1>5. written \subseteq written'
  BY <1>1
<1>6. FilesInv'
  BY <1>1, <1>5, MoreKeys DEF LiveInv, FilesInv
<1>7. WorkInv'
  BY <1>1, <1>5, MoreKeys DEF LiveInv, WorkInv
<1> QED BY <1>4, <1>6, <1>7 DEF LiveInv
LEMMA NewVersion ==
  ASSUME KeysInv, FilesInv, NEW edit, LogAndApply(edit), NEW n \in Nat,
         written' = written, next_file_number_' = n, next_file_number_ <= n,
         IsFiniteSet(edit.added), Added(edit) \subseteq FileSet(written),
         Numbered(LiveFiles(current_) \cup Added(edit)),
         \A f \in Added(edit) : f.num < n
  PROVE  /\ FilesInv' /\ file_to_compact_' = None
         /\ \A level \in Levels : ToSet(current_'[level]) = Kept(current_, edit, level)
<1>1. current_' = SaveTo(current_, edit) /\ file_to_compact_' = None
  BY DEF LogAndApply
<1>2. /\ SaveTo(current_, edit) \in Versions(written)
      /\ \A level \in Levels : ToSet(SaveTo(current_, edit)[level]) = Kept(current_, edit, level)
      /\ LiveFiles(SaveTo(current_, edit)) \subseteq LiveFiles(current_) \cup Added(edit)
  <2>1. written \in SUBSET IKeys /\ Distinct(written) /\ current_ \in Versions(written)
    BY DEF KeysInv, FilesInv
  <2> QED BY <2>1, SaveToIs
<1>3. Numbered(LiveFiles(current_)')
  BY <1>1, <1>2 DEF Numbered, LiveFiles
<1>4. \A f \in LiveFiles(current_)' : f.num < next_file_number_'
  <2>1. LiveFiles(current_)' = LiveFiles(SaveTo(current_, edit))
    BY <1>1 DEF LiveFiles
  <2>2. ASSUME NEW f \in LiveFiles(current_)
        PROVE  f.num < n
    <3>1. f \in FileSet(written)
      <4>1. PICK level \in Levels : f \in ToSet(current_[level])
        BY DEF LiveFiles
      <4>2. current_[level] \in Seq(FileSet(written))
        BY DEF FilesInv, Versions
      <4> QED BY <4>1, <4>2, Elements
    <3> DEFINE m == f.num
    <3>2. m \in Nat /\ m < next_file_number_
      BY <3>1 DEF FileSet, FilesInv
    <3> HIDE DEF m
    <3>3. m < n
      BY <3>2 DEF FilesInv
    <3> QED BY <3>3 DEF m
  <2> QED BY <1>2, <2>1, <2>2
<1> QED BY <1>1, <1>2, <1>3, <1>4 DEF FilesInv

LEMMA LiveCompactMemTable ==
  ASSUME LiveInv, CompactMemTable
  PROVE  LiveInv'
<1> DEFINE f == NewFile(next_file_number_, imm_)
           level0 == WriteLevel0Table(f)
           edit == [deleted |-> {}, added |-> {<<level0, f>>}]
<1>1. /\ imm_ # {} /\ LogAndApply(edit) /\ next_file_number_' = next_file_number_ + 1 /\ imm_' = {}
      /\ mem_' = mem_ /\ last_sequence_' = last_sequence_ /\ snapshots_' = snapshots_
      /\ running' = running /\ written' = written
  BY DEF CompactMemTable
<1>2. KeysInv /\ FilesInv /\ WorkInv
  BY DEF LiveInv
<1>3. f \in FileSet(written) /\ f.num = next_file_number_
  <2>1. /\ written \in SUBSET IKeys /\ Distinct(written) /\ IsFiniteSet(written)
        /\ imm_ \in SUBSET written /\ next_file_number_ \in Nat
    BY <1>2 DEF KeysInv, FilesInv
  <2> QED BY ONLY <1>1, <2>1, NewFileIs
<1>4. edit.deleted = {} /\ edit.added = {<<level0, f>>} /\ IsFiniteSet(edit.added) /\ Added(edit) = {f}
  <2>1. Added(edit) = {f}
    <3> HIDE DEF f, level0
    <3> QED BY DEF Added
  <2>2. IsFiniteSet({<<level0, f>>})
    BY FS_Singleton
  <2> QED BY <2>1, <2>2
<1> HIDE DEF f, edit, level0
<1>5. Numbered(LiveFiles(current_) \cup Added(edit))
  <2>1. \A g \in LiveFiles(current_) : g.num < next_file_number_ /\ next_file_number_ \in Nat
    BY <1>2 DEF FilesInv
  <2>2. \A g \in LiveFiles(current_) : g.num # f.num
    BY <1>3, <2>1
  <2> QED BY <1>2, <1>4, <2>2 DEF FilesInv, Numbered
<1>6. /\ FilesInv' /\ file_to_compact_' = None
      /\ \A level \in Levels : ToSet(current_'[level]) = Kept(current_, edit, level)
  <2> DEFINE n == next_file_number_ + 1
  <2>1. n \in Nat /\ next_file_number_ <= n /\ next_file_number_' = n /\ f.num < n
    BY <1>1, <1>2, <1>3 DEF FilesInv
  <2> HIDE DEF n
  <2> QED BY <1>1, <1>2, <1>3, <1>4, <1>5, <2>1, NewVersion
<1>7. \A level \in Levels : ToSet(current_[level]) \subseteq ToSet(current_'[level])
  BY <1>4, <1>6 DEF Kept
<1>8. KeysInv'
  BY <1>1, <1>2 DEF KeysInv
<1>9. WorkInv'
  <2>1. ASSUME running # None
        PROVE  /\ CompactionOf(written, running.c.version, running.c)
               /\ \A w \in {1, 2} : ToSet(running.c.inputs[w]) \subseteq ToSet(current_'[running.c.level + w - 1])
    <3> DEFINE l == running.c.level
    <3>1. CompactionOf(written, running.c.version, running.c)
      BY <1>2, <2>1 DEF WorkInv
    <3>2. l \in 0 .. kNumLevels - 2
      BY <3>1 DEF CompactionOf
    <3> HIDE DEF l
    <3>3. \A w \in {1, 2} : l + w - 1 \in Levels
      BY <3>2, VersionAssumption DEF Levels
    <3>4. \A w \in {1, 2} : running.c.level + w - 1 \in Levels
      BY <3>3 DEF l
    <3> QED BY <1>2, <1>7, <2>1, <3>1, <3>4 DEF WorkInv
  <2> QED BY <1>1, <1>6, <2>1 DEF WorkInv, Charged
<1> QED BY <1>6, <1>8, <1>9 DEF LiveInv
\* What is picked works on files of the current version.
LEMMA LiveStartWork ==
  ASSUME KeysInv, FilesInv, Charged(current_, file_to_compact_),
         NEW c, CompactionOf(written, current_, c), StartWork(c),
         next_file_number_' = next_file_number_, written' = written
  PROVE  FilesInv' /\ WorkInv'
<1> DEFINE l == c.level
<1>1. running'.c = c /\ current_' = current_ /\ file_to_compact_' = file_to_compact_
  BY DEF StartWork
<1>2. /\ l \in 0 .. kNumLevels - 2 /\ c.version = current_
      /\ ToSet(c.inputs[1]) \subseteq ToSet(current_[l]) /\ ToSet(c.inputs[2]) \subseteq ToSet(current_[l + 1])
  BY DEF CompactionOf
<1>3. CompactionOf(written', running'.c.version, running'.c)
  BY <1>1, <1>2
<1> HIDE DEF l
<1>4. l + 1 - 1 = l /\ l + 2 - 1 = l + 1
  BY <1>2
<1>5. \A w \in {1, 2} : ToSet(c.inputs[w]) \subseteq ToSet(current_[l + w - 1])
  BY <1>2, <1>4
<1>6. \A w \in {1, 2} : ToSet(running'.c.inputs[w]) \subseteq ToSet(current_'[running'.c.level + w - 1])
  BY <1>1, <1>5 DEF l
<1>7. FilesInv'
  BY <1>1 DEF FilesInv, LiveFiles
<1>8. WorkInv'
  BY <1>1, <1>3, <1>6 DEF WorkInv, Charged
<1> QED BY <1>7, <1>8

LEMMA LiveManualCompaction ==
  ASSUME LiveInv, NEW range \in ManualRanges, ManualCompaction(range)
  PROVE  LiveInv'
<1>1. PICK c : /\ c = CompactRange(current_, range[1], range[2], range[3]) /\ c # None /\ StartWork(c)
  BY DEF ManualCompaction
<1>2. /\ mem_' = mem_ /\ imm_' = imm_ /\ next_file_number_' = next_file_number_ /\ written' = written
      /\ last_sequence_' = last_sequence_ /\ snapshots_' = snapshots_
  BY DEF ManualCompaction
<1>3. KeysInv /\ FilesInv /\ WorkInv
  BY DEF LiveInv
<1>4. CompactionOf(written, current_, c)
  <2>1. range[1] \in 0 .. kNumLevels - 2 /\ range[2] \in Nat /\ range[3] \in Nat
    BY VersionSetAssumption
  <2>2. written \in SUBSET IKeys /\ Distinct(written) /\ IsFiniteSet(written) /\ current_ \in Versions(written)
    BY <1>3 DEF KeysInv, FilesInv
  <2>3. c = None \/ (CompactionOf(written, current_, c) /\ Closed(current_, c))
    BY <1>1, <2>1, <2>2, CompactRangeIs
  <2> QED BY <1>1, <2>3
<1>5. FilesInv' /\ WorkInv'
  BY <1>1, <1>2, <1>3, <1>4, LiveStartWork DEF WorkInv
<1>6. KeysInv'
  BY <1>2, <1>3 DEF KeysInv
<1> QED BY <1>5, <1>6 DEF LiveInv

LEMMA LiveBackgroundCompaction ==
  ASSUME LiveInv, BackgroundCompaction
  PROVE  LiveInv'
<1> DEFINE Moves(c, f) == LogAndApply([deleted |-> {<<c.level, f.num>>}, added |-> {<<c.level + 1, f>>}])
<1>1. PICK c : /\ c = PickCompaction(current_, compact_pointer_, file_to_compact_) /\ c # None
               /\ IF IsTrivialMove(c)
                  THEN /\ \E f \in ToSet(c.inputs[1]) : Moves(c, f)
                       /\ compact_pointer_' = [compact_pointer_ EXCEPT ![c.level] = c.pointer]
                       /\ UNCHANGED running
                  ELSE StartWork(c)
  BY DEF BackgroundCompaction, Pick
<1>2. /\ mem_' = mem_ /\ imm_' = imm_ /\ next_file_number_' = next_file_number_ /\ written' = written
      /\ last_sequence_' = last_sequence_ /\ snapshots_' = snapshots_ /\ running = None
  BY DEF BackgroundCompaction, Pick
<1>3. KeysInv /\ FilesInv /\ WorkInv
  BY DEF LiveInv
<1>4. CompactionOf(written, current_, c)
  <2>1. written \in SUBSET IKeys /\ Distinct(written) /\ IsFiniteSet(written) /\ current_ \in Versions(written)
    BY <1>3 DEF KeysInv, FilesInv
  <2>2. file_to_compact_ # None =>
          file_to_compact_.level \in 0 .. kNumLevels - 2
          /\ file_to_compact_.file \in ToSet(current_[file_to_compact_.level])
    BY <1>3 DEF WorkInv, Charged
  <2>3. c = None \/ (CompactionOf(written, current_, c) /\ Closed(current_, c))
    BY <1>1, <2>1, <2>2, PickCompactionIs
  <2> QED BY <1>1, <2>3
<1>5. KeysInv'
  BY <1>2, <1>3 DEF KeysInv
<1>6. CASE IsTrivialMove(c)
  <2>1. PICK f \in ToSet(c.inputs[1]) : Moves(c, f)
    BY <1>1, <1>6
  <2> DEFINE edit == [deleted |-> {<<c.level, f.num>>}, added |-> {<<c.level + 1, f>>}]
  <2>2. LogAndApply(edit) /\ running' = running
    BY <1>1, <1>6, <2>1
  <2>3. f \in LiveFiles(current_) /\ f \in FileSet(written)
    <3> DEFINE l == c.level
    <3>1. l \in 0 .. kNumLevels - 2 /\ f \in ToSet(current_[l])
      BY <1>4, <2>1 DEF CompactionOf
    <3> HIDE DEF l
    <3>2. l \in Levels
      BY <3>1, VersionAssumption DEF Levels
    <3>3. current_[l] \in Seq(FileSet(written))
      BY <1>3, <3>2 DEF FilesInv, Versions
    <3> QED BY <3>1, <3>2, <3>3, Elements DEF LiveFiles
  <2>4. edit.added = {<<c.level + 1, f>>} /\ IsFiniteSet(edit.added) /\ Added(edit) = {f}
    <3>1. Added(edit) = {f}
      BY DEF Added
    <3>2. IsFiniteSet({<<c.level + 1, f>>})
      BY FS_Singleton
    <3> QED BY <3>1, <3>2
  <2> HIDE DEF edit
  <2>5. Numbered(LiveFiles(current_) \cup Added(edit))
    BY <1>3, <2>3, <2>4 DEF FilesInv, Numbered
  <2>6. FilesInv' /\ file_to_compact_' = None
    <3> DEFINE n == next_file_number_
    <3>1. n \in Nat /\ next_file_number_ <= n /\ next_file_number_' = n /\ f.num < n
      BY <1>2, <1>3, <2>3 DEF FilesInv
    <3> HIDE DEF n
    <3> QED BY <1>2, <1>3, <2>2, <2>3, <2>4, <2>5, <3>1, NewVersion
  <2>7. WorkInv'
    BY <1>2, <2>2, <2>6 DEF WorkInv, Charged
  <2> QED BY <1>5, <2>6, <2>7 DEF LiveInv
<1>7. CASE ~IsTrivialMove(c)
  <2>1. StartWork(c)
    BY <1>1, <1>7
  <2>2. FilesInv' /\ WorkInv'
    BY <1>2, <1>3, <1>4, <2>1, LiveStartWork DEF WorkInv
  <2> QED BY <1>5, <2>2 DEF LiveInv
<1> QED BY <1>6, <1>7
\* The edit of a compaction adds files with its outputs, with new numbers.
ResultsOf(c, outs, n, edit, N) ==
  /\ edit.deleted = {<<c.level, f.num>> : f \in ToSet(c.inputs[1])} \cup {<<c.level + 1, f.num>> : f \in ToSet(c.inputs[2])}
  /\ edit.added = {<<c.level + 1, f>> : f \in N} /\ IsFiniteSet(edit.added) /\ Added(edit) = N
  /\ N \subseteq FileSet(written) /\ Numbered(LiveFiles(current_) \cup N)
  /\ n + Len(outs) \in Nat /\ n <= n + Len(outs) /\ \A f \in N : f.num < n + Len(outs)
  /\ KeysOf(N) = UNION ToSet(outs)

LEMMA ResultsAre ==
  ASSUME LiveInv, running # None
  PROVE  \E N : ResultsOf(running.c, DoCompactionWork(running.c, running.smallest_snapshot), next_file_number_,
                         InstallCompactionResults(running.c, DoCompactionWork(running.c, running.smallest_snapshot)), N)
<1> DEFINE c == running.c
           outs == DoCompactionWork(c, running.smallest_snapshot)
           n == next_file_number_
           file == [i \in DOMAIN outs |-> NewFile(n + i - 1, outs[i])]
           edit == InstallCompactionResults(c, outs)
<1>2. KeysInv /\ FilesInv /\ WorkInv
  BY DEF LiveInv
<1>3. written \in SUBSET IKeys /\ Distinct(written) /\ IsFiniteSet(written)
  BY <1>2 DEF KeysInv
<1>4. outs \in Seq((SUBSET written) \ {{}})
  <2>1. CompactionOf(written, c.version, c)
    BY <1>2 DEF WorkInv
  <2> QED BY <1>3, <2>1, DoCompactionWorkIs DEF Outputs
<1>5. edit.added = {<<c.level + 1, NewFile(n + i - 1, outs[i])>> : i \in DOMAIN outs}
  BY DEF InstallCompactionResults, Results
<1> HIDE DEF outs, edit, c
<1>6. Len(outs) \in Nat /\ DOMAIN outs = 1 .. Len(outs)
      /\ \A i \in 1 .. Len(outs) : outs[i] \in SUBSET written /\ outs[i] # {}
  BY <1>4
<1>7. n \in Nat
  BY <1>2 DEF FilesInv
<1> HIDE DEF n
<1>8. \A i \in 1 .. Len(outs) : file[i] \in FileSet(written) /\ file[i].num = n + i - 1 /\ file[i].keys = outs[i]
  <2> TAKE i \in 1 .. Len(outs)
  <2>1. n + i - 1 \in Nat
    BY <1>6, <1>7
  <2>2. outs[i] \in SUBSET written /\ outs[i] # {}
    BY <1>6
  <2>3. /\ NewFile(n + i - 1, outs[i]) \in FileSet(written) /\ NewFile(n + i - 1, outs[i]).num = n + i - 1
        /\ NewFile(n + i - 1, outs[i]).keys = outs[i]
    BY ONLY <1>3, <2>1, <2>2, NewFileIs
  <2> QED BY <1>6, <2>3
<1>9. edit.added = {<<c.level + 1, file[i]>> : i \in 1 .. Len(outs)} /\ Added(edit) = {file[i] : i \in 1 .. Len(outs)}
  <2>1. edit.added = {<<c.level + 1, file[i]>> : i \in 1 .. Len(outs)}
    BY <1>5, <1>6
  <2> DEFINE I == 1 .. Len(outs)
             level == c.level + 1
  <2>2. edit.added = {<<level, file[i]>> : i \in I}
    BY <2>1
  <2> HIDE DEF file, I, level
  <2>3. \A e \in edit.added : \E i \in I : e[2] = file[i]
    BY ONLY <2>2
  <2>4. \A i \in I : \E e \in edit.added : e[2] = file[i]
    <3> TAKE i \in I
    <3>1. <<level, file[i]>> \in edit.added /\ <<level, file[i]>>[2] = file[i]
      BY ONLY <2>2
    <3> QED BY ONLY <3>1
  <2>5. Added(edit) = {file[i] : i \in I}
    BY ONLY <2>3, <2>4 DEF Added
  <2> QED BY <2>1, <2>5 DEF I
<1> HIDE DEF file
<1>10. IsFiniteSet(edit.added)
  <2> DEFINE g == [i \in 1 .. Len(outs) |-> <<c.level + 1, file[i]>>]
             S == 1 .. Len(outs)
             T == edit.added
  <2>1. T = {g[i] : i \in S}
    BY <1>9
  <2>2. g \in [S -> T]
    BY <2>1
  <2>3. IsFiniteSet(S)
    BY <1>6, FS_Interval
  <2> HIDE DEF S, T, g
  <2>4. g \in Surjection(S, T)
    BY ONLY <2>1, <2>2 DEF Surjection
  <2> QED BY ONLY <2>3, <2>4, FS_Surjection DEF T
<1>11. Added(edit) \subseteq FileSet(written)
  BY <1>8, <1>9
<1>12. Numbered(LiveFiles(current_) \cup Added(edit))
  <2>1. \A f \in LiveFiles(current_) : f.num < n
    BY <1>2 DEF FilesInv, n
  <2>2. \A i, j \in 1 .. Len(outs) : file[i].num = file[j].num => i = j
    <3> TAKE i, j \in 1 .. Len(outs)
    <3>1. file[i].num = n + i - 1 /\ file[j].num = n + j - 1
      BY <1>8
    <3> QED BY <1>6, <1>7, <3>1
  <2>3. \A f \in LiveFiles(current_), g \in Added(edit) : f.num # g.num
    <3> TAKE f \in LiveFiles(current_), g \in Added(edit)
    <3>1. PICK i \in 1 .. Len(outs) : g = file[i]
      BY <1>9
    <3>2. g.num = n + i - 1
      BY <1>8, <3>1
    <3>3. f.num < n
      BY <2>1
    <3> QED BY <1>6, <1>7, <3>2, <3>3
  <2>4. \A f, g \in Added(edit) : f.num = g.num => f = g
    BY <1>9, <2>2
  <2>5. \A f, g \in LiveFiles(current_) : f.num = g.num => f = g
    BY <1>2 DEF FilesInv, Numbered
  <2> QED BY <2>3, <2>4, <2>5 DEF Numbered
<1>13. n + Len(outs) \in Nat /\ n <= n + Len(outs) /\ \A f \in Added(edit) : f.num < n + Len(outs)
  <2>1. n + Len(outs) \in Nat /\ n <= n + Len(outs)
    BY <1>6, <1>7
  <2>2. \A f \in Added(edit) : f.num < n + Len(outs)
    <3> TAKE f \in Added(edit)
    <3>1. PICK i \in 1 .. Len(outs) : f = file[i]
      BY <1>9
    <3>2. f.num = n + i - 1
      BY <1>8, <3>1
    <3> QED BY <1>6, <1>7, <3>2
  <2> QED BY <2>1, <2>2
<1>14. KeysOf(Added(edit)) = UNION ToSet(outs)
  <2>1. ToSet(outs) = {outs[i] : i \in 1 .. Len(outs)}
    BY <1>4, Elements
  <2>2. \A i \in 1 .. Len(outs) : file[i].keys = outs[i]
    BY <1>8
  <2> DEFINE I == 1 .. Len(outs)
             A == Added(edit)
             T == ToSet(outs)
  <2>3. A = {file[i] : i \in I} /\ T = {outs[i] : i \in I} /\ \A i \in I : file[i].keys = outs[i]
    BY <1>9, <2>1, <2>2
  <2> HIDE DEF I, A, T
  <2>4. KeysOf(A) = UNION T
    BY ONLY <2>3 DEF KeysOf
  <2> QED BY <2>4 DEF A, T
<1>15. edit.added = {<<c.level + 1, f>> : f \in Added(edit)}
  <2> DEFINE I == 1 .. Len(outs)
             A == Added(edit)
             B == edit.added
             level == c.level + 1
  <2>1. A = {file[i] : i \in I} /\ B = {<<level, file[i]>> : i \in I}
    BY <1>9
  <2> HIDE DEF I, A, B, level
  <2>2. B = {<<level, f>> : f \in A}
    BY ONLY <2>1
  <2> QED BY <2>2 DEF A, B, level
<1>16. edit.deleted = {<<c.level, f.num>> : f \in ToSet(c.inputs[1])} \cup {<<c.level + 1, f.num>> : f \in ToSet(c.inputs[2])}
  <2> DEFINE l == c.level
  <2>1. l + 1 - 1 = l /\ l + 2 - 1 = l + 1 /\ edit.deleted = Inputs(c, 1) \cup Inputs(c, 2)
    <3>1. l \in Int
      BY <1>2 DEF WorkInv, CompactionOf, c
    <3>2. edit.deleted = Inputs(c, 1) \cup Inputs(c, 2)
      BY DEF edit, InstallCompactionResults, Results
    <3> HIDE DEF l
    <3> QED BY <3>1, <3>2
  <2>2. Inputs(c, 1) = {<<l + 1 - 1, f.num>> : f \in ToSet(c.inputs[1])}
    BY DEF Inputs
  <2>3. Inputs(c, 2) = {<<l + 2 - 1, f.num>> : f \in ToSet(c.inputs[2])}
    BY DEF Inputs
  <2> HIDE DEF l
  <2>4. edit.deleted = {<<l, f.num>> : f \in ToSet(c.inputs[1])} \cup {<<l + 1, f.num>> : f \in ToSet(c.inputs[2])}
    BY <2>1, <2>2, <2>3
  <2> QED BY <2>4 DEF l
<1>17. ResultsOf(c, outs, n, edit, Added(edit))
  BY <1>10, <1>11, <1>12, <1>13, <1>14, <1>15, <1>16 DEF ResultsOf
<1> QED BY <1>17 DEF c, outs, n, edit

LEMMA LiveFinishCompaction ==
  ASSUME LiveInv, FinishCompaction
  PROVE  LiveInv'
<1> DEFINE c == running.c
           outs == DoCompactionWork(c, running.smallest_snapshot)
           n == next_file_number_
           edit == InstallCompactionResults(c, outs)
<1>1. /\ running # None /\ LogAndApply(edit) /\ next_file_number_' = n + Len(outs) /\ running' = None
      /\ mem_' = mem_ /\ imm_' = imm_ /\ written' = written
      /\ last_sequence_' = last_sequence_ /\ snapshots_' = snapshots_
  BY DEF FinishCompaction
<1>2. KeysInv /\ FilesInv /\ WorkInv
  BY DEF LiveInv
<1>3. PICK N : ResultsOf(c, outs, n, edit, N)
  BY <1>1, ResultsAre
<1>4. FilesInv' /\ file_to_compact_' = None
  <2> DEFINE m == n + Len(outs)
  <2>1. /\ m \in Nat /\ next_file_number_ <= m /\ next_file_number_' = m /\ LogAndApply(edit)
        /\ IsFiniteSet(edit.added) /\ Added(edit) \subseteq FileSet(written)
        /\ Numbered(LiveFiles(current_) \cup Added(edit)) /\ \A f \in Added(edit) : f.num < m
    BY <1>1, <1>3 DEF ResultsOf
  <2> HIDE DEF m, edit, outs, c
  <2> QED BY <1>1, <1>2, <2>1, NewVersion
<1>5. KeysInv'
  BY <1>1, <1>2 DEF KeysInv
<1>6. WorkInv'
  BY <1>1, <1>4 DEF WorkInv, Charged
<1> QED BY <1>4, <1>5, <1>6 DEF LiveInv

\* A read charges a file of the current version.
LEMMA LiveUpdateStats ==
  ASSUME LiveInv, NEW seek, Charged(current_, seek), UpdateStats(seek),
         UNCHANGED <<mem_, imm_, current_, next_file_number_, last_sequence_, snapshots_, running, written>>
  PROVE  LiveInv'
<1>1. file_to_compact_' = seek \/ file_to_compact_' = file_to_compact_
  BY DEF UpdateStats
<1>2. KeysInv'
  BY DEF LiveInv, KeysInv
<1>3. FilesInv'
  BY DEF LiveInv, FilesInv, LiveFiles
<1>4. WorkInv'
  <2>1. Charged(current_, file_to_compact_)'
    BY <1>1 DEF LiveInv, WorkInv, Charged
  <2> QED BY <2>1 DEF LiveInv, WorkInv
<1> QED BY <1>2, <1>3, <1>4 DEF LiveInv

LEMMA LiveReads ==
  ASSUME LiveInv, NEW user \in Nat, NEW snapshot \in Nat
  PROVE  /\ Charged(current_, VersionGet(current_, user, snapshot).seek_file)
         /\ Charged(current_, ReadSample(current_, user, snapshot))
<1>1. written \in SUBSET IKeys /\ Distinct(written) /\ current_ \in Versions(written)
  BY DEF LiveInv, KeysInv, FilesInv
<1>2. Numbered(ToSet(current_[0]))
  <2>1. 0 \in Levels
    BY VersionAssumption DEF Levels
  <2>2. ToSet(current_[0]) \subseteq LiveFiles(current_)
    BY <2>1 DEF LiveFiles
  <2> QED BY <2>2 DEF LiveInv, FilesInv, Numbered
<1> QED BY <1>1, <1>2, SeekIs

\* Every step keeps the invariant.
LEMMA LiveNext ==
  ASSUME LiveInv, [Next]_vars
  PROVE  LiveInv'
<1>1. ASSUME NEW user \in Keys, NEW del \in BOOLEAN, Write(user, del)
      PROVE  LiveInv'
  BY <1>1, LiveWrite
<1>2. CASE MakeRoomForWrite
  BY <1>2 DEF MakeRoomForWrite, versions, LiveInv, KeysInv, FilesInv, WorkInv, LiveFiles, Charged
<1>3. CASE Background
  BY <1>3, LiveCompactMemTable, LiveBackgroundCompaction, LiveFinishCompaction DEF Background
<1>4. ASSUME NEW range \in ManualRanges, ManualCompaction(range)
      PROVE  LiveInv'
  BY <1>4, LiveManualCompaction
<1>5. CASE GetSnapshot
  <2>1. last_sequence_ \in Nat /\ snapshots_ \in Seq(Nat)
    BY DEF LiveInv, KeysInv
  <2>2. snapshots_' \in Seq(Nat)
    BY <1>5, <2>1 DEF GetSnapshot
  <2> QED BY <1>5, <2>2 DEF GetSnapshot, versions, LiveInv, KeysInv, FilesInv, WorkInv, LiveFiles, Charged
<1>6. CASE ReleaseSnapshot
  <2>1. snapshots_ \in Seq(Nat)
    BY DEF LiveInv, KeysInv
  <2>2. PICK i \in DOMAIN snapshots_ : snapshots_' = RemoveAt(snapshots_, i)
    BY <1>6 DEF ReleaseSnapshot
  <2>3. snapshots_' = SubSeq(snapshots_, 1, i - 1) \o SubSeq(snapshots_, i + 1, Len(snapshots_))
    BY <2>2 DEF RemoveAt
  <2>4. snapshots_' \in Seq(Nat)
    <3> DEFINE a == SubSeq(snapshots_, 1, i - 1)
               b == SubSeq(snapshots_, i + 1, Len(snapshots_))
    <3>1. a \in Seq(Nat) /\ b \in Seq(Nat)
      BY ONLY <2>1, i \in DOMAIN snapshots_
    <3> HIDE DEF a, b
    <3>2. a \o b \in Seq(Nat)
      BY ONLY <3>1
    <3> QED BY ONLY <2>3, <3>2 DEF a, b
  <2> QED BY <1>6, <2>4 DEF ReleaseSnapshot, versions, LiveInv, KeysInv, FilesInv, WorkInv, LiveFiles, Charged
<1>7. ASSUME NEW user \in Keys \cup Missing, NEW snapshot \in Snapshots, Get(user, snapshot)
      PROVE  LiveInv'
  <2>1. user \in Nat
    BY VersionSetAssumption
  <2>2. snapshot \in Nat
    <3>1. snapshots_ \in Seq(Nat) /\ last_sequence_ \in Nat
      BY DEF LiveInv, KeysInv
    <3>2. ToSet(snapshots_) \in SUBSET Nat
      BY ONLY <3>1, Elements
    <3> QED BY <3>1, <3>2 DEF Snapshots
  <2>3. Charged(current_, VersionGet(current_, user, snapshot).seek_file)
    BY <2>1, <2>2, LiveReads
  <2> QED BY <1>7, <2>3, LiveUpdateStats DEF Get
<1>8. ASSUME NEW user \in Keys, RecordReadSample(user)
      PROVE  LiveInv'
  <2>1. user \in Nat /\ last_sequence_ \in Nat
    BY VersionSetAssumption DEF LiveInv, KeysInv
  <2>2. Charged(current_, ReadSample(current_, user, last_sequence_))
    BY <2>1, LiveReads
  <2> QED BY <1>8, <2>2, LiveUpdateStats DEF RecordReadSample
<1>9. CASE UNCHANGED vars
  BY <1>9 DEF vars, LiveInv, KeysInv, FilesInv, WorkInv, LiveFiles, Charged
<1> QED BY <1>1, <1>2, <1>3, <1>4, <1>5, <1>6, <1>7, <1>8, <1>9 DEF Next

\* InputsLive for every number of levels and all sizes: compactions work on live files.
THEOREM CompactionsWorkOnLiveFiles == Spec => []InputsLive
<1>1. LiveInv /\ [Next]_vars => LiveInv'
  BY LiveNext
<1> QED BY <1>1, LiveInit, LiveInvMeans, PTL DEF Spec
-----------------------------------------------------------------------------
(* What a snapshot sees *)

\* e is the newest entry for the user key that the snapshot sees, or None.
Seen(S, user, snapshot, e) ==
  \/ e = None /\ \A k \in S : ~(k.user = user /\ k.seq <= snapshot)
  \/ /\ e # None /\ e \in S /\ e.user = user /\ e.seq <= snapshot
     /\ \A k \in S : k.user = user /\ k.seq <= snapshot => k.seq <= e.seq

LEMMA KeyIsEntry == \A k \in IKeys : k # None
<1> TAKE k \in IKeys
<1>1. DOMAIN k = {"user", "seq", "del"}
  BY DEF IKeys
<1>2. DOMAIN None = {"none"}
  BY DEF None
<1>3. "user" \in DOMAIN k /\ "user" \notin DOMAIN None
  BY <1>1, <1>2
<1> QED BY <1>3

LEMMA VisibleIs ==
  ASSUME NEW W \in SUBSET IKeys, Distinct(W), IsFiniteSet(W), NEW S \in SUBSET W, NEW user, NEW snapshot
  PROVE  Seen(S, user, snapshot, Visible(S, user, snapshot))
<1> DEFINE T == {k \in S : k.user = user /\ k.seq <= snapshot}
<1>1. Visible(S, user, snapshot) = IF T = {} THEN None ELSE IMin(T)
  BY DEF Visible
<1>2. CASE T = {}
  BY <1>1, <1>2 DEF Seen
<1>3. CASE T # {}
  <2>1. T \in SUBSET W
    OBVIOUS
  <2>2. IMin(T) \in T /\ \A j \in T : j = IMin(T) \/ ILess(IMin(T), j)
    <3> HIDE DEF T
    <3> QED BY ONLY <1>3, <2>1, W \in SUBSET IKeys, Distinct(W), IsFiniteSet(W), IMinIs
  <2> DEFINE e == IMin(T)
  <2> HIDE DEF e
  <2>3. e \in T /\ \A j \in T : j = e \/ ILess(e, j)
    BY <2>2 DEF e
  <2>4. e \in S /\ e \in IKeys /\ e.user = user /\ e.seq <= snapshot /\ e.seq \in Nat
    BY <2>3 DEF IKeys
  <2>5. \A k \in S : k.user = user /\ k.seq <= snapshot => k.seq <= e.seq
    <3> TAKE k \in S
    <3> HAVE k.user = user /\ k.seq <= snapshot
    <3>1. k \in T /\ k.seq \in Nat /\ k.user \in Nat
      BY DEF IKeys
    <3>2. k = e \/ ILess(e, k)
      BY <2>3, <3>1
    <3> QED BY ONLY <2>4, <3>1, <3>2, k.user = user DEF ILess
  <2>6. e # None
    BY <2>4, KeyIsEntry
  <2>7. Visible(S, user, snapshot) = e
    BY <1>1, <1>3 DEF e
  <2> QED BY <2>4, <2>5, <2>6, <2>7 DEF Seen
<1> QED BY <1>2, <1>3

LEMMA SeenOnce ==
  ASSUME NEW W \in SUBSET IKeys, Distinct(W), NEW S \in SUBSET W, NEW user, NEW snapshot,
         NEW e, Seen(S, user, snapshot, e), NEW e1, Seen(S, user, snapshot, e1)
  PROVE  e = e1
<1>1. CASE e = None \/ e1 = None
  BY <1>1 DEF Seen
<1>2. CASE e # None /\ e1 # None
  <2>1. /\ e \in S /\ e1 \in S /\ e.user = user /\ e1.user = user /\ e.seq <= snapshot /\ e1.seq <= snapshot
        /\ e.seq <= e1.seq /\ e1.seq <= e.seq
    BY <1>2 DEF Seen
  <2>2. e.seq \in Nat /\ e1.seq \in Nat
    BY <2>1 DEF IKeys
  <2>3. e.seq = e1.seq
    BY ONLY <2>1, <2>2
  <2> QED BY <2>1, <2>3 DEF Distinct
<1> QED BY <1>1, <1>2
-----------------------------------------------------------------------------
(* What a read finds in a version *)

\* The entries of one file are newer than those of another.
Newer(f, g) == \A a \in f.keys, b \in g.keys : a.user = b.user => a.seq > b.seq
\* Upper levels are newer, and in level 0 the files with greater numbers.
Ordered(v) ==
  /\ \A l, m \in Levels : l < m => \A f \in ToSet(v[l]), g \in ToSet(v[m]) : Newer(f, g)
  /\ \A f, g \in ToSet(v[0]) : f.num > g.num => Newer(f, g)
LevelsSound(v) == \A l \in 1 .. kNumLevels - 1 : LevelSound(v[l])

LEMMA LiveIn ==
  ASSUME NEW W \in SUBSET IKeys, NEW v \in Versions(W)
  PROVE  /\ LiveFiles(v) \in SUBSET FileSet(W) /\ KeysOf(LiveFiles(v)) \in SUBSET W
         /\ \A l \in Levels : ToSet(v[l]) \in SUBSET FileSet(W) /\ ToSet(v[l]) \subseteq LiveFiles(v)
<1>1. \A l \in Levels : ToSet(v[l]) \in SUBSET FileSet(W)
  <2> TAKE l \in Levels
  <2>1. v[l] \in Seq(FileSet(W))
    BY DEF Versions
  <2> QED BY <2>1, Elements
<1>2. \A l \in Levels : ToSet(v[l]) \subseteq LiveFiles(v)
  BY DEF LiveFiles
<1>3. LiveFiles(v) \in SUBSET FileSet(W)
  BY <1>1 DEF LiveFiles
<1>4. \A f \in LiveFiles(v) : f.keys \in SUBSET W
  BY <1>3 DEF FileSet
<1>5. KeysOf(LiveFiles(v)) \in SUBSET W
  BY <1>4 DEF KeysOf
<1> QED BY <1>1, <1>2, <1>3, <1>5

\* An entry that the snapshot sees is in one of the files that are searched.
LEMMA SearchFinds ==
  ASSUME NEW W \in SUBSET IKeys, Distinct(W), NEW v \in Versions(W), Numbered(ToSet(v[0])), LevelsSound(v),
         NEW user \in Nat, NEW snapshot \in Nat, NEW k \in KeysOf(LiveFiles(v)), k.user = user, k.seq <= snapshot
  PROVE  LET q == ForEachOverlapping(v, user, snapshot) IN
         \E i \in 1 .. Len(q) : k \in q[i].file.keys
<1> DEFINE q == ForEachOverlapping(v, user, snapshot)
<1>0. SearchOf(W, v, user, snapshot, q)
  BY SearchIs
<1> HIDE DEF q
<1>1. /\ \A f \in InRange(v, user) : \E i \in 1 .. Len(q) : q[i] = [level |-> 0, file |-> f]
      /\ \A m \in 1 .. kNumLevels - 1 : \A e : FileAt(v, m, user, snapshot) = <<e>> =>
           \E i \in 1 .. Len(q) : q[i] = e
  BY <1>0 DEF SearchOf
<1>2. PICK l \in Levels, f \in LiveFiles(v) : f \in ToSet(v[l]) /\ k \in f.keys
  BY DEF KeysOf, LiveFiles
<1>3. f \in FileSet(W)
  BY LiveIn
<1>4. f.smallest.user <= user /\ user <= f.largest.user
  BY <1>2, <1>3, FileIs
<1>5. CASE l = 0
  <2>1. f \in InRange(v, user)
    BY <1>2, <1>4, <1>5 DEF InRange
  <2>2. PICK i \in 1 .. Len(q) : q[i] = [level |-> 0, file |-> f]
    BY <1>1, <2>1
  <2>3. q[i].file = f
    BY <2>2
  <2> QED BY <1>2, <2>3 DEF q
<1>6. CASE l # 0
  <2>1. l \in 1 .. kNumLevels - 1
    BY <1>6, VersionAssumption DEF Levels
  <2>2. LevelSound(v[l])
    BY <2>1 DEF LevelsSound
  <2>3. FileAt(v, l, user, snapshot) = <<[level |-> l, file |-> f]>>
    <3>1. FoundAt(v, l, user, snapshot, FileAt(v, l, user, snapshot))
      BY FileAtIs
    <3> QED BY <1>2, <2>2, <3>1 DEF FoundAt
  <2>4. PICK i \in 1 .. Len(q) : q[i] = [level |-> l, file |-> f]
    BY <1>1, <2>1, <2>3
  <2>5. q[i].file = f
    BY <2>4
  <2> QED BY <1>2, <2>5 DEF q
<1> QED BY <1>5, <1>6

\* Version::Get stops at the first file that has an entry, and it is the newest one.
LEMMA VersionGetIs ==
  ASSUME NEW W \in SUBSET IKeys, Distinct(W), IsFiniteSet(W), NEW v \in Versions(W), Numbered(ToSet(v[0])),
         LevelsSound(v), Ordered(v), NEW user \in Nat, NEW snapshot \in Nat
  PROVE  Seen(KeysOf(LiveFiles(v)), user, snapshot, VersionGet(v, user, snapshot).entry)
<1> DEFINE q == ForEachOverlapping(v, user, snapshot)
           keys(i) == q[i].file.keys
           seen == [i \in DOMAIN q |-> Visible(keys(i), user, snapshot)]
           hits == {i \in DOMAIN seen : seen[i] # None}
           read == IF hits = {} THEN Len(q) ELSE Min(hits)
           entry == VersionGet(v, user, snapshot).entry
           all == KeysOf(LiveFiles(v))
<1>1. entry = IF hits = {} THEN None ELSE seen[read]
  BY DEF VersionGet
<1>2. /\ q \in Seq(FoundIn(W))
      /\ \A i \in 1 .. Len(q) : q[i].file \in ToSet(v[q[i].level])
      /\ \A i, j \in 1 .. Len(q) : i < j =>
           \/ q[i].level < q[j].level
           \/ q[i].level = 0 /\ q[j].level = 0 /\ q[i].file.num > q[j].file.num
  <2>1. SearchOf(W, v, user, snapshot, q)
    BY SearchIs
  <2> HIDE DEF q
  <2> QED BY <2>1 DEF SearchOf
<1>3. \A k \in all : k.user = user /\ k.seq <= snapshot => \E i \in 1 .. Len(q) : k \in keys(i)
  BY SearchFinds
<1> HIDE DEF q, entry
<1>4. Len(q) \in Nat /\ DOMAIN q = 1 .. Len(q)
      /\ \A i \in 1 .. Len(q) : q[i].level \in Levels /\ q[i].file \in FileSet(W)
  <2>1. q \in Seq(FoundIn(W))
    BY <1>2
  <2>2. Len(q) \in Nat /\ DOMAIN q = 1 .. Len(q) /\ \A i \in 1 .. Len(q) : q[i] \in FoundIn(W)
    BY ONLY <2>1
  <2> QED BY ONLY <2>2 DEF FoundIn
<1>5. \A i \in 1 .. Len(q) : keys(i) \in SUBSET W /\ keys(i) \subseteq all
  <2> TAKE i \in 1 .. Len(q)
  <2>1. q[i].file \in LiveFiles(v)
    BY <1>2, <1>4 DEF LiveFiles
  <2> QED BY <1>4, <2>1 DEF FileSet, KeysOf
<1> HIDE DEF keys
<1>6. \A i \in 1 .. Len(q) : Seen(keys(i), user, snapshot, seen[i])
  BY <1>4, <1>5, VisibleIs
<1>7. hits = {i \in 1 .. Len(q) : seen[i] # None}
  BY <1>4
<1> HIDE DEF hits, seen, all
<1>8. CASE hits = {}
  <2>1. \A k \in all : ~(k.user = user /\ k.seq <= snapshot)
    BY <1>3, <1>6, <1>7, <1>8 DEF Seen
  <2> QED BY <1>1, <1>8, <2>1 DEF Seen, all, entry
<1>9. CASE hits # {}
  <2> DEFINE m == Min(hits)
  <2>1. m \in hits /\ \A i \in hits : m <= i
    <3>1. hits \in SUBSET Nat
      BY <1>4, <1>7
    <3> QED BY ONLY <1>9, <3>1, MinIs
  <2>2. entry = seen[m]
    BY <1>1, <1>9
  <2> HIDE DEF m
  <2>3. m \in 1 .. Len(q) /\ seen[m] # None
    BY <1>7, <2>1
  <2> DEFINE e == seen[m]
  <2>4. /\ e # None /\ e \in keys(m) /\ e.user = user /\ e.seq <= snapshot
        /\ \A k \in keys(m) : k.user = user /\ k.seq <= snapshot => k.seq <= e.seq
    BY <1>6, <2>3 DEF Seen
  <2> HIDE DEF e
  <2>5. e \in all /\ e.seq \in Nat
    BY <1>5, <2>3, <2>4 DEF IKeys
  <2>6. ASSUME NEW k \in all, k.user = user, k.seq <= snapshot
        PROVE  k.seq <= e.seq
    <3>1. PICK i \in 1 .. Len(q) : k \in keys(i)
      BY <1>3, <2>6
    <3>2. seen[i] # None
      BY <1>6, <2>6, <3>1 DEF Seen
    <3>3. m <= i
      BY <1>7, <2>1, <3>2
    <3>4. CASE m = i
      BY <2>4, <2>6, <3>1, <3>4
    <3>5. CASE m < i
      <4>1. Newer(q[m].file, q[i].file)
        <5>1. q[m].level \in Levels /\ q[i].level \in Levels
          BY <1>4, <2>3
        <5>2. q[m].file \in ToSet(v[q[m].level]) /\ q[i].file \in ToSet(v[q[i].level])
          BY <1>2, <2>3
        <5>3. \/ q[m].level < q[i].level
              \/ q[m].level = 0 /\ q[i].level = 0 /\ q[m].file.num > q[i].file.num
          BY <1>2, <2>3, <3>5
        <5> QED BY <5>1, <5>2, <5>3 DEF Ordered
      <4>2. e.seq > k.seq
        BY <2>4, <2>6, <3>1, <4>1 DEF Newer, keys
      <4>3. k.seq \in Nat
        BY <1>5, <3>1 DEF IKeys
      <4> QED BY ONLY <2>5, <4>2, <4>3
    <3> QED BY <2>3, <3>3, <3>4, <3>5
  <2> QED BY <2>2, <2>4, <2>5, <2>6 DEF Seen, e, all, entry
<1> QED BY <1>8, <1>9
-----------------------------------------------------------------------------
(* Levels without a range or a key *)

\* If a file overlaps the range, OverlapInLevel tells.
LEMMA OverlapIs ==
  ASSUME NEW W \in SUBSET IKeys, \A k \in W : k.seq <= kMaxSequenceNumber, NEW v \in Versions(W),
         NEW l \in Levels, l > 0 => LevelSound(v[l]), NEW lo \in Nat, NEW hi \in Nat,
         NEW f \in ToSet(v[l]), Hit(f, lo, hi)
  PROVE  OverlapInLevel(v, l, lo, hi)
<1> DEFINE files == v[l]
<1>1. files \in Seq(FileSet(W)) /\ ToSet(files) = {files[i] : i \in 1 .. Len(files)} /\ Len(files) \in Nat
  <2>1. files \in Seq(FileSet(W))
    BY DEF Versions
  <2> HIDE DEF files
  <2> QED BY <2>1, Elements
<1>2. l \in Nat
  BY VersionAssumption DEF Levels
<1>3. f.largest.user >= lo /\ f.smallest.user <= hi /\ f \in ToSet(files) /\ (l > 0 => LevelSound(files))
  BY DEF Hit
<1>4. OverlapInLevel(v, l, lo, hi) = SomeFileOverlapsRange(files, l > 0, lo, hi)
  BY DEF OverlapInLevel
<1> HIDE DEF files
<1>5. PICK j \in 1 .. Len(files) : f = files[j]
  BY <1>1, <1>3
<1>6. \A i \in 1 .. Len(files) :
        /\ files[i].smallest \in IKeys /\ files[i].largest \in IKeys /\ files[i].largest \in W
        /\ files[i].smallest.user \in Nat /\ files[i].largest.user \in Nat
        /\ files[i].smallest.user <= files[i].largest.user
  <2> TAKE i \in 1 .. Len(files)
  <2>1. files[i] \in FileSet(W)
    BY <1>1
  <2> QED BY <2>1, FileIs
<1>7. CASE l = 0
  <2>1. lo <= files[j].largest.user /\ hi >= files[j].smallest.user
    BY <1>3, <1>5, <1>6
  <2>2. DOMAIN files = 1 .. Len(files)
    BY <1>1
  <2>3. ~(l > 0)
    BY <1>7
  <2> QED BY <1>4, <1>5, <2>1, <2>2, <2>3 DEF SomeFileOverlapsRange
<1>8. CASE l > 0
  <2> DEFINE ikey == IKey(lo, kMaxSequenceNumber, FALSE)
             i == FindFile(files, ikey)
  <2>1. ikey \in IKeys /\ ikey.user = lo /\ ikey.seq = kMaxSequenceNumber
    BY VersionAssumption DEF IKey, IKeys
  <2>2. /\ \A m, n \in 1 .. Len(files) : m < n => files[m].largest.user < files[n].smallest.user
        /\ Ascending(files)
    BY <1>1, <1>3, <1>8, LevelSoundMeans
  <2> HIDE DEF ikey
  <2>3. i \in 1 .. Len(files) + 1 /\ \A m \in 1 .. Len(files) : m < i => ILess(files[m].largest, ikey)
    BY <1>1, <2>1, <2>2, FindFileIs
  <2> HIDE DEF i
  <2>4. ~ILess(files[j].largest, ikey)
    <3> DEFINE k == files[j].largest
    <3>1. k \in W /\ k.user \in Nat /\ k.user >= lo
      BY <1>3, <1>5, <1>6
    <3>2. k.seq \in Nat /\ k.seq <= kMaxSequenceNumber
      BY <3>1 DEF IKeys
    <3> HIDE DEF k
    <3>3. ~ILess(k, ikey)
      <4>1. ikey.user = lo /\ ikey.seq = kMaxSequenceNumber /\ ikey.seq \in Nat
        BY <2>1 DEF IKeys
      <4> DEFINE a == k.user
                 b == k.seq
                 d == ikey.seq
      <4>2. /\ a \in Nat /\ lo \in Nat /\ a >= lo /\ b \in Nat /\ d \in Nat /\ b <= d
            /\ (ILess(k, ikey) <=> a < lo \/ (a = lo /\ b > d))
        BY <3>1, <3>2, <4>1 DEF ILess
      <4> HIDE DEF a, b, d
      <4> QED BY ONLY <4>2
    <3> QED BY <3>3 DEF k
  <2>5. i <= j /\ i \in 1 .. Len(files)
    BY <1>1, <1>5, <2>3, <2>4
  <2>6. hi >= files[i].smallest.user
    <3>1. CASE i = j
      BY <1>3, <1>5, <1>6, <3>1
    <3>2. CASE i < j
      <4>1. files[i].largest.user < files[j].smallest.user
        BY <1>5, <2>2, <2>5, <3>2
      <4> DEFINE a == files[i].smallest.user
                 b == files[i].largest.user
                 d == files[j].smallest.user
      <4>2. a \in Nat /\ b \in Nat /\ d \in Nat /\ a <= b /\ b < d /\ d <= hi
        BY <1>3, <1>5, <1>6, <2>5, <4>1
      <4> HIDE DEF a, b, d
      <4>3. hi >= a
        BY <4>2
      <4> QED BY <4>3 DEF a
    <3> QED BY <2>5, <3>1, <3>2
  <2>7. i <= Len(files)
    BY <1>1, <2>5
  <2> QED BY <1>4, <1>8, <2>6, <2>7 DEF SomeFileOverlapsRange, i, ikey
<1> QED BY <1>2, <1>7, <1>8

\* The memtable goes below level 0 only past levels without its range.
LEMMA PickLevelPasses ==
  ASSUME NEW W \in SUBSET IKeys, \A k \in W : k.seq <= kMaxSequenceNumber, NEW v \in Versions(W),
         LevelsSound(v), NEW lo \in Nat, NEW hi \in Nat,
         NEW l \in Levels, l <= PickLevelForMemTableOutput(v, lo, hi), PickLevelForMemTableOutput(v, lo, hi) > 0,
         NEW f \in ToSet(v[l])
  PROVE  ~Hit(f, lo, hi)
<1> DEFINE stays(level) == \/ OverlapInLevel(v, level + 1, lo, hi)
                           \/ /\ level + 2 < kNumLevels
                              /\ TotalFileSize(GetOverlappingInputs(v, level + 2, lo, hi)) > MaxGrandParentOverlapBytes
           T == {kMaxMemCompactLevel} \cup {m \in 0 .. kMaxMemCompactLevel - 1 : stays(m)}
           pick == PickLevelForMemTableOutput(v, lo, hi)
<1>1. pick = IF OverlapInLevel(v, 0, lo, hi) THEN 0 ELSE Min(T)
  BY DEF PickLevelForMemTableOutput
<1>2. kMaxMemCompactLevel \in Nat /\ l \in Nat
  BY VersionAssumption DEF Levels
<1>3. pick \in 0 .. kMaxMemCompactLevel
  BY PickLevelIs
<1> HIDE DEF pick
<1>4. ~OverlapInLevel(v, 0, lo, hi) /\ pick = Min(T)
  BY <1>1 DEF pick
<1>5. \A m \in T : pick <= m
  <2>1. T \in SUBSET Nat /\ T # {}
    <3> HIDE DEF stays
    <3> QED BY <1>2
  <2> HIDE DEF T
  <2> QED BY ONLY <1>4, <2>1, MinIs
<1>6. ~OverlapInLevel(v, l, lo, hi)
  <2>1. CASE l = 0
    BY <1>4, <2>1
  <2>2. CASE l > 0
    <3>1. l <= pick
      BY DEF pick
    <3>2. l - 1 \in 0 .. kMaxMemCompactLevel - 1 /\ ~(pick <= l - 1) /\ l - 1 + 1 = l
      BY <1>2, <1>3, <2>2, <3>1
    <3>3. l - 1 \notin T
      BY <1>5, <3>2
    <3>4. ~stays(l - 1)
      <4> HIDE DEF stays
      <4> QED BY <3>2, <3>3
    <3>5. ~OverlapInLevel(v, l - 1 + 1, lo, hi)
      BY <3>4
    <3> QED BY <3>2, <3>5
  <2> QED BY <1>2, <2>1, <2>2
<1>7. l > 0 => LevelSound(v[l])
  BY <1>2, VersionAssumption DEF LevelsSound, Levels
<1> QED BY <1>6, <1>7, OverlapIs

\* IsBaseLevelForKey: no file behind the next level has the key in its range.
LEMMA BaseLevelIs ==
  ASSUME NEW W \in SUBSET IKeys, NEW c, c.level \in 0 .. kNumLevels - 2, c.version \in Versions(W),
         LevelsSound(c.version), NEW user \in Nat, IsBaseLevelForKey(c, user),
         NEW m \in c.level + 2 .. kNumLevels - 1, NEW f \in ToSet(c.version[m])
  PROVE  ~(f.smallest.user <= user /\ user <= f.largest.user)
<1> DEFINE files == c.version[m]
           I == {j \in 1 .. Len(files) : user <= files[j].largest.user}
           i == IF I # {} THEN Min(I) ELSE 0
<1>1. i = 0 \/ user < files[i].smallest.user
  BY DEF IsBaseLevelForKey, SelectInSeq
<1>2. m \in 1 .. kNumLevels - 1 /\ m \in Levels
  <2> DEFINE l == c.level
  <2>1. l \in 0 .. kNumLevels - 2 /\ m \in l + 2 .. kNumLevels - 1
    OBVIOUS
  <2> HIDE DEF l
  <2> QED BY <2>1, VersionAssumption DEF Levels
<1>3. files \in Seq(FileSet(W)) /\ LevelSound(files) /\ f \in ToSet(files)
  BY <1>2 DEF Versions, LevelsSound
<1> HIDE DEF files
<1>4. Len(files) \in Nat /\ ToSet(files) = {files[j] : j \in 1 .. Len(files)}
  BY <1>3, Elements
<1>5. \A j \in 1 .. Len(files) : files[j].smallest.user \in Nat /\ files[j].largest.user \in Nat
  <2> TAKE j \in 1 .. Len(files)
  <2>1. files[j] \in FileSet(W)
    BY <1>3
  <2> QED BY <2>1, FileIs
<1>6. PICK j \in 1 .. Len(files) : f = files[j]
  BY <1>3, <1>4
<1>7. SUFFICES ASSUME f.smallest.user <= user, user <= f.largest.user PROVE FALSE
  OBVIOUS
<1>8. j \in I /\ I \in SUBSET Nat /\ I # {}
  BY <1>6, <1>7
<1>9. Min(I) \in I /\ \A n \in I : Min(I) <= n
  BY ONLY <1>8, MinIs
<1>10. i \in I /\ i <= j
  BY <1>8, <1>9
<1> HIDE DEF i
<1>11. i \in 1 .. Len(files) /\ i # 0 /\ user <= files[i].largest.user
  BY <1>10
<1>12. user < files[i].smallest.user
  BY <1>1, <1>11
<1>13. CASE i = j
  BY <1>5, <1>6, <1>7, <1>11, <1>12, <1>13
<1>14. CASE i < j
  <2>1. files[i].largest.user < files[j].smallest.user
    BY <1>3, <1>6, <1>11, <1>14, LevelSoundMeans
  <2> DEFINE a == files[i].largest.user
             b == files[j].smallest.user
  <2>2. a \in Nat /\ b \in Nat /\ user <= a /\ a < b /\ b <= user
    BY <1>5, <1>6, <1>7, <1>11, <2>1
  <2> HIDE DEF a, b
  <2> QED BY <2>2
<1> QED BY <1>6, <1>10, <1>13, <1>14
-----------------------------------------------------------------------------
(* What a compaction keeps *)

\* A key goes if a newer one for its user key is visible to every snapshot, or if it is a
\* deletion with nothing behind it; and behind such a newer key every key goes.
KeptOf(c, smallest_snapshot, keys, kept) ==
  /\ kept \subseteq keys
  /\ \A k \in keys \ kept :
       \/ \E k1 \in keys : k1.user = k.user /\ k.seq < k1.seq /\ k1.seq <= smallest_snapshot
       \/ k.del /\ k.seq <= smallest_snapshot /\ IsBaseLevelForKey(c, k.user)
  /\ \A k, k1 \in keys :
       k1.user = k.user /\ k.seq < k1.seq /\ k1.seq <= smallest_snapshot => k \notin kept

LEMMA WorkKeeps ==
  ASSUME NEW W \in SUBSET IKeys, Distinct(W), IsFiniteSet(W), NEW v, NEW c, CompactionOf(W, v, c),
         NEW smallest_snapshot \in Nat
  PROVE  KeptOf(c, smallest_snapshot, InputKeys(c), UNION ToSet(DoCompactionWork(c, smallest_snapshot)))
<1>1. PICK E : Turns(W, c, smallest_snapshot, E)
  BY WorkTurns
<1> DEFINE keys == InputKeys(c)
           input == SortedKeys(keys)
           n == Len(input)
           kept == UNION ToSet(DoCompactionWork(c, smallest_snapshot))
           Goes(j) == Gone(c, E[j - 1].user, E[j - 1].last, input[j], smallest_snapshot)
           l == Len(c.grandparents)
<1>2. /\ input \in Seq(W) /\ keys \in SUBSET W
      /\ \A i \in 0 .. n : E[i] \in WorkStates(W, l)
      /\ E[0].user = -1 /\ E[0].open = {} /\ E[0].outs = << >>
      /\ \A i \in 1 .. n : E[i] = CompactKey(c, E[i - 1], input[i], smallest_snapshot)
      /\ DoCompactionWork(c, smallest_snapshot) = FinishCompactionOutputFile(E[n]).outs
  BY <1>1 DEF Turns
<1>3. c.grandparents \in Seq(FileSet(W)) /\ l \in Nat
  BY DEF CompactionOf
<1> HIDE DEF kept, keys
<1>4. /\ ToSet(input) = keys
      /\ \A i, j \in 1 .. n : i < j => ILess(input[i], input[j])
  <2>1. keys \in SUBSET IKeys /\ Distinct(keys) /\ IsFiniteSet(keys)
    <3>1. IsFiniteSet(keys)
      BY <1>2, FS_Subset
    <3> QED BY <1>2, <3>1 DEF Distinct
  <2> QED BY ONLY <2>1, SortedKeysIs DEF input, n
<1> HIDE DEF input, l, n
<1>5. n \in Nat /\ keys = {input[i] : i \in 1 .. n} /\ \A i \in 1 .. n : input[i] \in W /\ input[i] \in IKeys
  <2>1. ToSet(input) = {input[i] : i \in 1 .. Len(input)} /\ Len(input) \in Nat
    BY ONLY <1>2, Elements
  <2>2. \A i \in 1 .. Len(input) : input[i] \in W
    BY ONLY <1>2
  <2> QED BY <1>4, <2>1, <2>2 DEF n
<1>6. \A i \in 1 .. n : i \in 0 .. n /\ i - 1 \in 0 .. n
  BY <1>5
<1>7. ASSUME NEW i \in 1 .. n
      PROVE  /\ E[i].user = input[i].user /\ E[i].last = input[i].seq
             /\ Held(E[i]) = IF Goes(i) THEN Held(E[i - 1]) ELSE Held(E[i - 1]) \cup {input[i]}
  <2> DEFINE s == E[i - 1]
             k == input[i]
             t == CompactKey(c, s, k, smallest_snapshot)
  <2>1. s \in WorkStates(W, Len(c.grandparents)) /\ k \in W /\ E[i] = t
    BY <1>2, <1>5, <1>6 DEF l
  <2> HIDE DEF s, k
  <2>2. /\ t.user = k.user /\ t.last = k.seq
        /\ Held(t) = IF Gone(c, s.user, s.last, k, smallest_snapshot) THEN Held(s) ELSE Held(s) \cup {k}
    BY <1>3, <2>1, CompactKeyIs
  <2> HIDE DEF t
  <2> QED BY <2>1, <2>2 DEF s, k
<1> HIDE DEF Goes
<1>8. \A i \in 0 .. n : Held(E[i]) = {input[j] : j \in {m \in 1 .. i : ~Goes(m)}}
  <2> DEFINE Of(i) == {input[j] : j \in {m \in 1 .. i : ~Goes(m)}}
             P == {i \in 0 .. n : Held(E[i]) = Of(i)}
  <2>1. 0 \in P
    <3>1. Held(E[0]) = {}
      <4>1. ToSet(<< >>) = {}
        BY DEF ToSet
      <4> QED BY <1>2, <4>1 DEF Held
    <3>2. Of(0) = {} /\ 0 \in 0 .. n
      BY <1>5
    <3> QED BY <3>1, <3>2
  <2>2. ASSUME NEW i \in 1 .. n, i - 1 \in P
        PROVE  i \in P
    <3>1. Held(E[i - 1]) = Of(i - 1)
      BY <2>2
    <3>2. \A m : m \in 1 .. i <=> m \in 1 .. i - 1 \/ m = i
      BY <1>5
    <3>3. Of(i) = IF Goes(i) THEN Of(i - 1) ELSE Of(i - 1) \cup {input[i]}
      BY <3>2
    <3> HIDE DEF Of
    <3>4. Held(E[i]) = Of(i)
      BY <1>7, <3>1, <3>3
    <3> QED BY <1>6, <3>4
  <2> HIDE DEF P
  <2>3. \A i \in 0 .. n : i \in P
    BY ONLY <1>5, <2>1, <2>2, UpTo
  <2> QED BY <2>3 DEF P
<1>9. kept = {input[j] : j \in {m \in 1 .. n : ~Goes(m)}}
  <2>1. n \in 0 .. n
    BY <1>5
  <2>2. E[n] \in WorkStates(W, l)
    BY <1>2, <2>1
  <2>3. Held(E[n]) = UNION ToSet(FinishCompactionOutputFile(E[n]).outs)
    BY <1>3, <2>2, FinishHolds
  <2> QED BY <1>2, <1>8, <2>1, <2>3 DEF kept
<1>10. ASSUME NEW j \in 1 .. n, Goes(j)
       PROVE  \/ \E k1 \in keys : k1.user = input[j].user /\ input[j].seq < k1.seq /\ k1.seq <= smallest_snapshot
              \/ input[j].del /\ input[j].seq <= smallest_snapshot /\ IsBaseLevelForKey(c, input[j].user)
  <2>1. CASE input[j].del /\ input[j].seq <= smallest_snapshot /\ IsBaseLevelForKey(c, input[j].user)
    BY <2>1
  <2>2. CASE E[j - 1].user = input[j].user /\ E[j - 1].last <= smallest_snapshot
    <3>1. j # 1
      BY <1>2, <1>5, <2>2 DEF IKeys
    <3>2. j - 1 \in 1 .. n /\ j - 1 < j
      BY <1>5, <3>1
    <3> DEFINE k1 == input[j - 1]
               k == input[j]
    <3>3. k1.user = k.user /\ k1.seq <= smallest_snapshot
      BY <1>7, <2>2, <3>2
    <3>4. ILess(k1, k) /\ k1 \in keys
      BY <1>4, <1>5, <3>2
    <3>5. k1.seq \in Nat /\ k.seq \in Nat /\ k1.user \in Nat
      BY <1>5, <3>2 DEF IKeys
    <3> HIDE DEF k1, k
    <3>6. k.seq < k1.seq
      BY ONLY <3>3, <3>4, <3>5 DEF ILess
    <3> QED BY <3>3, <3>4, <3>6 DEF k
  <2> QED BY <1>10, <2>1, <2>2 DEF Goes, Gone
<1>11. ASSUME NEW j \in 1 .. n, NEW i \in 1 .. n,
              input[i].user = input[j].user, input[j].seq < input[i].seq, input[i].seq <= smallest_snapshot
       PROVE  Goes(j)
  <2> DEFINE k1 == input[i]
             k == input[j]
  <2>1. k1 \in IKeys /\ k \in IKeys /\ k1.seq \in Nat /\ k.seq \in Nat /\ k.user \in Nat /\ k1.user = k.user
    BY <1>5, <1>11 DEF IKeys
  <2>2. ILess(k1, k) /\ ~ILess(k, k1)
    <3> HIDE DEF k1, k
    <3> QED BY ONLY <2>1, <1>11 DEF ILess, k1, k
  <2>3. i # j /\ ~(j < i)
    BY <1>4, <2>2
  <2>4. i <= j - 1 /\ j - 1 \in 1 .. n /\ j - 1 < j
    BY <1>5, <2>3
  <2> DEFINE k2 == input[j - 1]
  <2>5. k2.user = k.user /\ k2.seq <= smallest_snapshot
    <3>1. k2 \in IKeys /\ k2.user \in Nat /\ k2.seq \in Nat
      BY <1>5, <2>4 DEF IKeys
    <3>2. CASE i = j - 1
      BY <1>11, <3>2
    <3>3. CASE i < j - 1
      <4>1. ILess(k1, k2) /\ ILess(k2, k)
        BY <1>4, <2>4, <3>3
      <4>2. k1.seq <= smallest_snapshot
        BY <1>11
      <4> HIDE DEF k, k1, k2
      <4> QED BY ONLY <2>1, <3>1, <4>1, <4>2, smallest_snapshot \in Nat DEF ILess
    <3> QED BY <1>5, <2>4, <3>2, <3>3
  <2>6. E[j - 1].user = k2.user /\ E[j - 1].last = k2.seq
    BY <1>7, <2>4
  <2> QED BY <2>5, <2>6 DEF Goes, Gone
<1>12. \A j, m \in 1 .. n : input[j] = input[m] => j = m
  <2> TAKE j, m \in 1 .. n
  <2>1. \A a \in IKeys : ~ILess(a, a)
    BY KeyLess
  <2>2. input[j] = input[m] => ~(j < m) /\ ~(m < j)
    BY <1>4, <1>5, <2>1
  <2> QED BY <1>5, <2>2
<1>13. \A j \in 1 .. n : input[j] \in kept <=> ~Goes(j)
  BY <1>9, <1>12
<1>14. kept \subseteq keys
  BY <1>5, <1>9
<1>15. \A k \in keys \ kept :
         \/ \E k1 \in keys : k1.user = k.user /\ k.seq < k1.seq /\ k1.seq <= smallest_snapshot
         \/ k.del /\ k.seq <= smallest_snapshot /\ IsBaseLevelForKey(c, k.user)
  <2> TAKE k \in keys \ kept
  <2>1. PICK j \in 1 .. n : k = input[j]
    BY <1>5
  <2> QED BY <1>10, <1>13, <2>1
<1>16. ASSUME NEW k \in keys, NEW k1 \in keys, k1.user = k.user, k.seq < k1.seq, k1.seq <= smallest_snapshot
       PROVE  k \notin kept
  <2>1. PICK j \in 1 .. n : k = input[j]
    BY <1>5
  <2>2. PICK i \in 1 .. n : k1 = input[i]
    BY <1>5
  <2> QED BY <1>11, <1>13, <1>16, <2>1, <2>2
<1> QED BY <1>14, <1>15, <1>16 DEF KeptOf, kept, keys
-----------------------------------------------------------------------------
(* Reads find the same in two sets of entries *)

Alike(P, W, from) ==
  \A user, snapshot \in Nat :
    snapshot >= from => Found(Visible(P, user, snapshot)) = Found(Visible(W, user, snapshot))

\* A new entry is found in both.
LEMMA AlikeAdd ==
  ASSUME NEW W \in SUBSET IKeys, Distinct(W), IsFiniteSet(W), NEW P \in SUBSET W, NEW k \in IKeys,
         \A a \in W : a.seq < k.seq, NEW from \in Nat, NEW from1 \in Nat, from <= from1, Alike(P, W, from)
  PROVE  Alike(P \cup {k}, W \cup {k}, from1)
<1> DEFINE W1 == W \cup {k}
<1>1. W1 \in SUBSET IKeys /\ Distinct(W1) /\ IsFiniteSet(W1)
  <2>1. \A a \in W : a.seq # k.seq
    BY DEF IKeys
  <2>2. Distinct(W1)
    BY <2>1 DEF Distinct
  <2> QED BY <2>2, FS_AddElement
<1>2. ASSUME NEW user \in Nat, NEW snapshot \in Nat, snapshot >= from1
      PROVE  Found(Visible(P \cup {k}, user, snapshot)) = Found(Visible(W1, user, snapshot))
  <2>1. CASE k.user = user /\ k.seq <= snapshot
    <3>1. ASSUME NEW S \in SUBSET W
          PROVE  Visible(S \cup {k}, user, snapshot) = k
      <4> DEFINE S1 == S \cup {k}
      <4>1. S1 \in SUBSET W1
        OBVIOUS
      <4>2. \A a \in S1 : a.seq <= k.seq
        BY DEF IKeys
      <4>3. Seen(S1, user, snapshot, k)
        BY <2>1, <4>2, KeyIsEntry DEF Seen
      <4> HIDE DEF S1, W1
      <4>4. Seen(S1, user, snapshot, Visible(S1, user, snapshot))
        BY <1>1, <4>1, VisibleIs
      <4> QED BY <1>1, <4>1, <4>3, <4>4, SeenOnce DEF S1
    <3>2. Visible(P \cup {k}, user, snapshot) = k /\ Visible(W \cup {k}, user, snapshot) = k
      <4>1. W \in SUBSET W
        OBVIOUS
      <4> QED BY <3>1, <4>1
    <3> QED BY <3>2
  <2>2. CASE ~(k.user = user /\ k.seq <= snapshot)
    <3>1. \A S : {a \in S \cup {k} : a.user = user /\ a.seq <= snapshot} = {a \in S : a.user = user /\ a.seq <= snapshot}
      BY <2>2
    <3>2. \A S : Visible(S \cup {k}, user, snapshot) = Visible(S, user, snapshot)
      BY <3>1 DEF Visible
    <3>3. snapshot >= from
      BY <1>2
    <3> QED BY <3>2, <3>3 DEF Alike
  <2> QED BY <2>1, <2>2
<1> QED BY <1>2 DEF Alike

\* What a compaction drops nobody finds.
LEMMA AlikeDrop ==
  ASSUME NEW W \in SUBSET IKeys, Distinct(W), IsFiniteSet(W), NEW rest \in SUBSET W, NEW keys \in SUBSET W,
         NEW c, NEW smallest_snapshot \in Nat, NEW kept, KeptOf(c, smallest_snapshot, keys, kept),
         \A k \in keys, k1 \in rest : IsBaseLevelForKey(c, k.user) /\ k1.user = k.user => k1.seq > k.seq,
         NEW from \in Nat, smallest_snapshot <= from, Alike(rest \cup keys, W, from)
  PROVE  Alike(rest \cup kept, W, from)
<1> DEFINE P == rest \cup keys
           P1 == rest \cup kept
<1>1. kept \subseteq keys /\ P \in SUBSET W /\ P1 \in SUBSET W /\ P1 \subseteq P
  BY DEF KeptOf
<1>2. ASSUME NEW user \in Nat, NEW snapshot \in Nat, snapshot >= from
      PROVE  Found(Visible(P1, user, snapshot)) = Found(Visible(P, user, snapshot))
  <2> DEFINE e == Visible(P, user, snapshot)
             e1 == Visible(P1, user, snapshot)
  <2> HIDE DEF P, P1
  <2>1. Seen(P, user, snapshot, e) /\ Seen(P1, user, snapshot, e1)
    BY <1>1, VisibleIs
  <2> HIDE DEF e, e1
  <2>2. CASE e = None
    <3>1. e1 = None
      BY <1>1, <2>1, <2>2 DEF Seen
    <3> QED BY <2>2, <3>1 DEF e, e1
  <2>3. CASE e # None /\ e \in P1
    <3>1. Seen(P1, user, snapshot, e)
      BY <1>1, <2>1, <2>3 DEF Seen
    <3>2. e = e1
      BY <1>1, <2>1, <3>1, SeenOnce
    <3> QED BY <3>2 DEF e, e1
  <2>4. CASE e # None /\ e \notin P1
    <3>1. /\ e \in P /\ e.user = user /\ e.seq <= snapshot
          /\ \A k \in P : k.user = user /\ k.seq <= snapshot => k.seq <= e.seq
      BY <2>1, <2>4 DEF Seen
    <3>2. e \in keys \ kept /\ e.seq \in Nat
      <4>1. e \in W
        BY <1>1, <3>1
      <4> QED BY <2>4, <3>1, <4>1 DEF P, P1, IKeys
    <3>3. \A k \in P : k.seq \in Nat
      BY <1>1 DEF IKeys
    <3>4. \A k1 \in keys : k1.user = e.user /\ e.seq < k1.seq => ~(k1.seq <= smallest_snapshot)
      <4> TAKE k1 \in keys
      <4> HAVE k1.user = e.user /\ e.seq < k1.seq
      <4>1. k1 \in P /\ k1.seq \in Nat
        BY <3>3 DEF P
      <4>2. ~(k1.seq <= snapshot)
        BY <3>1, <3>2, <4>1
      <4> QED BY ONLY <1>2, <4>1, <4>2, smallest_snapshot \in Nat, from \in Nat, smallest_snapshot <= from
    <3>5. e.del /\ e.seq <= smallest_snapshot /\ IsBaseLevelForKey(c, e.user)
      BY <3>2, <3>4 DEF KeptOf
    <3>6. Found(e) = 0
      BY <2>4, <3>5 DEF Found
    <3>7. e1 = None
      <4> SUFFICES ASSUME e1 # None PROVE FALSE
        OBVIOUS
      <4>1. e1 \in P1 /\ e1 \in P /\ e1.user = user /\ e1.seq <= snapshot
        BY <1>1, <2>1 DEF Seen
      <4>2. e1.seq \in Nat /\ e1.seq <= e.seq /\ e1 # e
        BY <2>4, <3>1, <3>3, <4>1
      <4>3. e1.seq < e.seq
        <5>1. e1 \in W /\ e \in W
          BY <1>1, <3>1, <4>1
        <5>2. e1.seq # e.seq
          BY <4>2, <5>1 DEF Distinct
        <5> QED BY ONLY <3>2, <4>2, <5>2
      <4>4. CASE e1 \in rest
        <5>1. e1.seq > e.seq
          BY <3>1, <3>2, <3>5, <4>1, <4>4
        <5> QED BY ONLY <3>2, <4>2, <4>3, <5>1
      <4>5. CASE e1 \in kept
        <5>1. e1 \in keys /\ e \in keys
          BY <1>1, <3>2, <4>5
        <5>2. e1 \notin kept
          BY <3>1, <3>5, <4>1, <4>3, <5>1 DEF KeptOf
        <5> QED BY <4>5, <5>2
      <4> QED BY <4>1, <4>4, <4>5 DEF P1
    <3>8. Found(e1) = 0
      BY <3>7 DEF Found
    <3> QED BY <3>6, <3>8 DEF e, e1
  <2> QED BY <2>2, <2>3, <2>4
<1> HIDE DEF P, P1
<1>3. \A user, snapshot \in Nat : snapshot >= from =>
        Found(Visible(P1, user, snapshot)) = Found(Visible(W, user, snapshot))
  <2> TAKE user, snapshot \in Nat
  <2> HAVE snapshot >= from
  <2>1. Found(Visible(P, user, snapshot)) = Found(Visible(W, user, snapshot))
    BY DEF Alike, P
  <2> QED BY <1>2, <2>1
<1> QED BY <1>3 DEF Alike, P1
-----------------------------------------------------------------------------
(* Reads find what was written *)

FileKeys == KeysOf(LiveFiles(current_))
Present == mem_ \cup imm_ \cup FileKeys

\* Sequence numbers stay below the one that looks for everything; snapshots grow.
NumbersInv ==
  /\ last_sequence_ <= MaxSequence
  /\ \A i \in DOMAIN snapshots_ : snapshots_[i] <= last_sequence_
  /\ \A i, j \in DOMAIN snapshots_ : i < j => snapshots_[i] <= snapshots_[j]
\* A compaction goes by a snapshot that is no younger than the oldest there is.
OldestInv ==
  running # None => running.smallest_snapshot \in Nat /\ running.smallest_snapshot <= SmallestSnapshot
\* What is in a memtable is newer than what is in files.
AgeInv ==
  /\ \A a \in mem_, b \in imm_ \cup FileKeys : a.seq > b.seq
  /\ \A a \in imm_, b \in FileKeys : a.seq > b.seq
\* A file that came while a compaction runs has newer entries than its inputs.
Since(c, m, g) == g \in ToSet(c.version[m]) \/ \A a \in g.keys, b \in InputKeys(c) : a.user = b.user => a.seq > b.seq
WorkSound ==
  running # None =>
    /\ running.c.version \in Versions(written) /\ LevelsSound(running.c.version)
    /\ Closed(running.c.version, running.c)
    /\ \A m \in Levels : \A g \in ToSet(current_[m]) : Since(running.c, m, g)
SoundInv ==
  /\ LevelsSound(current_) /\ Ordered(current_) /\ WorkSound
  /\ Alike(Present, written, SmallestSnapshot)
BasicInv == LiveInv /\ NumbersInv /\ OldestInv /\ AgeInv
ReadInv == BasicInv /\ (sound => SoundInv)

LEMMA BasicFacts ==
  ASSUME LiveInv
  PROVE  /\ written \in SUBSET IKeys /\ Distinct(written) /\ IsFiniteSet(written)
         /\ mem_ \in SUBSET written /\ imm_ \in SUBSET written /\ FileKeys \in SUBSET written /\ Present \in SUBSET written
         /\ current_ \in Versions(written) /\ LiveFiles(current_) \in SUBSET FileSet(written)
         /\ Numbered(LiveFiles(current_)) /\ Numbered(ToSet(current_[0])) /\ 0 \in Levels
         /\ last_sequence_ \in Nat /\ snapshots_ \in Seq(Nat) /\ SmallestSnapshot \in Nat
<1>1. /\ written \in SUBSET IKeys /\ Distinct(written) /\ IsFiniteSet(written)
      /\ mem_ \in SUBSET written /\ imm_ \in SUBSET written /\ current_ \in Versions(written)
      /\ Numbered(LiveFiles(current_)) /\ last_sequence_ \in Nat /\ snapshots_ \in Seq(Nat)
  BY DEF LiveInv, KeysInv, FilesInv
<1>2. LiveFiles(current_) \in SUBSET FileSet(written) /\ FileKeys \in SUBSET written
  BY <1>1, LiveIn DEF FileKeys
<1>3. 0 \in Levels
  BY VersionAssumption DEF Levels
<1>4. Numbered(ToSet(current_[0]))
  <2>1. ToSet(current_[0]) \subseteq LiveFiles(current_)
    BY <1>3 DEF LiveFiles
  <2> QED BY <1>1, <2>1 DEF Numbered
<1>5. SmallestSnapshot \in Nat
  BY <1>1 DEF SmallestSnapshot
<1>6. Present \in SUBSET written
  BY <1>1, <1>2 DEF Present
<1> QED BY <1>1, <1>2, <1>3, <1>4, <1>5, <1>6

\* DBImpl::Get finds the newest entry there is.
LEMMA LookupIs ==
  ASSUME BasicInv, SoundInv, NEW user \in Nat, NEW snapshot \in Nat
  PROVE  Lookup(user, snapshot) = Visible(Present, user, snapshot)
<1> DEFINE m == Visible(mem_, user, snapshot)
           i == Visible(imm_, user, snapshot)
           f == VersionGet(current_, user, snapshot).entry
           e == Lookup(user, snapshot)
<1>1. e = IF m # None THEN m ELSE IF i # None THEN i ELSE f
  BY DEF Lookup
<1>2. Seen(mem_, user, snapshot, m) /\ Seen(imm_, user, snapshot, i)
  BY BasicFacts, VisibleIs DEF BasicInv
<1>3. Seen(FileKeys, user, snapshot, f)
  <2>1. LevelsSound(current_) /\ Ordered(current_)
    BY DEF SoundInv
  <2> QED BY <2>1, BasicFacts, VersionGetIs DEF BasicInv, FileKeys
<1> HIDE DEF m, i, f, e
<1>4. \A k \in Present : k.seq \in Nat
  BY BasicFacts DEF BasicInv, IKeys
<1>5. Present = mem_ \cup imm_ \cup FileKeys
  BY DEF Present
<1>6. \A a \in mem_, b \in imm_ \cup FileKeys : b.seq <= a.seq
  <2> TAKE a \in mem_, b \in imm_ \cup FileKeys
  <2>1. a.seq > b.seq /\ a.seq \in Nat /\ b.seq \in Nat
    BY <1>4, <1>5 DEF BasicInv, AgeInv
  <2> QED BY ONLY <2>1
<1>7. \A a \in imm_, b \in FileKeys : b.seq <= a.seq
  <2> TAKE a \in imm_, b \in FileKeys
  <2>1. a.seq > b.seq /\ a.seq \in Nat /\ b.seq \in Nat
    BY <1>4, <1>5 DEF BasicInv, AgeInv
  <2> QED BY ONLY <2>1
<1>8. Seen(Present, user, snapshot, e)
  <2>1. CASE m # None
    <3>1. e = m
      BY <1>1, <2>1
    <3> QED BY ONLY <1>2, <1>5, <1>6, <2>1, <3>1 DEF Seen
  <2>2. CASE m = None /\ i # None
    <3>1. e = i
      BY <1>1, <2>2
    <3> QED BY ONLY <1>2, <1>5, <1>7, <2>2, <3>1 DEF Seen
  <2>3. CASE m = None /\ i = None
    <3>1. e = f
      BY <1>1, <2>3
    <3> QED BY ONLY <1>2, <1>3, <1>5, <2>3, <3>1 DEF Seen
  <2> QED BY <2>1, <2>2, <2>3
<1>9. Seen(Present, user, snapshot, Visible(Present, user, snapshot))
  BY BasicFacts, VisibleIs DEF BasicInv
<1> QED BY <1>8, <1>9, BasicFacts, SeenOnce DEF BasicInv, e

LEMMA SnapshotsAre ==
  ASSUME LiveInv, NumbersInv
  PROVE  \A s \in Snapshots : s \in Nat /\ s >= SmallestSnapshot
<1>1. snapshots_ \in Seq(Nat) /\ last_sequence_ \in Nat /\ DOMAIN snapshots_ = 1 .. Len(snapshots_) /\ Len(snapshots_) \in Nat
  BY BasicFacts
<1>2. ToSet(snapshots_) = {snapshots_[i] : i \in 1 .. Len(snapshots_)}
  BY <1>1, Elements
<1>3. \A i \in 1 .. Len(snapshots_) : snapshots_[i] \in Nat
  BY <1>1
<1>4. CASE snapshots_ = << >>
  <2>1. SmallestSnapshot = last_sequence_ /\ Len(snapshots_) = 0
    BY <1>4 DEF SmallestSnapshot
  <2> QED BY <1>1, <1>2, <2>1 DEF Snapshots
<1>5. CASE snapshots_ # << >>
  <2>1. SmallestSnapshot = snapshots_[1] /\ 1 \in 1 .. Len(snapshots_)
    BY <1>1, <1>5 DEF SmallestSnapshot
  <2>2. \A i \in 1 .. Len(snapshots_) : snapshots_[1] <= snapshots_[i] /\ snapshots_[i] <= last_sequence_
    <3> TAKE i \in 1 .. Len(snapshots_)
    <3>1. i = 1 \/ 1 < i
      BY <1>1
    <3> QED BY <1>1, <1>3, <2>1, <3>1 DEF NumbersInv
  <2> QED BY <1>1, <1>2, <1>3, <2>1, <2>2 DEF Snapshots
<1> QED BY <1>4, <1>5

LEMMA ReadInvMeans == ReadInv => ReadsCorrectIfSound
<1> SUFFICES ASSUME ReadInv, sound PROVE EntriesNeverHop /\ ReadsCorrect
  BY DEF ReadsCorrectIfSound
<1>1. BasicInv /\ SoundInv
  BY DEF ReadInv
<1>2. EntriesNeverHop
  <2>1. Ordered(current_)
    BY <1>1 DEF SoundInv
  <2>2. ASSUME NEW l \in Levels, NEW m \in Levels, l < m
        PROVE  NewerAbove(l, m)
    <3> SUFFICES ASSUME NEW a \in Entries(l), NEW b \in Entries(m), a.user = b.user PROVE a.seq > b.seq
      BY DEF NewerAbove
    <3>1. PICK f \in ToSet(current_[l]) : a \in f.keys
      BY DEF Entries, Files
    <3>2. PICK g \in ToSet(current_[m]) : b \in g.keys
      BY DEF Entries, Files
    <3>3. Newer(f, g)
      BY <2>1, <2>2 DEF Ordered
    <3> QED BY <3>1, <3>2, <3>3 DEF Newer
  <2> QED BY <2>2 DEF EntriesNeverHop
<1>3. ReadsCorrect
  <2>1. ASSUME NEW user \in Keys \cup Missing, NEW s \in Snapshots
        PROVE  Found(Lookup(user, s)) = Found(Visible(written, user, s))
    <3>1. user \in Nat
      BY VersionSetAssumption
    <3>2. s \in Nat /\ s >= SmallestSnapshot
      BY <1>1, SnapshotsAre DEF BasicInv
    <3>3. Alike(Present, written, SmallestSnapshot)
      BY <1>1 DEF SoundInv
    <3>4. Lookup(user, s) = Visible(Present, user, s)
      BY <1>1, <3>1, <3>2, LookupIs
    <3> QED BY <3>1, <3>2, <3>3, <3>4 DEF Alike
  <2> QED BY <2>1 DEF ReadsCorrect
<1> QED BY <1>2, <1>3
LEMMA ReadInit == Init => ReadInv
<1> SUFFICES ASSUME Init PROVE ReadInv
  OBVIOUS
<1>1. /\ mem_ = {} /\ imm_ = {} /\ written = {} /\ current_ = [level \in Levels |-> << >>]
      /\ last_sequence_ = 0 /\ snapshots_ = << >> /\ running = None
  BY DEF Init
<1>2. LiveInv
  BY LiveInit
<1>3. \A level \in Levels : ToSet(current_[level]) = {} /\ Len(current_[level]) = 0
  BY <1>1 DEF ToSet
<1>4. FileKeys = {} /\ Present = {}
  <2>1. LiveFiles(current_) = {}
    BY <1>3 DEF LiveFiles
  <2> QED BY <1>1, <2>1 DEF FileKeys, Present, KeysOf
<1>5. NumbersInv /\ OldestInv /\ AgeInv
  BY <1>1, <1>4, VersionSetAssumption DEF NumbersInv, OldestInv, AgeInv
<1>6. SoundInv
  <2>1. LevelsSound(current_)
    <3> SUFFICES ASSUME NEW l \in 1 .. kNumLevels - 1 PROVE LevelSound(current_[l])
      BY DEF LevelsSound
    <3>1. l \in Levels
      BY VersionAssumption DEF Levels
    <3>2. Len(current_[l]) = 0
      BY <1>3, <3>1
    <3> QED BY <3>2 DEF LevelSound
  <2>2. Ordered(current_)
    <3>1. 0 \in Levels
      BY VersionAssumption DEF Levels
    <3> QED BY <1>3, <3>1 DEF Ordered
  <2>3. Alike(Present, written, SmallestSnapshot)
    BY <1>1, <1>4 DEF Alike
  <2> QED BY <1>1, <2>1, <2>2, <2>3 DEF SoundInv, WorkSound
<1> QED BY <1>2, <1>5, <1>6 DEF ReadInv, BasicInv

\* A write is newer than everything.
LEMMA ReadWrite ==
  ASSUME ReadInv, NEW user \in Keys, NEW del \in BOOLEAN, Write(user, del)
  PROVE  ReadInv'
<1> DEFINE k == IKey(user, last_sequence_ + 1, del)
<1>1. /\ last_sequence_ < MaxSequence
      /\ last_sequence_' = last_sequence_ + 1 /\ written' = written \cup {k} /\ mem_' = mem_ \cup {k}
      /\ imm_' = imm_ /\ snapshots_' = snapshots_ /\ running' = running /\ sound' = sound
      /\ current_' = current_
  BY DEF Write, versions
<1>2. LiveInv' /\ BasicInv /\ LiveInv
  BY LiveWrite DEF ReadInv, BasicInv
<1>3. last_sequence_ \in Nat /\ written \in SUBSET IKeys /\ SmallestSnapshot \in Nat /\ snapshots_ \in Seq(Nat)
  BY <1>2, BasicFacts
<1>4. k \in IKeys /\ k.seq = last_sequence_ + 1
  BY <1>3, VersionSetAssumption DEF IKey, IKeys
<1> HIDE DEF k
<1>5. \A a \in written : a.seq < k.seq /\ k.seq > a.seq
  <2> TAKE a \in written
  <2>1. a.seq \in Nat /\ a.seq <= last_sequence_
    BY <1>2, <1>3 DEF LiveInv, KeysInv, IKeys
  <2> QED BY <1>3, <1>4, <2>1
<1>6. SmallestSnapshot' \in Nat /\ SmallestSnapshot <= SmallestSnapshot'
  BY <1>1, <1>3 DEF SmallestSnapshot
<1>7. NumbersInv'
  <2>1. MaxSequence \in Nat
    BY VersionSetAssumption
  <2>2. last_sequence_' <= MaxSequence
    BY <1>1, <1>3, <2>1
  <2>3. \A i \in DOMAIN snapshots_ : snapshots_[i] <= last_sequence_'
    <3> TAKE i \in DOMAIN snapshots_
    <3>1. snapshots_[i] \in Nat /\ snapshots_[i] <= last_sequence_
      BY <1>2, <1>3 DEF BasicInv, NumbersInv
    <3> QED BY <1>1, <1>3, <3>1
  <2> QED BY <1>1, <1>2, <2>2, <2>3 DEF BasicInv, NumbersInv
<1>8. OldestInv'
  BY <1>1, <1>2, <1>3, <1>6 DEF BasicInv, OldestInv
<1>9. FileKeys' = FileKeys /\ Present' = Present \cup {k}
  BY <1>1 DEF FileKeys, Present, LiveFiles
<1>10. AgeInv'
  <2>1. imm_ \in SUBSET written /\ FileKeys \in SUBSET written
    BY <1>2, BasicFacts
  <2> QED BY <1>1, <1>2, <1>5, <1>9, <2>1 DEF BasicInv, AgeInv
<1>11. ASSUME sound
       PROVE  SoundInv'
  <2>1. SoundInv
    BY <1>11 DEF ReadInv
  <2>2. Alike(Present', written', SmallestSnapshot')
    <3>1. Alike(Present, written, SmallestSnapshot)
      BY <2>1 DEF SoundInv
    <3>2. Distinct(written) /\ IsFiniteSet(written) /\ Present \in SUBSET written
      BY <1>2, BasicFacts
    <3>3. Alike(Present \cup {k}, written \cup {k}, SmallestSnapshot')
      BY <1>3, <1>4, <1>5, <1>6, <3>1, <3>2, AlikeAdd
    <3> QED BY <1>1, <1>9, <3>3
  <2>3. LevelsSound(current_') /\ Ordered(current_')
    BY <1>1, <2>1 DEF SoundInv
  <2>4. WorkSound'
    <3>1. written \subseteq written'
      BY <1>1
    <3> QED BY <1>1, <2>1, <3>1, MoreKeys DEF SoundInv, WorkSound
  <2>5. LevelsSound(current_)' /\ Ordered(current_)' /\ Alike(Present, written, SmallestSnapshot)'
    BY <2>2, <2>3
  <2> QED BY <2>4, <2>5 DEF SoundInv
<1> QED BY <1>1, <1>2, <1>7, <1>8, <1>10, <1>11 DEF ReadInv, BasicInv
\* A sound version comes from a sound one.
LEMMA SoundBefore ==
  ASSUME NEW edit, LogAndApply(edit), sound'
  PROVE  sound /\ LevelsSound(current_')
<1>1. sound /\ Sound(current_')
  BY DEF LogAndApply
<1>2. Sound(current_') = LevelsSound(current_')
  BY DEF Sound, LevelsSound, LevelSound
<1> QED BY <1>1, <1>2

\* The inputs of the compaction that runs are among the entries of the files.
LEMMA InputKeysLive ==
  ASSUME LiveInv, running # None
  PROVE  /\ InputKeys(running.c) \in SUBSET FileKeys
         /\ running.c.level \in Levels /\ running.c.level + 1 \in Levels
         /\ InputKeys(running.c) = KeysOf(ToSet(running.c.inputs[1])) \cup KeysOf(ToSet(running.c.inputs[2]))
<1> DEFINE c == running.c
           l == c.level
<1>1. /\ l \in 0 .. kNumLevels - 2 /\ c.inputs[1] \in Seq(FileSet(written)) /\ c.inputs[2] \in Seq(FileSet(written))
      /\ \A w \in {1, 2} : ToSet(c.inputs[w]) \subseteq ToSet(current_[l + w - 1])
  BY DEF LiveInv, WorkInv, CompactionOf
<1> HIDE DEF c, l
<1>2. l \in Levels /\ l + 1 \in Levels /\ l + 1 - 1 = l /\ l + 2 - 1 = l + 1
  BY <1>1, VersionAssumption DEF Levels
<1>3. ToSet(c.inputs[1]) \subseteq LiveFiles(current_) /\ ToSet(c.inputs[2]) \subseteq LiveFiles(current_)
  BY <1>1, <1>2 DEF LiveFiles
<1>4. ToSet(c.inputs[1] \o c.inputs[2]) = ToSet(c.inputs[1]) \cup ToSet(c.inputs[2])
  BY <1>1, Concat
<1>5. InputKeys(c) = KeysOf(ToSet(c.inputs[1])) \cup KeysOf(ToSet(c.inputs[2]))
  BY <1>4 DEF InputKeys, KeysOf
<1>6. InputKeys(c) \subseteq FileKeys
  BY <1>3, <1>5 DEF FileKeys, KeysOf
<1> QED BY <1>2, <1>5, <1>6 DEF c, l

LEMMA ReadMakeRoomForWrite ==
  ASSUME ReadInv, MakeRoomForWrite, LiveInv'
  PROVE  ReadInv'
<1>1. /\ imm_ = {} /\ imm_' = mem_ /\ mem_' = {} /\ current_' = current_ /\ last_sequence_' = last_sequence_
      /\ snapshots_' = snapshots_ /\ running' = running /\ written' = written /\ sound' = sound
  BY DEF MakeRoomForWrite, versions
<1>2. FileKeys' = FileKeys /\ SmallestSnapshot' = SmallestSnapshot
  BY <1>1 DEF FileKeys, LiveFiles, SmallestSnapshot
<1>3. Present' = Present
  BY <1>1, <1>2 DEF Present
<1>4. NumbersInv' /\ OldestInv' /\ AgeInv'
  BY <1>1, <1>2 DEF ReadInv, BasicInv, NumbersInv, OldestInv, AgeInv
<1>5. sound => SoundInv'
  <2>1. sound => WorkSound'
    BY <1>1 DEF ReadInv, SoundInv, WorkSound
  <2>2. sound => LevelsSound(current_)' /\ Ordered(current_)' /\ Alike(Present, written, SmallestSnapshot)'
    BY <1>1, <1>2, <1>3 DEF ReadInv, SoundInv
  <2> QED BY <2>1, <2>2 DEF SoundInv
<1> QED BY <1>1, <1>4, <1>5 DEF ReadInv, BasicInv

\* The table of the memtable is newer than all files, and goes to a level above those
\* that have some of its range.
LEMMA ReadCompactMemTable ==
  ASSUME ReadInv, CompactMemTable, LiveInv'
  PROVE  ReadInv'
<1> DEFINE f == NewFile(next_file_number_, imm_)
           level0 == WriteLevel0Table(f)
           edit == [deleted |-> {}, added |-> {<<level0, f>>}]
<1>1. /\ imm_ # {} /\ LogAndApply(edit) /\ next_file_number_' = next_file_number_ + 1 /\ imm_' = {}
      /\ mem_' = mem_ /\ last_sequence_' = last_sequence_ /\ snapshots_' = snapshots_
      /\ running' = running /\ written' = written
  BY DEF CompactMemTable
<1>2. BasicInv /\ LiveInv /\ KeysInv /\ FilesInv /\ next_file_number_ \in Nat
  BY DEF ReadInv, BasicInv, LiveInv, FilesInv
<1>3. /\ written \in SUBSET IKeys /\ Distinct(written) /\ IsFiniteSet(written) /\ imm_ \in SUBSET written
      /\ FileKeys \in SUBSET written /\ current_ \in Versions(written) /\ LiveFiles(current_) \in SUBSET FileSet(written)
      /\ Numbered(LiveFiles(current_)) /\ last_sequence_ \in Nat /\ 0 \in Levels
  BY <1>2, BasicFacts
<1>4. f \in FileSet(written) /\ f.num = next_file_number_ /\ f.keys = imm_
  BY <1>1, <1>2, <1>3, NewFileIs
<1>5. level0 = PickLevelForMemTableOutput(current_, f.smallest.user, f.largest.user) /\ level0 \in Levels
  <2>1. level0 = PickLevelForMemTableOutput(current_, f.smallest.user, f.largest.user)
    BY DEF WriteLevel0Table
  <2>2. level0 \in 0 .. kMaxMemCompactLevel
    BY <2>1, PickLevelIs
  <2> HIDE DEF level0
  <2>3. level0 \in Levels
    BY <2>2, VersionAssumption DEF Levels
  <2> QED BY <2>1, <2>3 DEF level0
<1>6. edit.deleted = {} /\ edit.added = {<<level0, f>>} /\ IsFiniteSet(edit.added) /\ Added(edit) = {f}
  <2>1. Added(edit) = {f}
    <3> HIDE DEF f, level0
    <3> QED BY DEF Added
  <2>2. IsFiniteSet({<<level0, f>>})
    BY FS_Singleton
  <2> QED BY <2>1, <2>2
<1> HIDE DEF f, edit, level0
<1>7. \A g \in LiveFiles(current_) : g.num < f.num /\ g.num # f.num
  <2> TAKE g \in LiveFiles(current_)
  <2>1. g.num \in Nat /\ g.num < next_file_number_
    BY <1>2, <1>3 DEF FilesInv, FileSet
  <2> QED BY <1>2, <1>4, <2>1
<1>8. \A level \in Levels : ToSet(current_'[level]) = ToSet(current_[level]) \cup (IF level = level0 THEN {f} ELSE {})
  <2>1. current_' = SaveTo(current_, edit)
    BY <1>1 DEF LogAndApply
  <2>2. Numbered(LiveFiles(current_) \cup Added(edit))
    BY <1>3, <1>6, <1>7 DEF Numbered
  <2>3. Added(edit) \subseteq FileSet(written)
    BY <1>4, <1>6
  <2>4. \A level \in Levels : ToSet(SaveTo(current_, edit)[level]) = Kept(current_, edit, level)
    BY <1>3, <1>6, <2>2, <2>3, SaveToIs
  <2>5. \A level \in Levels : Kept(current_, edit, level) = ToSet(current_[level]) \cup (IF level = level0 THEN {f} ELSE {})
    <3> TAKE level \in Levels
    <3> DEFINE S == ToSet(current_[level])
               added == {e[2] : e \in {e \in edit.added : e[1] = level}}
               kept == {g \in S : <<level, g.num>> \notin edit.deleted}
    <3>1. kept = S
      BY ONLY <1>6
    <3>2. added = IF level = level0 THEN {f} ELSE {}
      <4>0. edit.added = {<<level0, f>>}
        BY <1>6
      <4>1. ASSUME level = level0 PROVE added = {f}
        <5>1. {e \in edit.added : e[1] = level} = {<<level0, f>>}
          BY ONLY <4>0, <4>1
        <5> DEFINE T == {e \in edit.added : e[1] = level}
        <5>2. T = {<<level0, f>>} /\ added = {e[2] : e \in T}
          BY <5>1
        <5> HIDE DEF T, added
        <5> QED BY ONLY <5>2
      <4>2. ASSUME level # level0 PROVE added = {}
        BY ONLY <4>0, <4>2
      <4> QED BY ONLY <4>1, <4>2
    <3>3. Kept(current_, edit, level) = kept \cup added
      BY DEF Kept
    <3> HIDE DEF S, added, kept
    <3>4. Kept(current_, edit, level) = S \cup (IF level = level0 THEN {f} ELSE {})
      BY ONLY <3>1, <3>2, <3>3
    <3> QED BY ONLY <3>4 DEF S
  <2> QED BY <2>1, <2>4, <2>5
<1>9. LiveFiles(current_)' = LiveFiles(current_) \cup {f}
  BY <1>5, <1>8 DEF LiveFiles
<1>10. FileKeys' = FileKeys \cup imm_ /\ Present' = Present
  <2>1. KeysOf(LiveFiles(current_)') = KeysOf(LiveFiles(current_)) \cup imm_
    BY <1>4, <1>9 DEF KeysOf
  <2>2. FileKeys' = KeysOf(LiveFiles(current_)')
    BY DEF FileKeys, KeysOf
  <2>3. FileKeys' = FileKeys \cup imm_
    BY <2>1, <2>2 DEF FileKeys
  <2> QED BY <1>1, <2>3 DEF Present
<1>11. SmallestSnapshot' = SmallestSnapshot
  BY <1>1 DEF SmallestSnapshot
<1>12. NumbersInv' /\ OldestInv' /\ AgeInv'
  BY <1>1, <1>2, <1>10, <1>11 DEF BasicInv, NumbersInv, OldestInv, AgeInv
<1>13. ASSUME sound' PROVE SoundInv'
  <2>1. sound /\ LevelsSound(current_') /\ SoundInv
    BY <1>1, <1>13, SoundBefore DEF ReadInv
  <2>2. \A level \in Levels : ToSet(current_[level]) \subseteq LiveFiles(current_)
    BY DEF LiveFiles
  <2>3. \A g \in LiveFiles(current_) : Newer(f, g)
    BY <1>2, <1>4 DEF BasicInv, AgeInv, Newer, FileKeys, KeysOf
  <2>4. ASSUME NEW l \in Levels, l < level0, NEW g \in ToSet(current_[l])
        PROVE  Newer(g, f)
    <3>1. \A k \in written : k.seq <= kMaxSequenceNumber
      <4> TAKE k \in written
      <4>1. k.seq \in Nat /\ k.seq <= last_sequence_ /\ last_sequence_ <= MaxSequence
        BY <1>2, <1>3 DEF BasicInv, NumbersInv, KeysInv, IKeys
      <4> QED BY <1>3, <4>1, VersionAssumption, VersionSetAssumption
    <3>2. f.smallest.user \in Nat /\ f.largest.user \in Nat
      BY <1>3, <1>4, FileIs
    <3>3. l <= level0 /\ level0 > 0
      BY <1>5, <2>4, VersionAssumption DEF Levels
    <3>4. LevelsSound(current_)
      BY <2>1 DEF SoundInv
    <3>5. ~Hit(g, f.smallest.user, f.largest.user)
      BY <1>3, <1>5, <2>4, <3>1, <3>2, <3>3, <3>4, PickLevelPasses
    <3>6. g \in FileSet(written)
      BY <1>3, <2>2, <2>4
    <3>7. ASSUME NEW a \in g.keys, NEW b \in f.keys, a.user = b.user
          PROVE  FALSE
      <4>1. /\ g.smallest.user \in Nat /\ g.largest.user \in Nat /\ a.user \in Nat
            /\ g.smallest.user <= a.user /\ a.user <= g.largest.user
        BY <1>3, <3>6, FileIs
      <4>2. f.smallest.user <= b.user /\ b.user <= f.largest.user
        BY <1>3, <1>4, FileIs
      <4> DEFINE gs == g.smallest.user
                 gl == g.largest.user
                 fs == f.smallest.user
                 fl == f.largest.user
                 u == a.user
      <4>3. gs \in Nat /\ gl \in Nat /\ fs \in Nat /\ fl \in Nat /\ u \in Nat
            /\ gs <= u /\ u <= gl /\ fs <= u /\ u <= fl /\ ~(gl >= fs /\ gs <= fl)
        BY <3>2, <3>5, <3>7, <4>1, <4>2 DEF Hit
      <4> HIDE DEF gs, gl, fs, fl, u
      <4> QED BY ONLY <4>3
    <3> QED BY <3>7 DEF Newer
  <2>5. Ordered(current_')
    <3>0. \A l \in Levels : l \in Int
      BY VersionAssumption DEF Levels
    <3>1. ASSUME NEW l \in Levels, NEW m \in Levels, l < m, NEW g \in ToSet(current_'[l]), NEW h \in ToSet(current_'[m])
          PROVE  Newer(g, h)
      <4>1. CASE g \in ToSet(current_[l]) /\ h \in ToSet(current_[m])
        BY <2>1, <3>1, <4>1 DEF SoundInv, Ordered
      <4>2. CASE g = f /\ h \in ToSet(current_[m])
        BY <2>2, <2>3, <4>2
      <4>3. CASE g \in ToSet(current_[l]) /\ h = f /\ m = level0
        BY <2>4, <3>1, <4>3
      <4>4. CASE l = level0 /\ m = level0
        BY <3>0, <3>1, <4>4
      <4> QED BY <1>8, <4>1, <4>2, <4>3, <4>4
    <3>2. ASSUME NEW g \in ToSet(current_'[0]), NEW h \in ToSet(current_'[0]), g.num > h.num
          PROVE  Newer(g, h)
      <4>1. CASE g \in ToSet(current_[0]) /\ h \in ToSet(current_[0])
        BY <2>1, <3>2, <4>1 DEF SoundInv, Ordered
      <4>2. CASE g = f /\ h \in ToSet(current_[0])
        BY <1>3, <2>2, <2>3, <4>2
      <4>3. CASE g \in ToSet(current_[0]) /\ h = f
        <5>1. g.num < f.num /\ g.num \in Nat /\ f.num \in Nat
          BY <1>3, <1>4, <1>7, <2>2, <4>3 DEF FileSet
        <5> QED BY <3>2, <4>3, <5>1
      <4>4. CASE g = f /\ h = f
        <5>1. f.num \in Nat
          BY <1>4 DEF FileSet
        <5> QED BY <3>2, <4>4, <5>1
      <4> QED BY <1>3, <1>8, <4>1, <4>2, <4>3, <4>4
    <3> QED BY <3>1, <3>2 DEF Ordered
  <2>6. WorkSound'
    <3>1. ASSUME running # None, NEW m \in Levels, NEW g \in ToSet(current_'[m])
          PROVE  Since(running.c, m, g)
      <4>1. CASE g \in ToSet(current_[m])
        BY <2>1, <3>1, <4>1 DEF SoundInv, WorkSound
      <4>2. CASE g = f
        <5>1. InputKeys(running.c) \in SUBSET FileKeys
          BY <1>2, <3>1, InputKeysLive
        <5> QED BY <1>2, <1>4, <4>2, <5>1 DEF BasicInv, AgeInv, Since
      <4> QED BY <1>8, <4>1, <4>2
    <3> QED BY <1>1, <2>1, <3>1 DEF SoundInv, WorkSound
  <2>7. Alike(Present, written, SmallestSnapshot)'
    BY <1>1, <1>10, <1>11, <2>1 DEF SoundInv
  <2>8. LevelsSound(current_)' /\ Ordered(current_)'
    BY <2>1, <2>5
  <2> QED BY <2>6, <2>7, <2>8 DEF SoundInv
<1> QED BY <1>12, <1>13 DEF ReadInv, BasicInv
-----------------------------------------------------------------------------
(* A compaction puts files of the next level in the place of its inputs *)

Replaces(v, v1, l, S1, S2, N) ==
  /\ ToSet(v1[l]) = ToSet(v[l]) \ S1 /\ ToSet(v1[l + 1]) = (ToSet(v[l + 1]) \ S2) \cup N
  /\ \A m \in Levels \ {l, l + 1} : ToSet(v1[m]) = ToSet(v[m])

\* The levels keep their order, if what stays in the level of the inputs is newer.
LEMMA ReplacedOrdered ==
  ASSUME NEW v, NEW v1, NEW l \in 0 .. kNumLevels - 2, NEW S1, NEW S2, NEW N, Replaces(v, v1, l, S1, S2, N),
         Ordered(v), S1 \subseteq ToSet(v[l]), S2 \subseteq ToSet(v[l + 1]),
         KeysOf(N) \subseteq KeysOf(S1) \cup KeysOf(S2),
         \A g \in ToSet(v[l]) \ S1, h \in S1 : Newer(g, h)
  PROVE  Ordered(v1)
<1>1. l \in Levels /\ l + 1 \in Levels /\ l < l + 1 /\ (\A m \in Levels : m \in Int) /\ 0 \in Levels /\ l + 1 # 0
  BY VersionAssumption DEF Levels
<1>2. ASSUME NEW m \in Levels, NEW g \in ToSet(v1[m]), ~(m = l + 1 /\ g \in N)
      PROVE  g \in ToSet(v[m]) /\ (m = l => g \notin S1)
  BY <1>1, <1>2 DEF Replaces
<1>3. ASSUME NEW m \in Levels, m <= l, NEW g \in ToSet(v[m]), m = l => g \notin S1, NEW f \in N
      PROVE  Newer(g, f)
  <2>1. \A h \in S2 : Newer(g, h)
    <3>1. m < l + 1
      BY <1>1, <1>3
    <3> QED BY <1>1, <3>1 DEF Ordered
  <2>2. \A h \in S1 : Newer(g, h)
    <3>1. m = l \/ m < l
      BY <1>1, <1>3
    <3> QED BY <1>1, <1>3, <3>1 DEF Ordered
  <2>3. ASSUME NEW b \in f.keys
        PROVE  \E h \in S1 \cup S2 : b \in h.keys
    BY DEF KeysOf
  <2> QED BY ONLY <2>1, <2>2, <2>3 DEF Newer
<1>4. ASSUME NEW m \in Levels, l + 1 < m, NEW g \in ToSet(v[m]), NEW f \in N
      PROVE  Newer(f, g)
  <2>1. \A h \in S1 \cup S2 : Newer(h, g)
    <3>1. l < m
      BY <1>1, <1>4
    <3> QED BY <1>1, <1>4, <3>1 DEF Ordered
  <2>2. ASSUME NEW b \in f.keys
        PROVE  \E h \in S1 \cup S2 : b \in h.keys
    BY DEF KeysOf
  <2> QED BY ONLY <2>1, <2>2 DEF Newer
<1>5. ASSUME NEW m \in Levels, NEW n \in Levels, m < n, NEW g \in ToSet(v1[m]), NEW h \in ToSet(v1[n])
      PROVE  Newer(g, h)
  <2>1. CASE m = l + 1 /\ g \in N
    <3>1. ~(n = l + 1 /\ h \in N)
      BY <1>1, <1>5, <2>1
    <3>2. h \in ToSet(v[n]) /\ l + 1 < n
      BY <1>2, <1>5, <2>1, <3>1
    <3> QED BY <1>4, <2>1, <3>2
  <2>2. CASE ~(m = l + 1 /\ g \in N) /\ n = l + 1 /\ h \in N
    <3>1. g \in ToSet(v[m]) /\ (m = l => g \notin S1)
      BY <1>2, <2>2
    <3>2. m <= l
      BY <1>1, <1>5, <2>2
    <3> QED BY <1>3, <2>2, <3>1, <3>2
  <2>3. CASE ~(m = l + 1 /\ g \in N) /\ ~(n = l + 1 /\ h \in N)
    <3>1. g \in ToSet(v[m]) /\ h \in ToSet(v[n])
      BY <1>2, <2>3
    <3> QED BY <1>5, <3>1 DEF Ordered
  <2> QED BY <2>1, <2>2, <2>3
<1>6. \A f, g \in ToSet(v1[0]) : f.num > g.num => Newer(f, g)
  <2>1. ToSet(v1[0]) \subseteq ToSet(v[0])
    BY <1>1, <1>2
  <2> QED BY <2>1 DEF Ordered
<1> QED BY <1>5, <1>6 DEF Ordered

\* What a compaction leaves in its levels is newer than what it takes from above it.
LEMMA LeftNewer ==
  ASSUME NEW W \in SUBSET IKeys, NEW v \in Versions(W), LevelsSound(v),
         NEW c, NEW cv, CompactionOf(W, cv, c), Closed(cv, c),
         ToSet(c.inputs[1]) \subseteq ToSet(v[c.level]), ToSet(c.inputs[2]) \subseteq ToSet(v[c.level + 1]),
         \A m \in Levels : \A g \in ToSet(v[m]) : Since(c, m, g)
  PROVE  /\ \A g \in ToSet(v[c.level]) \ ToSet(c.inputs[1]), h \in ToSet(c.inputs[1]) : Newer(g, h)
         /\ \A g \in ToSet(v[c.level + 1]) \ ToSet(c.inputs[2]), h \in ToSet(c.inputs[1]) \cup ToSet(c.inputs[2]) :
              Newer(g, h)
<1> DEFINE l == c.level
           S1 == ToSet(c.inputs[1])
           S2 == ToSet(c.inputs[2])
<1>1. /\ l \in 0 .. kNumLevels - 2 /\ c.version = cv /\ S1 \subseteq ToSet(v[l]) /\ S2 \subseteq ToSet(v[l + 1])
      /\ c.inputs[1] \in Seq(FileSet(W)) /\ c.inputs[2] \in Seq(FileSet(W))
      /\ LeavesApart(cv[l + 1], S2, S1) /\ (l = 0 => LeavesApart(cv[0], S1, S1))
  BY DEF CompactionOf, Closed
<1>2. ASSUME NEW m \in Levels, NEW g \in ToSet(v[m]), g \notin ToSet(cv[m]), NEW h \in S1 \cup S2
      PROVE  Newer(g, h)
  <2>1. ToSet(c.inputs[1] \o c.inputs[2]) = S1 \cup S2
    BY <1>1, Concat
  <2>2. h.keys \subseteq InputKeys(c)
    BY <2>1 DEF InputKeys
  <2>3. Since(c, m, g) /\ g \notin ToSet(c.version[m])
    BY <1>1, <1>2
  <2> QED BY <2>2, <2>3 DEF Since, Newer
<1> HIDE DEF l, S1, S2
<1>3. l \in Levels /\ l + 1 \in Levels /\ l + 1 \in 1 .. kNumLevels - 1 /\ l \in Int /\ 0 \in Levels
      /\ (l # 0 => l \in 1 .. kNumLevels - 1)
  <2>1. l \in 0 .. kNumLevels - 2 /\ kNumLevels \in Nat
    BY <1>1, VersionAssumption
  <2> QED BY ONLY <2>1 DEF Levels
<1>4. \A m \in Levels : ToSet(v[m]) \subseteq FileSet(W)
  BY LiveIn
<1>5. ASSUME NEW g \in FileSet(W), NEW h \in FileSet(W), Apart(g, h)
      PROVE  Newer(g, h)
  <2>1. ASSUME NEW a \in g.keys, NEW b \in h.keys, a.user = b.user PROVE FALSE
    <3>1. /\ g.smallest.user \in Nat /\ g.largest.user \in Nat /\ a.user \in Nat
          /\ g.smallest.user <= a.user /\ a.user <= g.largest.user
      BY FileIs
    <3>2. /\ h.smallest.user \in Nat /\ h.largest.user \in Nat
          /\ h.smallest.user <= b.user /\ b.user <= h.largest.user
      BY FileIs
    <3> DEFINE gs == g.smallest.user
               gl == g.largest.user
               hs == h.smallest.user
               hl == h.largest.user
               u == a.user
    <3>3. gs \in Nat /\ gl \in Nat /\ hs \in Nat /\ hl \in Nat /\ u \in Nat
          /\ gs <= u /\ u <= gl /\ hs <= u /\ u <= hl /\ (gl < hs \/ hl < gs)
      BY <1>5, <2>1, <3>1, <3>2 DEF Apart
    <3> HIDE DEF gs, gl, hs, hl, u
    <3> QED BY ONLY <3>3
  <2> QED BY <2>1 DEF Newer
<1>6. ASSUME NEW m \in 1 .. kNumLevels - 1, m \in Levels, NEW g \in ToSet(v[m]), NEW h \in ToSet(v[m]), g # h
      PROVE  Newer(g, h)
  <2>1. v[m] \in Seq(FileSet(W)) /\ LevelSound(v[m])
    BY <1>6 DEF Versions, LevelsSound
  <2> DEFINE files == v[m]
  <2> HIDE DEF files
  <2>2. files \in Seq(FileSet(W)) /\ LevelSound(files) /\ g \in ToSet(files) /\ h \in ToSet(files)
    BY <2>1 DEF files
  <2>3. PICK i \in 1 .. Len(files) : g = files[i]
    BY <2>2, Elements
  <2>4. PICK j \in 1 .. Len(files) : h = files[j]
    BY <2>2, Elements
  <2>5. i < j \/ j < i
    <3>1. i # j /\ Len(files) \in Nat
      BY <1>6, <2>2, <2>3, <2>4
    <3> QED BY <3>1
  <2>6. Apart(g, h)
    BY <2>2, <2>3, <2>4, <2>5, LevelSoundMeans DEF Apart
  <2>7. g \in FileSet(W) /\ h \in FileSet(W)
    BY <1>4, <1>6
  <2> QED BY <1>5, <2>6, <2>7
<1>7. \A g \in ToSet(v[l]) \ S1, h \in S1 : Newer(g, h)
  <2> TAKE g \in ToSet(v[l]) \ S1, h \in S1
  <2>1. g \in ToSet(v[l]) /\ h \in ToSet(v[l]) /\ g # h /\ g \in FileSet(W) /\ h \in FileSet(W)
    BY <1>1, <1>3, <1>4
  <2>2. CASE l # 0
    BY <1>3, <1>6, <2>1, <2>2
  <2>3. CASE l = 0 /\ g \notin ToSet(cv[0])
    BY <1>2, <1>3, <2>1, <2>3
  <2>4. CASE l = 0 /\ g \in ToSet(cv[0])
    <3>1. Apart(g, h)
      BY <1>1, <2>4 DEF LeavesApart
    <3> QED BY <1>5, <2>1, <3>1
  <2> QED BY <2>2, <2>3, <2>4
<1>8. \A g \in ToSet(v[l + 1]) \ S2, h \in S1 \cup S2 : Newer(g, h)
  <2> TAKE g \in ToSet(v[l + 1]) \ S2, h \in S1 \cup S2
  <2>1. g \in ToSet(v[l + 1]) /\ g \in FileSet(W) /\ h \in FileSet(W)
    BY <1>1, <1>3, <1>4
  <2>2. CASE h \in S2
    <3>1. g # h /\ h \in ToSet(v[l + 1])
      BY <1>1, <2>2
    <3> QED BY <1>3, <1>6, <2>1, <3>1
  <2>3. CASE h \in S1 /\ g \notin ToSet(cv[l + 1])
    BY <1>2, <1>3, <2>1, <2>3
  <2>4. CASE h \in S1 /\ g \in ToSet(cv[l + 1])
    <3>1. Apart(g, h)
      BY <1>1, <2>4 DEF LeavesApart
    <3> QED BY <1>5, <2>1, <3>1
  <2> QED BY <2>2, <2>3, <2>4
<1> QED BY <1>7, <1>8 DEF l, S1, S2
\* Behind a key that IsBaseLevelForKey would drop there is nothing to come back: the
\* entries for its user key in files that stay are newer.
LEMMA NothingBehind ==
  ASSUME NEW W \in SUBSET IKeys, NEW v \in Versions(W), LevelsSound(v), Ordered(v),
         NEW c, NEW cv \in Versions(W), LevelsSound(cv), CompactionOf(W, cv, c), Closed(cv, c),
         ToSet(c.inputs[1]) \subseteq ToSet(v[c.level]), ToSet(c.inputs[2]) \subseteq ToSet(v[c.level + 1]),
         \A m \in Levels : \A g \in ToSet(v[m]) : Since(c, m, g),
         NEW k \in InputKeys(c), IsBaseLevelForKey(c, k.user),
         NEW m \in Levels, NEW g \in ToSet(v[m]),
         ~(m = c.level /\ g \in ToSet(c.inputs[1])), ~(m = c.level + 1 /\ g \in ToSet(c.inputs[2])),
         NEW k1 \in g.keys, k1.user = k.user
  PROVE  k1.seq > k.seq
<1> DEFINE l == c.level
           S1 == ToSet(c.inputs[1])
           S2 == ToSet(c.inputs[2])
<1>1. /\ l \in 0 .. kNumLevels - 2 /\ c.version = cv /\ S1 \subseteq ToSet(v[l]) /\ S2 \subseteq ToSet(v[l + 1])
      /\ c.inputs[1] \in Seq(FileSet(W)) /\ c.inputs[2] \in Seq(FileSet(W))
      /\ ~(m = l /\ g \in S1) /\ ~(m = l + 1 /\ g \in S2)
  BY DEF CompactionOf
<1>2. PICK h \in S1 \cup S2 : k \in h.keys
  <2>1. ToSet(c.inputs[1] \o c.inputs[2]) = S1 \cup S2
    BY <1>1, Concat
  <2> QED BY <2>1 DEF InputKeys
<1>3. /\ \A f \in ToSet(v[l]) \ S1, h1 \in S1 : Newer(f, h1)
      /\ \A f \in ToSet(v[l + 1]) \ S2, h1 \in S1 \cup S2 : Newer(f, h1)
  BY LeftNewer
<1>4. g \in FileSet(W)
  BY LiveIn
<1>5. Since(c, m, g)
  OBVIOUS
<1>6. ASSUME m \in l + 2 .. kNumLevels - 1 PROVE k1.seq > k.seq
  <2>1. CASE g \in ToSet(cv[m])
    <3>1. k1.user \in Nat /\ g.smallest.user <= k1.user /\ k1.user <= g.largest.user
      BY <1>4, FileIs
    <3>2. ~(g.smallest.user <= k1.user /\ k1.user <= g.largest.user)
      BY <1>1, <1>6, <2>1, <3>1, BaseLevelIs
    <3> QED BY <3>1, <3>2
  <2>2. CASE g \notin ToSet(cv[m])
    BY <1>1, <1>5, <2>2 DEF Since
  <2> QED BY <2>1, <2>2
<1> HIDE DEF l, S1, S2
<1>7. /\ l \in Levels /\ l + 1 \in Levels /\ m \in Int /\ l \in Int
      /\ (m < l \/ m = l \/ m = l + 1 \/ m \in l + 2 .. kNumLevels - 1)
  <2>1. l \in 0 .. kNumLevels - 2 /\ m \in 0 .. kNumLevels - 1 /\ kNumLevels \in Nat
    BY <1>1, VersionAssumption DEF Levels
  <2> QED BY ONLY <2>1 DEF Levels
<1>8. CASE m < l
  <2>1. m < l + 1
    BY <1>7, <1>8
  <2>2. Newer(g, h)
    BY <1>1, <1>2, <1>7, <1>8, <2>1 DEF Ordered
  <2> QED BY <1>2, <2>2 DEF Newer
<1>9. CASE m = l
  <2>1. m < l + 1 /\ g \in ToSet(v[l]) /\ g \notin S1
    BY <1>1, <1>7, <1>9
  <2>2. Newer(g, h)
    <3>1. CASE h \in S1
      BY <1>3, <2>1, <3>1
    <3>2. CASE h \in S2
      BY <1>1, <1>7, <2>1, <3>2 DEF Ordered
    <3> QED BY <1>2, <3>1, <3>2
  <2> QED BY <1>2, <2>2 DEF Newer
<1>10. CASE m = l + 1
  <2>1. g \in ToSet(v[l + 1]) \ S2
    BY <1>1, <1>10
  <2>2. Newer(g, h)
    BY <1>2, <1>3, <2>1
  <2> QED BY <1>2, <2>2 DEF Newer
<1> QED BY <1>6, <1>7, <1>8, <1>9, <1>10

LEMMA ReadStartWork ==
  ASSUME ReadInv, NEW c, StartWork(c), CompactionOf(written, current_, c), Closed(current_, c), LiveInv',
         UNCHANGED <<mem_, imm_, next_file_number_, last_sequence_, snapshots_, written>>
  PROVE  ReadInv'
<1>1. /\ running' = [c |-> c, smallest_snapshot |-> SmallestSnapshot] /\ current_' = current_ /\ sound' = sound
      /\ mem_' = mem_ /\ imm_' = imm_ /\ last_sequence_' = last_sequence_ /\ snapshots_' = snapshots_
      /\ written' = written
  BY DEF StartWork
<1>2. BasicInv /\ LiveInv
  BY DEF ReadInv, BasicInv
<1>3. running'.c = c /\ running'.smallest_snapshot = SmallestSnapshot /\ c.version = current_
  BY <1>1 DEF CompactionOf
<1>4. FileKeys' = FileKeys /\ Present' = Present /\ SmallestSnapshot' = SmallestSnapshot
  BY <1>1 DEF FileKeys, Present, LiveFiles, SmallestSnapshot
<1>5. SmallestSnapshot \in Nat /\ current_ \in Versions(written)
  BY <1>2, BasicFacts
<1>6. NumbersInv' /\ AgeInv'
  BY <1>1, <1>2, <1>4 DEF BasicInv, NumbersInv, AgeInv
<1>7. OldestInv'
  BY <1>3, <1>4, <1>5 DEF OldestInv
<1>8. ASSUME sound PROVE SoundInv'
  <2>1. SoundInv
    BY <1>8 DEF ReadInv
  <2>2. \A m \in Levels : \A g \in ToSet(current_[m]) : Since(c, m, g)
    BY <1>3 DEF Since
  <2>3. WorkSound'
    BY <1>1, <1>3, <1>5, <2>1, <2>2 DEF SoundInv, WorkSound
  <2>4. LevelsSound(current_)' /\ Ordered(current_)' /\ Alike(Present, written, SmallestSnapshot)'
    BY <1>1, <1>4, <2>1 DEF SoundInv
  <2> QED BY <2>3, <2>4 DEF SoundInv
<1> QED BY <1>1, <1>6, <1>7, <1>8 DEF ReadInv, BasicInv

LEMMA ReadManualCompaction ==
  ASSUME ReadInv, NEW range \in ManualRanges, ManualCompaction(range), LiveInv'
  PROVE  ReadInv'
<1>1. PICK c : /\ c = CompactRange(current_, range[1], range[2], range[3]) /\ c # None /\ StartWork(c)
  BY DEF ManualCompaction
<1>2. UNCHANGED <<mem_, imm_, next_file_number_, last_sequence_, snapshots_, written>>
  BY DEF ManualCompaction
<1>3. CompactionOf(written, current_, c) /\ Closed(current_, c)
  <2>1. range[1] \in 0 .. kNumLevels - 2 /\ range[2] \in Nat /\ range[3] \in Nat
    BY VersionSetAssumption
  <2>2. written \in SUBSET IKeys /\ Distinct(written) /\ IsFiniteSet(written) /\ current_ \in Versions(written)
    BY BasicFacts DEF ReadInv, BasicInv
  <2>3. c = None \/ (CompactionOf(written, current_, c) /\ Closed(current_, c))
    BY <1>1, <2>1, <2>2, CompactRangeIs
  <2> QED BY <1>1, <2>3
<1> QED BY <1>1, <1>2, <1>3, ReadStartWork
\* The files that stay, and the entries of a version before and after.
Rest(v, l, S1, S2) ==
  {g \in LiveFiles(v) : \E m \in Levels : g \in ToSet(v[m]) /\ ~(m = l /\ g \in S1) /\ ~(m = l + 1 /\ g \in S2)}
KeysMove(v, v1, l, S1, S2, N) ==
  /\ KeysOf(LiveFiles(v)) = KeysOf(Rest(v, l, S1, S2)) \cup KeysOf(S1) \cup KeysOf(S2)
  /\ KeysOf(LiveFiles(v1)) = KeysOf(Rest(v, l, S1, S2)) \cup KeysOf(N)

LEMMA ReplacedKeys ==
  ASSUME NEW v, NEW v1, NEW l \in 0 .. kNumLevels - 2, NEW S1, NEW S2, NEW N, Replaces(v, v1, l, S1, S2, N),
         S1 \subseteq ToSet(v[l]), S2 \subseteq ToSet(v[l + 1])
  PROVE  KeysMove(v, v1, l, S1, S2, N)
<1> DEFINE R == Rest(v, l, S1, S2)
<1>1. l \in Levels /\ l + 1 \in Levels /\ l # l + 1
  BY VersionAssumption DEF Levels
<1>2. LiveFiles(v) = R \cup S1 \cup S2
  <2>1. S1 \cup S2 \subseteq LiveFiles(v)
    BY <1>1 DEF LiveFiles
  <2>2. \A g \in LiveFiles(v) : g \in R \/ g \in S1 \/ g \in S2
    BY <1>1 DEF LiveFiles, Rest
  <2>3. R \subseteq LiveFiles(v)
    BY DEF Rest
  <2> QED BY ONLY <2>1, <2>2, <2>3
<1>3. LiveFiles(v1) = R \cup N
  <2>1. ASSUME NEW m \in Levels, NEW g \in ToSet(v1[m]) PROVE g \in R \cup N
    <3>1. g \in N \/ (g \in ToSet(v[m]) /\ ~(m = l /\ g \in S1) /\ ~(m = l + 1 /\ g \in S2))
      BY <1>1, <2>1 DEF Replaces
    <3> QED BY <2>1, <3>1 DEF Rest, LiveFiles
  <2>2. ASSUME NEW g \in R PROVE \E m \in Levels : g \in ToSet(v1[m])
    <3>1. PICK m \in Levels : g \in ToSet(v[m]) /\ ~(m = l /\ g \in S1) /\ ~(m = l + 1 /\ g \in S2)
      BY <2>2 DEF Rest
    <3>2. g \in ToSet(v1[m])
      BY <1>1, <3>1 DEF Replaces
    <3> QED BY <3>2
  <2>3. N \subseteq ToSet(v1[l + 1])
    BY DEF Replaces
  <2> HIDE DEF R
  <2> QED BY <1>1, <2>1, <2>2, <2>3 DEF LiveFiles
<1> HIDE DEF R
<1>4. KeysOf(LiveFiles(v)) = KeysOf(R) \cup KeysOf(S1) \cup KeysOf(S2)
  BY ONLY <1>2 DEF KeysOf
<1>5. KeysOf(LiveFiles(v1)) = KeysOf(R) \cup KeysOf(N)
  BY ONLY <1>3 DEF KeysOf
<1> QED BY <1>4, <1>5 DEF R, KeysMove

\* What an edit does that takes files out of two levels and puts others in the lower one.
LEMMA EditReplaces ==
  ASSUME NEW v, NEW v1, NEW l \in 0 .. kNumLevels - 2, NEW edit, NEW S1, NEW S2, NEW N,
         \A level \in Levels : ToSet(v1[level]) = Kept(v, edit, level),
         Numbered(LiveFiles(v)), S1 \subseteq ToSet(v[l]), S2 \subseteq ToSet(v[l + 1]),
         edit.deleted = {<<l, f.num>> : f \in S1} \cup {<<l + 1, f.num>> : f \in S2},
         edit.added = {<<l + 1, f>> : f \in N}
  PROVE  Replaces(v, v1, l, S1, S2, N)
<1>1. l \in Levels /\ l + 1 \in Levels /\ l # l + 1
  BY VersionAssumption DEF Levels
<1>2. \A m \in Levels : ToSet(v[m]) \subseteq LiveFiles(v)
  BY DEF LiveFiles
<1>3. ASSUME NEW m \in Levels, NEW f \in ToSet(v[m])
      PROVE  <<m, f.num>> \in edit.deleted <=> (m = l /\ f \in S1) \/ (m = l + 1 /\ f \in S2)
  <2>1. \A g \in S1 \cup S2 : g.num = f.num => g = f
    BY <1>1, <1>2, <1>3 DEF Numbered
  <2> QED BY <1>1, <2>1
<1>4. ASSUME NEW m \in Levels, NEW f
      PROVE  f \in {e[2] : e \in {e \in edit.added : e[1] = m}} <=> m = l + 1 /\ f \in N
  <2>1. ASSUME f \in {e[2] : e \in {e \in edit.added : e[1] = m}} PROVE m = l + 1 /\ f \in N
    <3>1. PICK e \in edit.added : e[1] = m /\ f = e[2]
      BY <2>1
    <3>2. PICK g \in N : e = <<l + 1, g>>
      BY <3>1
    <3> QED BY <3>1, <3>2
  <2>2. ASSUME m = l + 1, f \in N PROVE f \in {e[2] : e \in {e \in edit.added : e[1] = m}}
    <3> DEFINE e1 == <<l + 1, f>>
    <3>1. e1 \in edit.added /\ e1[1] = m /\ e1[2] = f
      BY <2>2
    <3> HIDE DEF e1
    <3> QED BY ONLY <3>1
  <2> QED BY <2>1, <2>2
<1>5. ASSUME NEW m \in Levels, NEW f
      PROVE  f \in ToSet(v1[m]) <=>
               \/ f \in ToSet(v[m]) /\ ~((m = l /\ f \in S1) \/ (m = l + 1 /\ f \in S2))
               \/ m = l + 1 /\ f \in N
  <2>1. f \in ToSet(v1[m]) <=>
               \/ f \in ToSet(v[m]) /\ <<m, f.num>> \notin edit.deleted
               \/ f \in {e[2] : e \in {e \in edit.added : e[1] = m}}
    BY <1>5 DEF Kept
  <2>2. f \in ToSet(v[m]) => (<<m, f.num>> \in edit.deleted <=> (m = l /\ f \in S1) \/ (m = l + 1 /\ f \in S2))
    BY <1>3
  <2>3. f \in {e[2] : e \in {e \in edit.added : e[1] = m}} <=> m = l + 1 /\ f \in N
    BY <1>4
  <2> DEFINE A == f \in {e[2] : e \in {e \in edit.added : e[1] = m}}
             B == <<m, f.num>> \in edit.deleted
  <2> HIDE DEF A, B
  <2>4. (f \in ToSet(v1[m]) <=> (f \in ToSet(v[m]) /\ ~B) \/ A) /\ (A <=> m = l + 1 /\ f \in N)
        /\ (f \in ToSet(v[m]) => (B <=> (m = l /\ f \in S1) \/ (m = l + 1 /\ f \in S2)))
    BY <2>1, <2>2, <2>3 DEF A, B
  <2> QED BY ONLY <2>4
<1>6. ToSet(v1[l]) = ToSet(v[l]) \ S1
  BY ONLY <1>1, <1>5
<1>7. ToSet(v1[l + 1]) = (ToSet(v[l + 1]) \ S2) \cup N
  BY ONLY <1>1, <1>5
<1>8. \A m \in Levels \ {l, l + 1} : ToSet(v1[m]) = ToSet(v[m])
  BY ONLY <1>5
<1> QED BY <1>6, <1>7, <1>8 DEF Replaces
LEMMA ReadBackgroundCompaction ==
  ASSUME ReadInv, BackgroundCompaction, LiveInv'
  PROVE  ReadInv'
<1> DEFINE Moves(c, f) == LogAndApply([deleted |-> {<<c.level, f.num>>}, added |-> {<<c.level + 1, f>>}])
<1>1. PICK c : /\ c = PickCompaction(current_, compact_pointer_, file_to_compact_) /\ c # None
               /\ IF IsTrivialMove(c)
                  THEN /\ \E f \in ToSet(c.inputs[1]) : Moves(c, f)
                       /\ compact_pointer_' = [compact_pointer_ EXCEPT ![c.level] = c.pointer]
                       /\ UNCHANGED running
                  ELSE StartWork(c)
  BY DEF BackgroundCompaction, Pick
<1>2. /\ mem_' = mem_ /\ imm_' = imm_ /\ next_file_number_' = next_file_number_ /\ written' = written
      /\ last_sequence_' = last_sequence_ /\ snapshots_' = snapshots_ /\ running = None
  BY DEF BackgroundCompaction, Pick
<1>3. BasicInv /\ LiveInv
  BY DEF ReadInv, BasicInv
<1>4. /\ written \in SUBSET IKeys /\ Distinct(written) /\ IsFiniteSet(written) /\ current_ \in Versions(written)
      /\ Numbered(LiveFiles(current_)) /\ LiveFiles(current_) \in SUBSET FileSet(written)
  BY <1>3, BasicFacts
<1>5. CompactionOf(written, current_, c) /\ Closed(current_, c)
  <2>1. file_to_compact_ # None =>
          file_to_compact_.level \in 0 .. kNumLevels - 2
          /\ file_to_compact_.file \in ToSet(current_[file_to_compact_.level])
    BY <1>3 DEF LiveInv, WorkInv, Charged
  <2>2. c = None \/ (CompactionOf(written, current_, c) /\ Closed(current_, c))
    BY <1>1, <1>4, <2>1, PickCompactionIs
  <2> QED BY <1>1, <2>2
<1>6. CASE ~IsTrivialMove(c)
  <2>1. StartWork(c)
    BY <1>1, <1>6
  <2>2. UNCHANGED <<mem_, imm_, next_file_number_, last_sequence_, snapshots_, written>>
    BY <1>2
  <2> QED BY <1>5, <2>1, <2>2, ReadStartWork
<1>7. CASE IsTrivialMove(c)
  <2>1. PICK f \in ToSet(c.inputs[1]) : Moves(c, f)
    BY <1>1, <1>7
  <2> DEFINE edit == [deleted |-> {<<c.level, f.num>>}, added |-> {<<c.level + 1, f>>}]
             l == c.level
  <2>2. LogAndApply(edit) /\ running' = None
    BY <1>1, <1>2, <1>7, <2>1
  <2>3. /\ l \in 0 .. kNumLevels - 2 /\ f \in ToSet(current_[l])
        /\ c.inputs[1] \in Seq(FileSet(written)) /\ c.inputs[2] \in Seq(FileSet(written))
    BY <1>5, <2>1 DEF CompactionOf
  <2>4. ToSet(c.inputs[1]) = {f} /\ ToSet(c.inputs[2]) = {}
    <3>1. Len(c.inputs[1]) = 1 /\ Len(c.inputs[2]) = 0
      BY <1>7 DEF IsTrivialMove
    <3>2. ToSet(c.inputs[1]) = {c.inputs[1][i] : i \in 1 .. 1}
      BY <2>3, <3>1, Elements
    <3>3. ToSet(c.inputs[2]) = {c.inputs[2][i] : i \in 1 .. 0}
      BY <2>3, <3>1, Elements
    <3> QED BY <2>1, <3>2, <3>3
  <2>5. /\ edit.deleted = {<<l, g.num>> : g \in {f}} \cup {<<l + 1, g.num>> : g \in {}}
        /\ edit.added = {<<l + 1, g>> : g \in {f}} /\ IsFiniteSet(edit.added) /\ Added(edit) = {f}
    <3>1. Added(edit) = {f}
      BY DEF Added
    <3>2. IsFiniteSet({<<c.level + 1, f>>})
      BY FS_Singleton
    <3>3. edit.deleted = {<<l, f.num>>} /\ edit.added = {<<l + 1, f>>}
      OBVIOUS
    <3> QED BY <3>1, <3>2, <3>3
  <2> HIDE DEF edit, l
  <2>6. l \in Levels /\ f \in LiveFiles(current_)
    <3>1. l \in Levels
      BY <2>3, VersionAssumption DEF Levels
    <3> QED BY <2>3, <3>1 DEF LiveFiles
  <2>7. \A level \in Levels : ToSet(current_'[level]) = Kept(current_, edit, level)
    <3>1. current_' = SaveTo(current_, edit)
      BY <2>2 DEF LogAndApply
    <3>2. Added(edit) \subseteq FileSet(written) /\ Numbered(LiveFiles(current_) \cup Added(edit))
      <4>1. LiveFiles(current_) \cup Added(edit) = LiveFiles(current_)
        BY <2>5, <2>6
      <4>2. Added(edit) \subseteq FileSet(written)
        BY <1>4, <2>5, <2>6
      <4> QED BY <1>4, <4>1, <4>2
    <3>3. \A level \in Levels : ToSet(SaveTo(current_, edit)[level]) = Kept(current_, edit, level)
      BY <1>4, <2>5, <3>2, SaveToIs
    <3> QED BY <3>1, <3>3
  <2>8. Replaces(current_, current_', l, {f}, {}, {f})
    <3>1. {f} \subseteq ToSet(current_[l]) /\ {} \subseteq ToSet(current_[l + 1])
      BY <2>3
    <3> QED BY <1>4, <2>3, <2>5, <2>7, <3>1, EditReplaces
  <2>9. FileKeys' = FileKeys /\ Present' = Present /\ SmallestSnapshot' = SmallestSnapshot
    <3>1. {f} \subseteq ToSet(current_[l]) /\ {} \subseteq ToSet(current_[l + 1])
      BY <2>3
    <3>2. /\ KeysOf(LiveFiles(current_)) = KeysOf(Rest(current_, l, {f}, {})) \cup KeysOf({f}) \cup KeysOf({})
          /\ KeysOf(LiveFiles(current_')) = KeysOf(Rest(current_, l, {f}, {})) \cup KeysOf({f})
      <4>1. KeysMove(current_, current_', l, {f}, {}, {f})
        BY <2>3, <2>8, <3>1, ReplacedKeys
      <4> QED BY ONLY <4>1 DEF KeysMove
    <3>3. KeysOf({}) = {}
      BY DEF KeysOf
    <3>4. FileKeys' = KeysOf(LiveFiles(current_'))
      <4>1. LiveFiles(current_)' = LiveFiles(current_')
        BY DEF LiveFiles
      <4>2. FileKeys' = KeysOf(LiveFiles(current_)')
        BY DEF FileKeys, KeysOf
      <4> QED BY <4>1, <4>2
    <3>5. FileKeys' = FileKeys
      BY <3>2, <3>3, <3>4 DEF FileKeys
    <3> QED BY <1>2, <3>5 DEF Present, SmallestSnapshot
  <2>10. NumbersInv' /\ OldestInv' /\ AgeInv'
    BY <1>2, <1>3, <2>2, <2>9 DEF BasicInv, NumbersInv, OldestInv, AgeInv
  <2>11. ASSUME sound' PROVE SoundInv'
    <3>1. sound /\ LevelsSound(current_') /\ SoundInv
      BY <2>2, <2>11, SoundBefore DEF ReadInv
    <3>2. LevelsSound(current_) /\ Ordered(current_)
      BY <3>1 DEF SoundInv
    <3>3. \A m \in Levels : \A g \in ToSet(current_[m]) : Since(c, m, g)
      BY <1>5 DEF CompactionOf, Since
    <3>4. /\ ToSet(c.inputs[1]) \subseteq ToSet(current_[c.level])
          /\ ToSet(c.inputs[2]) \subseteq ToSet(current_[c.level + 1])
      BY <1>5 DEF CompactionOf
    <3>5. \A g \in ToSet(current_[c.level]) \ ToSet(c.inputs[1]), h \in ToSet(c.inputs[1]) : Newer(g, h)
      BY <1>4, <1>5, <3>2, <3>3, <3>4, LeftNewer
    <3>6. \A g \in ToSet(current_[l]) \ {f}, h \in {f} : Newer(g, h)
      BY <2>4, <3>5 DEF l
    <3>7. Ordered(current_')
      <4>1. {f} \subseteq ToSet(current_[l]) /\ {} \subseteq ToSet(current_[l + 1])
        BY <2>3
      <4>2. KeysOf({f}) \subseteq KeysOf({f}) \cup KeysOf({})
        OBVIOUS
      <4> QED BY <2>3, <2>8, <3>2, <3>6, <4>1, <4>2, ReplacedOrdered
    <3>8. WorkSound'
      BY <2>2 DEF WorkSound
    <3>9. LevelsSound(current_)' /\ Ordered(current_)' /\ Alike(Present, written, SmallestSnapshot)'
      BY <1>2, <2>9, <3>1, <3>7 DEF SoundInv
    <3> QED BY <3>8, <3>9 DEF SoundInv
  <2> QED BY <2>10, <2>11 DEF ReadInv, BasicInv
<1> QED BY <1>6, <1>7
LEMMA ReadFinishCompaction ==
  ASSUME ReadInv, FinishCompaction, LiveInv'
  PROVE  ReadInv'
<1> DEFINE c == running.c
           cv == running.c.version
           ss == running.smallest_snapshot
           l == c.level
           S1 == ToSet(c.inputs[1])
           S2 == ToSet(c.inputs[2])
           outs == DoCompactionWork(c, ss)
           edit == InstallCompactionResults(c, outs)
           kept == UNION ToSet(outs)
           keys == InputKeys(c)
           rest == mem_ \cup imm_ \cup KeysOf(Rest(current_, l, S1, S2))
<1>1. /\ running # None /\ LogAndApply(edit) /\ running' = None
      /\ mem_' = mem_ /\ imm_' = imm_ /\ written' = written
      /\ last_sequence_' = last_sequence_ /\ snapshots_' = snapshots_
  BY DEF FinishCompaction
<1>2. BasicInv /\ LiveInv
  BY DEF ReadInv, BasicInv
<1>3. /\ written \in SUBSET IKeys /\ Distinct(written) /\ IsFiniteSet(written) /\ current_ \in Versions(written)
      /\ Numbered(LiveFiles(current_)) /\ LiveFiles(current_) \in SUBSET FileSet(written)
      /\ Present \in SUBSET written /\ SmallestSnapshot \in Nat
  BY <1>2, BasicFacts
<1>4. PICK N : ResultsOf(c, outs, next_file_number_, edit, N)
  BY <1>1, <1>2, ResultsAre
<1>5. CompactionOf(written, cv, c) /\ ss \in Nat /\ ss <= SmallestSnapshot
  BY <1>1, <1>2 DEF BasicInv, LiveInv, WorkInv, OldestInv
<1>6. /\ keys \in SUBSET FileKeys /\ l \in Levels /\ l + 1 \in Levels
      /\ keys = KeysOf(S1) \cup KeysOf(S2)
  BY <1>1, <1>2, InputKeysLive
<1>7. l \in 0 .. kNumLevels - 2 /\ S1 \subseteq ToSet(current_[l]) /\ S2 \subseteq ToSet(current_[l + 1])
  <2>1. l \in 0 .. kNumLevels - 2
    BY <1>5 DEF CompactionOf
  <2>2. \A w \in {1, 2} : ToSet(c.inputs[w]) \subseteq ToSet(current_[l + w - 1])
    BY <1>1, <1>2 DEF LiveInv, WorkInv
  <2>3. l + 1 - 1 = l /\ l + 2 - 1 = l + 1
    <3> HIDE DEF l
    <3> QED BY <2>1
  <2> QED BY <2>1, <2>2, <2>3
<1>8. KeptOf(c, ss, keys, kept)
  BY <1>3, <1>5, WorkKeeps
<1>9. KeysOf(N) = kept /\ kept \subseteq keys
  BY <1>4, <1>8 DEF ResultsOf, KeptOf
<1> HIDE DEF c, cv, ss, outs, edit, kept, keys
<1>10. \A level \in Levels : ToSet(current_'[level]) = Kept(current_, edit, level)
  <2>1. current_' = SaveTo(current_, edit)
    BY <1>1 DEF LogAndApply
  <2>2. IsFiniteSet(edit.added) /\ Added(edit) \subseteq FileSet(written) /\ Numbered(LiveFiles(current_) \cup Added(edit))
    BY <1>4 DEF ResultsOf
  <2>3. \A level \in Levels : ToSet(SaveTo(current_, edit)[level]) = Kept(current_, edit, level)
    BY <1>3, <2>2, SaveToIs
  <2> QED BY <2>1, <2>3
<1>11. Replaces(current_, current_', l, S1, S2, N)
  <2>1. /\ edit.deleted = {<<l, f.num>> : f \in S1} \cup {<<l + 1, f.num>> : f \in S2}
        /\ edit.added = {<<l + 1, f>> : f \in N}
    BY <1>4 DEF ResultsOf
  <2> HIDE DEF l, S1, S2
  <2> QED BY <1>3, <1>7, <1>10, <2>1, EditReplaces
<1>12. Present = rest \cup keys /\ Present' = rest \cup kept /\ FileKeys' \subseteq FileKeys
  <2>1. KeysMove(current_, current_', l, S1, S2, N)
    <3> HIDE DEF l, S1, S2
    <3> QED BY <1>7, <1>11, ReplacedKeys
  <2>2. FileKeys' = KeysOf(LiveFiles(current_'))
    <3>1. LiveFiles(current_)' = LiveFiles(current_')
      BY DEF LiveFiles
    <3>2. FileKeys' = KeysOf(LiveFiles(current_)')
      BY DEF FileKeys, KeysOf
    <3> QED BY <3>1, <3>2
  <2> DEFINE R == KeysOf(Rest(current_, l, S1, S2))
  <2>3. FileKeys = R \cup keys /\ FileKeys' = R \cup kept
    BY <1>6, <1>9, <2>1, <2>2 DEF KeysMove, FileKeys
  <2>4. Present = mem_ \cup imm_ \cup FileKeys /\ Present' = mem_ \cup imm_ \cup FileKeys'
    BY <1>1 DEF Present
  <2> HIDE DEF R
  <2> QED BY <1>9, <2>3, <2>4 DEF R
<1>13. SmallestSnapshot' = SmallestSnapshot
  BY <1>1 DEF SmallestSnapshot
<1>14. NumbersInv' /\ OldestInv' /\ AgeInv'
  BY <1>1, <1>2, <1>12 DEF BasicInv, NumbersInv, OldestInv, AgeInv
<1>15. ASSUME sound' PROVE SoundInv'
  <2>1. sound /\ LevelsSound(current_') /\ SoundInv
    BY <1>1, <1>15, SoundBefore DEF ReadInv
  <2>2. LevelsSound(current_) /\ Ordered(current_) /\ Alike(Present, written, SmallestSnapshot)
    BY <2>1 DEF SoundInv
  <2>3. /\ cv \in Versions(written) /\ LevelsSound(cv) /\ Closed(cv, c)
        /\ \A m \in Levels : \A g \in ToSet(current_[m]) : Since(c, m, g)
    BY <1>1, <2>1 DEF SoundInv, WorkSound, c, cv
  <2>4. \A g \in ToSet(current_[l]) \ S1, h \in S1 : Newer(g, h)
    BY <1>3, <1>5, <1>7, <2>2, <2>3, LeftNewer
  <2>5. Ordered(current_')
    <3>1. KeysOf(N) \subseteq KeysOf(S1) \cup KeysOf(S2)
      BY <1>6, <1>9
    <3> HIDE DEF l, S1, S2
    <3> QED BY <1>7, <1>11, <2>2, <2>4, <3>1, ReplacedOrdered
  <2>6. \A k \in keys, k1 \in rest : IsBaseLevelForKey(c, k.user) /\ k1.user = k.user => k1.seq > k.seq
    <3> TAKE k \in keys, k1 \in rest
    <3> HAVE IsBaseLevelForKey(c, k.user) /\ k1.user = k.user
    <3>1. CASE k1 \in mem_ \cup imm_
      BY <1>2, <1>6, <3>1 DEF BasicInv, AgeInv
    <3>2. CASE k1 \in KeysOf(Rest(current_, l, S1, S2))
      <4>1. PICK g \in Rest(current_, l, S1, S2) : k1 \in g.keys
        BY <3>2 DEF KeysOf
      <4>2. PICK m \in Levels : g \in ToSet(current_[m]) /\ ~(m = l /\ g \in S1) /\ ~(m = l + 1 /\ g \in S2)
        BY <4>1 DEF Rest
      <4>3. k \in InputKeys(c)
        BY DEF keys
      <4> QED BY <1>3, <1>5, <1>7, <2>2, <2>3, <4>1, <4>2, <4>3, NothingBehind
    <3> QED BY <3>1, <3>2
  <2>7. Alike(rest \cup kept, written, SmallestSnapshot)
    <3>1. rest \in SUBSET written /\ keys \in SUBSET written
      BY <1>3, <1>12
    <3>2. Alike(rest \cup keys, written, SmallestSnapshot)
      BY <1>12, <2>2
    <3> HIDE DEF rest
    <3> QED BY <1>3, <1>5, <1>8, <2>6, <3>1, <3>2, AlikeDrop
  <2>8. WorkSound'
    BY <1>1 DEF WorkSound
  <2>9. LevelsSound(current_)' /\ Ordered(current_)' /\ Alike(Present, written, SmallestSnapshot)'
    BY <1>1, <1>12, <1>13, <2>1, <2>5, <2>7
  <2> QED BY <2>8, <2>9 DEF SoundInv
<1> QED BY <1>1, <1>14, <1>15 DEF ReadInv, BasicInv
\* Later snapshots find the same if earlier ones do.
LEMMA AlikeLater ==
  ASSUME NEW P, NEW W, NEW from \in Nat, NEW from1 \in Nat, from <= from1, Alike(P, W, from)
  PROVE  Alike(P, W, from1)
<1> SUFFICES ASSUME NEW user \in Nat, NEW snapshot \in Nat, snapshot >= from1
             PROVE  Found(Visible(P, user, snapshot)) = Found(Visible(W, user, snapshot))
  BY DEF Alike
<1>1. snapshot >= from
  OBVIOUS
<1> QED BY <1>1 DEF Alike

\* What a step keeps that only changes the snapshots, so that the oldest is not older.
LEMMA ReadSnapshots ==
  ASSUME ReadInv, LiveInv', NumbersInv', SmallestSnapshot <= SmallestSnapshot',
         UNCHANGED <<mem_, imm_, current_, last_sequence_, running, written, sound>>
  PROVE  ReadInv'
<1>1. BasicInv /\ LiveInv
  BY DEF ReadInv, BasicInv
<1>2. SmallestSnapshot \in Nat /\ SmallestSnapshot' \in Nat
  <2>1. snapshots_' \in Seq(Nat) /\ last_sequence_' \in Nat
    BY DEF LiveInv, KeysInv
  <2>2. SmallestSnapshot' \in Nat
    BY <2>1 DEF SmallestSnapshot
  <2> QED BY <1>1, <2>2, BasicFacts
<1>3. FileKeys' = FileKeys /\ Present' = Present
  BY DEF FileKeys, Present, LiveFiles
<1>4. OldestInv'
  BY <1>1, <1>2 DEF BasicInv, OldestInv
<1>5. AgeInv'
  BY <1>1, <1>3 DEF BasicInv, AgeInv
<1>6. ASSUME sound PROVE SoundInv'
  <2>1. SoundInv
    BY <1>6 DEF ReadInv
  <2>2. Alike(Present, written, SmallestSnapshot')
    BY <1>2, <2>1, AlikeLater DEF SoundInv
  <2>3. Alike(Present, written, SmallestSnapshot)'
    BY <1>3, <2>2
  <2>4. LevelsSound(current_)' /\ Ordered(current_)'
    BY <2>1 DEF SoundInv
  <2>5. WorkSound'
    BY <2>1 DEF SoundInv, WorkSound
  <2> QED BY <2>3, <2>4, <2>5 DEF SoundInv
<1> QED BY <1>4, <1>5, <1>6 DEF ReadInv, BasicInv

LEMMA ReadGetSnapshot ==
  ASSUME ReadInv, GetSnapshot, LiveInv'
  PROVE  ReadInv'
<1>1. /\ snapshots_' = Append(snapshots_, last_sequence_)
      /\ UNCHANGED <<mem_, imm_, current_, last_sequence_, running, written, sound>>
  BY DEF GetSnapshot, versions
<1>2. snapshots_ \in Seq(Nat) /\ last_sequence_ \in Nat /\ NumbersInv /\ SmallestSnapshot \in Nat
  BY BasicFacts DEF ReadInv, BasicInv
<1> DEFINE n == Len(snapshots_)
           s1 == Append(snapshots_, last_sequence_)
<1>3. /\ n \in Nat /\ DOMAIN snapshots_ = 1 .. n /\ DOMAIN s1 = 1 .. n + 1 /\ s1[n + 1] = last_sequence_
      /\ \A i \in 1 .. n : s1[i] = snapshots_[i] /\ snapshots_[i] \in Nat
  BY <1>2
<1>4. \A i \in 1 .. n : snapshots_[i] <= last_sequence_
  BY <1>2, <1>3 DEF NumbersInv
<1>5. \A i, j \in 1 .. n : i < j => snapshots_[i] <= snapshots_[j]
  BY <1>2, <1>3 DEF NumbersInv
<1> HIDE DEF n, s1
<1>6. \A i \in 1 .. n + 1 : s1[i] <= last_sequence_
  BY ONLY <1>2, <1>3, <1>4
<1>7. \A i, j \in 1 .. n + 1 : i < j => s1[i] <= s1[j]
  <2> TAKE i, j \in 1 .. n + 1
  <2> HAVE i < j
  <2>1. i \in 1 .. n /\ (j \in 1 .. n \/ j = n + 1)
    BY <1>3
  <2> QED BY <1>3, <1>4, <1>5, <2>1
<1>8. snapshots_' = s1
  BY <1>1 DEF s1
<1>9. NumbersInv'
  BY <1>1, <1>2, <1>3, <1>6, <1>7, <1>8 DEF NumbersInv
<1>10. SmallestSnapshot' = SmallestSnapshot
  <2>1. CASE snapshots_ = << >>
    <3>1. n = 0 /\ s1 # << >> /\ s1[1] = last_sequence_
      <4>1. n = 0
        BY <2>1 DEF n
      <4>2. s1 = <<last_sequence_>>
        BY <2>1 DEF s1
      <4> QED BY <4>1, <4>2
    <3> QED BY <1>1, <1>8, <2>1, <3>1 DEF SmallestSnapshot
  <2>2. CASE snapshots_ # << >>
    <3>1. 1 \in 1 .. n
      BY <1>2, <2>2 DEF n
    <3>2. s1 # << >>
      BY <1>2 DEF s1
    <3> QED BY <1>1, <1>3, <1>8, <2>2, <3>1, <3>2 DEF SmallestSnapshot
  <2> QED BY <2>1, <2>2
<1>11. SmallestSnapshot <= SmallestSnapshot'
  BY <1>2, <1>10
<1> QED BY <1>1, <1>9, <1>11, ReadSnapshots

LEMMA Removed ==
  ASSUME NEW s \in Seq(Nat), NEW i \in DOMAIN s
  PROVE  /\ RemoveAt(s, i) \in Seq(Nat) /\ Len(RemoveAt(s, i)) = Len(s) - 1
         /\ \A j \in 1 .. Len(s) - 1 : RemoveAt(s, i)[j] = IF j < i THEN s[j] ELSE s[j + 1]
<1> DEFINE n == Len(s)
           a == SubSeq(s, 1, i - 1)
           b == SubSeq(s, i + 1, n)
<1>1. RemoveAt(s, i) = a \o b
  BY DEF RemoveAt
<1>2. n \in Nat /\ i \in 1 .. n
  OBVIOUS
<1>3. a \in Seq(Nat) /\ Len(a) = i - 1 /\ \A j \in 1 .. i - 1 : a[j] = s[j]
  <2> DEFINE m == i - 1
  <2>1. m \in 0 .. Len(s)
    BY <1>2
  <2> HIDE DEF m
  <2>2. SubSeq(s, 1, m) \in Seq(Nat) /\ Len(SubSeq(s, 1, m)) = m /\ \A j \in 1 .. m : SubSeq(s, 1, m)[j] = s[j]
    BY ONLY s \in Seq(Nat), <2>1
  <2> QED BY <2>2 DEF m
<1>4. b \in Seq(Nat) /\ Len(b) = n - i /\ \A j \in 1 .. n - i : b[j] = s[i + j]
  <2>1. n = Len(s) /\ n \in Nat /\ i \in 1 .. n
    BY <1>2
  <2> HIDE DEF n
  <2> DEFINE m == i + 1
  <2>2. m \in 1 .. n + 1 /\ n \in m - 1 .. n /\ n - m + 1 = n - i
    BY <2>1
  <2> HIDE DEF m
  <2>3. SubSeq(s, m, n) \in Seq(Nat) /\ Len(SubSeq(s, m, n)) = n - m + 1
        /\ \A j \in 1 .. n - m + 1 : SubSeq(s, m, n)[j] = s[m + j - 1]
    BY ONLY s \in Seq(Nat), <2>1, <2>2, SubSeqProperties
  <2>4. \A j \in 1 .. n - i : m + j - 1 = i + j
    BY ONLY <2>1 DEF m
  <2> QED BY <2>2, <2>3, <2>4 DEF m
<1> HIDE DEF a, b
<1>5. /\ a \o b \in Seq(Nat) /\ Len(a \o b) = Len(a) + Len(b)
      /\ \A j \in 1 .. Len(a) : (a \o b)[j] = a[j]
      /\ \A j \in 1 .. Len(b) : (a \o b)[Len(a) + j] = b[j]
  <2>1. a \in Seq(Nat) /\ b \in Seq(Nat)
    BY <1>3, <1>4
  <2> QED BY ONLY <2>1
<1>6. Len(a \o b) = n - 1
  BY ONLY <1>2, <1>3, <1>4, <1>5
<1>7. ASSUME NEW j \in 1 .. n - 1
      PROVE  (a \o b)[j] = IF j < i THEN s[j] ELSE s[j + 1]
  <2>1. CASE j < i
    <3>1. j \in 1 .. i - 1 /\ j \in 1 .. Len(a)
      BY <1>2, <1>3, <2>1
    <3> QED BY <1>3, <1>5, <2>1, <3>1
  <2>2. CASE ~(j < i)
    <3> DEFINE d == j - (i - 1)
    <3>1. d \in 1 .. n - i /\ j = (i - 1) + d /\ i + d = j + 1
      BY <1>2, <2>2
    <3> HIDE DEF d
    <3>2. (a \o b)[j] = b[d]
      BY <1>3, <1>4, <1>5, <3>1
    <3>3. b[d] = s[j + 1]
      BY <1>4, <3>1
    <3> QED BY <2>2, <3>2, <3>3
  <2> QED BY <2>1, <2>2
<1> QED BY <1>1, <1>5, <1>6, <1>7 DEF n

LEMMA ReadReleaseSnapshot ==
  ASSUME ReadInv, ReleaseSnapshot, LiveInv'
  PROVE  ReadInv'
<1>1. UNCHANGED <<mem_, imm_, current_, last_sequence_, running, written, sound>>
  BY DEF ReleaseSnapshot, versions
<1>2. PICK i \in DOMAIN snapshots_ : snapshots_' = RemoveAt(snapshots_, i)
  BY DEF ReleaseSnapshot
<1>3. snapshots_ \in Seq(Nat) /\ last_sequence_ \in Nat /\ NumbersInv /\ SmallestSnapshot \in Nat
  BY BasicFacts DEF ReadInv, BasicInv
<1> DEFINE n == Len(snapshots_)
           s == snapshots_
           s1 == RemoveAt(snapshots_, i)
<1>4. /\ n \in Nat /\ DOMAIN s = 1 .. n /\ i \in 1 .. n /\ s \in Seq(Nat)
      /\ \A j \in 1 .. n : s[j] \in Nat
  BY <1>3
<1>5. /\ s1 \in Seq(Nat) /\ Len(s1) = n - 1 /\ DOMAIN s1 = 1 .. n - 1
      /\ \A j \in 1 .. n - 1 : s1[j] = IF j < i THEN s[j] ELSE s[j + 1]
  <2>1. /\ s1 \in Seq(Nat) /\ Len(s1) = n - 1
        /\ \A j \in 1 .. n - 1 : s1[j] = IF j < i THEN s[j] ELSE s[j + 1]
    BY <1>3, Removed
  <2> HIDE DEF s1, s, n
  <2>2. DOMAIN s1 = 1 .. n - 1
    BY <2>1
  <2> QED BY <2>1, <2>2
<1>6. \A j \in 1 .. n : s[j] <= last_sequence_
  BY <1>3, <1>4 DEF NumbersInv
<1>7. \A j, k \in 1 .. n : j < k => s[j] <= s[k]
  BY <1>3, <1>4 DEF NumbersInv
<1>8. SmallestSnapshot = s[1] /\ snapshots_' = s1
  BY <1>2, <1>4 DEF SmallestSnapshot
<1>9. SmallestSnapshot' = IF s1 = << >> THEN last_sequence_ ELSE s1[1]
  BY <1>1, <1>8 DEF SmallestSnapshot
<1> HIDE DEF n, s, s1
<1>10. \A j \in 1 .. n - 1 : \E k \in 1 .. n : s1[j] = s[k] /\ (k = j \/ k = j + 1) /\ (k = j <=> j < i)
  <2> TAKE j \in 1 .. n - 1
  <2>1. j \in 1 .. n /\ j + 1 \in 1 .. n /\ j + 1 # j
    BY <1>4
  <2> QED BY <1>5, <2>1
<1>11. \A j \in 1 .. n - 1 : s1[j] <= last_sequence_
  BY <1>6, <1>10
<1>12. \A j, k \in 1 .. n - 1 : j < k => s1[j] <= s1[k]
  <2> TAKE j, k \in 1 .. n - 1
  <2> HAVE j < k
  <2>1. PICK j1 \in 1 .. n : s1[j] = s[j1] /\ (j1 = j \/ j1 = j + 1) /\ (j1 = j <=> j < i)
    BY <1>10
  <2>2. PICK k1 \in 1 .. n : s1[k] = s[k1] /\ (k1 = k \/ k1 = k + 1) /\ (k1 = k <=> k < i)
    BY <1>10
  <2>3. j1 < k1
    BY <1>4, <2>1, <2>2
  <2> QED BY <1>7, <2>1, <2>2, <2>3
<1>13. NumbersInv'
  BY <1>1, <1>3, <1>5, <1>8, <1>11, <1>12 DEF NumbersInv
<1>14. SmallestSnapshot <= SmallestSnapshot'
  <2>0. 1 \in 1 .. n /\ s[1] \in Nat
    BY <1>4
  <2>1. CASE s1 = << >>
    BY <1>6, <1>8, <1>9, <2>0, <2>1
  <2>2. CASE s1 # << >>
    <3>1. 1 \in 1 .. n - 1
      BY <1>5, <2>2
    <3>2. PICK k \in 1 .. n : s1[1] = s[k] /\ (k = 1 \/ k = 1 + 1)
      BY <1>10, <3>1
    <3>3. s[1] <= s[k]
      <4>1. k = 1 \/ 1 < k
        BY <3>2
      <4> QED BY <1>7, <2>0, <4>1
    <3> QED BY <1>8, <1>9, <2>2, <3>2, <3>3
  <2> QED BY <2>1, <2>2
<1> QED BY <1>1, <1>13, <1>14, ReadSnapshots

\* Every step keeps the invariant.
LEMMA ReadNext ==
  ASSUME ReadInv, [Next]_vars
  PROVE  ReadInv'
<1>0. LiveInv /\ LiveInv'
  <2>1. LiveInv
    BY DEF ReadInv, BasicInv
  <2> QED BY <2>1, LiveNext
<1>1. ASSUME NEW user \in Keys, NEW del \in BOOLEAN, Write(user, del)
      PROVE  ReadInv'
  BY <1>1, ReadWrite
<1>2. CASE MakeRoomForWrite
  BY <1>0, <1>2, ReadMakeRoomForWrite
<1>3. CASE Background
  BY <1>0, <1>3, ReadCompactMemTable, ReadBackgroundCompaction, ReadFinishCompaction DEF Background
<1>4. ASSUME NEW range \in ManualRanges, ManualCompaction(range)
      PROVE  ReadInv'
  BY <1>0, <1>4, ReadManualCompaction
<1>5. CASE GetSnapshot
  BY <1>0, <1>5, ReadGetSnapshot
<1>6. CASE ReleaseSnapshot
  BY <1>0, <1>6, ReadReleaseSnapshot
<1>7. ASSUME UNCHANGED <<mem_, imm_, current_, last_sequence_, snapshots_, running, written, sound>>
      PROVE  ReadInv'
  <2>1. SmallestSnapshot' = SmallestSnapshot /\ SmallestSnapshot \in Nat
    BY <1>0, <1>7, BasicFacts DEF SmallestSnapshot
  <2>2. NumbersInv'
    BY <1>7 DEF ReadInv, BasicInv, NumbersInv
  <2>3. SmallestSnapshot <= SmallestSnapshot'
    BY <2>1
  <2> QED BY <1>0, <1>7, <2>2, <2>3, ReadSnapshots
<1>8. ASSUME NEW user \in Keys \cup Missing, NEW snapshot \in Snapshots, Get(user, snapshot)
      PROVE  ReadInv'
  BY <1>7, <1>8 DEF Get
<1>9. ASSUME NEW user \in Keys, RecordReadSample(user)
      PROVE  ReadInv'
  BY <1>7, <1>9 DEF RecordReadSample
<1>10. CASE UNCHANGED vars
  BY <1>7, <1>10 DEF vars
<1> QED BY <1>1, <1>2, <1>3, <1>4, <1>5, <1>6, <1>8, <1>9, <1>10 DEF Next

\* ReadsCorrectIfSound for every number of levels, all sizes and every history: as long
\* as the levels keep user keys apart, Version::Get and a compaction's rules for what to
\* drop (IsBaseLevelForKey, the smallest snapshot) lose no read.
THEOREM ReadsFindWhatWasWritten == Spec => []ReadsCorrectIfSound
<1>1. ReadInv /\ [Next]_vars => ReadInv'
  BY ReadNext
<1> QED BY <1>1, ReadInit, ReadInvMeans, PTL DEF Spec

-----------------------------------------------------------------------------
(* Sizes as numbers of entries *)

\* Files with an entry in common, and files without.
Shares(f, g) == f.keys \cap g.keys # {}
Separate(files) == \A i, j \in 1 .. Len(files) : i # j => ~Shares(files[i], files[j])

\* The size of files that share no entry is the number of their entries.
LEMMA SizeIs ==
  ASSUME NEW W, IsFiniteSet(W), NEW files \in Seq(FileSet(W)), Separate(files)
  PROVE  /\ TotalFileSize(files) = Cardinality(KeysOf(ToSet(files)))
         /\ IsFiniteSet(KeysOf(ToSet(files)))
<1> DEFINE n == Len(files)
           keys(i) == files[i].keys
           first(i) == UNION {keys(j) : j \in 1 .. i}
<1>1. n \in Nat /\ \A i \in 1 .. n : keys(i) \in SUBSET W
  <2>1. \A i \in 1 .. n : files[i] \in FileSet(W)
    OBVIOUS
  <2> QED BY <2>1 DEF FileSet
<1>2. \A i \in 1 .. n : IsFiniteSet(keys(i)) /\ Cardinality(keys(i)) \in Nat
  BY <1>1, FS_Subset, FS_CardinalityType
<1>3. PICK sum : TotalFileSize(files) = sum[n] /\ Adds(sum, files)
  BY <1>1, <1>2, TotalTurns
<1>4. \A i \in 0 .. n : sum[i] = IF i = 0 THEN 0 ELSE sum[i - 1] + Cardinality(keys(i))
  BY <1>3 DEF Adds
<1>5. \A i, j \in 1 .. n : i # j => keys(i) \cap keys(j) = {}
  BY DEF Separate, Shares
<1>6. KeysOf(ToSet(files)) = first(n)
  <2>1. ToSet(files) = {files[i] : i \in 1 .. n}
    BY Elements
  <2> QED BY <2>1 DEF KeysOf
<1> HIDE DEF n, keys
<1> DEFINE P == {i \in 0 .. n : sum[i] = Cardinality(first(i)) /\ IsFiniteSet(first(i))}
<1>7. 0 \in P
  <2>1. first(0) = {}
    OBVIOUS
  <2> HIDE DEF first
  <2>2. 0 \in 0 .. n /\ sum[0] = 0
    BY <1>1, <1>4
  <2>3. Cardinality(first(0)) = 0 /\ IsFiniteSet(first(0))
    BY ONLY <2>1, FS_EmptySet
  <2> QED BY ONLY <2>2, <2>3
<1>8. ASSUME NEW i \in 1 .. n, i - 1 \in P PROVE i \in P
  <2>1. sum[i - 1] = Cardinality(first(i - 1)) /\ IsFiniteSet(first(i - 1)) /\ sum[i] = sum[i - 1] + Cardinality(keys(i))
    BY <1>1, <1>4, <1>8
  <2>2. \A j : j \in 1 .. i <=> j \in 1 .. i - 1 \/ j = i
    BY <1>1
  <2>3. first(i) = first(i - 1) \cup keys(i)
    BY <2>2
  <2>4. first(i - 1) \cap keys(i) = {}
    <3>1. \A j \in 1 .. i - 1 : keys(j) \cap keys(i) = {}
      BY <1>1, <1>5
    <3> QED BY <3>1
  <2> DEFINE A == first(i - 1)
             B == keys(i)
  <2>5. IsFiniteSet(A) /\ IsFiniteSet(B) /\ A \cap B = {} /\ Cardinality(A) \in Nat /\ Cardinality(B) \in Nat
    BY <1>2, <2>1, <2>4, FS_CardinalityType
  <2>6. i \in 0 .. n /\ sum[i] = Cardinality(A) + Cardinality(B) /\ first(i) = A \cup B
    BY <1>1, <2>1, <2>3
  <2> HIDE DEF A, B, first
  <2>7. IsFiniteSet(A \cup B) /\ Cardinality(A \cup B) = Cardinality(A) + Cardinality(B)
    <3>1. /\ IsFiniteSet(A \cup B)
          /\ Cardinality(A \cup B) = Cardinality(A) + Cardinality(B) - Cardinality(A \cap B)
      BY ONLY <2>5, FS_Union
    <3>2. Cardinality(A \cap B) = 0
      BY ONLY <2>5, FS_EmptySet
    <3> QED BY ONLY <2>5, <3>1, <3>2
  <2> QED BY <2>6, <2>7
<1>9. \A i \in 0 .. n : i \in P
  <2>1. \A i \in 1 .. n : i - 1 \in P => i \in P
    BY <1>8
  <2> HIDE DEF P
  <2> QED BY ONLY <1>1, <1>7, <2>1, UpTo
<1>10. n \in P
  BY <1>1, <1>9
<1> QED BY <1>3, <1>6, <1>10

-----------------------------------------------------------------------------
(* The height of a version *)

\* Height adds up one level after the other.
Climbs(H, v) ==
  \A l \in Levels : H[l] = (kNumLevels - l) * TotalFileSize(v[l]) + IF l = 0 THEN 0 ELSE H[l - 1]

LEMMA HeightTurns ==
  ASSUME NEW v, \A l \in Levels : TotalFileSize(v[l]) \in Nat
  PROVE  \E H \in [Levels -> Nat] : Height(v) = H[kNumLevels - 1] /\ Climbs(H, v)
<1> DEFINE n == kNumLevels - 1
           part(l) == (kNumLevels - l) * TotalFileSize(v[l])
           G == [i \in 1 .. n |-> [x \in Nat |-> part(i) + x]]
           Is(F) == F = [l \in Levels |-> part(l) + IF l = 0 THEN 0 ELSE F[l - 1]]
           upto == CHOOSE F : Is(F)
<1>1. n \in Nat /\ Levels = 0 .. n
  BY VersionAssumption DEF Levels
<1>2. Height(v) = upto[n]
  BY DEF Height
<1>3. \A l \in 0 .. n : part(l) \in Nat
  <2> TAKE l \in 0 .. n
  <2>1. TotalFileSize(v[l]) \in Nat /\ kNumLevels - l \in Nat
    BY <1>1, VersionAssumption
  <2> DEFINE a == kNumLevels - l
             b == TotalFileSize(v[l])
  <2>2. a \in Nat /\ b \in Nat
    BY <2>1
  <2> HIDE DEF a, b
  <2>3. a * b \in Nat
    BY ONLY <2>2
  <2> QED BY ONLY <2>3 DEF a, b
<1> HIDE DEF n, part
<1>4. \E F \in [0 .. n -> Nat] : Is(F)
  <2>1. G \in [1 .. n -> [Nat -> Nat]]
    BY <1>1, <1>3
  <2>2. part(0) \in Nat
    BY <1>1, <1>3
  <2>3. PICK F \in [0 .. n -> Nat] : Steps(F, n, part(0), G)
    <3> HIDE DEF G
    <3> QED BY <1>1, <2>1, <2>2, Recursion
  <2>4. ASSUME NEW i \in 1 .. n PROVE F[i] = part(i) + F[i - 1]
    <3>1. i - 1 \in 0 .. n
      BY <1>1
    <3>2. F[i - 1] \in Nat
      BY <3>1
    <3> QED BY <2>3, <3>2 DEF Steps
  <2>5. Is(F)
    <3>1. F = [i \in 0 .. n |-> F[i]]
      OBVIOUS
    <3>2. \A i \in 0 .. n : F[i] = part(i) + IF i = 0 THEN 0 ELSE F[i - 1]
      <4> TAKE i \in 0 .. n
      <4>1. CASE i = 0
        BY <2>2, <2>3, <4>1 DEF Steps
      <4>2. CASE i # 0
        BY <1>1, <2>4, <4>2
      <4> QED BY <4>1, <4>2
    <3> QED BY <1>1, <3>1, <3>2
  <2> QED BY <2>5, Zenon
<1>5. Is(upto)
  BY <1>4, Zenon
<1> HIDE DEF upto
<1>6. \A l \in 0 .. n : upto[l] = part(l) + IF l = 0 THEN 0 ELSE upto[l - 1]
  BY <1>1, <1>5
<1> DEFINE P == {l \in 0 .. n : upto[l] \in Nat}
<1>7. 0 \in P
  <2>1. 0 \in 0 .. n /\ part(0) \in Nat
    BY <1>1, <1>3
  <2>2. upto[0] = part(0)
    BY <1>6, <2>1
  <2> QED BY ONLY <2>1, <2>2
<1>8. ASSUME NEW l \in 1 .. n, l - 1 \in P PROVE l \in P
  <2>1. l \in 0 .. n /\ part(l) \in Nat /\ upto[l - 1] \in Nat
    BY <1>1, <1>3, <1>8
  <2>2. upto[l] = part(l) + upto[l - 1]
    BY <1>6, <2>1
  <2> QED BY ONLY <2>1, <2>2
<1>9. \A l \in 0 .. n : l \in P
  <2>1. \A l \in 1 .. n : l - 1 \in P => l \in P
    BY <1>8
  <2> HIDE DEF P
  <2> QED BY ONLY <1>1, <1>7, <2>1, UpTo
<1>10. upto \in [Levels -> Nat]
  BY <1>1, <1>5, <1>9
<1>11. Climbs(upto, v)
  BY <1>1, <1>6 DEF Climbs, part
<1>12. Height(v) = upto[kNumLevels - 1]
  BY <1>2 DEF n
<1> QED BY <1>10, <1>11, <1>12

\* What goes from one level to the next, or is dropped, lowers the version.
LEMMA HeightFalls ==
  ASSUME NEW v, NEW v1, NEW l \in 0 .. kNumLevels - 2, NEW a \in Nat, a > 0,
         \A m \in Levels : TotalFileSize(v[m]) \in Nat /\ TotalFileSize(v1[m]) \in Nat,
         \A m \in Levels \ {l, l + 1} : TotalFileSize(v1[m]) = TotalFileSize(v[m]),
         TotalFileSize(v1[l]) + a = TotalFileSize(v[l]),
         TotalFileSize(v1[l + 1]) <= TotalFileSize(v[l + 1]) + a
  PROVE  Height(v1) < Height(v)
<1> DEFINE n == kNumLevels - 1
           size(m) == TotalFileSize(v[m])
           size1(m) == TotalFileSize(v1[m])
<1>1. n \in Nat /\ Levels = 0 .. n /\ l \in 0 .. n /\ l + 1 \in 0 .. n /\ kNumLevels = n + 1
  BY VersionAssumption DEF Levels
<1>2. PICK H \in [Levels -> Nat] : Height(v) = H[kNumLevels - 1] /\ Climbs(H, v)
  BY HeightTurns
<1>3. PICK H1 \in [Levels -> Nat] : Height(v1) = H1[kNumLevels - 1] /\ Climbs(H1, v1)
  BY HeightTurns
<1>4. \A m \in 0 .. n : H[m] \in Nat /\ H1[m] \in Nat /\ size(m) \in Nat /\ size1(m) \in Nat
  BY <1>1
<1>5. /\ \A m \in 0 .. n : m # l /\ m # l + 1 => size1(m) = size(m)
      /\ size1(l) + a = size(l) /\ size1(l + 1) <= size(l + 1) + a
  BY <1>1
<1>6. \A m \in 0 .. n : /\ H[m] = (n + 1 - m) * size(m) + IF m = 0 THEN 0 ELSE H[m - 1]
                        /\ H1[m] = (n + 1 - m) * size1(m) + IF m = 0 THEN 0 ELSE H1[m - 1]
  <2> TAKE m \in 0 .. n
  <2>1. m \in Levels
    BY <1>1
  <2>2. /\ H[m] = (kNumLevels - m) * size(m) + IF m = 0 THEN 0 ELSE H[m - 1]
        /\ H1[m] = (kNumLevels - m) * size1(m) + IF m = 0 THEN 0 ELSE H1[m - 1]
    BY ONLY <1>2, <1>3, <2>1 DEF Climbs
  <2>3. kNumLevels - m = n + 1 - m
    BY <1>1
  <2> DEFINE w == kNumLevels - m
             w1 == n + 1 - m
  <2>4. w = w1
    BY <2>3
  <2>5. /\ H[m] = w * size(m) + IF m = 0 THEN 0 ELSE H[m - 1]
        /\ H1[m] = w * size1(m) + IF m = 0 THEN 0 ELSE H1[m - 1]
    BY <2>2
  <2> HIDE DEF w, w1, size, size1
  <2>6. /\ H[m] = w1 * size(m) + IF m = 0 THEN 0 ELSE H[m - 1]
        /\ H1[m] = w1 * size1(m) + IF m = 0 THEN 0 ELSE H1[m - 1]
    BY ONLY <2>4, <2>5
  <2> QED BY ONLY <2>6 DEF w1
<1>7. Height(v) = H[n] /\ Height(v1) = H1[n]
  BY <1>2, <1>3
<1> HIDE DEF n, size, size1
<1> DEFINE before(m) == IF m = 0 THEN 0 ELSE H[m - 1]
           before1(m) == IF m = 0 THEN 0 ELSE H1[m - 1]
           Falls(m) == /\ m < l => H1[m] = H[m]
                       /\ m = l => H1[m] + (n + 1 - l) * a = H[m]
                       /\ m > l => H1[m] < H[m]
           P == {m \in 0 .. n : Falls(m)}
<1>8. ASSUME NEW m \in 0 .. n
      PROVE  /\ H[m] = (n + 1 - m) * size(m) + before(m) /\ H1[m] = (n + 1 - m) * size1(m) + before1(m)
             /\ before(m) \in Nat /\ before1(m) \in Nat /\ n + 1 - m \in Nat
  <2>1. before(m) \in Nat /\ before1(m) \in Nat
    <3>1. CASE m = 0
      BY <3>1
    <3>2. CASE m # 0
      <4>1. m - 1 \in 0 .. n
        BY <1>1, <3>2
      <4> QED BY <1>4, <3>2, <4>1
    <3> QED BY <3>1, <3>2
  <2>2. n + 1 - m \in Nat
    BY <1>1
  <2> QED BY <1>6, <2>1, <2>2
<1>9. ASSUME NEW m \in 0 .. n, m = 0 \/ m - 1 \in P PROVE m \in P
  <2>1. /\ m < l => before1(m) = before(m)
        /\ m = l => before1(m) = before(m)
        /\ m = l + 1 => before1(m) + (n + 1 - l) * a = before(m)
        /\ m > l + 1 => before1(m) < before(m)
    <3>1. CASE m = 0
      BY <1>1, <3>1
    <3>2. CASE m # 0
      <4>1. Falls(m - 1) /\ m - 1 \in 0 .. n
        BY <1>9, <3>2
      <4> DEFINE k == m - 1
      <4>2. /\ k \in 0 .. n /\ (k < l => H1[k] = H[k]) /\ (k = l => H1[k] + (n + 1 - l) * a = H[k])
            /\ (k > l => H1[k] < H[k])
        BY <4>1
      <4>3. /\ m < l => k < l
            /\ m = l => k < l
            /\ m = l + 1 => k = l
            /\ m > l + 1 => k > l
        <5>1. m \in Int /\ l \in Int
          BY <1>1
        <5> QED BY ONLY <5>1
      <4>4. before(m) = H[k] /\ before1(m) = H1[k]
        BY <3>2
      <4> HIDE DEF k, before, before1, Falls, P
      <4> QED BY ONLY <4>2, <4>3, <4>4
    <3> QED BY <3>1, <3>2
  <2> DEFINE w == n + 1 - m
             b == before(m)
             b1 == before1(m)
             s == size(m)
             s1 == size1(m)
             h == H[m]
             h1 == H1[m]
  <2>2. /\ w \in Nat /\ b \in Nat /\ b1 \in Nat /\ s \in Nat /\ s1 \in Nat /\ h \in Nat /\ h1 \in Nat
        /\ h = w * s + b /\ h1 = w * s1 + b1
    BY <1>4, <1>8
  <2>3. /\ m # l /\ m # l + 1 => s1 = s
        /\ m = l => s1 + a = s
        /\ m = l + 1 => s1 <= s + a
    BY <1>5
  <2>4. m = l => w = n + 1 - l
    OBVIOUS
  <2>5. m = l + 1 => n + 1 - l = w + 1
    BY <1>1
  <2>6. m \in Int /\ l \in Int
    BY <1>1
  <2> DEFINE x == (n + 1 - l) * a
  <2>7. /\ m < l => b1 = b
        /\ m = l => b1 = b
        /\ m = l + 1 => b1 + x = b
        /\ m > l + 1 => b1 < b
    BY <2>1
  <2>8. /\ m = l => x = w * a
        /\ m = l + 1 => x = (w + 1) * a
    BY <2>4, <2>5
  <2> HIDE DEF w, b, b1, s, s1, h, h1, x
  <2>9. CASE m < l
    <3>1. h1 = h
      BY ONLY <2>2, <2>3, <2>6, <2>7, <2>9
    <3> QED BY <2>6, <2>9, <3>1 DEF h, h1
  <2>10. CASE m = l
    <3>1. w * (s1 + a) = w * s1 + w * a
      BY ONLY <2>2, a \in Nat
    <3>2. h1 + x = h
      BY ONLY <2>2, <2>3, <2>7, <2>8, <2>10, <3>1, a \in Nat
    <3> QED BY <2>6, <2>10, <3>2 DEF h, h1, x
  <2>11. CASE m = l + 1
    <3>1. w * s1 <= w * (s + a)
      <4>1. s1 <= s + a /\ s + a \in Nat
        BY <2>2, <2>3, <2>11
      <4> DEFINE t == s + a
      <4>2. t \in Nat /\ s1 <= t
        BY <4>1
      <4> HIDE DEF t
      <4>3. w * s1 <= w * t
        BY ONLY <2>2, <4>2
      <4> QED BY <4>3 DEF t
    <3>2. w * (s + a) = w * s + w * a /\ (w + 1) * a = w * a + a
      BY ONLY <2>2, a \in Nat
    <3>3. x = (w + 1) * a /\ b1 + x = b
      BY ONLY <2>7, <2>8, <2>11
    <3> DEFINE p == w * s
               q == w * a
               r == w * s1
    <3>4. p \in Nat /\ q \in Nat /\ r \in Nat
      BY ONLY <2>2, a \in Nat
    <3>5. r <= p + q /\ x = q + a /\ h = p + b /\ h1 = r + b1
      BY ONLY <2>2, <3>1, <3>2, <3>3
    <3> HIDE DEF p, q, r
    <3>6. h1 < h
      BY ONLY <2>2, <3>3, <3>4, <3>5, a \in Nat, a > 0
    <3> QED BY <2>6, <2>11, <3>6 DEF h, h1
  <2>12. CASE m > l + 1
    <3>1. h1 < h
      <4>1. s1 = s /\ b1 < b
        BY ONLY <2>3, <2>6, <2>7, <2>12
      <4> DEFINE p == w * s
      <4>2. p \in Nat /\ h = p + b /\ h1 = p + b1
        BY ONLY <2>2, <4>1
      <4> HIDE DEF p
      <4> QED BY ONLY <2>2, <4>1, <4>2
    <3> QED BY <2>6, <2>12, <3>1 DEF h, h1
  <2> QED BY <2>6, <2>9, <2>10, <2>11, <2>12
<1>10. \A m \in 0 .. n : m \in P
  <2>1. 0 \in P
    <3>1. 0 \in 0 .. n
      BY <1>1
    <3> HIDE DEF P
    <3> QED BY ONLY <1>9, <3>1
  <2>2. \A m \in 1 .. n : m - 1 \in P => m \in P
    <3> TAKE m \in 1 .. n
    <3>1. m \in 0 .. n
      BY <1>1
    <3> HIDE DEF P
    <3> QED BY ONLY <1>9, <3>1
  <2> HIDE DEF P
  <2> QED BY ONLY <1>1, <2>1, <2>2, UpTo
<1>11. n \in 0 .. n /\ n > l
  BY <1>1
<1>12. Falls(n)
  BY <1>10, <1>11
<1> QED BY ONLY <1>7, <1>11, <1>12

-----------------------------------------------------------------------------
(* The outputs of a compaction share no entry *)

Parts(q) == \A i, j \in 1 .. Len(q) : i # j => q[i] \cap q[j] = {}
\* The outputs so far, and the one that is open.
Split(s) == Parts(s.outs) /\ \A i \in 1 .. Len(s.outs) : s.outs[i] \cap s.open = {}

\* Closing an output.
LEMMA FinishSplits ==
  ASSUME NEW W, NEW n \in Nat, NEW s \in WorkStates(W, n), Split(s)
  PROVE  Split(FinishCompactionOutputFile(s))
<1> DEFINE t == FinishCompactionOutputFile(s)
           q == s.outs
           x == s.open
           S == SUBSET W
<1>1. t.open = {} /\ t.outs = IF x = {} THEN q ELSE Append(q, x)
  BY FinishIs
<1>2. q \in Seq(S) /\ x \in S
  <2>1. q \in Seq(S \ {{}}) /\ x \in S
    BY DEF WorkStates, Outputs
  <2> HIDE DEF q, x, S
  <2> QED BY ONLY <2>1
<1>3. Parts(q) /\ \A i \in 1 .. Len(q) : q[i] \cap x = {}
  BY DEF Split
<1> HIDE DEF t, q, x, S
<1>4. Parts(Append(q, x))
  <2> DEFINE r == Append(q, x)
  <2>1. Len(q) \in Nat /\ Len(r) = Len(q) + 1 /\ r[Len(q) + 1] = x /\ \A i \in 1 .. Len(q) : r[i] = q[i]
    BY ONLY <1>2
  <2> HIDE DEF r
  <2>2. ASSUME NEW i \in 1 .. Len(r), NEW j \in 1 .. Len(r), i # j
        PROVE  r[i] \cap r[j] = {}
    <3>1. /\ i \in 1 .. Len(q) \/ i = Len(q) + 1
          /\ j \in 1 .. Len(q) \/ j = Len(q) + 1
      BY <2>1
    <3>2. CASE i \in 1 .. Len(q) /\ j \in 1 .. Len(q)
      BY <1>3, <2>1, <2>2, <3>2 DEF Parts
    <3>3. CASE i \in 1 .. Len(q) /\ j = Len(q) + 1
      BY <1>3, <2>1, <3>3
    <3>4. CASE i = Len(q) + 1 /\ j \in 1 .. Len(q)
      BY <1>3, <2>1, <3>4
    <3> QED BY <2>2, <3>1, <3>2, <3>3, <3>4
  <2>3. Parts(r)
    BY ONLY <2>2 DEF Parts
  <2> QED BY <2>3 DEF r
<1>5. Parts(t.outs)
  BY <1>1, <1>3, <1>4
<1>6. \A i \in 1 .. Len(t.outs) : t.outs[i] \cap t.open = {}
  BY <1>1
<1> QED BY <1>5, <1>6 DEF Split, t

\* A turn of the loop puts a new key into one output.
LEMMA CompactKeySplits ==
  ASSUME NEW W \in SUBSET IKeys, IsFiniteSet(W), NEW c, c.grandparents \in Seq(FileSet(W)),
         NEW s \in WorkStates(W, Len(c.grandparents)), NEW k \in W, NEW smallest_snapshot,
         Split(s), k \notin Held(s)
  PROVE  Split(CompactKey(c, s, k, smallest_snapshot))
<1> DEFINE n == Len(c.grandparents)
           s1 == ShouldStopBefore(c, s, k)
           s2 == CloseIf(s1.stop, s1)
           r == [s2 EXCEPT !.open = @ \cup {k}]
           s3 == IF Drop(c, s2, k, smallest_snapshot) THEN s2 ELSE r
           s4 == CloseIf(Cardinality(s3.open) >= TargetFileSize, s3)
           t == CompactKey(c, s, k, smallest_snapshot)
<1>1. t = [s4 EXCEPT !.user = k.user, !.last = k.seq]
  BY DEF CompactKey
<1>2. n \in Nat
  OBVIOUS
<1>3. s1 \in WorkStates(W, n) /\ Split(s1) /\ k \notin Held(s1)
  BY ShouldStopBeforeIs DEF Held, Split
<1> HIDE DEF s1, n
<1>4. s2 \in WorkStates(W, n) /\ Split(s2) /\ k \notin Held(s2)
  <2>1. /\ FinishCompactionOutputFile(s1) \in WorkStates(W, n) /\ Split(FinishCompactionOutputFile(s1))
        /\ Held(FinishCompactionOutputFile(s1)) = Held(s1)
    BY <1>2, <1>3, FinishIs, FinishHolds, FinishSplits
  <2> QED BY <1>3, <2>1 DEF CloseIf
<1> HIDE DEF s2
<1>5. r \in WorkStates(W, n) /\ Split(r)
  <2> DEFINE open == s2.open \cup {k}
  <2>1. /\ s2.user \in Int /\ s2.last \in Nat /\ s2.open \in SUBSET W /\ s2.outs \in Outputs(W)
        /\ s2.gp \in 0 .. n /\ s2.seen \in BOOLEAN /\ s2.bytes \in Nat /\ s2.stop \in BOOLEAN
        /\ s2 = [user |-> s2.user, last |-> s2.last, open |-> s2.open, outs |-> s2.outs,
                 gp |-> s2.gp, seen |-> s2.seen, bytes |-> s2.bytes, stop |-> s2.stop]
    BY <1>4 DEF WorkStates
  <2>2. open \in SUBSET W
    BY <2>1
  <2>3. r = [s2 EXCEPT !.open = open]
    OBVIOUS
  <2> HIDE DEF open, r
  <2>4. r = [user |-> s2.user, last |-> s2.last, open |-> open, outs |-> s2.outs,
             gp |-> s2.gp, seen |-> s2.seen, bytes |-> s2.bytes, stop |-> s2.stop]
    BY ONLY <2>1, <2>3
  <2>5. r \in WorkStates(W, n) /\ r.open = open /\ r.outs = s2.outs
    BY ONLY <2>1, <2>2, <2>4 DEF WorkStates
  <2>6. ASSUME NEW i \in 1 .. Len(r.outs) PROVE r.outs[i] \cap r.open = {}
    <3> DEFINE q == s2.outs
    <3>1. q \in Seq((SUBSET W) \ {{}}) /\ i \in 1 .. Len(q)
      BY <2>1, <2>5, <2>6 DEF Outputs
    <3>2. q[i] \in ToSet(q) /\ q[i] \cap s2.open = {}
      <4>1. ToSet(q) = {q[j] : j \in 1 .. Len(q)}
        BY ONLY <3>1, Elements
      <4> QED BY <1>4, <3>1, <4>1 DEF Split
    <3>3. k \notin q[i]
      BY <1>4, <3>2 DEF Held
    <3> QED BY <2>5, <3>2, <3>3 DEF open
  <2>7. Parts(r.outs)
    BY <1>4, <2>5 DEF Split
  <2> QED BY <2>5, <2>6, <2>7 DEF Split
<1>6. s3 \in WorkStates(W, n) /\ Split(s3)
  BY <1>4, <1>5
<1> HIDE DEF s3
<1>7. s4 \in WorkStates(W, n) /\ Split(s4)
  <2>1. FinishCompactionOutputFile(s3) \in WorkStates(W, n) /\ Split(FinishCompactionOutputFile(s3))
    BY <1>2, <1>6, FinishIs, FinishSplits
  <2> QED BY <1>6, <2>1 DEF CloseIf
<1> HIDE DEF s4
<1>8. t.open = s4.open /\ t.outs = s4.outs
  <2>1. s4 = [user |-> s4.user, last |-> s4.last, open |-> s4.open, outs |-> s4.outs,
              gp |-> s4.gp, seen |-> s4.seen, bytes |-> s4.bytes, stop |-> s4.stop]
    BY <1>7 DEF WorkStates
  <2> DEFINE user == k.user
             last == k.seq
  <2> HIDE DEF user, last, t
  <2>2. t = [s4 EXCEPT !.user = user, !.last = last]
    BY ONLY <1>1 DEF user, last
  <2> QED BY ONLY <2>1, <2>2
<1> HIDE DEF t
<1>9. Split(t)
  BY ONLY <1>7, <1>8 DEF Split
<1> QED BY <1>9 DEF t

\* DoCompactionWork: each entry that is kept goes into one output file.
LEMMA WorkSplits ==
  ASSUME NEW W \in SUBSET IKeys, Distinct(W), IsFiniteSet(W), NEW v, NEW c, CompactionOf(W, v, c),
         NEW smallest_snapshot
  PROVE  Parts(DoCompactionWork(c, smallest_snapshot))
<1>1. PICK E : Turns(W, c, smallest_snapshot, E)
  BY WorkTurns
<1> DEFINE keys == InputKeys(c)
           input == SortedKeys(keys)
           n == Len(input)
           l == Len(c.grandparents)
<1>2. /\ input \in Seq(W) /\ keys \in SUBSET W
      /\ \A i \in 0 .. n : E[i] \in WorkStates(W, l)
      /\ E[0].user = -1 /\ E[0].open = {} /\ E[0].outs = << >>
      /\ \A i \in 1 .. n : E[i] = CompactKey(c, E[i - 1], input[i], smallest_snapshot)
      /\ DoCompactionWork(c, smallest_snapshot) = FinishCompactionOutputFile(E[n]).outs
  BY <1>1 DEF Turns
<1>3. c.grandparents \in Seq(FileSet(W)) /\ l \in Nat
  BY DEF CompactionOf
<1> HIDE DEF keys
<1>4. \A i, j \in 1 .. n : i < j => ILess(input[i], input[j])
  <2>1. keys \in SUBSET IKeys /\ Distinct(keys) /\ IsFiniteSet(keys)
    <3>1. IsFiniteSet(keys)
      BY <1>2, FS_Subset
    <3> QED BY <1>2, <3>1 DEF Distinct
  <2> QED BY ONLY <2>1, SortedKeysIs DEF input, n
<1>5. n \in Nat /\ \A i \in 1 .. n : input[i] \in W
  <2> HIDE DEF input
  <2> QED BY ONLY <1>2 DEF n
<1> HIDE DEF input, n, l
<1>6. \A i, j \in 1 .. n : i < j => input[i] # input[j]
  BY <1>4, <1>5, KeyLess
<1> DEFINE P == {i \in 0 .. n : Split(E[i]) /\ Held(E[i]) \subseteq {input[j] : j \in 1 .. i}}
<1>7. 0 \in P
  <2>1. Held(E[0]) = {} /\ Split(E[0])
    <3>1. ToSet(<< >>) = {}
      BY DEF ToSet
    <3>2. Len(E[0].outs) = 0
      BY <1>2
    <3> QED BY <1>2, <3>1, <3>2 DEF Held, Split, Parts
  <2>2. 0 \in 0 .. n
    BY <1>5
  <2> QED BY ONLY <2>1, <2>2
<1>8. ASSUME NEW i \in 1 .. n, i - 1 \in P PROVE i \in P
  <2> DEFINE s == E[i - 1]
             k == input[i]
             t == CompactKey(c, s, k, smallest_snapshot)
  <2>1. i \in 0 .. n /\ i - 1 \in 0 .. n
    BY <1>5
  <2>2. s \in WorkStates(W, Len(c.grandparents)) /\ k \in W /\ E[i] = t
    BY <1>2, <1>5, <2>1 DEF l
  <2>3. Split(s) /\ Held(s) \subseteq {input[j] : j \in 1 .. i - 1}
    BY <1>8
  <2>4. k \notin Held(s)
    <3>1. \A j \in 1 .. i - 1 : j \in 1 .. n /\ j < i
      BY <1>5
    <3> QED BY <1>6, <2>3, <3>1
  <2> HIDE DEF s, k
  <2>5. Split(t) /\ Held(t) \subseteq Held(s) \cup {k}
    BY <1>3, <2>2, <2>3, <2>4, CompactKeyIs, CompactKeySplits
  <2> HIDE DEF t
  <2>6. \A j \in 1 .. i - 1 : j \in 1 .. i
    BY <1>5
  <2>7. i \in 1 .. i
    BY <1>5
  <2>8. Held(E[i]) \subseteq {input[j] : j \in 1 .. i}
    BY ONLY <2>2, <2>3, <2>5, <2>6, <2>7 DEF k
  <2> QED BY <2>1, <2>2, <2>5, <2>8
<1>9. n \in P
  <2>1. \A i \in 1 .. n : i - 1 \in P => i \in P
    BY <1>8
  <2>2. n \in 0 .. n
    BY <1>5
  <2> HIDE DEF P
  <2> QED BY ONLY <1>5, <1>7, <2>1, <2>2, UpTo
<1>10. Split(FinishCompactionOutputFile(E[n]))
  <2>1. E[n] \in WorkStates(W, l) /\ Split(E[n])
    BY <1>2, <1>9
  <2> QED BY ONLY <1>3, <2>1, FinishSplits
<1> QED BY <1>2, <1>10 DEF Split

-----------------------------------------------------------------------------
(* Every entry is in one place *)

\* No entry is in two files, and no file is twice in a level.
InOneFile(v) ==
  \A l, m \in Levels : \A f \in ToSet(v[l]), g \in ToSet(v[m]) : Shares(f, g) => f = g /\ l = m
Once(v) ==
  /\ \A l \in Levels : \A i, j \in 1 .. Len(v[l]) : i # j => v[l][i] # v[l][j]
  /\ InOneFile(v)

\* The sort of SaveTo does not repeat a file.
LEMMA SortedOnce ==
  ASSUME NEW W \in SUBSET IKeys, Distinct(W), NEW v \in Versions(W), NEW edit,
         IsFiniteSet(edit.added), Added(edit) \subseteq FileSet(W), Numbered(LiveFiles(v) \cup Added(edit)),
         InOneFile(SaveTo(v, edit))
  PROVE  Once(SaveTo(v, edit))
<1> DEFINE v1 == SaveTo(v, edit)
<1>1. v1 \in Versions(W) /\ LiveFiles(v1) \subseteq LiveFiles(v) \cup Added(edit)
      /\ \A l \in Levels : ToSet(v1[l]) = Kept(v, edit, l)
  BY SaveToIs
<1>2. \A l \in Levels : v1[l] = SortedFiles(Kept(v, edit, l))
  BY DEF SaveTo, Kept
<1> HIDE DEF v1
<1>3. ASSUME NEW l \in Levels, NEW i \in 1 .. Len(v1[l]), NEW j \in 1 .. Len(v1[l]), i # j
      PROVE  v1[l][i] # v1[l][j]
  <2> DEFINE S == Kept(v, edit, l)
             q == v1[l]
  <2>1. S \in SUBSET FileSet(W) /\ IsFiniteSet(S)
    <3>1. q \in Seq(FileSet(W)) /\ ToSet(q) = S
      BY <1>1 DEF Versions
    <3> HIDE DEF S, q
    <3> QED BY ONLY <3>1, Elements
  <2>2. Numbered(S)
    <3>1. S \subseteq LiveFiles(v) \cup Added(edit)
      BY <1>1 DEF LiveFiles
    <3> QED BY <3>1 DEF Numbered
  <2>3. q = SortedFiles(S)
    BY <1>2
  <2> HIDE DEF S, q
  <2>4. q \in Seq(S) /\ \A a, b \in 1 .. Len(q) : a < b => FileLess(q[a], q[b])
    BY ONLY <2>1, <2>2, <2>3, W \in SUBSET IKeys, Distinct(W), SortedFilesIs
  <2>5. \A f \in S : ~FileLess(f, f)
    <3> TAKE f \in S
    <3>1. f.smallest \in IKeys /\ f.num \in Nat
      BY <2>1 DEF FileSet
    <3>2. ~ILess(f.smallest, f.smallest)
      BY <3>1, KeyLess
    <3> DEFINE m == f.num
    <3>3. ~(m < m)
      BY <3>1
    <3> QED BY <3>2, <3>3 DEF FileLess
  <2>6. i \in 1 .. Len(q) /\ j \in 1 .. Len(q) /\ q[i] \in S /\ q[j] \in S
    <3>1. i \in 1 .. Len(q) /\ j \in 1 .. Len(q)
      BY DEF q
    <3> QED BY ONLY <2>4, <3>1
  <2>7. i < j \/ j < i
    BY <1>3, <2>6
  <2>8. q[i] # q[j]
    BY <2>4, <2>5, <2>6, <2>7
  <2> QED BY <2>8 DEF q
<1> QED BY <1>3 DEF Once, v1

\* Outputs that share no entry keep each entry in one file.
LEMMA ReplacedInOneFile ==
  ASSUME NEW v, NEW v1, NEW l \in 0 .. kNumLevels - 2, NEW S1, NEW S2, NEW N, Replaces(v, v1, l, S1, S2, N),
         InOneFile(v), S1 \subseteq ToSet(v[l]), S2 \subseteq ToSet(v[l + 1]),
         KeysOf(N) \subseteq KeysOf(S1) \cup KeysOf(S2),
         \A f, g \in N : Shares(f, g) => f = g
  PROVE  InOneFile(v1)
<1> DEFINE Stays(a, f) == f \in ToSet(v[a]) /\ ~(a = l /\ f \in S1) /\ ~(a = l + 1 /\ f \in S2)
<1>1. l \in Levels /\ l + 1 \in Levels
  BY VersionAssumption DEF Levels
<1>2. ASSUME NEW a \in Levels, NEW f \in ToSet(v1[a])
      PROVE  Stays(a, f) \/ (a = l + 1 /\ f \in N)
  <2>0. l # l + 1
    OBVIOUS
  <2>1. CASE a = l
    BY <2>0, <2>1 DEF Replaces
  <2>2. CASE a = l + 1
    BY <2>0, <2>2 DEF Replaces
  <2>3. CASE a # l /\ a # l + 1
    BY <2>3 DEF Replaces
  <2> QED BY <2>1, <2>2, <2>3
<1>3. ASSUME NEW a \in Levels, NEW f, Stays(a, f), NEW g \in N
      PROVE  ~Shares(f, g)
  <2> SUFFICES ASSUME NEW k \in f.keys, k \in g.keys PROVE FALSE
    BY DEF Shares
  <2>1. k \in KeysOf(S1) \/ k \in KeysOf(S2)
    BY DEF KeysOf
  <2>2. CASE k \in KeysOf(S1)
    <3>1. PICK h \in S1 : k \in h.keys
      BY <2>2 DEF KeysOf
    <3>2. f = h /\ a = l
      BY <1>1, <1>3, <3>1 DEF InOneFile, Shares
    <3> QED BY <1>3, <3>1, <3>2
  <2>3. CASE k \in KeysOf(S2)
    <3>1. PICK h \in S2 : k \in h.keys
      BY <2>3 DEF KeysOf
    <3>2. f = h /\ a = l + 1
      BY <1>1, <1>3, <3>1 DEF InOneFile, Shares
    <3> QED BY <1>3, <3>1, <3>2
  <2> QED BY <2>1, <2>2, <2>3
<1>4. ASSUME NEW a \in Levels, NEW b \in Levels, NEW f \in ToSet(v1[a]), NEW g \in ToSet(v1[b]), Shares(f, g)
      PROVE  f = g /\ a = b
  <2>1. Shares(g, f)
    BY <1>4 DEF Shares
  <2>2. CASE Stays(a, f) /\ Stays(b, g)
    BY <1>4, <2>2 DEF InOneFile
  <2>3. CASE Stays(a, f) /\ b = l + 1 /\ g \in N
    BY <1>3, <1>4, <2>3
  <2>4. CASE a = l + 1 /\ f \in N /\ Stays(b, g)
    BY <1>3, <2>1, <2>4
  <2>5. CASE a = l + 1 /\ f \in N /\ b = l + 1 /\ g \in N
    BY <1>4, <2>5
  <2> HIDE DEF Stays
  <2> QED BY <1>2, <2>2, <2>3, <2>4, <2>5
<1> QED BY <1>4 DEF InOneFile

\* A compaction that takes at least one file lowers the version.
LEMMA ReplacedFalls ==
  ASSUME NEW W \in SUBSET IKeys, IsFiniteSet(W), NEW v \in Versions(W), NEW v1 \in Versions(W),
         NEW l \in 0 .. kNumLevels - 2, NEW S1, NEW S2, NEW N, Replaces(v, v1, l, S1, S2, N),
         Once(v), Once(v1), S1 \subseteq ToSet(v[l]), S2 \subseteq ToSet(v[l + 1]), S1 # {},
         KeysOf(N) \subseteq KeysOf(S1) \cup KeysOf(S2)
  PROVE  Height(v1) < Height(v)
<1> DEFINE E(m) == KeysOf(ToSet(v[m]))
           E1(m) == KeysOf(ToSet(v1[m]))
           A == KeysOf(S1)
<1>1. l \in Levels /\ l + 1 \in Levels
  BY VersionAssumption DEF Levels
<1>2. ASSUME NEW w \in Versions(W), Once(w), NEW m \in Levels
      PROVE  TotalFileSize(w[m]) = Cardinality(KeysOf(ToSet(w[m]))) /\ IsFiniteSet(KeysOf(ToSet(w[m])))
  <2>1. w[m] \in Seq(FileSet(W))
    BY DEF Versions
  <2>2. Separate(w[m])
    <3> SUFFICES ASSUME NEW i \in 1 .. Len(w[m]), NEW j \in 1 .. Len(w[m]), i # j, Shares(w[m][i], w[m][j])
                 PROVE  FALSE
      BY DEF Separate
    <3>1. ToSet(w[m]) = {w[m][h] : h \in 1 .. Len(w[m])}
      BY <2>1, Elements
    <3>2. w[m][i] = w[m][j]
      BY <1>2, <3>1 DEF Once, InOneFile
    <3> QED BY <1>2, <3>2 DEF Once
  <2> QED BY <2>1, <2>2, SizeIs
<1>3. \A m \in Levels : /\ TotalFileSize(v[m]) = Cardinality(E(m)) /\ IsFiniteSet(E(m))
                        /\ TotalFileSize(v1[m]) = Cardinality(E1(m)) /\ IsFiniteSet(E1(m))
  BY <1>2
<1>4. \A m \in Levels : Cardinality(E(m)) \in Nat /\ Cardinality(E1(m)) \in Nat
  BY <1>3, FS_CardinalityType
<1>5. \A m \in Levels \ {l, l + 1} : E1(m) = E(m)
  BY DEF Replaces
<1>6. A # {}
  <2>1. PICK f \in S1 : TRUE
    OBVIOUS
  <2>2. f \in FileSet(W)
    <3>1. v[l] \in Seq(FileSet(W))
      BY <1>1 DEF Versions
    <3> QED BY <3>1, Elements
  <2>3. f.smallest \in f.keys
    BY <2>2, FileIs
  <2> QED BY <2>3 DEF KeysOf
<1>7. E(l) = E1(l) \cup A /\ E1(l) \cap A = {}
  <2>1. ToSet(v1[l]) = ToSet(v[l]) \ S1
    BY DEF Replaces
  <2>2. E(l) = E1(l) \cup A
    BY <2>1 DEF KeysOf
  <2>3. E1(l) \cap A = {}
    <3> SUFFICES ASSUME NEW k \in E1(l), k \in A PROVE FALSE
      OBVIOUS
    <3>1. PICK f \in ToSet(v[l]) \ S1 : k \in f.keys
      BY <2>1 DEF KeysOf
    <3>2. PICK g \in S1 : k \in g.keys
      BY DEF KeysOf
    <3>3. f = g
      BY <1>1, <3>1, <3>2 DEF Once, InOneFile, Shares
    <3> QED BY <3>1, <3>2, <3>3
  <2> QED BY <2>2, <2>3
<1>8. E1(l + 1) \subseteq E(l + 1) \cup A
  <2>1. ToSet(v1[l + 1]) = (ToSet(v[l + 1]) \ S2) \cup N
    BY DEF Replaces
  <2> DEFINE T == ToSet(v[l + 1])
             T1 == ToSet(v1[l + 1])
  <2>2. T1 = (T \ S2) \cup N /\ S2 \subseteq T /\ KeysOf(N) \subseteq A \cup KeysOf(S2)
    BY <2>1
  <2> HIDE DEF T, T1, A
  <2>3. KeysOf(T1) \subseteq KeysOf(T) \cup A
    BY ONLY <2>2 DEF KeysOf
  <2> QED BY <2>3 DEF T, T1
<1> DEFINE a == Cardinality(A)
<1>9. IsFiniteSet(A) /\ a \in Nat /\ a > 0
  <2>1. IsFiniteSet(E(l)) /\ A \in SUBSET E(l)
    BY <1>1, <1>3, <1>7
  <2> HIDE DEF A, E
  <2>2. IsFiniteSet(A) /\ Cardinality(A) \in Nat
    BY ONLY <2>1, FS_Subset, FS_CardinalityType
  <2>3. Cardinality(A) # 0
    BY ONLY <1>6, <2>2, FS_EmptySet
  <2> QED BY ONLY <2>2, <2>3
<1>10. Cardinality(E1(l)) + a = Cardinality(E(l))
  <2> DEFINE X == E1(l)
             Y == E(l)
  <2>1. IsFiniteSet(X) /\ IsFiniteSet(A) /\ Y = X \cup A /\ X \cap A = {} /\ Cardinality(X) \in Nat
    BY <1>1, <1>3, <1>4, <1>7, <1>9
  <2> HIDE DEF X, Y, A
  <2>2. Cardinality(Y) = Cardinality(X) + Cardinality(A) - Cardinality(X \cap A)
    BY ONLY <2>1, FS_Union
  <2>3. Cardinality(X \cap A) = 0
    BY ONLY <2>1, FS_EmptySet
  <2>4. Cardinality(X) + a = Cardinality(Y)
    BY ONLY <1>9, <2>1, <2>2, <2>3
  <2> QED BY ONLY <2>4 DEF X, Y
<1>11. Cardinality(E1(l + 1)) <= Cardinality(E(l + 1)) + a
  <2> DEFINE X == E1(l + 1)
             Y == E(l + 1)
  <2>1. IsFiniteSet(Y) /\ IsFiniteSet(A) /\ X \subseteq Y \cup A /\ Cardinality(X) \in Nat /\ Cardinality(Y) \in Nat
    BY <1>1, <1>3, <1>4, <1>8, <1>9
  <2> HIDE DEF X, Y, A
  <2>2. IsFiniteSet(Y \cup A) /\ Cardinality(Y \cup A) = Cardinality(Y) + Cardinality(A) - Cardinality(Y \cap A)
    BY ONLY <2>1, FS_Union
  <2>3. Cardinality(Y \cap A) \in Nat
    <3>1. Y \cap A \in SUBSET Y
      OBVIOUS
    <3>2. IsFiniteSet(Y \cap A)
      BY ONLY <2>1, <3>1, FS_Subset
    <3> QED BY ONLY <3>2, FS_CardinalityType
  <2>4. Cardinality(X) <= Cardinality(Y \cup A)
    BY ONLY <2>1, <2>2, FS_Subset
  <2> QED BY ONLY <1>9, <2>1, <2>2, <2>3, <2>4 DEF X, Y
<1> HIDE DEF E, E1, a
<1>12. /\ \A m \in Levels : TotalFileSize(v[m]) \in Nat /\ TotalFileSize(v1[m]) \in Nat
       /\ \A m \in Levels \ {l, l + 1} : TotalFileSize(v1[m]) = TotalFileSize(v[m])
  BY <1>3, <1>4, <1>5
<1>13. TotalFileSize(v1[l]) + a = TotalFileSize(v[l]) /\ TotalFileSize(v1[l + 1]) <= TotalFileSize(v[l + 1]) + a
  BY <1>1, <1>3, <1>10, <1>11
<1> QED BY <1>9, <1>12, <1>13, HeightFalls

-----------------------------------------------------------------------------
(* The steps *)

\* What is in one place cannot be counted twice.
SinkInv == ReadInv /\ Once(current_)

\* An empty database.
LEMMA SinkInit == Init => SinkInv
<1> SUFFICES ASSUME Init PROVE Once(current_)
  BY ReadInit DEF SinkInv
<1>1. \A l \in Levels : current_[l] = << >>
  BY DEF Init
<1>2. ToSet(<< >>) = {}
  BY DEF ToSet
<1>3. Len(<< >>) = 0
  OBVIOUS
<1> QED BY <1>1, <1>2, <1>3 DEF Once, InOneFile

\* A flushed memtable has entries that were in no file.
LEMMA OnceCompactMemTable ==
  ASSUME SinkInv, CompactMemTable
  PROVE  Once(current_')
<1> DEFINE f == NewFile(next_file_number_, imm_)
           level0 == WriteLevel0Table(f)
           edit == [deleted |-> {}, added |-> {<<level0, f>>}]
<1>1. imm_ # {} /\ LogAndApply(edit)
  BY DEF CompactMemTable
<1>2. KeysInv /\ FilesInv /\ AgeInv /\ LiveInv /\ Once(current_)
  BY DEF SinkInv, ReadInv, BasicInv, LiveInv
<1>3. /\ written \in SUBSET IKeys /\ Distinct(written) /\ IsFiniteSet(written) /\ current_ \in Versions(written)
      /\ imm_ \in SUBSET written /\ FileKeys \in SUBSET written /\ Numbered(LiveFiles(current_))
  BY <1>2, BasicFacts
<1>4. f \in FileSet(written) /\ f.num = next_file_number_ /\ f.keys = imm_
  <2>1. next_file_number_ \in Nat
    BY <1>2 DEF FilesInv
  <2> QED BY ONLY <1>1, <1>3, <2>1, NewFileIs
<1>5. edit.deleted = {} /\ edit.added = {<<level0, f>>} /\ IsFiniteSet(edit.added) /\ Added(edit) = {f}
  <2>1. Added(edit) = {f}
    <3> HIDE DEF f, level0
    <3> QED BY DEF Added
  <2>2. IsFiniteSet({<<level0, f>>})
    BY FS_Singleton
  <2> QED BY <2>1, <2>2
<1> HIDE DEF f, edit, level0
<1>6. Numbered(LiveFiles(current_) \cup Added(edit))
  <2>1. \A g \in LiveFiles(current_) : g.num < next_file_number_ /\ next_file_number_ \in Nat
    BY <1>2 DEF FilesInv
  <2>2. \A g \in LiveFiles(current_) : g.num # f.num
    BY <1>4, <2>1
  <2> QED BY <1>3, <1>5, <2>2 DEF Numbered
<1>7. current_' = SaveTo(current_, edit)
  BY <1>1 DEF LogAndApply
<1>8. Added(edit) \subseteq FileSet(written)
  BY <1>4, <1>5
<1>9. \A l \in Levels : ToSet(SaveTo(current_, edit)[l]) = Kept(current_, edit, l)
  BY <1>3, <1>5, <1>6, <1>8, SaveToIs
<1>10. ASSUME NEW l \in Levels, NEW g \in ToSet(current_'[l])
       PROVE  g \in ToSet(current_[l]) \/ (l = level0 /\ g = f)
  BY <1>5, <1>7, <1>9 DEF Kept
<1>11. \A l \in Levels : \A g \in ToSet(current_[l]) : ~Shares(g, f) /\ ~Shares(f, g)
  <2> TAKE l \in Levels
  <2> TAKE g \in ToSet(current_[l])
  <2>1. g.keys \subseteq FileKeys
    BY DEF FileKeys, KeysOf, LiveFiles
  <2>2. \A a \in imm_, b \in FileKeys : a # b
    <3> TAKE a \in imm_, b \in FileKeys
    <3>1. a.seq > b.seq /\ a.seq \in Nat /\ b.seq \in Nat
      BY <1>2, <1>3 DEF AgeInv, IKeys
    <3> QED BY <3>1
  <2> QED BY <1>4, <2>1, <2>2 DEF Shares
<1>12. InOneFile(current_')
  <2> SUFFICES ASSUME NEW l \in Levels, NEW m \in Levels,
                      NEW g \in ToSet(current_'[l]), NEW h \in ToSet(current_'[m]), Shares(g, h)
               PROVE  g = h /\ l = m
    BY DEF InOneFile
  <2>1. g \in ToSet(current_[l]) \/ (l = level0 /\ g = f)
    BY <1>10
  <2>2. h \in ToSet(current_[m]) \/ (m = level0 /\ h = f)
    BY <1>10
  <2>3. InOneFile(current_)
    BY <1>2 DEF Once
  <2> QED BY <1>11, <2>1, <2>2, <2>3 DEF InOneFile
<1> QED BY <1>3, <1>5, <1>6, <1>7, <1>8, <1>12, SortedOnce

\* The files of a compaction's outputs share no entry.
LEMMA ResultsSeparate ==
  ASSUME LiveInv, running # None, NEW N,
         ResultsOf(running.c, DoCompactionWork(running.c, running.smallest_snapshot), next_file_number_,
                   InstallCompactionResults(running.c, DoCompactionWork(running.c, running.smallest_snapshot)), N)
  PROVE  \A f, g \in N : Shares(f, g) => f = g
<1> DEFINE c == running.c
           outs == DoCompactionWork(c, running.smallest_snapshot)
           n == next_file_number_
           file == [i \in DOMAIN outs |-> NewFile(n + i - 1, outs[i])]
           edit == InstallCompactionResults(c, outs)
<1>1. written \in SUBSET IKeys /\ Distinct(written) /\ IsFiniteSet(written) /\ n \in Nat
      /\ CompactionOf(written, c.version, c)
  BY DEF LiveInv, KeysInv, FilesInv, WorkInv
<1>2. outs \in Seq((SUBSET written) \ {{}}) /\ Parts(outs)
  <2> HIDE DEF c
  <2> QED BY <1>1, DoCompactionWorkIs, WorkSplits DEF Outputs
<1>3. edit.added = {<<c.level + 1, NewFile(n + i - 1, outs[i])>> : i \in DOMAIN outs}
  BY DEF InstallCompactionResults, Results
<1>4. edit.added = {<<c.level + 1, f>> : f \in N}
  BY DEF ResultsOf
<1> HIDE DEF outs, edit, c
<1>5. Len(outs) \in Nat /\ DOMAIN outs = 1 .. Len(outs)
      /\ \A i \in 1 .. Len(outs) : outs[i] \in SUBSET written /\ outs[i] # {}
  BY <1>2
<1> HIDE DEF n
<1>6. \A i \in 1 .. Len(outs) : file[i].keys = outs[i]
  <2> TAKE i \in 1 .. Len(outs)
  <2>1. n + i - 1 \in Nat
    BY <1>1, <1>5
  <2>2. outs[i] \in SUBSET written /\ outs[i] # {}
    BY <1>5
  <2>3. NewFile(n + i - 1, outs[i]).keys = outs[i]
    BY ONLY <1>1, <2>1, <2>2, NewFileIs
  <2> QED BY <1>5, <2>3
<1>7. edit.added = {<<c.level + 1, file[i]>> : i \in 1 .. Len(outs)}
  BY <1>3, <1>5
<1> HIDE DEF file
<1>8. ASSUME NEW f \in N PROVE \E i \in 1 .. Len(outs) : f = file[i]
  <2> DEFINE level == c.level + 1
             A == edit.added
             I == 1 .. Len(outs)
  <2>1. A = {<<level, file[i]>> : i \in I} /\ A = {<<level, h>> : h \in N}
    BY <1>4, <1>7
  <2> HIDE DEF level, A, I
  <2>2. <<level, f>> \in A
    BY ONLY <2>1, f \in N
  <2>3. \E i \in I : <<level, f>> = <<level, file[i]>>
    BY ONLY <2>1, <2>2
  <2>4. \E i \in I : f = file[i]
    BY ONLY <2>3
  <2> QED BY <2>4 DEF I
<1>9. ASSUME NEW f \in N, NEW g \in N, Shares(f, g) PROVE f = g
  <2>1. PICK i \in 1 .. Len(outs) : f = file[i]
    BY <1>8
  <2>2. PICK j \in 1 .. Len(outs) : g = file[j]
    BY <1>8
  <2>3. outs[i] \cap outs[j] # {}
    BY <1>6, <1>9, <2>1, <2>2 DEF Shares
  <2> QED BY <1>2, <2>1, <2>2, <2>3 DEF Parts
<1> QED BY <1>9

\* What a step that replaces files by an edit does to the version.
LEMMA EditFalls ==
  ASSUME SinkInv, NEW edit, LogAndApply(edit), NEW l \in 0 .. kNumLevels - 2, NEW S1, NEW S2, NEW N,
         edit.deleted = {<<l, f.num>> : f \in S1} \cup {<<l + 1, f.num>> : f \in S2},
         edit.added = {<<l + 1, f>> : f \in N},
         IsFiniteSet(edit.added), Added(edit) \subseteq FileSet(written), Numbered(LiveFiles(current_) \cup Added(edit)),
         S1 \subseteq ToSet(current_[l]), S2 \subseteq ToSet(current_[l + 1]), S1 # {},
         KeysOf(N) \subseteq KeysOf(S1) \cup KeysOf(S2), \A f, g \in N : Shares(f, g) => f = g
  PROVE  Once(current_') /\ Height(current_') < Height(current_)
<1>1. /\ written \in SUBSET IKeys /\ Distinct(written) /\ IsFiniteSet(written) /\ current_ \in Versions(written)
      /\ Numbered(LiveFiles(current_)) /\ Once(current_)
  <2>1. LiveInv /\ Once(current_)
    BY DEF SinkInv, ReadInv, BasicInv
  <2> QED BY <2>1, BasicFacts
<1>2. current_' = SaveTo(current_, edit)
  BY DEF LogAndApply
<1>3. /\ SaveTo(current_, edit) \in Versions(written)
      /\ \A level \in Levels : ToSet(SaveTo(current_, edit)[level]) = Kept(current_, edit, level)
  BY <1>1, SaveToIs
<1>4. Replaces(current_, current_', l, S1, S2, N)
  <2>1. \A level \in Levels : ToSet(current_'[level]) = Kept(current_, edit, level)
    BY <1>2, <1>3
  <2> QED BY <1>1, <2>1, EditReplaces
<1>5. InOneFile(current_')
  <2>1. InOneFile(current_)
    BY <1>1 DEF Once
  <2> QED BY <1>4, <2>1, ReplacedInOneFile
<1>6. Once(current_')
  BY <1>1, <1>2, <1>5, SortedOnce
<1>7. current_' \in Versions(written)
  BY <1>2, <1>3
<1>8. Height(current_') < Height(current_)
  BY <1>1, <1>4, <1>6, <1>7, ReplacedFalls
<1> QED BY <1>6, <1>8

\* A trivial move.
LEMMA SinkBackgroundCompaction ==
  ASSUME SinkInv, BackgroundCompaction
  PROVE  \/ current_' = current_
         \/ Once(current_') /\ Height(current_') < Height(current_)
<1> DEFINE Moves(c, f) == LogAndApply([deleted |-> {<<c.level, f.num>>}, added |-> {<<c.level + 1, f>>}])
<1>1. PICK c : /\ c = PickCompaction(current_, compact_pointer_, file_to_compact_) /\ c # None
               /\ IF IsTrivialMove(c)
                  THEN /\ \E f \in ToSet(c.inputs[1]) : Moves(c, f)
                       /\ compact_pointer_' = [compact_pointer_ EXCEPT ![c.level] = c.pointer]
                       /\ UNCHANGED running
                  ELSE StartWork(c)
  BY DEF BackgroundCompaction, Pick
<1>2. CASE ~IsTrivialMove(c)
  BY <1>1, <1>2 DEF StartWork
<1>3. CASE IsTrivialMove(c)
  <2>1. PICK f \in ToSet(c.inputs[1]) : Moves(c, f)
    BY <1>1, <1>3
  <2> DEFINE edit == [deleted |-> {<<c.level, f.num>>}, added |-> {<<c.level + 1, f>>}]
             l == c.level
  <2>2. LogAndApply(edit)
    BY <2>1
  <2>3. LiveInv
    BY DEF SinkInv, ReadInv, BasicInv
  <2>4. /\ written \in SUBSET IKeys /\ Distinct(written) /\ IsFiniteSet(written) /\ current_ \in Versions(written)
        /\ Numbered(LiveFiles(current_)) /\ LiveFiles(current_) \in SUBSET FileSet(written)
    BY <2>3, BasicFacts
  <2>5. CompactionOf(written, current_, c)
    <3>1. file_to_compact_ # None =>
            file_to_compact_.level \in 0 .. kNumLevels - 2
            /\ file_to_compact_.file \in ToSet(current_[file_to_compact_.level])
      BY <2>3 DEF LiveInv, WorkInv, Charged
    <3>2. c = None \/ (CompactionOf(written, current_, c) /\ Closed(current_, c))
      BY <1>1, <2>4, <3>1, PickCompactionIs
    <3> QED BY <1>1, <3>2
  <2>6. l \in 0 .. kNumLevels - 2 /\ f \in ToSet(current_[l])
    BY <2>1, <2>5 DEF CompactionOf
  <2>7. /\ edit.deleted = {<<l, g.num>> : g \in {f}} \cup {<<l + 1, g.num>> : g \in {}}
        /\ edit.added = {<<l + 1, g>> : g \in {f}} /\ IsFiniteSet(edit.added) /\ Added(edit) = {f}
    <3>1. Added(edit) = {f}
      BY DEF Added
    <3>2. IsFiniteSet({<<c.level + 1, f>>})
      BY FS_Singleton
    <3>3. edit.deleted = {<<l, f.num>>} /\ edit.added = {<<l + 1, f>>}
      OBVIOUS
    <3> QED BY <3>1, <3>2, <3>3
  <2> HIDE DEF edit, l
  <2>8. l \in Levels /\ f \in LiveFiles(current_)
    <3>1. l \in Levels
      BY <2>6, VersionAssumption DEF Levels
    <3> QED BY <2>6, <3>1 DEF LiveFiles
  <2>9. Added(edit) \subseteq FileSet(written) /\ Numbered(LiveFiles(current_) \cup Added(edit))
    <3>1. LiveFiles(current_) \cup Added(edit) = LiveFiles(current_)
      BY <2>7, <2>8
    <3>2. Added(edit) \subseteq FileSet(written)
      BY <2>4, <2>7, <2>8
    <3> QED BY <2>4, <3>1, <3>2
  <2>10. /\ {f} \subseteq ToSet(current_[l]) /\ {} \subseteq ToSet(current_[l + 1]) /\ {f} # {}
         /\ KeysOf({f}) \subseteq KeysOf({f}) \cup KeysOf({})
         /\ \A g, h \in {f} : Shares(g, h) => g = h
    BY <2>6
  <2>11. Once(current_') /\ Height(current_') < Height(current_)
    <3> DEFINE S1 == {f}
               S2 == {}
               N == {f}
    <3>1. /\ edit.deleted = {<<l, g.num>> : g \in S1} \cup {<<l + 1, g.num>> : g \in S2}
          /\ edit.added = {<<l + 1, g>> : g \in N}
      BY <2>7
    <3>2. /\ S1 \subseteq ToSet(current_[l]) /\ S2 \subseteq ToSet(current_[l + 1]) /\ S1 # {}
          /\ KeysOf(N) \subseteq KeysOf(S1) \cup KeysOf(S2) /\ \A g, h \in N : Shares(g, h) => g = h
      BY <2>10
    <3> HIDE DEF S1, S2, N
    <3> QED BY <2>2, <2>6, <2>7, <2>9, <3>1, <3>2, EditFalls
  <2> QED BY <2>11
<1> QED BY <1>2, <1>3

\* The results of DoCompactionWork.
LEMMA SinkFinishCompaction ==
  ASSUME SinkInv, FinishCompaction
  PROVE  Once(current_') /\ Height(current_') < Height(current_)
<1> DEFINE c == running.c
           ss == running.smallest_snapshot
           l == c.level
           S1 == ToSet(c.inputs[1])
           S2 == ToSet(c.inputs[2])
           outs == DoCompactionWork(c, ss)
           edit == InstallCompactionResults(c, outs)
<1>1. running # None /\ LogAndApply(edit)
  BY DEF FinishCompaction
<1>2. BasicInv /\ LiveInv
  BY DEF SinkInv, ReadInv, BasicInv
<1>3. written \in SUBSET IKeys /\ Distinct(written) /\ IsFiniteSet(written)
  BY <1>2, BasicFacts
<1>4. PICK N : ResultsOf(c, outs, next_file_number_, edit, N)
  BY <1>1, <1>2, ResultsAre
<1>5. \A f, g \in N : Shares(f, g) => f = g
  BY <1>1, <1>2, <1>4, ResultsSeparate
<1>6. CompactionOf(written, c.version, c) /\ ss \in Nat
  BY <1>1, <1>2 DEF BasicInv, LiveInv, WorkInv, OldestInv
<1>7. l \in 0 .. kNumLevels - 2 /\ S1 # {} /\ S1 \subseteq ToSet(current_[l]) /\ S2 \subseteq ToSet(current_[l + 1])
  <2>1. l \in 0 .. kNumLevels - 2 /\ S1 # {}
    BY <1>6 DEF CompactionOf
  <2>2. \A w \in {1, 2} : ToSet(c.inputs[w]) \subseteq ToSet(current_[l + w - 1])
    BY <1>1, <1>2 DEF LiveInv, WorkInv
  <2>3. l + 1 - 1 = l /\ l + 2 - 1 = l + 1
    <3> HIDE DEF l
    <3> QED BY <2>1
  <2> QED BY <2>1, <2>2, <2>3
<1>8. KeysOf(N) \subseteq KeysOf(S1) \cup KeysOf(S2)
  <2>1. KeptOf(c, ss, InputKeys(c), UNION ToSet(outs))
    BY <1>3, <1>6, WorkKeeps
  <2>2. InputKeys(c) = KeysOf(S1) \cup KeysOf(S2)
    BY <1>1, <1>2, InputKeysLive
  <2> QED BY <1>4, <2>1, <2>2 DEF ResultsOf, KeptOf
<1> HIDE DEF c, ss, outs, edit
<1>9. /\ edit.deleted = {<<l, f.num>> : f \in S1} \cup {<<l + 1, f.num>> : f \in S2}
      /\ edit.added = {<<l + 1, f>> : f \in N} /\ IsFiniteSet(edit.added)
      /\ Added(edit) \subseteq FileSet(written) /\ Numbered(LiveFiles(current_) \cup Added(edit))
  BY <1>4 DEF ResultsOf
<1> HIDE DEF l, S1, S2
<1> QED BY <1>1, <1>5, <1>7, <1>8, <1>9, EditFalls

\* Only flushes and compactions install a version.
LEMMA SinkNext ==
  ASSUME SinkInv, [Next]_vars
  PROVE  SinkInv' /\ (imm_' = imm_ /\ current_' # current_ => Height(current_') < Height(current_))
<1>1. ReadInv'
  BY ReadNext DEF SinkInv
<1>2. Once(current_)
  BY DEF SinkInv
<1>3. \/ current_' = current_
      \/ CompactMemTable \/ BackgroundCompaction \/ FinishCompaction
  <2>1. ASSUME NEW user \in Keys, NEW del \in BOOLEAN, Write(user, del) PROVE current_' = current_
    BY <2>1 DEF Write, versions
  <2>2. CASE MakeRoomForWrite
    BY <2>2 DEF MakeRoomForWrite, versions
  <2>3. CASE Background
    BY <2>3 DEF Background
  <2>4. ASSUME NEW range \in ManualRanges, ManualCompaction(range) PROVE current_' = current_
    BY <2>4 DEF ManualCompaction, StartWork
  <2>5. CASE GetSnapshot
    BY <2>5 DEF GetSnapshot, versions
  <2>6. CASE ReleaseSnapshot
    BY <2>6 DEF ReleaseSnapshot, versions
  <2>7. ASSUME NEW user, NEW snapshot, Get(user, snapshot) PROVE current_' = current_
    BY <2>7 DEF Get
  <2>8. ASSUME NEW user, RecordReadSample(user) PROVE current_' = current_
    BY <2>8 DEF RecordReadSample
  <2>9. CASE UNCHANGED vars
    BY <2>9 DEF vars
  <2> QED BY <2>1, <2>2, <2>3, <2>4, <2>5, <2>6, <2>7, <2>8, <2>9 DEF Next
<1>4. CASE current_' = current_
  BY <1>1, <1>2, <1>4 DEF SinkInv
<1>5. CASE CompactMemTable
  <2>1. imm_ # {} /\ imm_' = {}
    BY <1>5 DEF CompactMemTable
  <2> QED BY <1>1, <1>5, <2>1, OnceCompactMemTable DEF SinkInv, Once, InOneFile
<1>6. CASE BackgroundCompaction
  BY <1>1, <1>2, <1>6, SinkBackgroundCompaction DEF SinkInv, Once, InOneFile
<1>7. CASE FinishCompaction
  BY <1>1, <1>7, SinkFinishCompaction DEF SinkInv, Once, InOneFile
<1> QED BY <1>3, <1>4, <1>5, <1>6, <1>7

\* CompactionsSink for every number of levels, all sizes and every history: whatever
\* PickCompaction chooses, by size or for seeks, BackgroundCompaction cannot go on for
\* ever without new writes.
THEOREM EveryCompactionSinks == Spec => CompactionsSink
<1>1. SinkInv /\ [Next]_vars =>
        SinkInv' /\ (imm_' = imm_ /\ current_' # current_ => Height(current_') < Height(current_))
  BY SinkNext
<1>2. SinkInv /\ [Next]_vars => [imm_' = imm_ /\ current_' # current_ => Height(current_') < Height(current_)]_vars
  BY <1>1
<1>3. SinkInv /\ [Next]_vars => SinkInv'
  BY <1>1
<1> QED BY <1>2, <1>3, SinkInit, PTL DEF Spec, CompactionsSink
================================================================================
