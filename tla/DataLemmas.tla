----------------------------- MODULE DataLemmas -----------------------------
(***************************************************************************)
(* What the proofs need of natural numbers, finite sets and lists: a set   *)
(* of numbers has a least element, a finite set leaves a suffix free, and  *)
(* to sort or filter a list is to visit its positions, each of them once,  *)
(* in the order of their ranks.                                            *)
(***************************************************************************)
EXTENDS Lists, FiniteSetTheorems, FunctionTheorems, WellFoundedInduction, TLAPS

\* A set of natural numbers has a least element.
LEMMA LeastNatural ==
    ASSUME NEW T \in SUBSET Nat, NEW n \in T
    PROVE  \E m \in T : \A k \in T : m <= k
<1>1. \E m \in T : \A k \in T : ~(<<k, m>> \in OpToRel(<, Nat))
  BY WFMin, NatLessThanWellFounded
<1>2. PICK m \in T : \A k \in T : ~(<<k, m>> \in OpToRel(<, Nat))
  BY <1>1
<1>3. ASSUME NEW k \in T PROVE m <= k
  <2>1. k \in Nat /\ m \in Nat
    OBVIOUS
  <2>2. k < m => <<k, m>> \in OpToRel(<, Nat)
    BY <2>1, Zenon DEF OpToRel
  <2>3. ~(k < m)
    BY <1>2, <2>2
  <2> QED
    BY <2>1, <2>3
<1> QED
  BY <1>2, <1>3

\* A set of numbers up to n has a greatest element.
LEMMA GreatestNatural ==
    ASSUME NEW n \in Nat, NEW T \in SUBSET (0 .. n), NEW x \in T
    PROVE  \E m \in T : \A k \in T : k <= m
<1> DEFINE D == {i \in 0 .. n : n - i \in T}
<1>1. \A k \in T : n - k \in 0 .. n /\ n - (n - k) = k /\ k \in Nat
  OBVIOUS
<1>2. \A k \in T : n - k \in D
  BY <1>1
<1>3. D \in SUBSET Nat /\ n - x \in D
  BY <1>2
<1>4. \A i \in D : i \in Nat /\ n - i \in T
  OBVIOUS
<1> HIDE DEF D
<1>5. PICK d \in D : \A i \in D : d <= i
  BY <1>3, LeastNatural
<1>6. ASSUME NEW k \in T PROVE k <= n - d
  <2>1. d <= n - k /\ k \in Nat /\ d \in Nat
    BY <1>1, <1>2, <1>4, <1>5
  <2> QED
    BY <2>1
<1> QED
  BY <1>4, <1>5, <1>6

\* The first suffix of a name that a finite set leaves free is at most one more
\* than its size.
LEMMA FreeSuffix ==
    ASSUME NEW S, IsFiniteSet(S), NEW k
    PROVE  /\ Cardinality(S) \in Nat
           /\ \E n \in 1 .. Cardinality(S) + 1 :
                 <<k, n>> \notin S /\ \A i \in 1 .. n - 1 : <<k, i>> \in S
<1> DEFINE N == Cardinality(S) + 1
           I == 1 .. N
           f == [i \in I |-> <<k, i>>]
           T == {n \in I : <<k, n>> \notin S}
<1>1. Cardinality(S) \in Nat
  BY FS_CardinalityType
<1>2. IsFiniteSet(I) /\ Cardinality(I) = N
  BY <1>1, FS_Interval
<1>3. T # {}
  <2> SUFFICES ASSUME T = {} PROVE FALSE
    OBVIOUS
  <2>1. f \in [I -> S]
    OBVIOUS
  <2>2. Cardinality(S) < Cardinality(I)
    BY <1>1, <1>2
  <2> HIDE DEF I, f
  <2>3. PICK x, y \in I : x # y /\ f[x] = f[y]
    BY <1>2, <2>1, <2>2, FS_PigeonHole
  <2> QED
    BY <2>3 DEF f
<1>4. T \in SUBSET Nat
  BY <1>1
<1>5. PICK n \in T : \A i \in T : n <= i
  BY <1>3, <1>4, LeastNatural
<1>6. \A i \in 1 .. n - 1 : i \in I /\ ~(n <= i)
  BY <1>1, <1>5
<1> QED
  BY <1>1, <1>5, <1>6
----------------------------------------------------------------------------
(* Lists *)

\* Position j is not after position i in the order of key.
Upto(key, j, i) == key[j] < key[i] \/ (key[j] = key[i] /\ j <= i)

LEMMA UptoOrders ==
    ASSUME NEW K \in SUBSET Nat, NEW key \in [K -> Int], NEW i \in K, NEW j \in K, NEW l \in K
    PROVE  /\ Upto(key, i, i)
           /\ Upto(key, i, j) \/ Upto(key, j, i)
           /\ Upto(key, i, j) /\ Upto(key, j, i) => i = j
           /\ Upto(key, i, j) /\ Upto(key, j, l) => Upto(key, i, l)
<1>1. i \in Nat /\ j \in Nat /\ l \in Nat
  OBVIOUS
<1>2. key[i] \in Int /\ key[j] \in Int /\ key[l] \in Int
  OBVIOUS
<1> QED
  BY <1>1, <1>2 DEF Upto

\* The rank of a position is the number of positions up to it ...
LEMMA RankCounts ==
    ASSUME NEW K \in SUBSET Nat, IsFiniteSet(K), NEW key \in [K -> Int], NEW i \in K
    PROVE  /\ Rank(key)[i] \in 1 .. Cardinality(K)
           /\ \A j \in K : i # j /\ Upto(key, i, j) => Rank(key)[i] < Rank(key)[j]
<1> DEFINE below(x) == {y \in K : Upto(key, y, x)}
<1>1. \A x \in K : Rank(key)[x] = Cardinality(below(x))
  BY DEF Rank, Upto
<1>2. \A x \in K : /\ IsFiniteSet(below(x)) /\ Cardinality(below(x)) \in Nat
                   /\ Cardinality(below(x)) <= Cardinality(K)
  <2> SUFFICES ASSUME NEW x \in K
               PROVE  /\ IsFiniteSet(below(x)) /\ Cardinality(below(x)) \in Nat
                      /\ Cardinality(below(x)) <= Cardinality(K)
    OBVIOUS
  <2>1. below(x) \in SUBSET K
    OBVIOUS
  <2> HIDE DEF below
  <2> QED
    BY <2>1, FS_Subset, FS_CardinalityType
<1>3. \A x \in K : /\ IsFiniteSet(below(x) \ {x})
                   /\ Cardinality(below(x) \ {x}) = Cardinality(below(x)) - 1
                   /\ Cardinality(below(x) \ {x}) \in Nat
  <2> SUFFICES ASSUME NEW x \in K
               PROVE  /\ IsFiniteSet(below(x) \ {x})
                      /\ Cardinality(below(x) \ {x}) = Cardinality(below(x)) - 1
                      /\ Cardinality(below(x) \ {x}) \in Nat
    OBVIOUS
  <2>1. x \in below(x)
    BY UptoOrders
  <2> HIDE DEF below
  <2> QED
    BY <1>2, <2>1, FS_RemoveElement, FS_CardinalityType
<1>4. Cardinality(K) \in Nat
  BY FS_CardinalityType
<1>5. ASSUME NEW j \in K, i # j, Upto(key, i, j)
      PROVE  Cardinality(below(i)) <= Cardinality(below(j) \ {j})
  <2>1. below(i) \in SUBSET (below(j) \ {j})
    <3>1. ASSUME NEW y \in below(i) PROVE y \in below(j) \ {j}
      BY <1>5, UptoOrders
    <3> QED
      BY <3>1
  <2> HIDE DEF below
  <2> QED
    BY <1>3, <2>1, FS_Subset
<1> HIDE DEF below
<1>6. Cardinality(below(i)) \in Nat /\ Cardinality(below(i)) - 1 \in Nat
  <2>1. Cardinality(below(i)) \in Nat
    BY <1>2
  <2>2. Cardinality(below(i) \ {i}) \in Nat /\ Cardinality(below(i) \ {i}) = Cardinality(below(i)) - 1
    BY <1>3
  <2> QED
    BY <2>1, <2>2
<1>7. Rank(key)[i] \in 1 .. Cardinality(K)
  BY <1>1, <1>2, <1>4, <1>6
<1>8. ASSUME NEW j \in K, i # j, Upto(key, i, j) PROVE Rank(key)[i] < Rank(key)[j]
  <2>1. Rank(key)[i] = Cardinality(below(i)) /\ Rank(key)[j] = Cardinality(below(j))
    BY <1>1
  <2>2. /\ Cardinality(below(i)) \in Nat /\ Cardinality(below(j)) \in Nat
        /\ Cardinality(below(j) \ {j}) = Cardinality(below(j)) - 1
    BY <1>2, <1>3
  <2>3. Cardinality(below(i)) <= Cardinality(below(j) \ {j})
    BY <1>5, <1>8
  <2> QED
    BY <2>1, <2>2, <2>3
<1> QED
  BY <1>7, <1>8

\* ... so that the ranks number the positions.
LEMMA RankNumbers ==
    ASSUME NEW K \in SUBSET Nat, IsFiniteSet(K), NEW key \in [K -> Int]
    PROVE  /\ Cardinality(K) \in Nat
           /\ Rank(key) \in [K -> 1 .. Cardinality(K)]
           /\ \A i, j \in K : Rank(key)[i] = Rank(key)[j] => i = j
           /\ \A k \in 1 .. Cardinality(K) : \E i \in K : Rank(key)[i] = k
<1> DEFINE r == Rank(key)
           n == Cardinality(K)
<1>1. n \in Nat
  BY FS_CardinalityType
<1>2. r \in [K -> 1 .. n]
  <2>1. r = [i \in K |-> r[i]]
    BY DEF Rank
  <2> QED
    BY <2>1, RankCounts
<1>3. ASSUME NEW i \in K, NEW j \in K, r[i] = r[j], i # j PROVE FALSE
  <2>1. Upto(key, i, j) \/ Upto(key, j, i)
    BY UptoOrders
  <2>2. r[i] < r[j] \/ r[j] < r[i]
    BY <1>3, <2>1, RankCounts
  <2>3. r[i] \in Nat /\ r[j] \in Nat
    BY <1>1, <1>2
  <2> QED
    BY <1>3, <2>2, <2>3
<1>4. IsFiniteSet(1 .. n) /\ Cardinality(1 .. n) = n
  BY <1>1, FS_Interval
<1>5. r \in Injection(K, 1 .. n)
  BY <1>2, <1>3 DEF Injection, IsInjective
<1> HIDE DEF r, n
<1>6. r \in Surjection(K, 1 .. n)
  BY <1>4, <1>5, FS_Injection DEF n
<1>7. \A k \in 1 .. n : \E i \in K : r[i] = k
  BY <1>6 DEF Surjection
<1> QED
  BY <1>1, <1>2, <1>3, <1>7 DEF r, n

\* Sorting visits every position once, in order.
LEMMA SortedVisits ==
    ASSUME NEW K \in SUBSET Nat, IsFiniteSet(K), NEW key \in [K -> Int], NEW s
    PROVE  /\ Cardinality(K) \in Nat
           /\ \E p \in [1 .. Cardinality(K) -> K] :
                 /\ Sorted(s, key) = [k \in 1 .. Cardinality(K) |-> s[p[k]]]
                 /\ \A i \in K : \E k \in 1 .. Cardinality(K) : p[k] = i
                 /\ \A k, l \in 1 .. Cardinality(K) :
                       k < l => p[k] # p[l] /\ Upto(key, p[k], p[l])
<1> DEFINE r == Rank(key)
           n == Cardinality(K)
           p == [k \in 1 .. n |-> CHOOSE i \in K : r[i] = k]
<1>0. DOMAIN key = K
  OBVIOUS
<1>1. /\ n \in Nat /\ r \in [K -> 1 .. n]
      /\ \A i, j \in K : r[i] = r[j] => i = j
      /\ \A k \in 1 .. n : \E i \in K : r[i] = k
  BY RankNumbers
<1>2. Sorted(s, key) = [k \in 1 .. n |-> s[CHOOSE i \in K : r[i] = k]]
  BY <1>0 DEF Sorted
<1>3. \A i, j \in K : i # j /\ Upto(key, i, j) => r[i] < r[j]
  BY RankCounts
<1> HIDE DEF r, n
<1>4. \A k \in 1 .. n : p[k] \in K /\ r[p[k]] = k
  BY <1>1
<1>5. p \in [1 .. n -> K]
  BY <1>4
<1>6. Sorted(s, key) = [k \in 1 .. n |-> s[p[k]]]
  BY <1>2
<1> HIDE DEF p
<1>7. ASSUME NEW i \in K PROVE \E k \in 1 .. n : p[k] = i
  <2>1. r[i] \in 1 .. n
    BY <1>1
  <2>2. p[r[i]] \in K /\ r[p[r[i]]] = r[i]
    BY <1>4, <2>1
  <2>3. p[r[i]] = i
    BY <1>1, <2>2
  <2> QED
    BY <2>1, <2>3
<1>8. ASSUME NEW k \in 1 .. n, NEW l \in 1 .. n, k < l
      PROVE  p[k] # p[l] /\ Upto(key, p[k], p[l])
  <2>1. p[k] \in K /\ p[l] \in K /\ r[p[k]] = k /\ r[p[l]] = l
    BY <1>4
  <2>2. p[k] # p[l]
    BY <1>1, <1>8, <2>1
  <2>3. Upto(key, p[k], p[l]) \/ Upto(key, p[l], p[k])
    BY <2>1, UptoOrders
  <2>4. ~(l < k)
    BY <1>1, <1>8
  <2> QED
    BY <1>3, <2>1, <2>2, <2>3, <2>4
<1>9. /\ n \in Nat
      /\ \E q \in [1 .. n -> K] :
            /\ Sorted(s, key) = [k \in 1 .. n |-> s[q[k]]]
            /\ \A i \in K : \E k \in 1 .. n : q[k] = i
            /\ \A k, l \in 1 .. n : k < l => q[k] # q[l] /\ Upto(key, q[k], q[l])
  BY <1>1, <1>5, <1>6, <1>7, <1>8
<1> QED
  BY <1>9 DEF n

\* So does a filter, and the positions go up.
LEMMA KeepingVisits ==
    ASSUME NEW K \in SUBSET Nat, IsFiniteSet(K), NEW s
    PROVE  /\ Cardinality(K) \in Nat
           /\ \E p \in [1 .. Cardinality(K) -> K] :
                 /\ Keeping(s, K) = [k \in 1 .. Cardinality(K) |-> s[p[k]]]
                 /\ \A i \in K : \E k \in 1 .. Cardinality(K) : p[k] = i
                 /\ \A k, l \in 1 .. Cardinality(K) : k < l => p[k] < p[l]
<1> DEFINE key == [i \in K |-> 0]
           n == Cardinality(K)
<1>1. key \in [K -> Int] /\ \A i \in K : key[i] = 0
  OBVIOUS
<1>2. Keeping(s, K) = Sorted(s, key)
  BY DEF Keeping
<1> HIDE DEF key
<1>3. n \in Nat
  BY <1>1, SortedVisits
<1>4. PICK p \in [1 .. n -> K] :
            /\ Keeping(s, K) = [k \in 1 .. n |-> s[p[k]]]
            /\ \A i \in K : \E k \in 1 .. n : p[k] = i
            /\ \A k, l \in 1 .. n : k < l => p[k] # p[l] /\ Upto(key, p[k], p[l])
  BY <1>1, <1>2, SortedVisits
<1>5. ASSUME NEW k \in 1 .. n, NEW l \in 1 .. n, k < l PROVE p[k] < p[l]
  <2>1. p[k] \in K /\ p[l] \in K /\ p[k] # p[l] /\ Upto(key, p[k], p[l])
    BY <1>4, <1>5
  <2>2. key[p[k]] = 0 /\ key[p[l]] = 0 /\ p[k] \in Nat /\ p[l] \in Nat
    BY <1>1, <2>1
  <2> QED
    BY <2>1, <2>2 DEF Upto
<1> QED
  BY <1>3, <1>4, <1>5

\* The list t has the members of s at the positions K, each of them once, in the
\* order p.
Visits(t, s, p, K) ==
    /\ p \in [1 .. Len(t) -> K]
    /\ \A k \in 1 .. Len(t) : t[k] = s[p[k]]
    /\ \A i \in K : \E k \in 1 .. Len(t) : p[k] = i
    /\ \A k, l \in 1 .. Len(t) : p[k] = p[l] => k = l

\* Positions of a list are a finite set of numbers.
LEMMA Positions ==
    ASSUME NEW n \in Nat, NEW K \in SUBSET (1 .. n)
    PROVE  K \in SUBSET Nat /\ IsFiniteSet(K) /\ Cardinality(K) \in Nat /\ Cardinality(K) <= n
<1>1. 1 \in Int /\ n \in Int
  OBVIOUS
<1>2. IsFiniteSet(1 .. n) /\ Cardinality(1 .. n) = n
  BY <1>1, FS_Interval
<1>3. K \in SUBSET (1 .. n)
  OBVIOUS
<1>4. IsFiniteSet(K) /\ Cardinality(K) <= Cardinality(1 .. n)
  BY <1>2, <1>3, FS_Subset
<1> QED
  BY <1>2, <1>4, FS_CardinalityType

\* Of lists with the same members: what is visited in order is visited once.
LEMMA VisitsOnce ==
    ASSUME NEW n \in Nat, NEW K \in SUBSET Nat, NEW p \in [1 .. n -> K],
           \A k, l \in 1 .. n : k < l => p[k] # p[l],
           NEW k \in 1 .. n, NEW l \in 1 .. n, p[k] = p[l]
    PROVE  k = l
<1>1. k < l \/ k = l \/ l < k
  OBVIOUS
<1> QED
  BY <1>1

\* Sorting a list.
LEMMA SortedList ==
    ASSUME NEW S, NEW s \in Seq(S), NEW key \in [1 .. Len(s) -> Int]
    PROVE  /\ Sorted(s, key) \in Seq(S) /\ Len(Sorted(s, key)) = Len(s)
           /\ \E p : /\ Visits(Sorted(s, key), s, p, 1 .. Len(s))
                     /\ \A k, l \in 1 .. Len(s) : k < l => Upto(key, p[k], p[l])
<1> DEFINE n == Len(s)
           K == 1 .. n
           t == Sorted(s, key)
<1>1. n \in Nat /\ s \in [K -> S]
  OBVIOUS
<1>2. 1 \in Int /\ n \in Int
  BY <1>1
<1>3. K \in SUBSET Nat /\ IsFiniteSet(K) /\ Cardinality(K) = n
  <2>1. K \in SUBSET Nat
    BY <1>1
  <2>2. IsFiniteSet(1 .. n) /\ Cardinality(1 .. n) = IF 1 > n THEN 0 ELSE n - 1 + 1
    <3> HIDE DEF n
    <3> QED
      BY <1>2, FS_Interval
  <2>3. n - 1 + 1 = n /\ (1 > n => n = 0)
    BY <1>1
  <2> QED
    BY <2>1, <2>2, <2>3
<1>4. key \in [K -> Int]
  OBVIOUS
<1> HIDE DEF n, K
<1>5. PICK p \in [1 .. n -> K] :
            /\ t = [k \in 1 .. n |-> s[p[k]]]
            /\ \A i \in K : \E k \in 1 .. n : p[k] = i
            /\ \A k, l \in 1 .. n : k < l => p[k] # p[l] /\ Upto(key, p[k], p[l])
  <2>1. \E p \in [1 .. Cardinality(K) -> K] :
            /\ t = [k \in 1 .. Cardinality(K) |-> s[p[k]]]
            /\ \A i \in K : \E k \in 1 .. Cardinality(K) : p[k] = i
            /\ \A k, l \in 1 .. Cardinality(K) : k < l => p[k] # p[l] /\ Upto(key, p[k], p[l])
    BY <1>3, <1>4, SortedVisits, SMTT(60)
  <2> HIDE DEF t
  <2> QED
    BY <1>3, <2>1
<1> HIDE DEF t
<1>6. t \in [1 .. n -> S]
  BY <1>1, <1>5
<1>7. t \in Seq(S) /\ Len(t) = n
  BY <1>1, <1>6
<1>8. Visits(t, s, p, K)
  <2>1. \A k, l \in 1 .. n : p[k] = p[l] => k = l
    BY <1>1, <1>3, <1>5, VisitsOnce
  <2> QED
    BY <1>5, <1>7, <2>1 DEF Visits
<1> QED
  BY <1>5, <1>7, <1>8 DEF n, K, t

\* Filtering a list.
LEMMA KeptList ==
    ASSUME NEW S, NEW s \in Seq(S), NEW K \in SUBSET (1 .. Len(s))
    PROVE  /\ Keeping(s, K) \in Seq(S) /\ Len(Keeping(s, K)) = Cardinality(K)
           /\ Len(Keeping(s, K)) <= Len(s)
           /\ \E p : Visits(Keeping(s, K), s, p, K)
<1> DEFINE n == Cardinality(K)
           t == Keeping(s, K)
<1>1. Len(s) \in Nat /\ s \in [1 .. Len(s) -> S]
  OBVIOUS
<1>2. K \in SUBSET Nat /\ IsFiniteSet(K) /\ n \in Nat /\ n <= Len(s)
  BY <1>1, Positions
<1> HIDE DEF n
<1>3. PICK p \in [1 .. n -> K] :
            /\ t = [k \in 1 .. n |-> s[p[k]]]
            /\ \A i \in K : \E k \in 1 .. n : p[k] = i
            /\ \A k, l \in 1 .. n : k < l => p[k] < p[l]
  BY <1>2, KeepingVisits DEF n
<1> HIDE DEF t
<1>4. \A k \in 1 .. n : s[p[k]] \in S
  BY <1>1, <1>3
<1>5. t \in [1 .. n -> S]
  BY <1>3, <1>4
<1>6. t \in Seq(S) /\ Len(t) = n
  BY <1>2, <1>5
<1>7. ASSUME NEW k \in 1 .. n, NEW l \in 1 .. n, k < l PROVE p[k] # p[l]
  <2>1. p[k] < p[l] /\ p[k] \in Nat /\ p[l] \in Nat
    BY <1>2, <1>3, <1>7
  <2> QED
    BY <2>1
<1>8. Visits(t, s, p, K)
  <2>1. \A k, l \in 1 .. n : p[k] = p[l] => k = l
    BY <1>2, <1>3, <1>7, VisitsOnce
  <2> QED
    BY <1>3, <1>6, <2>1 DEF Visits
<1> QED
  BY <1>2, <1>6, <1>8 DEF n, t
=============================================================================
