----------------------------- MODULE SetLemmas ------------------------------
(***************************************************************************)
(* Facts about finite sets, climbing through numbers and sums, that the    *)
(* proofs of several components cite.                                      *)
(***************************************************************************)
EXTENDS Integers, FiniteSetTheorems, WellFoundedInduction, TLAPS

\* A finite, nonempty set of integers has a largest element.  The sets of
\* the elements above each element are ordered by strict inclusion, which is
\* well founded; a minimal one is empty, and its element is the largest.
LEMMA MaxExists ==
  ASSUME NEW S, S \subseteq Int, S # {}, IsFiniteSet(S)
  PROVE  \E m \in S : \A n \in S : n <= m
<1> DEFINE Above(m) == {n \in S : n > m}
           T == {Above(m) : m \in S}
           R == StrictSubsetOrdering(S)
<1>1. IsWellFoundedOn(R, FiniteSubsetsOf(S))
  BY FS_StrictSubsetOrderingWellFounded
<1>2. T \subseteq FiniteSubsetsOf(S)
  <2>1. SUFFICES ASSUME NEW m \in S PROVE Above(m) \in FiniteSubsetsOf(S)
    OBVIOUS
  <2>2. Above(m) \in SUBSET S
    OBVIOUS
  <2>3. IsFiniteSet(Above(m))
    BY <2>2, FS_Subset
  <2> QED BY <2>2, <2>3 DEF FiniteSubsetsOf
<1>3. T # {}
  OBVIOUS
<1>4. PICK x \in T : \A y \in T : ~(<<y, x>> \in R)
  <2> HIDE DEF T, R
  <2> QED BY <1>1, <1>2, <1>3, WFMin
<1>5. PICK m \in S : x = Above(m)
  OBVIOUS
<1>6. ASSUME NEW n \in S, ~(n <= m)
      PROVE  FALSE
  <2>1. n \in Above(m) /\ n \notin Above(n)
    BY <1>6
  <2>2. Above(n) \subseteq Above(m)
    <3>1. \A k \in S : k \in Int /\ n \in Int /\ m \in Int
      OBVIOUS
    <3>2. \A k \in S : k > n => k > m
      BY <1>6, <3>1
    <3> QED BY <3>2
  <2>3. <<Above(n), Above(m)>> \in R
    BY <2>1, <2>2 DEF StrictSubsetOrdering
  <2> QED BY <1>4, <1>5, <2>3
<1> QED BY <1>6

\* A finite, nonempty set of integers has a smallest element.
LEMMA MinExists ==
  ASSUME NEW S, S \subseteq Int, S # {}, IsFiniteSet(S)
  PROVE  \E m \in S : \A n \in S : m <= n
<1> DEFINE Below(m) == {n \in S : n < m}
           T == {Below(m) : m \in S}
           R == StrictSubsetOrdering(S)
<1>1. IsWellFoundedOn(R, FiniteSubsetsOf(S))
  BY FS_StrictSubsetOrderingWellFounded
<1>2. T \subseteq FiniteSubsetsOf(S)
  <2>1. SUFFICES ASSUME NEW m \in S PROVE Below(m) \in FiniteSubsetsOf(S)
    OBVIOUS
  <2>2. Below(m) \in SUBSET S
    OBVIOUS
  <2>3. IsFiniteSet(Below(m))
    BY <2>2, FS_Subset
  <2> QED BY <2>2, <2>3 DEF FiniteSubsetsOf
<1>3. T # {}
  OBVIOUS
<1>4. PICK x \in T : \A y \in T : ~(<<y, x>> \in R)
  <2> HIDE DEF T, R
  <2> QED BY <1>1, <1>2, <1>3, WFMin
<1>5. PICK m \in S : x = Below(m)
  OBVIOUS
<1>6. ASSUME NEW n \in S, ~(m <= n)
      PROVE  FALSE
  <2>1. n \in Below(m) /\ n \notin Below(n)
    BY <1>6
  <2>2. Below(n) \subseteq Below(m)
    <3>1. \A k \in S : k \in Int /\ n \in Int /\ m \in Int
      OBVIOUS
    <3>2. \A k \in S : k < n => k < m
      BY <1>6, <3>1
    <3> QED BY <3>2
  <2>3. <<Below(n), Below(m)>> \in R
    BY <2>1, <2>2 DEF StrictSubsetOrdering
  <2> QED BY <1>4, <1>5, <2>3
<1> QED BY <1>6

\* A one-to-one map onto T of a finite set: T is finite and as large.
LEMMA OneToOneOnto ==
  ASSUME NEW S, IsFiniteSet(S), NEW T, NEW f \in [S -> T],
         \A x, y \in S : f[x] = f[y] => x = y,
         \A z \in T : \E x \in S : f[x] = z
  PROVE  IsFiniteSet(T) /\ Cardinality(T) = Cardinality(S)
<1>1. f \in Injection(S, T)
  BY DEF Injection, IsInjective
<1>2. f \in Surjection(S, T)
  BY DEF Surjection
<1>3. ExistsBijection(S, T)
  BY <1>1, <1>2 DEF ExistsBijection, Bijection
<1> QED BY <1>3, FS_Bijection

\* What holds of 0 and passes on from each number to the next, up to n, holds up
\* to n: the smallest number it did not hold of would have a predecessor.
LEMMA Climb ==
  ASSUME NEW n \in Nat, NEW G, 0 \in G, \A k \in 1..n : k - 1 \in G => k \in G
  PROVE  \A k \in 0..n : k \in G
<1> DEFINE Bad == {k \in 0..n : k \notin G}
<1> SUFFICES ASSUME Bad # {} PROVE FALSE
  OBVIOUS
<1>1. Bad \subseteq Int /\ Bad \in SUBSET (0..n) /\ IsFiniteSet(0..n)
  BY FS_Interval
<1>2. IsFiniteSet(Bad)
  BY <1>1, FS_Subset
<1>3. PICK m \in Bad : \A k \in Bad : m <= k
  <2> HIDE DEF Bad
  <2> QED BY <1>1, <1>2, MinExists
<1>4. m \in 1..n /\ m - 1 \in 0..n /\ ~(m <= m - 1)
  OBVIOUS
<1>5. m - 1 \notin Bad
  BY <1>3, <1>4
<1>6. m - 1 \in G
  BY <1>4, <1>5
<1> QED BY <1>4, <1>6

\* There is a function that adds up what a has at 1, 2 and so on.
LEMMA SumsExist ==
  ASSUME NEW a
  PROVE  \E g : g = [n \in Nat |-> IF n = 0 THEN 0 ELSE g[n - 1] + a[n]]
<1> DEFINE Upto(m, h) == /\ h = [n \in 0..m |-> h[n]] /\ h[0] = 0
                         /\ \A n \in 1..m : h[n] = h[n - 1] + a[n]
<1>1. \A m \in Nat : \E h : Upto(m, h)
  <2> SUFFICES ASSUME NEW m \in Nat PROVE \E h : Upto(m, h)
    OBVIOUS
  <2> DEFINE G == {n \in Nat : \E h : Upto(n, h)}
  <2>1. 0 \in G
    <3>1. Upto(0, [n \in 0..0 |-> 0])
      OBVIOUS
    <3> QED BY <3>1
  <2>2. ASSUME NEW k \in 1..m, k - 1 \in G PROVE k \in G
    <3>1. PICK h : Upto(k - 1, h)
      BY <2>2
    <3> DEFINE x == h[k - 1] + a[k]
               j == [n \in 0..k |-> IF n = k THEN x ELSE h[n]]
    <3>2. \A n \in 0..k : n = k \/ n \in 0..k - 1
      OBVIOUS
    <3>3. \A n \in 1..k - 1 : n - 1 \in 0..k /\ n \in 0..k /\ n # k /\ n - 1 # k
      OBVIOUS
    <3>4. k - 1 \in 0..k /\ k - 1 # k /\ 0 \in 0..k /\ 0 # k /\ k \in 0..k
      OBVIOUS
    <3> HIDE DEF x
    <3>5. j = [n \in 0..k |-> j[n]] /\ j[k] = x /\ \A n \in 0..k : n # k => j[n] = h[n]
      OBVIOUS
    <3> HIDE DEF j
    <3>6. j[0] = 0 /\ j[k] = j[k - 1] + a[k]
      BY <3>1, <3>4, <3>5 DEF x
    <3>7. \A n \in 1..k - 1 : j[n] = j[n - 1] + a[n]
      BY <3>1, <3>3, <3>5
    <3>8. \A n \in 1..k : n = k \/ n \in 1..k - 1
      OBVIOUS
    <3>9. Upto(k, j)
      BY <3>5, <3>6, <3>7, <3>8
    <3>10. k \in Nat
      OBVIOUS
    <3> HIDE DEF Upto
    <3> QED BY <3>9, <3>10
  <2>3. \A k \in 0..m : k \in G
    <3> HIDE DEF G
    <3> QED BY <2>1, <2>2, Climb
  <2> QED BY <2>3
<1>2. ASSUME NEW m \in Nat, NEW h, Upto(m, h), NEW l \in Nat, NEW j, Upto(l, j), NEW k \in 0..m, k \in 0..l
      PROVE  h[k] = j[k]
  <2> DEFINE G == {n \in Nat : n <= k => h[n] = j[n]}
  <2>1. 0 \in G
    BY <1>2
  <2>2. ASSUME NEW n \in 1..k, n - 1 \in G PROVE n \in G
    <3>1. n \in 1..m /\ n \in 1..l /\ n - 1 <= k /\ n \in Nat
      BY <1>2
    <3>2. h[n - 1] = j[n - 1]
      BY <2>2, <3>1
    <3>3. h[n] = h[n - 1] + a[n] /\ j[n] = j[n - 1] + a[n]
      BY <1>2, <3>1
    <3> QED BY <3>1, <3>2, <3>3
  <2>4. k \in Nat /\ k \in 0..k
    BY <1>2
  <2>3. k \in G
    <3> HIDE DEF G
    <3> QED BY <2>1, <2>2, <2>4, Climb
  <2> QED BY <2>3, <2>4
<1> DEFINE H == [m \in Nat |-> CHOOSE h : Upto(m, h)]
           g == [m \in Nat |-> H[m][m]]
<1>3. \A m \in Nat : Upto(m, H[m])
  <2> HIDE DEF Upto
  <2> QED BY <1>1
<1> HIDE DEF H
<1>4. g[0] = 0
  BY <1>3
<1>5. ASSUME NEW n \in Nat, n # 0 PROVE g[n] = g[n - 1] + a[n]
  <2>1. n - 1 \in Nat /\ n - 1 \in 0..n /\ n - 1 \in 0..n - 1 /\ n \in 1..n
    BY <1>5
  <2>2. Upto(n, H[n]) /\ Upto(n - 1, H[n - 1])
    BY <1>3, <2>1
  <2>3. H[n][n - 1] = H[n - 1][n - 1]
    <3> HIDE DEF Upto
    <3> QED BY <1>2, <2>1, <2>2
  <2>4. H[n][n] = H[n][n - 1] + a[n]
    BY <2>1, <2>2
  <2> QED BY <2>1, <2>3, <2>4
<1>6. g = [n \in Nat |-> IF n = 0 THEN 0 ELSE g[n - 1] + a[n]]
  <2>1. \A n \in Nat : g[n] = IF n = 0 THEN 0 ELSE g[n - 1] + a[n]
    <3> HIDE DEF g
    <3> QED BY <1>4, <1>5
  <2>2. g = [n \in Nat |-> g[n]]
    OBVIOUS
  <2> HIDE DEF g
  <2> QED BY <2>1, <2>2
<1> QED BY <1>6

-----------------------------------------------------------------------------
(***************************************************************************)
(* Sums                                                                    *)
(***************************************************************************)
\* s[k] is the sum of what a has at 1, ..., k.
Adds(s, a, n) == s[0] = 0 /\ \A k \in 1..n : s[k] = s[k - 1] + a[k]

\* Whatever is added up, there is its sum.
LEMMA SumOf ==
  ASSUME NEW a, NEW n \in Nat
  PROVE  \E s : Adds(s, a, n)
<1>1. PICK g : g = [k \in Nat |-> IF k = 0 THEN 0 ELSE g[k - 1] + a[k]]
  BY SumsExist
<1>2. \A k \in 1..n : k \in Nat /\ k # 0
  OBVIOUS
<1>3. Adds(g, a, n)
  BY <1>1, <1>2 DEF Adds
<1> QED BY <1>3

\* The sum of natural numbers is one.
LEMMA SumIsNat ==
  ASSUME NEW n \in Nat, NEW a \in [1..n -> Nat], NEW s, Adds(s, a, n)
  PROVE  \A k \in 0..n : s[k] \in Nat
<1> DEFINE G == {k \in Nat : s[k] \in Nat}
<1>1. 0 \in G
  BY DEF Adds
<1>2. ASSUME NEW k \in 1..n, k - 1 \in G PROVE k \in G
  <2>1. s[k] = s[k - 1] + a[k] /\ a[k] \in Nat /\ k \in Nat
    BY DEF Adds
  <2> QED BY <1>2, <2>1
<1>3. \A k \in 0..n : k \in G
  <2> HIDE DEF G
  <2> QED BY <1>1, <1>2, Climb
<1> QED BY <1>3

\* A larger summand, a larger sum.
LEMMA SumGrows ==
  ASSUME NEW n \in Nat, NEW a \in [1..n -> Nat], NEW b \in [1..n -> Nat],
         \A k \in 1..n : a[k] <= b[k], NEW s, Adds(s, a, n), NEW r, Adds(r, b, n)
  PROVE  s[n] <= r[n]
<1> DEFINE G == {k \in Nat : s[k] <= r[k]}
<1>1. 0 \in G
  BY DEF Adds
<1>2. ASSUME NEW k \in 1..n, k - 1 \in G PROVE k \in G
  <2>1. s[k] = s[k - 1] + a[k] /\ r[k] = r[k - 1] + b[k]
    BY DEF Adds
  <2>2. a[k] \in Nat /\ b[k] \in Nat /\ k \in Nat /\ k - 1 \in 0..n
    OBVIOUS
  <2>3. s[k - 1] \in Nat /\ r[k - 1] \in Nat
    BY <2>2, SumIsNat
  <2>4. s[k - 1] <= r[k - 1] /\ a[k] <= b[k]
    BY <1>2
  <2>5. s[k] <= r[k]
    BY <2>1, <2>2, <2>3, <2>4
  <2> QED BY <2>2, <2>5
<1>3. \A k \in 0..n : k \in G
  <2> HIDE DEF G
  <2> QED BY <1>1, <1>2, Climb
<1>4. n \in 0..n
  OBVIOUS
<1> QED BY <1>3, <1>4

\* The same summands, the same sum.
LEMMA SumAgrees ==
  ASSUME NEW n \in Nat, NEW a \in [1..n -> Nat], NEW b \in [1..n -> Nat],
         \A k \in 1..n : a[k] = b[k], NEW s, Adds(s, a, n), NEW r, Adds(r, b, n)
  PROVE  s[n] = r[n]
<1>1. \A k \in 1..n : a[k] <= b[k] /\ b[k] <= a[k]
  OBVIOUS
<1>2. s[n] <= r[n] /\ r[n] <= s[n]
  BY <1>1, SumGrows
<1>3. n \in 0..n
  OBVIOUS
<1>4. s[n] \in Nat /\ r[n] \in Nat
  BY <1>3, SumIsNat
<1> QED BY <1>2, <1>4

\* One more at one place, one more in the sum.
LEMMA SumPut ==
  ASSUME NEW n \in Nat, NEW a \in [1..n -> Nat], NEW b \in [1..n -> Nat], NEW i \in 1..n,
         b[i] = a[i] + 1, \A k \in 1..n : k # i => b[k] = a[k],
         NEW s, Adds(s, a, n)
  PROVE  \E r : Adds(r, b, n) /\ r[n] = s[n] + 1
<1>0. PICK r : Adds(r, b, n)
  BY SumOf
<1> DEFINE G == {k \in Nat : r[k] = s[k] + IF k < i THEN 0 ELSE 1}
<1>1. 0 \in G
  BY <1>0 DEF Adds
<1>2. ASSUME NEW k \in 1..n, k - 1 \in G PROVE k \in G
  <2>1. s[k] = s[k - 1] + a[k] /\ r[k] = r[k - 1] + b[k]
    BY <1>0 DEF Adds
  <2>2. a[k] \in Nat /\ k \in Nat /\ k - 1 \in 0..n /\ i \in Nat
    OBVIOUS
  <2>3. s[k - 1] \in Nat
    BY <2>2, SumIsNat
  <2>4. r[k - 1] = s[k - 1] + IF k - 1 < i THEN 0 ELSE 1
    BY <1>2
  <2>5. r[k] = s[k] + IF k < i THEN 0 ELSE 1
    <3>1. CASE k = i
      <4>1. b[k] = a[k] + 1 /\ k - 1 < i /\ ~(k < i)
        BY <3>1, <2>2
      <4>2. r[k - 1] = s[k - 1]
        BY <4>1, <2>3, <2>4
      <4>3. r[k] = s[k - 1] + (a[k] + 1)
        BY <4>1, <4>2, <2>1
      <4>4. s[k - 1] + (a[k] + 1) = (s[k - 1] + a[k]) + 1
        BY <2>2, <2>3
      <4>5. r[k] = s[k] + 1
        BY <4>3, <4>4, <2>1
      <4> QED BY <4>1, <4>5
    <3>2. CASE k # i
      <4>1. b[k] = a[k] /\ (k - 1 < i <=> k < i)
        BY <3>2, <2>2
      <4> QED BY <4>1, <2>1, <2>2, <2>3, <2>4
    <3> QED BY <3>1, <3>2
  <2> QED BY <2>2, <2>5
<1>3. \A k \in 0..n : k \in G
  <2> HIDE DEF G
  <2> QED BY <1>1, <1>2, Climb
<1>4. n \in 0..n /\ ~(n < i)
  OBVIOUS
<1>5. r[n] = s[n] + 1
  BY <1>3, <1>4
<1> QED BY <1>0, <1>5

\* One place more.
LEMMA SumAppend ==
  ASSUME NEW n \in Nat, NEW a \in [1..n -> Nat], NEW b \in [1..n + 1 -> Nat],
         \A k \in 1..n : b[k] = a[k], NEW s, Adds(s, a, n), NEW r, Adds(r, b, n + 1)
  PROVE  r[n + 1] = s[n] + b[n + 1]
<1>1. [k \in 1..n |-> b[k]] \in [1..n -> Nat]
  OBVIOUS
<1>2. Adds(r, [k \in 1..n |-> b[k]], n)
  BY DEF Adds
<1>3. r[n] = s[n]
  BY <1>1, <1>2, SumAgrees
<1>4. n + 1 \in 1..n + 1 /\ n + 1 - 1 = n
  OBVIOUS
<1>5. r[n + 1] = r[n] + b[n + 1]
  BY <1>4 DEF Adds
<1> QED BY <1>3, <1>5
=============================================================================
