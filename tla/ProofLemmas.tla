---------------------------- MODULE ProofLemmas ----------------------------
(***************************************************************************)
(* Facts about the community modules' operators that the proofs of this    *)
(* project cite: the least and the greatest element of a set of integers,  *)
(* sequences with an entry removed, and sums, as the sizes of sets and as  *)
(* the folds of MapThenSumSet.                                             *)
(***************************************************************************)
EXTENDS Integers, Sequences, FiniteSets, FiniteSetsExt, SequencesExt,
        FiniteSetTheorems, WellFoundedInduction, TLAPS

(* A non-empty set of naturals contains its minimum, which bounds it. *)
LEMMA MinIn ==
  ASSUME NEW S \in SUBSET Nat, S # {}
  PROVE  Min(S) \in S /\ \A x \in S : Min(S) <= x
<1>. DEFINE R == OpToRel(<, Nat)
<1>1. IsWellFoundedOn(R, Nat)
  BY NatLessThanWellFounded
<1>. HIDE DEF R
<1>2. \E x \in S : \A y \in S : ~ (<<y, x>> \in R)
  BY <1>1, WFMin
<1>3. PICK x \in S : \A y \in S : ~ (<<y, x>> \in R)
  BY <1>2
<1>. USE DEF R
<1>4. \A y \in S : ~(y < x)
  BY <1>3 DEF OpToRel
<1>. HIDE DEF R
<1>5. \A y \in S : x <= y
  BY <1>4
<1>. QED
  BY <1>5 DEF Min

(* A non-empty finite set of integers has a greatest element. *)
LEMMA MaxOfFinite ==
  ASSUME NEW S \in SUBSET Int, S # {}, IsFiniteSet(S)
  PROVE  \E x \in S : \A y \in S : y <= x
<1>. DEFINE Greatest(X) == \E x \in X : \A y \in X : y <= x
            Bad(n) == \E X \in SUBSET Int : X # {} /\ IsFiniteSet(X) /\ Cardinality(X) = n /\ ~Greatest(X)
            Sizes == {n \in Nat : Bad(n)}
<1>1. Sizes = {}
  <2>1. SUFFICES ASSUME Sizes # {} PROVE FALSE
    OBVIOUS
  <2>2. Sizes \in SUBSET Nat
    OBVIOUS
  <2>3. PICK n \in Sizes : \A m \in Sizes : n <= m
    <3>. HIDE DEF Sizes
    <3>. QED
      BY <2>1, <2>2, MinIn
  <2>4. PICK X \in SUBSET Int : X # {} /\ IsFiniteSet(X) /\ Cardinality(X) = n /\ ~Greatest(X)
    BY <2>3
  <2>5. PICK x \in X : TRUE
    BY <2>4
  <2>. DEFINE Y == X \ {x}
  <2>6. IsFiniteSet(Y) /\ Cardinality(Y) = n - 1 /\ Cardinality(Y) \in Nat
    BY <2>4, FS_RemoveElement, FS_CardinalityType
  <2>7. Y # {}
    BY <2>4, <2>5
  <2>8. n - 1 \notin Sizes
    BY <2>3
  <2>9. Greatest(Y)
    BY <2>4, <2>6, <2>7, <2>8
  <2>10. PICK y \in Y : \A z \in Y : z <= y
    BY <2>9
  <2>11. x \in Int /\ y \in Int /\ y \in X /\ \A z \in X : z \in Y \/ z = x
    BY <2>4
  <2>12. CASE x <= y
    BY <2>4, <2>10, <2>11, <2>12
  <2>13. CASE y <= x
    <3>1. \A z \in X : z <= x
      BY <2>4, <2>10, <2>11, <2>13
    <3>. QED
      BY <2>4, <3>1
  <2>. QED
    BY <2>11, <2>12, <2>13
<1>2. Cardinality(S) \in Nat
  BY FS_CardinalityType
<1>. QED
  BY <1>1, <1>2

(* Removing an entry from a sequence leaves a sequence of the other entries. *)
LEMMA RemoveAtSeq ==
  ASSUME NEW T, NEW s \in Seq(T), NEW i \in DOMAIN s
  PROVE  /\ RemoveAt(s, i) \in Seq(T)
         /\ \A j \in DOMAIN RemoveAt(s, i) : \E k \in DOMAIN s : RemoveAt(s, i)[j] = s[k]
<1>1. Len(s) \in Nat /\ i \in 1..Len(s)
  OBVIOUS
<1>. DEFINE p == SubSeq(s, 1, i - 1)
            q == SubSeq(s, i + 1, Len(s))
<1>2. p \in Seq(T) /\ q \in Seq(T)
  BY <1>1
<1>3. /\ Len(p) = i - 1
      /\ Len(q) = Len(s) - i
  BY <1>1
<1>4. \A j \in 1..(i - 1) : p[j] = s[j]
  BY <1>1
<1>5. \A j \in 1..(Len(s) - i) : q[j] = s[i + j]
  BY <1>1
<1>6. RemoveAt(s, i) = p \o q
  BY DEF RemoveAt
<1>. HIDE DEF p, q
<1>7. /\ p \o q \in Seq(T)
      /\ Len(p \o q) = Len(s) - 1
  BY <1>1, <1>2, <1>3
<1>8. \A j \in 1..(i - 1) : (p \o q)[j] = p[j]
  BY <1>1, <1>2, <1>3
<1>9. \A j \in 1..(Len(s) - 1) : j > i - 1 => (p \o q)[j] = q[j - (i - 1)]
  BY <1>1, <1>2, <1>3, SMTT(20)
<1>a. ASSUME NEW j \in 1..(Len(s) - 1)
      PROVE  \E k \in 1..Len(s) : (p \o q)[j] = s[k]
  <2>1. CASE j <= i - 1
    <3>1. j \in 1..(i - 1) /\ j \in 1..Len(s)
      BY <2>1, <1>1
    <3>. QED
      BY <3>1, <1>4, <1>8
  <2>2. CASE j > i - 1
    <3>1. j - (i - 1) \in 1..(Len(s) - i)
      BY <2>2, <1>1
    <3>2. (p \o q)[j] = q[j - (i - 1)]
      BY <2>2, <1>9
    <3>3. q[j - (i - 1)] = s[i + (j - (i - 1))]
      BY <3>1, <1>5
    <3>4. i + (j - (i - 1)) = j + 1 /\ j + 1 \in 1..Len(s)
      BY <1>1
    <3>. QED
      BY <3>2, <3>3, <3>4
  <2>3. i \in Int /\ j \in Int
    BY <1>1
  <2>4. j <= i - 1 \/ j > i - 1
    BY <2>3
  <2>. QED
    BY <2>1, <2>2, <2>4
<1>b. DOMAIN (p \o q) = 1..(Len(s) - 1) /\ DOMAIN s = 1..Len(s)
  BY <1>7
<1>. QED
  BY <1>6, <1>7, <1>a, <1>b

(* The greater of two integers. *)
LEMMA MaxOfTwo ==
  ASSUME NEW x \in Int, NEW y \in Int
  PROVE  Max({x, y}) = IF x >= y THEN x ELSE y
<1>. DEFINE m == IF x >= y THEN x ELSE y
<1>1. m \in {x, y} /\ \A z \in {x, y} : m >= z
  OBVIOUS
<1>2. \A w \in {x, y} : (\A z \in {x, y} : w >= z) => w = m
  OBVIOUS
<1>. HIDE DEF m
<1>3. Max({x, y}) = m
  BY <1>1, <1>2 DEF Max
<1>. QED
  BY <1>3 DEF m

(* Removing entry i of a sequence moves the entries after it down by one. *)
LEMMA RemoveAtIs ==
  ASSUME NEW T, NEW s \in Seq(T), NEW i \in DOMAIN s
  PROVE  /\ RemoveAt(s, i) \in Seq(T)
         /\ Len(RemoveAt(s, i)) = Len(s) - 1
         /\ \A j \in 1..(Len(s) - 1) : RemoveAt(s, i)[j] = s[IF j < i THEN j ELSE j + 1]
<1>1. Len(s) \in Nat /\ i \in 1..Len(s)
  OBVIOUS
<1>. DEFINE p == SubSeq(s, 1, i - 1)
            q == SubSeq(s, i + 1, Len(s))
<1>2. p \in Seq(T) /\ q \in Seq(T)
  BY <1>1
<1>3. /\ Len(p) = i - 1
      /\ Len(q) = Len(s) - i
  BY <1>1
<1>4. \A j \in 1..(i - 1) : p[j] = s[j]
  BY <1>1
<1>5. \A j \in 1..(Len(s) - i) : q[j] = s[i + j]
  BY <1>1
<1>6. RemoveAt(s, i) = p \o q
  BY DEF RemoveAt
<1>. HIDE DEF p, q
<1>7. /\ p \o q \in Seq(T)
      /\ Len(p \o q) = Len(s) - 1
  BY <1>1, <1>2, <1>3
<1>8. ASSUME NEW j \in 1..(Len(s) - 1)
      PROVE  (p \o q)[j] = s[IF j < i THEN j ELSE j + 1]
  <2>1. CASE j < i
    <3>1. j \in 1..(i - 1)
      BY <1>1, <2>1
    <3>2. (p \o q)[j] = p[j]
      BY <1>1, <1>2, <1>3, <3>1
    <3>. QED
      BY <1>4, <2>1, <3>1, <3>2
  <2>2. CASE ~(j < i)
    <3>1. j - (i - 1) \in 1..(Len(s) - i)
      BY <1>1, <2>2
    <3>2. (p \o q)[j] = q[j - (i - 1)]
      BY <1>1, <1>2, <1>3, <2>2, SMTT(20)
    <3>3. q[j - (i - 1)] = s[i + (j - (i - 1))]
      BY <1>5, <3>1
    <3>4. i + (j - (i - 1)) = j + 1
      BY <1>1
    <3>. QED
      BY <2>2, <3>2, <3>3, <3>4
  <2>. QED
    BY <2>1, <2>2
<1>. QED
  BY <1>6, <1>7, <1>8

-----------------------------------------------------------------------------
(* Sums.  The sum of f over S is the number of its dots, f[x] of them for    *)
(* every x of S.  A sum changes with one of its terms.                       *)

Dots(S, f) == UNION {{x} \X (1..f[x]) : x \in S}

Finite(S, f) == IsFiniteSet(Dots(S, f))

SumOf(S, f) == Cardinality(Dots(S, f))

\* A dot of x is one of its f[x].
LEMMA DotsAre ==
  ASSUME NEW S, NEW f, NEW x, NEW k
  PROVE  <<x, k>> \in Dots(S, f) <=> x \in S /\ k \in 1..f[x]
  BY DEF Dots

\* Terms that are equal have the same sum.
LEMMA SumSame ==
  ASSUME NEW S, NEW f, NEW g, \A x \in S : g[x] = f[x]
  PROVE  Dots(S, g) = Dots(S, f)
  BY DEF Dots

\* Terms that are zero have no sum.
LEMMA SumOfZeros ==
  ASSUME NEW S, NEW f, \A x \in S : f[x] = 0
  PROVE  Finite(S, f) /\ SumOf(S, f) = 0
<1>1. \A x \in S : 1..f[x] = {}
  OBVIOUS
<1>2. Dots(S, f) = {}
  BY <1>1 DEF Dots
<1>. QED
  BY <1>2, FS_EmptySet DEF Finite, SumOf

\* A finite sum is a natural number.
LEMMA SumInNat ==
  ASSUME NEW S, NEW f, Finite(S, f)
  PROVE  SumOf(S, f) \in Nat
  BY FS_CardinalityType DEF Finite, SumOf

Row(x, a, n) == {x} \X ((a + 1)..(a + n))

\* A row of n dots has n of them.
LEMMA RowSize ==
  ASSUME NEW x, NEW a \in Nat, NEW n \in Nat
  PROVE  IsFiniteSet(Row(x, a, n)) /\ Cardinality(Row(x, a, n)) = n
<1>. DEFINE I == (a + 1)..(a + n)
<1>1. IsFiniteSet(I) /\ Cardinality(I) = n
  <2>1. a + 1 \in Int /\ a + n \in Int
    OBVIOUS
  <2>2. IsFiniteSet(I) /\ Cardinality(I) = IF a + 1 > a + n THEN 0 ELSE (a + n) - (a + 1) + 1
    BY <2>1, FS_Interval
  <2>. HIDE DEF I
  <2>. QED
    BY <2>2
<1>2. IsFiniteSet({x}) /\ Cardinality({x}) = 1
  BY FS_Singleton
<1>. HIDE DEF I
<1>3. IsFiniteSet({x} \X I) /\ Cardinality({x} \X I) = 1 * Cardinality(I)
  BY <1>1, <1>2, FS_Product
<1>4. IsFiniteSet({x} \X I) /\ Cardinality({x} \X I) = n
  BY <1>1, <1>3
<1>. QED
  BY <1>4 DEF I, Row

\* Of the terms over S, the one of x is n greater in g than in f, and the others are the same.
Grown(S, f, g, x, n) ==
  /\ x \in S /\ n \in Nat
  /\ f[x] \in Nat /\ g[x] = f[x] + n
  /\ \A y \in S : y # x => g[y] = f[y]

\* A sum grows with one of its terms.
LEMMA SumGrows ==
  ASSUME NEW S, NEW f, NEW g, NEW x, NEW n, Grown(S, f, g, x, n), Finite(S, f)
  PROVE  Finite(S, g) /\ SumOf(S, g) = SumOf(S, f) + n
<1>0. /\ x \in S /\ n \in Nat /\ f[x] \in Nat /\ g[x] = f[x] + n
      /\ \A y \in S : y # x => g[y] = f[y]
  BY DEF Grown
<1>. DEFINE m == f[x]
            R == Row(x, m, n)
<1>1. IsFiniteSet(R) /\ Cardinality(R) = n
  <2>1. m \in Nat /\ n \in Nat
    BY <1>0
  <2>. HIDE DEF m
  <2>. QED
    BY <2>1, RowSize
<1>2. 1..g[x] = (1..f[x]) \union ((f[x] + 1)..(f[x] + n))
  BY <1>0
<1>3. Dots(S, g) = Dots(S, f) \union R
  <2>1. {x} \X (1..g[x]) = ({x} \X (1..f[x])) \union R
    BY <1>2 DEF Row
  <2>2. \A y \in S : y # x => {y} \X (1..g[y]) = {y} \X (1..f[y])
    BY <1>0
  <2>. HIDE DEF R
  <2>. QED
    BY <1>0, <2>1, <2>2 DEF Dots
<1>4. Dots(S, f) \cap R = {}
  <2>1. ASSUME NEW d \in Dots(S, f), d \in R
        PROVE  FALSE
    <3>1. PICK y \in S : d \in {y} \X (1..f[y])
      BY <2>1 DEF Dots
    <3>2. d[1] = y /\ d[1] = x /\ d[2] \in 1..f[y] /\ d[2] \in (f[x] + 1)..(f[x] + n)
      BY <2>1, <3>1 DEF Row
    <3>. QED
      BY <1>0, <3>2
  <2>. QED
    BY <2>1
<1>. HIDE DEF R
<1>5. /\ IsFiniteSet(Dots(S, f) \union R)
      /\ Cardinality(Dots(S, f) \union R) = Cardinality(Dots(S, f)) + Cardinality(R) - Cardinality({})
  <2>. DEFINE D == Dots(S, f)
  <2>1. IsFiniteSet(D) /\ IsFiniteSet(R) /\ D \cap R = {}
    BY <1>1, <1>4 DEF Finite
  <2>. HIDE DEF D
  <2>2. /\ IsFiniteSet(D \union R)
        /\ Cardinality(D \union R) = Cardinality(D) + Cardinality(R) - Cardinality(D \cap R)
    BY <2>1, FS_Union
  <2>. QED
    BY <2>1, <2>2 DEF D
<1>6. Cardinality({}) = 0 /\ Cardinality(Dots(S, f)) \in Nat
  BY FS_EmptySet, FS_CardinalityType DEF Finite
<1>. QED
  BY <1>0, <1>1, <1>3, <1>5, <1>6 DEF Finite, SumOf

\* A sum shrinks with one of its terms.
LEMMA SumShrinks ==
  ASSUME NEW S, NEW f, NEW g, NEW x, NEW n, Grown(S, g, f, x, n), Finite(S, f)
  PROVE  Finite(S, g) /\ SumOf(S, g) = SumOf(S, f) - n
<1>0. /\ x \in S /\ n \in Nat /\ g[x] \in Nat /\ f[x] = g[x] + n
      /\ \A y \in S : y # x => f[y] = g[y]
  BY DEF Grown
<1>1. Dots(S, g) \subseteq Dots(S, f)
  <2>1. 1..g[x] \subseteq 1..f[x]
    BY <1>0
  <2>2. \A y \in S : {y} \X (1..g[y]) \subseteq {y} \X (1..f[y])
    BY <1>0, <2>1
  <2>. QED
    BY <2>2 DEF Dots
<1>2. Finite(S, g)
  BY <1>1, FS_Subset DEF Finite
<1>3. SumOf(S, f) = SumOf(S, g) + n
  BY <1>2, SumGrows
<1>. QED
  BY <1>0, <1>2, <1>3, SumInNat


\* A sum over a sequence grows by the term appended to it.
LEMMA SumAppends ==
  ASSUME NEW n \in Nat, NEW q, NEW r, NEW w \in Nat, r[n + 1] = w,
         \A j \in 1..n : r[j] = q[j], Finite(1..n, q)
  PROVE  Finite(1..(n + 1), r) /\ SumOf(1..(n + 1), r) = SumOf(1..n, q) + w
<1>. DEFINE m == n + 1
            S == 1..m
            z == [j \in S |-> IF j = m THEN 0 ELSE q[j]]
<1>1. Dots(S, z) = Dots(1..n, q)
  <2>1. /\ S = (1..n) \union {m} /\ m \in S /\ m \notin 1..n
        /\ z[m] = 0 /\ \A j \in 1..n : z[j] = q[j]
    OBVIOUS
  <2>2. 1..z[m] = {}
    BY <2>1
  <2>. HIDE DEF S, z, m
  <2>3. \A j \in 1..n : {j} \X (1..z[j]) = {j} \X (1..q[j])
    BY <2>1
  <2>4. {m} \X (1..z[m]) = {}
    BY <2>2
  <2>. QED
    BY <2>1, <2>3, <2>4 DEF Dots
<1>2. Grown(S, z, r, m, w)
  BY DEF Grown
<1>3. Finite(S, z) /\ SumOf(S, z) = SumOf(1..n, q)
  BY <1>1 DEF Finite, SumOf
<1>. HIDE DEF S, z, m
<1>5. Finite(S, r) /\ SumOf(S, r) = SumOf(S, z) + w
  BY <1>2, <1>3, SumGrows
<1>. QED
  BY <1>3, <1>5 DEF S, m

\* Of the n terms of q, all but the one at i are the terms of r, in their order.
Removed(n, i, q, r) ==
  /\ n \in Nat /\ i \in 1..n /\ q[i] \in Nat
  /\ \A j \in 1..(n - 1) : r[j] = q[IF j < i THEN j ELSE j + 1]

\* A sum over a sequence shrinks by the term removed from it.
LEMMA SumRemoves ==
  ASSUME NEW n, NEW i, NEW q, NEW r, Removed(n, i, q, r), Finite(1..n, q)
  PROVE  Finite(1..(n - 1), r) /\ SumOf(1..(n - 1), r) = SumOf(1..n, q) - q[i]
<1>0. /\ n \in Nat /\ i \in 1..n /\ q[i] \in Nat
      /\ \A j \in 1..(n - 1) : r[j] = q[IF j < i THEN j ELSE j + 1]
  BY DEF Removed
<1>. USE <1>0
<1>. DEFINE S == 1..n
            R == 1..(n - 1)
            z == [j \in S |-> IF j = i THEN 0 ELSE q[j]]
            D == Dots(S, z)
            E == Dots(R, r)
            F == [d \in D |-> <<IF d[1] < i THEN d[1] ELSE d[1] - 1, d[2]>>]
<1>1. Finite(S, z) /\ SumOf(S, z) = SumOf(S, q) - q[i]
  <2>1. Grown(S, z, q, i, q[i])
    BY DEF Grown
  <2>. HIDE DEF z
  <2>. QED
    BY <2>1, SumShrinks
<1>2. \A d \in D : d = <<d[1], d[2]>> /\ d[1] \in S /\ d[1] # i /\ d[2] \in 1..q[d[1]]
  <2>1. ASSUME NEW j \in S, NEW d \in {j} \X (1..z[j])
        PROVE  d = <<d[1], d[2]>> /\ d[1] \in S /\ d[1] # i /\ d[2] \in 1..q[d[1]]
    <3>1. d = <<d[1], d[2]>> /\ d[1] = j /\ d[2] \in 1..z[j]
      OBVIOUS
    <3>2. j # i
      <4>1. j = i => z[j] = 0
        OBVIOUS
      <4>. QED
        BY <3>1, <4>1
    <3>. QED
      BY <3>1, <3>2
  <2>. HIDE DEF z
  <2>. QED
    BY <2>1 DEF Dots
<1>3. \A j \in S : \A k : j # i /\ k \in 1..q[j] => <<j, k>> \in D
  <2>1. \A j \in S : j # i => z[j] = q[j]
    OBVIOUS
  <2>. HIDE DEF z
  <2>. QED
    BY <2>1, DotsAre
<1>4. ASSUME NEW d \in D
      PROVE  F[d] \in E
  <2>. DEFINE j == IF d[1] < i THEN d[1] ELSE d[1] - 1
  <2>1. d[1] \in S /\ d[1] # i /\ d[2] \in 1..q[d[1]]
    BY <1>2
  <2>2. j \in R /\ (IF j < i THEN j ELSE j + 1) = d[1]
    <3>1. n \in Int /\ i \in 1..n /\ d[1] \in 1..n /\ d[1] # i
      BY <2>1
    <3>. DEFINE e == d[1]
    <3>2. /\ (IF e < i THEN e ELSE e - 1) \in 1..(n - 1)
          /\ (IF (IF e < i THEN e ELSE e - 1) < i THEN (IF e < i THEN e ELSE e - 1)
              ELSE (IF e < i THEN e ELSE e - 1) + 1) = e
      <4>. HIDE DEF e
      <4>. QED
        BY <3>1 DEF e
    <3>. QED
      BY <3>2
  <2>3. F[d] = <<j, d[2]>>
    OBVIOUS
  <2>. HIDE DEF j, F, D, R, E
  <2>4. d[2] \in 1..r[j]
    BY <2>1, <2>2 DEF R
  <2>. QED
    BY <2>2, <2>3, <2>4, DotsAre DEF E
<1>5. ASSUME NEW a \in D, NEW b \in D, F[a] = F[b]
      PROVE  a = b
  <2>1. /\ a = <<a[1], a[2]>> /\ b = <<b[1], b[2]>>
        /\ a[1] \in S /\ b[1] \in S /\ a[1] # i /\ b[1] # i
    BY <1>2
  <2>2. /\ (IF a[1] < i THEN a[1] ELSE a[1] - 1) = (IF b[1] < i THEN b[1] ELSE b[1] - 1)
        /\ a[2] = b[2]
    BY <1>5
  <2>3. a[1] = b[1]
    BY <2>1, <2>2
  <2>. QED
    BY <2>1, <2>2, <2>3
<1>6. ASSUME NEW e \in E
      PROVE  \E d \in D : F[d] = e
  <2>1. e = <<e[1], e[2]>> /\ e[1] \in R /\ e[2] \in 1..r[e[1]]
    BY DEF Dots
  <2>. DEFINE j == IF e[1] < i THEN e[1] ELSE e[1] + 1
              d == <<j, e[2]>>
  <2>2. j \in S /\ j # i /\ r[e[1]] = q[j]
    BY <2>1
  <2>3. d \in D
    <3>1. e[2] \in 1..q[j]
      BY <2>1, <2>2
    <3>. HIDE DEF j, D, S
    <3>. QED
      BY <1>3, <2>2, <3>1
  <2>4. d[1] = j /\ d[2] = e[2]
    OBVIOUS
  <2>5. (IF j < i THEN j ELSE j - 1) = e[1]
    BY <2>1
  <2>6. F[d] = <<IF d[1] < i THEN d[1] ELSE d[1] - 1, d[2]>>
    <3>. HIDE DEF d, D
    <3>. QED
      BY <2>3
  <2>. HIDE DEF d, F, D, j
  <2>7. F[d] = e
    BY <2>1, <2>4, <2>5, <2>6
  <2>. QED
    BY <2>3, <2>7
<1>. HIDE DEF D, E
<1>7. F \in [D -> E]
  <2>1. F = [d \in D |-> F[d]]
    OBVIOUS
  <2>. HIDE DEF F
  <2>. QED
    BY <1>4, <2>1
<1>8. DOMAIN F = D
  OBVIOUS
<1>. HIDE DEF F
<1>9. F \in Bijection(D, E)
  BY <1>5, <1>6, <1>7, <1>8 DEF Bijection, Injection, Surjection, IsInjective
<1>10. IsFiniteSet(D)
  BY <1>1 DEF D, Finite
<1>11. IsFiniteSet(E) /\ Cardinality(E) = Cardinality(D)
  BY <1>9, <1>10, FS_Bijection DEF ExistsBijection
<1>. QED
  BY <1>1, <1>11 DEF D, E, Finite, SumOf

(* The terms of x differ by n between f and g, and every other over S is the same. *)
Bumped(S, f, g, x, n) ==
  /\ n \in Nat /\ f[x] \in Nat /\ g[x] = f[x] + n
  /\ \A y \in S : y # x => g[y] = f[y]

\* A sum over some of the terms follows the one that grows, if it is among them.
LEMMA SumFollowsUp ==
  ASSUME NEW S, NEW f, NEW g, NEW x, NEW n, Bumped(S, f, g, x, n), Finite(S, f)
  PROVE  Finite(S, g) /\ SumOf(S, g) = SumOf(S, f) + (IF x \in S THEN n ELSE 0)
<1>1. CASE x \in S
  <2>1. Grown(S, f, g, x, n)
    BY <1>1 DEF Bumped, Grown
  <2>. QED
    BY <1>1, <2>1, SumGrows
<1>2. CASE x \notin S
  <2>1. \A y \in S : g[y] = f[y]
    BY <1>2 DEF Bumped
  <2>2. Dots(S, g) = Dots(S, f)
    BY <2>1, SumSame
  <2>3. SumOf(S, f) \in Nat
    BY SumInNat
  <2>. QED
    BY <1>2, <2>2, <2>3 DEF Finite, SumOf
<1>. QED
  BY <1>1, <1>2

\* A sum over some of the terms follows the one that shrinks, if it is among them.
LEMMA SumFollowsDown ==
  ASSUME NEW S, NEW f, NEW g, NEW x, NEW n, Bumped(S, g, f, x, n), Finite(S, f)
  PROVE  Finite(S, g) /\ SumOf(S, g) = SumOf(S, f) - (IF x \in S THEN n ELSE 0)
<1>1. CASE x \in S
  <2>1. Grown(S, g, f, x, n)
    BY <1>1 DEF Bumped, Grown
  <2>. QED
    BY <1>1, <2>1, SumShrinks
<1>2. CASE x \notin S
  <2>1. \A y \in S : g[y] = f[y]
    BY <1>2 DEF Bumped
  <2>2. Dots(S, g) = Dots(S, f)
    BY <2>1, SumSame
  <2>3. SumOf(S, f) \in Nat
    BY SumInNat
  <2>. QED
    BY <1>2, <2>2, <2>3 DEF Finite, SumOf
<1>. QED
  BY <1>1, <1>2


-----------------------------------------------------------------------------
(* Folds.  MapThenSumSet adds up the terms of a set by a recursive function on *)
(* its subsets: f is that function, and g gives the terms.                     *)

Some(s) == CHOOSE x \in s : TRUE

FoldBody(g, f, s) == IF s = {} THEN 0 ELSE g[Some(s)] + f[s \ {Some(s)}]

IsFold(S, g, f) == f = [s \in SUBSET S |-> FoldBody(g, f, s)]

\* A part of a finite set is finite, and smaller by one without the element chosen of it.
LEMMA SomeOfPart ==
  ASSUME NEW S, IsFiniteSet(S), NEW s \in SUBSET S
  PROVE  /\ IsFiniteSet(s) /\ Cardinality(s) \in Nat /\ Cardinality(s) <= Cardinality(S)
         /\ s # {} => /\ Some(s) \in s /\ s \ {Some(s)} \in SUBSET S
                      /\ Cardinality(s \ {Some(s)}) = Cardinality(s) - 1
<1>1. IsFiniteSet(s) /\ Cardinality(s) \in Nat /\ Cardinality(s) <= Cardinality(S)
  BY FS_Subset, FS_CardinalityType
<1>2. ASSUME s # {}
      PROVE  /\ Some(s) \in s /\ s \ {Some(s)} \in SUBSET S
             /\ Cardinality(s \ {Some(s)}) = Cardinality(s) - 1
  <2>1. Some(s) \in s
    BY <1>2 DEF Some
  <2>2. Cardinality(s \ {Some(s)}) = Cardinality(s) - 1
    BY <1>1, <2>1, FS_RemoveElement
  <2>. QED
    BY <2>1, <2>2
<1>. QED
  BY <1>1, <1>2

\* The fold of integers over a finite set is defined on every part of it.
LEMMA FoldExists ==
  ASSUME NEW S, IsFiniteSet(S), NEW g \in [S -> Int]
  PROVE  \E f : IsFold(S, g, f)
<1>. DEFINE Fits(f, n) == \A s \in SUBSET S : Cardinality(s) <= n => f[s] = FoldBody(g, f, s)
            Missing == {n \in Nat : ~\E f \in [SUBSET S -> Int] : Fits(f, n)}
<1>1. \A s \in SUBSET S : Cardinality(s) \in Nat /\ Cardinality(s) <= Cardinality(S)
  BY SomeOfPart
<1>2. ASSUME NEW s \in SUBSET S, s # {}
      PROVE  /\ Some(s) \in S /\ s \ {Some(s)} \in SUBSET S
             /\ Cardinality(s \ {Some(s)}) = Cardinality(s) - 1
  BY <1>2, SomeOfPart
<1>3. ASSUME NEW n \in Nat, NEW f \in [SUBSET S -> Int], \A m \in Nat : m < n => Fits(f, m)
      PROVE  \E h \in [SUBSET S -> Int] : Fits(h, n)
  <2>. DEFINE h == [s \in SUBSET S |-> IF Cardinality(s) = n THEN FoldBody(g, f, s) ELSE f[s]]
  <2>1. ASSUME NEW s \in SUBSET S
        PROVE  FoldBody(g, f, s) \in Int
    <3>1. CASE s = {}
      BY <3>1 DEF FoldBody
    <3>2. CASE s # {}
      <4>1. g[Some(s)] \in Int /\ f[s \ {Some(s)}] \in Int
        BY <1>2, <3>2
      <4>. QED
        BY <3>2, <4>1 DEF FoldBody
    <3>. QED
      BY <3>1, <3>2
  <2>2. h \in [SUBSET S -> Int]
    BY <2>1
  <2>3. ASSUME NEW s \in SUBSET S, Cardinality(s) <= n
        PROVE  h[s] = FoldBody(g, h, s)
    <3>1. h[s] = FoldBody(g, f, s)
      <4>1. CASE Cardinality(s) = n
        BY <4>1
      <4>2. CASE Cardinality(s) # n
        <5>1. Cardinality(s) \in Nat /\ Cardinality(s) < n
          BY <1>1, <2>3, <4>2
        <5>2. f[s] = FoldBody(g, f, s)
          <6>1. Fits(f, Cardinality(s))
            BY <1>3, <5>1
          <6>. QED
            BY <5>1, <6>1
        <5>. QED
          BY <4>2, <5>2
      <4>. QED
        BY <4>1, <4>2
    <3>2. FoldBody(g, f, s) = FoldBody(g, h, s)
      <4>1. CASE s = {}
        BY <4>1 DEF FoldBody
      <4>2. CASE s # {}
        <5>1. s \ {Some(s)} \in SUBSET S /\ Cardinality(s \ {Some(s)}) # n
          <6>1. s \ {Some(s)} \in SUBSET S /\ Cardinality(s \ {Some(s)}) = Cardinality(s) - 1
            BY <1>2, <4>2
          <6>2. Cardinality(s) \in Nat
            BY <1>1
          <6>. QED
            BY <2>3, <6>1, <6>2
        <5>2. h[s \ {Some(s)}] = f[s \ {Some(s)}]
          BY <5>1
        <5>. HIDE DEF h
        <5>. QED
          BY <4>2, <5>2 DEF FoldBody
      <4>. QED
        BY <4>1, <4>2
    <3>. QED
      BY <3>1, <3>2
  <2>. HIDE DEF h
  <2>. QED
    BY <2>2, <2>3
<1>4. Missing = {}
  <2>1. SUFFICES ASSUME Missing # {} PROVE FALSE
    OBVIOUS
  <2>2. PICK n \in Missing : \A m \in Missing : n <= m
    <3>1. Missing \in SUBSET Nat
      OBVIOUS
    <3>. HIDE DEF Missing
    <3>. QED
      BY <2>1, <3>1, MinIn
  <2>3. n \in Nat /\ ~\E f \in [SUBSET S -> Int] : Fits(f, n)
    BY <2>2
  <2>4. \E f \in [SUBSET S -> Int] : \A m \in Nat : m < n => Fits(f, m)
    <3>1. CASE n = 0
      <4>1. [s \in SUBSET S |-> 0] \in [SUBSET S -> Int]
        OBVIOUS
      <4>2. \A m \in Nat : ~(m < n)
        BY <3>1
      <4>. HIDE DEF Fits
      <4>. QED
        BY <4>1, <4>2
    <3>2. CASE n # 0
      <4>1. n - 1 \in Nat /\ n - 1 \notin Missing
        <5>1. n - 1 \in Nat /\ ~(n <= n - 1)
          BY <2>3, <3>2
        <5>. HIDE DEF Missing
        <5>. QED
          BY <2>2, <5>1
      <4>2. PICK f \in [SUBSET S -> Int] : Fits(f, n - 1)
        BY <4>1
      <4>3. ASSUME NEW m \in Nat, m < n
            PROVE  Fits(f, m)
        <5>1. \A s \in SUBSET S : Cardinality(s) <= m => Cardinality(s) <= n - 1
          BY <1>1, <2>3, <4>3
        <5>. QED
          BY <4>2, <5>1
      <4>. HIDE DEF Fits
      <4>. QED
        BY <4>2, <4>3
    <3>. QED
      BY <3>1, <3>2
  <2>. HIDE DEF Fits
  <2>. QED
    BY <1>3, <2>3, <2>4
<1>5. PICK f \in [SUBSET S -> Int] : Fits(f, Cardinality(S))
  <2>1. Cardinality(S) \in Nat
    BY FS_CardinalityType
  <2>. HIDE DEF Fits
  <2>. QED
    BY <1>4, <2>1
<1>6. \A s \in SUBSET S : f[s] = FoldBody(g, f, s)
  BY <1>1, <1>5
<1>. QED
  BY <1>6 DEF IsFold

\* A fold of integers has integers for values.
LEMMA FoldIsInt ==
  ASSUME NEW S, IsFiniteSet(S), NEW g \in [S -> Int], NEW f, IsFold(S, g, f)
  PROVE  f[S] \in Int
<1>. DEFINE Bad == {n \in Nat : \E s \in SUBSET S : Cardinality(s) = n /\ f[s] \notin Int}
<1>1. Bad = {}
  <2>1. SUFFICES ASSUME Bad # {} PROVE FALSE
    OBVIOUS
  <2>2. PICK n \in Bad : \A m \in Bad : n <= m
    <3>1. Bad \in SUBSET Nat
      OBVIOUS
    <3>. HIDE DEF Bad
    <3>. QED
      BY <2>1, <3>1, MinIn
  <2>3. PICK s \in SUBSET S : Cardinality(s) = n /\ f[s] \notin Int
    BY <2>2
  <2>4. f[s] = FoldBody(g, f, s)
    BY DEF IsFold
  <2>5. s # {}
    BY <2>3, <2>4 DEF FoldBody
  <2>. DEFINE t == s \ {Some(s)}
  <2>6. Some(s) \in S /\ t \in SUBSET S /\ Cardinality(t) = n - 1 /\ Cardinality(t) \in Nat
    <3>1. Some(s) \in s /\ t \in SUBSET S /\ Cardinality(t) = Cardinality(s) - 1
      BY <2>5, SomeOfPart
    <3>2. Cardinality(t) \in Nat
      BY <3>1, SomeOfPart
    <3>. QED
      BY <2>3, <3>1, <3>2
  <2>7. n - 1 \notin Bad
    BY <2>2
  <2>8. f[t] \in Int
    BY <2>6, <2>7
  <2>9. f[s] = g[Some(s)] + f[t]
    BY <2>4, <2>5 DEF FoldBody
  <2>. HIDE DEF t
  <2>. QED
    BY <2>3, <2>6, <2>8, <2>9
<1>2. Cardinality(S) \in Nat /\ S \in SUBSET S
  BY FS_CardinalityType
<1>. QED
  BY <1>1, <1>2

\* A sum grows by the term of an element put into its set.
LEMMA SumTakes ==
  ASSUME NEW S, NEW g, NEW x, x \notin S, g[x] \in Nat, Finite(S, g)
  PROVE  Finite(S \union {x}, g) /\ SumOf(S \union {x}, g) = SumOf(S, g) + g[x]
<1>. DEFINE T == S \union {x}
            z == [y \in T |-> IF y = x THEN 0 ELSE g[y]]
<1>1. Dots(T, z) = Dots(S, g)
  <2>1. /\ z[x] = 0 /\ \A y \in S : z[y] = g[y]
    OBVIOUS
  <2>. HIDE DEF z
  <2>2. \A y \in S : {y} \X (1..z[y]) = {y} \X (1..g[y])
    BY <2>1
  <2>3. {x} \X (1..z[x]) = {}
    BY <2>1
  <2>. QED
    BY <2>2, <2>3 DEF Dots
<1>2. Grown(T, z, g, x, g[x])
  BY DEF Grown
<1>3. Finite(T, z) /\ SumOf(T, z) = SumOf(S, g)
  BY <1>1 DEF Finite, SumOf
<1>. HIDE DEF T, z
<1>4. Finite(T, g) /\ SumOf(T, g) = SumOf(T, z) + g[x]
  BY <1>2, <1>3, SumGrows
<1>. QED
  BY <1>3, <1>4 DEF T

\* A fold of naturals over a finite set is their sum.
LEMMA FoldIsSum ==
  ASSUME NEW S, IsFiniteSet(S), NEW g \in [S -> Nat], NEW f, IsFold(S, g, f)
  PROVE  Finite(S, g) /\ f[S] = SumOf(S, g)
<1>. DEFINE Good(s) == Finite(s, g) /\ f[s] = SumOf(s, g)
            Bad == {n \in Nat : \E s \in SUBSET S : Cardinality(s) = n /\ ~Good(s)}
<1>1. Bad = {}
  <2>1. SUFFICES ASSUME Bad # {} PROVE FALSE
    OBVIOUS
  <2>2. PICK n \in Bad : \A m \in Bad : n <= m
    <3>1. Bad \in SUBSET Nat
      OBVIOUS
    <3>. HIDE DEF Bad
    <3>. QED
      BY <2>1, <3>1, MinIn
  <2>3. PICK s \in SUBSET S : Cardinality(s) = n /\ ~Good(s)
    BY <2>2
  <2>4. f[s] = FoldBody(g, f, s)
    BY DEF IsFold
  <2>5. s # {}
    <3>1. ASSUME s = {} PROVE Good(s)
      <4>1. Finite({}, g) /\ SumOf({}, g) = 0
        BY SumOfZeros
      <4>. QED
        BY <2>4, <3>1, <4>1 DEF FoldBody
    <3>. QED
      BY <2>3, <3>1
  <2>. DEFINE x == Some(s)
              t == s \ {x}
  <2>6. x \in s /\ t \in SUBSET S /\ Cardinality(t) = n - 1 /\ Cardinality(t) \in Nat
    <3>1. x \in s /\ t \in SUBSET S /\ Cardinality(t) = Cardinality(s) - 1
      BY <2>5, SomeOfPart
    <3>2. Cardinality(t) \in Nat
      BY <3>1, SomeOfPart
    <3>. QED
      BY <2>3, <3>1, <3>2
  <2>7. n - 1 \notin Bad
    BY <2>2
  <2>8. Good(t)
    BY <2>6, <2>7
  <2>9. f[s] = g[x] + f[t]
    BY <2>4, <2>5 DEF FoldBody
  <2>10. g[x] \in Nat /\ x \notin t /\ s = t \union {x}
    BY <2>6
  <2>. HIDE DEF t, x
  <2>11. Finite(s, g) /\ SumOf(s, g) = SumOf(t, g) + g[x]
    BY <2>8, <2>10, SumTakes
  <2>12. SumOf(t, g) \in Nat
    BY <2>8, SumInNat
  <2>. QED
    BY <2>3, <2>8, <2>9, <2>10, <2>11, <2>12
<1>2. Cardinality(S) \in Nat /\ S \in SUBSET S
  BY FS_CardinalityType
<1>. QED
  BY <1>1, <1>2


(* A sequence of sequences, one after the other: FlattenSeq's recursion defines a function. *)
LEMMA FlattenDefined ==
  ASSUME NEW s, NEW L \in Nat
  PROVE  \E f : f = [i \in 1..L |-> IF i = 1 THEN s[i] ELSE f[i-1] \o s[i]]
<1>. DEFINE Fits(f, k) == f = [i \in 1..k |-> IF i = 1 THEN s[i] ELSE f[i-1] \o s[i]]
            Defined(k) == \E f : Fits(f, k)
            Bad == {k \in 0..L : ~Defined(k)}
<1>1. ASSUME Bad # {}
      PROVE  FALSE
  <2>. DEFINE k == Min(Bad)
  <2>. HIDE DEF Defined
  <2>0. Bad \in SUBSET Nat
    OBVIOUS
  <2>1. k \in Bad /\ \A x \in Bad : k <= x
    <3>. HIDE DEF Bad
    <3>. QED
      BY <1>1, <2>0, MinIn
  <2>. HIDE DEF k
  <2>2. k \in 0..L /\ ~Defined(k)
    BY <2>1
  <2>3. k # 0
    <3>1. Fits([i \in 1..0 |-> s[i]], 0)
      OBVIOUS
    <3>. QED
      BY <2>2, <3>1 DEF Defined
  <2>4. k - 1 \in 0..L /\ k - 1 \notin Bad
    <3>1. k - 1 \in 0..L /\ ~(k <= k - 1)
      BY <2>2, <2>3
    <3>. QED
      BY <2>1, <3>1
  <2>5. PICK g : Fits(g, k - 1)
    BY <2>4 DEF Defined
  <2>. DEFINE f == [i \in 1..k |-> IF i = 1 THEN s[i] ELSE g[i-1] \o s[i]]
  <2>6. ASSUME NEW i \in 1..k, i # 1
        PROVE  f[i-1] = g[i-1]
    <3>1. i - 1 \in 1..(k - 1) /\ i - 1 \in 1..k
      BY <2>2, <2>6
    <3>2. g[i-1] = IF i - 1 = 1 THEN s[i-1] ELSE g[(i-1)-1] \o s[i-1]
      BY <2>5, <3>1
    <3>3. f[i-1] = IF i - 1 = 1 THEN s[i-1] ELSE g[(i-1)-1] \o s[i-1]
      BY <3>1
    <3>. QED
      BY <3>2, <3>3
  <2>7. f = [i \in 1..k |-> IF i = 1 THEN s[i] ELSE f[i-1] \o s[i]]
    BY <2>6
  <2>. QED
    BY <2>2, <2>7 DEF Defined
<1>2. Defined(L)
  <2>. HIDE DEF Defined
  <2>1. L \in 0..L
    OBVIOUS
  <2>. QED
    BY <1>1, <2>1
<1>. QED
  BY <1>2 DEF Defined

(* What FlattenSeq returns: a sequence of the same elements that starts as the first one does. *)
LEMMA FlattenIs ==
  ASSUME NEW T, NEW s \in Seq(Seq(T)), s # <<>>, s[1] # <<>>
  PROVE  FlattenSeq(s) \in Seq(T) /\ FlattenSeq(s) # <<>> /\ FlattenSeq(s)[1] = s[1][1]
<1>. DEFINE L == Len(s)
            Around(f) == [i \in 1..L |-> IF i = 1 THEN s[i] ELSE f[i-1] \o s[i]]
            g == CHOOSE f : f = Around(f)
            Fine(k) == g[k] \in Seq(T) /\ Len(g[k]) # 0 /\ g[k][1] = s[1][1]
            Bad == {k \in 1..L : ~Fine(k)}
<1>1. L \in Nat /\ L # 0 /\ \A i \in 1..L : s[i] \in Seq(T)
  OBVIOUS
<1>2. FlattenSeq(s) = g[L]
  BY <1>1 DEF FlattenSeq
<1>3. g = Around(g)
  <2>1. \E f : f = Around(f)
    BY <1>1, FlattenDefined
  <2>. HIDE DEF Around
  <2>. QED
    BY <2>1
<1>. HIDE DEF g
<1>4. \A i \in 1..L : g[i] = IF i = 1 THEN s[i] ELSE g[i-1] \o s[i]
  BY <1>3
<1>. HIDE DEF Around, L
<1>5. ASSUME Bad # {}
      PROVE  FALSE
  <2>. DEFINE k == Min(Bad)
  <2>1. Bad \in SUBSET Nat
    BY <1>1
  <2>2. k \in Bad /\ \A x \in Bad : k <= x
    <3>. HIDE DEF Bad
    <3>. QED
      BY <1>5, <2>1, MinIn
  <2>. HIDE DEF k
  <2>3. k \in 1..L /\ ~Fine(k)
    BY <2>2
  <2>4. CASE k = 1
    BY <1>1, <1>4, <2>3, <2>4
  <2>5. CASE k # 1
    <3>1. k - 1 \in 1..L /\ ~(k <= k - 1)
      BY <1>1, <2>3, <2>5
    <3>2. Fine(k - 1)
      BY <2>2, <3>1
    <3>3. g[k] = g[k-1] \o s[k] /\ s[k] \in Seq(T)
      BY <1>1, <1>4, <2>3, <2>5
    <3>4. ASSUME NEW a \in Seq(T), NEW b \in Seq(T), Len(a) # 0
          PROVE  a \o b \in Seq(T) /\ Len(a \o b) # 0 /\ (a \o b)[1] = a[1]
      BY <3>4
    <3>5. Fine(k)
      BY <3>2, <3>3, <3>4, ZenonT(40)
    <3>. QED
      BY <2>3, <3>5
  <2>. QED
    BY <2>4, <2>5
<1>6. Fine(L)
  <2>1. L \in 1..L
    BY <1>1
  <2>. HIDE DEF Fine
  <2>. QED
    BY <1>5, <2>1
<1>. QED
  BY <1>2, <1>6

(* An appended sequence starts as before, or with what is appended. *)
LEMMA AppendStarts ==
  ASSUME NEW T, NEW s \in Seq(T), NEW e \in T
  PROVE  Append(s, e) \in Seq(T) /\ Append(s, e) # <<>> /\ Append(s, e)[1] = IF s = <<>> THEN e ELSE s[1]
<1>1. CASE s = <<>>
  BY <1>1
<1>2. CASE s # <<>>
  BY <1>2
<1>. QED
  BY <1>1, <1>2

\* What FlattenSeq computes, one sequence after the other.
Flattens(g, s) == \A i \in 1..Len(s) : g[i] = IF i = 1 THEN s[i] ELSE g[i - 1] \o s[i]

\* FlattenSeq ends with the last of what it computes.
LEMMA FlattenRuns ==
  ASSUME NEW T, NEW s \in Seq(T), s # <<>>
  PROVE  \E g : Flattens(g, s) /\ FlattenSeq(s) = g[Len(s)]
<1>. DEFINE L == Len(s)
            Around(f) == [i \in 1..L |-> IF i = 1 THEN s[i] ELSE f[i-1] \o s[i]]
            g == CHOOSE f : f = Around(f)
<1>1. L \in Nat /\ L # 0
  OBVIOUS
<1>2. FlattenSeq(s) = g[L]
  BY <1>1 DEF FlattenSeq
<1>3. g = Around(g)
  <2>1. \E f : f = Around(f)
    BY <1>1, FlattenDefined
  <2>. HIDE DEF Around
  <2>. QED
    BY <2>1
<1>. HIDE DEF g
<1>4. \A i \in 1..L : g[i] = IF i = 1 THEN s[i] ELSE g[i-1] \o s[i]
  BY <1>3
<1>. QED
  BY <1>2, <1>4 DEF Flattens

\* One computation continues another.
Prolongs(T, s, t, g, h) ==
  /\ s \in Seq(Seq(T)) /\ t \in Seq(Seq(T)) /\ Flattens(g, s) /\ Flattens(h, t)
  /\ Len(s) <= Len(t) /\ \A i \in 1..Len(s) : t[i] = s[i]

\* Two computations agree as long as their sequences do.
LEMMA FlattensAlike ==
  ASSUME NEW T, NEW s, NEW t, NEW g, NEW h, Prolongs(T, s, t, g, h)
  PROVE  \A k \in 1..Len(s) : g[k] \in Seq(T) /\ h[k] = g[k]
<1>. USE DEF Prolongs
<1>. DEFINE Fine(k) == g[k] \in Seq(T) /\ h[k] = g[k]
            Bad == {k \in 1..Len(s) : ~Fine(k)}
<1>0. Len(s) \in Nat /\ Len(t) \in Nat /\ \A i \in 1..Len(s) : s[i] \in Seq(T)
  OBVIOUS
<1>1. ASSUME Bad # {}
      PROVE  FALSE
  <2>. DEFINE k == Min(Bad)
  <2>1. Bad \in SUBSET Nat
    BY <1>0
  <2>2. k \in Bad /\ \A x \in Bad : k <= x
    <3>. HIDE DEF Bad
    <3>. QED
      BY <1>1, <2>1, MinIn
  <2>. HIDE DEF k
  <2>3. k \in 1..Len(s) /\ ~Fine(k)
    BY <2>2
  <2>4. /\ g[k] = IF k = 1 THEN s[k] ELSE g[k - 1] \o s[k]
        /\ h[k] = IF k = 1 THEN t[k] ELSE h[k - 1] \o t[k]
    <3>1. Flattens(g, s) /\ Flattens(h, t) /\ Len(s) <= Len(t)
      OBVIOUS
    <3>2. k \in 1..Len(s) /\ k \in 1..Len(t)
      BY ONLY <1>0, <2>3, <3>1
    <3>3. g[k] = IF k = 1 THEN s[k] ELSE g[k - 1] \o s[k]
      BY ONLY <3>1, <3>2 DEF Flattens
    <3>4. h[k] = IF k = 1 THEN t[k] ELSE h[k - 1] \o t[k]
      BY ONLY <3>1, <3>2 DEF Flattens
    <3>. QED
      BY ONLY <3>3, <3>4
  <2>5. CASE k = 1
    BY <1>0, <2>3, <2>4, <2>5
  <2>6. CASE k # 1
    <3>1. k - 1 \in 1..Len(s) /\ ~(k <= k - 1)
      BY <1>0, <2>3, <2>6
    <3>2. Fine(k - 1)
      BY <2>2, <3>1
    <3>3. s[k] \in Seq(T) /\ t[k] = s[k]
      BY <1>0, <2>3
    <3>. QED
      BY <2>3, <2>4, <2>6, <3>2, <3>3
  <2>. QED
    BY <2>5, <2>6
<1>. QED
  BY <1>1

\* What Append returns.
LEMMA AppendIs ==
  ASSUME NEW T, NEW s \in Seq(T), NEW e \in T
  PROVE  /\ Append(s, e) \in Seq(T) /\ Append(s, e) # <<>>
         /\ Len(s) \in Nat /\ Len(Append(s, e)) = Len(s) + 1
         /\ Append(s, e)[Len(s) + 1] = e /\ \A i \in 1..Len(s) : Append(s, e)[i] = s[i]
  OBVIOUS

\* The function that Append returns.
LEMMA AppendShape ==
  ASSUME NEW T, NEW a \in Seq(T), NEW b \in T
  PROVE  Append(a, b) = [i \in 1..(Len(a) + 1) |-> IF i = Len(a) + 1 THEN b ELSE a[i]]
<1>. DEFINE n == Len(a)
            c == Append(a, b)
<1>1. n \in Nat /\ DOMAIN c = 1..(n + 1) /\ c[n + 1] = b /\ \A i \in 1..n : c[i] = a[i]
  BY AppendIs
<1>2. c = [i \in DOMAIN c |-> c[i]]
  <2>1. c \in Seq(T)
    BY AppendIs
  <2>. HIDE DEF c
  <2>2. c \in [1..Len(c) -> T]
    BY <2>1
  <2>3. \A f \in [1..Len(c) -> T] : f = [i \in DOMAIN f |-> f[i]]
    OBVIOUS
  <2>. QED
    BY <2>2, <2>3
<1>. HIDE DEF c, n
<1>3. \A i \in 1..(n + 1) : c[i] = IF i = n + 1 THEN b ELSE a[i]
  BY <1>1
<1>4. c = [i \in 1..(n + 1) |-> IF i = n + 1 THEN b ELSE a[i]]
  BY <1>1, <1>2, <1>3
<1>. QED
  BY <1>4 DEF c, n

\* What two sequences in a row are.
LEMMA ConcatIs ==
  ASSUME NEW T, NEW s \in Seq(T), NEW t \in Seq(T)
  PROVE  /\ s \o t \in Seq(T) /\ Len(s \o t) = Len(s) + Len(t)
         /\ \A i \in 1..Len(s) : (s \o t)[i] = s[i]
         /\ \A i \in 1..Len(t) : (s \o t)[Len(s) + i] = t[i]
<1>1. s \o t \in Seq(T) /\ Len(s \o t) = Len(s) + Len(t)
  OBVIOUS
<1>2. \A i \in 1..Len(s) : (s \o t)[i] = s[i]
  OBVIOUS
<1>3. ASSUME NEW i \in 1..Len(t)
      PROVE  (s \o t)[Len(s) + i] = t[i]
  <2>1. Len(s) \in Nat /\ Len(s) + i \in 1..(Len(s) + Len(t)) /\ ~(Len(s) + i <= Len(s)) /\ (Len(s) + i) - Len(s) = i
    OBVIOUS
  <2>. QED
    BY <2>1
<1>. QED
  BY <1>1, <1>2, <1>3

\* Sequences of the same elements are equal.
LEMMA SameSequence ==
  ASSUME NEW T, NEW s \in Seq(T), NEW t \in Seq(T), Len(s) = Len(t), \A i \in 1..Len(s) : s[i] = t[i]
  PROVE  s = t
<1>1. s \in [1..Len(s) -> T] /\ t \in [1..Len(s) -> T]
  OBVIOUS
<1>. QED
  BY <1>1

\* What is appended to nothing stands alone.
LEMMA AppendToNone ==
  ASSUME NEW e
  PROVE  Append(<<>>, e) = <<e>>
<1>1. Append(<<>>, e) \in Seq({e}) /\ <<e>> \in Seq({e}) /\ Len(Append(<<>>, e)) = 1 /\ Len(<<e>>) = 1
      /\ Append(<<>>, e)[1] = e /\ <<e>>[1] = e
  <2>1. <<>> \in Seq({e}) /\ Len(<<>>) = 0 /\ 0 + 1 = 1
    OBVIOUS
  <2>2. /\ Append(<<>>, e) \in Seq({e}) /\ Len(Append(<<>>, e)) = Len(<<>>) + 1
        /\ Append(<<>>, e)[Len(<<>>) + 1] = e
    BY <2>1, AppendIs
  <2>3. <<e>> \in Seq({e}) /\ Len(<<e>>) = 1 /\ <<e>>[1] = e
    OBVIOUS
  <2>. QED
    BY <2>1, <2>2, <2>3
<1>2. \A i \in 1..1 : i = 1
  OBVIOUS
<1>. QED
  BY <1>1, <1>2, SameSequence

\* A sequence appended to some is flattened after them.
LEMMA FlattenAppends ==
  ASSUME NEW T, NEW s \in Seq(Seq(T)), NEW e \in Seq(T)
  PROVE  FlattenSeq(s) \in Seq(T) /\ FlattenSeq(Append(s, e)) = FlattenSeq(s) \o e
<1>. DEFINE t == Append(s, e)
            L == Len(s)
<1>1. /\ t \in Seq(Seq(T)) /\ t # <<>> /\ Len(t) = L + 1 /\ t[L + 1] = e
      /\ \A i \in 1..L : t[i] = s[i]
      /\ L \in Nat
  <2>. DEFINE U == Seq(T)
  <2>1. s \in Seq(U) /\ e \in U
    OBVIOUS
  <2>. HIDE DEF U
  <2>2. /\ t \in Seq(U) /\ t # <<>> /\ Len(t) = L + 1 /\ t[L + 1] = e
        /\ \A i \in 1..L : t[i] = s[i]
        /\ L \in Nat
    BY <2>1, AppendIs
  <2>. QED
    BY <2>2 DEF U
<1>. HIDE DEF t
<1>2. PICK h : Flattens(h, t) /\ FlattenSeq(t) = h[L + 1]
  BY <1>1, FlattenRuns
<1>3. h[L + 1] = IF L + 1 = 1 THEN e ELSE h[L] \o e
  BY <1>1, <1>2 DEF Flattens
<1>4. CASE s = <<>>
  <2>1. FlattenSeq(s) = <<>>
    BY <1>4 DEF FlattenSeq
  <2>2. L = 0 /\ FlattenSeq(t) = e
    BY <1>2, <1>3, <1>4
  <2>3. <<>> \in Seq(T) /\ <<>> \o e = e
    OBVIOUS
  <2>. QED
    BY <2>1, <2>2, <2>3 DEF t
<1>5. CASE s # <<>>
  <2>1. PICK g : Flattens(g, s) /\ FlattenSeq(s) = g[L]
    BY <1>5, FlattenRuns
  <2>2. L \in 1..L
    BY <1>1, <1>5
  <2>3. g[L] \in Seq(T) /\ h[L] = g[L]
    <3>1. Len(s) <= Len(t) /\ \A i \in 1..Len(s) : t[i] = s[i]
      BY <1>1
    <3>2. \A k \in 1..Len(s) : g[k] \in Seq(T) /\ h[k] = g[k]
      <4>1. Prolongs(T, s, t, g, h)
        BY <1>1, <1>2, <2>1, <3>1 DEF Prolongs
      <4>. QED
        BY <4>1, FlattensAlike
    <3>. QED
      BY <2>2, <3>2
  <2>4. L + 1 # 1
    BY <1>1, <2>2
  <2>5. FlattenSeq(t) = FlattenSeq(s) \o e
    BY <1>2, <1>3, <2>1, <2>3, <2>4
  <2>. QED
    BY <2>1, <2>3, <2>5 DEF t
<1>. QED
  BY <1>4, <1>5

\* Two elements, one appended to the other.
LEMMA AppendToOne ==
  ASSUME NEW a, NEW b
  PROVE  Append(<<a>>, b) = <<a, b>>
<1>. DEFINE T == {a, b}
<1>1. <<a>> \in Seq(T) /\ <<a, b>> \in Seq(T)
  OBVIOUS
<1>2. b \in T
  OBVIOUS
<1>3. Append(<<a>>, b) \in Seq(T)
  <2>. HIDE DEF T
  <2>. QED
    BY <1>1, <1>2, AppendIs
<1>4. Len(<<a>>) = 1 /\ Len(<<a, b>>) = 2 /\ <<a>>[1] = a /\ <<a, b>>[1] = a /\ <<a, b>>[2] = b
  OBVIOUS
<1>5. Len(Append(<<a>>, b)) = 2 /\ Append(<<a>>, b)[1] = a /\ Append(<<a>>, b)[2] = b
  BY <1>1, <1>2, <1>4, AppendIs
<1>6. \A i \in 1..2 : Append(<<a>>, b)[i] = <<a, b>>[i]
  BY <1>4, <1>5
<1>. QED
  BY <1>1, <1>3, <1>4, <1>5, <1>6, SameSequence
=============================================================================
