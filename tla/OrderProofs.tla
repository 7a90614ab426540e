----------------------------- MODULE OrderProofs ----------------------------
(***************************************************************************)
(* Facts about sequences, and about the operators of Order.                *)
(***************************************************************************)
EXTENDS Order, SequencesExt, FiniteSetTheorems, WellFoundedInduction, NaturalsInduction, TLAPS

-----------------------------------------------------------------------------
(* Sequences.                                                              *)

\* A set of naturals has a least element.
LEMMA Least ==
  ASSUME NEW S \in SUBSET Nat, S # {}
  PROVE  \E x \in S : \A y \in S : x <= y
<1> DEFINE R == OpToRel(<, Nat)
<1>1. IsWellFoundedOn(R, Nat)
  BY NatLessThanWellFounded
<1>2. R = {ss \in Nat \X Nat : ss[1] < ss[2]}
  BY DEF OpToRel
<1> HIDE DEF R
<1>3. PICK x \in S : \A y \in S : ~(<<y, x>> \in R)
  BY <1>1, WFMin
<1>4. \A y \in S : ~(y < x)
  BY <1>2, <1>3
<1> QED
  BY <1>3, <1>4

\* A sequence is a function on the numbers up to its length.
LEMMA SeqIs ==
  ASSUME NEW S, NEW q \in Seq(S)
  PROVE  /\ q \in [1..Len(q) -> S] /\ Len(q) \in Nat /\ DOMAIN q = 1..Len(q)
         /\ \A i \in 1..Len(q) : q[i] \in S
         /\ q = [i \in 1..Len(q) |-> q[i]]
  OBVIOUS

\* Two sequences with the same elements are the same.
LEMMA SeqEq ==
  ASSUME NEW S, NEW T, NEW p \in Seq(S), NEW q \in Seq(T), Len(p) = Len(q),
         \A i \in 1..Len(p) : p[i] = q[i]
  PROVE  p = q
  BY SeqIs

\* Concatenation, element by element.
LEMMA ConcatIs ==
  ASSUME NEW S, NEW p \in Seq(S), NEW q \in Seq(S)
  PROVE  /\ p \o q \in Seq(S) /\ Len(p \o q) = Len(p) + Len(q)
         /\ \A i \in 1..(Len(p) + Len(q)) :
              (p \o q)[i] = IF i <= Len(p) THEN p[i] ELSE q[i - Len(p)]
  OBVIOUS

-----------------------------------------------------------------------------
(* Sorted.                                                                 *)

\* Every position is taken by exactly the element of that rank.
LEMMA Ranks ==
  ASSUME NEW S \in SUBSET Nat, IsFiniteSet(S)
  PROVE  /\ Cardinality(S) \in Nat
         /\ \A x \in S : Cardinality(Upto(S, x)) \in 1..Cardinality(S)
         /\ \A x, y \in S : x < y => Cardinality(Upto(S, x)) < Cardinality(Upto(S, y))
         /\ \A i \in 1..Cardinality(S) : \E x \in S : Cardinality(Upto(S, x)) = i
<1> DEFINE n == Cardinality(S)
           f == [x \in S |-> Cardinality(Upto(S, x))]
<1>1. n \in Nat
  BY FS_CardinalityType
<1>2. \A x \in S : /\ IsFiniteSet(Upto(S, x)) /\ Cardinality(Upto(S, x)) \in Nat
                   /\ Cardinality(Upto(S, x)) <= n
  <2>1. TAKE x \in S
  <2>2. Upto(S, x) \in SUBSET S
    BY DEF Upto
  <2> QED
    BY <2>2, FS_Subset, FS_CardinalityType
<1>3. \A x \in S : Cardinality(Upto(S, x)) # 0
  <2>1. TAKE x \in S
  <2>2. x \in Upto(S, x)
    BY DEF Upto
  <2> QED
    BY <2>2, <1>2, FS_EmptySet
<1>4. \A x \in S : Cardinality(Upto(S, x)) \in 1..n
  BY <1>1, <1>2, <1>3
<1>5. \A x, y \in S : x < y => Cardinality(Upto(S, x)) < Cardinality(Upto(S, y))
  <2>1. SUFFICES ASSUME NEW x \in S, NEW y \in S, x < y
                 PROVE  Cardinality(Upto(S, x)) < Cardinality(Upto(S, y))
    OBVIOUS
  <2>2. Upto(S, x) \in SUBSET Upto(S, y)
    <3>1. \A z \in S : z <= x => z <= y
      BY <2>1
    <3> QED
      BY <3>1 DEF Upto
  <2>3. Upto(S, x) # Upto(S, y)
    <3>1. y \in Upto(S, y) /\ y \notin Upto(S, x)
      BY <2>1 DEF Upto
    <3> QED
      BY <3>1
  <2>4. /\ Cardinality(Upto(S, x)) <= Cardinality(Upto(S, y))
        /\ Cardinality(Upto(S, x)) # Cardinality(Upto(S, y))
    BY <1>2, <2>2, <2>3, FS_Subset
  <2> QED
    BY <1>2, <2>4
<1>6. f \in Injection(S, 1..n)
  <2>1. f \in [S -> 1..n]
    BY <1>4
  <2>2. \A x, y \in S : f[x] = f[y] => x = y
    <3>1. SUFFICES ASSUME NEW x \in S, NEW y \in S, f[x] = f[y] PROVE x = y
      OBVIOUS
    <3>2. x < y \/ y < x \/ x = y
      OBVIOUS
    <3>3. Cardinality(Upto(S, x)) = Cardinality(Upto(S, y)) /\ Cardinality(Upto(S, x)) \in Nat
      BY <3>1, <1>2
    <3> QED
      BY <3>2, <3>3, <1>5
  <2> QED
    BY <2>1, <2>2 DEF Injection, IsInjective
<1>7. IsFiniteSet(1..n) /\ Cardinality(1..n) = n
  BY <1>1, FS_Interval
<1>8. f \in Surjection(S, 1..n)
  <2> HIDE DEF f, n
  <2> QED
    BY <1>6, <1>7, FS_Injection DEF n
<1>9. \A i \in 1..n : \E x \in S : f[x] = i
  BY <1>8 DEF Surjection
<1> QED
  BY <1>1, <1>4, <1>5, <1>9

\* The sorted elements: each once, in increasing order.
LEMMA SortedIs ==
  ASSUME NEW S \in SUBSET Nat, IsFiniteSet(S)
  PROVE  /\ Cardinality(S) \in Nat
         /\ Sorted(S) \in Seq(S) /\ Len(Sorted(S)) = Cardinality(S)
         /\ \A i, j \in 1..Cardinality(S) : i < j => Sorted(S)[i] < Sorted(S)[j]
<1> DEFINE n == Cardinality(S)
<1>1. n \in Nat
  BY Ranks
<1>2. \A i \in 1..n : Sorted(S)[i] \in S /\ Cardinality(Upto(S, Sorted(S)[i])) = i
  BY Ranks DEF Sorted
<1>3. Sorted(S) \in [1..n -> S]
  BY <1>2 DEF Sorted
<1>4. Sorted(S) \in Seq(S) /\ Len(Sorted(S)) = n
  BY <1>1, <1>3
<1>5. \A i, j \in 1..n : i < j => Sorted(S)[i] < Sorted(S)[j]
  <2>1. SUFFICES ASSUME NEW i \in 1..n, NEW j \in 1..n, i < j
                 PROVE  Sorted(S)[i] < Sorted(S)[j]
    OBVIOUS
  <2> DEFINE x == Sorted(S)[i]
             y == Sorted(S)[j]
  <2>2. /\ x \in S /\ y \in S
        /\ Cardinality(Upto(S, x)) = i /\ Cardinality(Upto(S, y)) = j
    BY <1>2
  <2> HIDE DEF x, y
  <2>3. x # y /\ ~(y < x)
    BY <2>1, <2>2, Ranks
  <2>4. x < y
    BY <2>2, <2>3
  <2> QED
    BY <2>4 DEF x, y
<1> QED
  BY <1>1, <1>4, <1>5

\* An increasing sequence is its own set, sorted.
LEMMA SortedUnique ==
  ASSUME NEW q \in Seq(Nat), NEW S, S = {q[i] : i \in 1..Len(q)},
         \A i, j \in 1..Len(q) : i < j => q[i] < q[j]
  PROVE  /\ IsFiniteSet(S) /\ Cardinality(S) = Len(q) /\ Sorted(S) = q
<1> DEFINE n == Len(q)
<1>1. n \in Nat /\ q \in [1..n -> Nat] /\ S \in SUBSET Nat
  OBVIOUS
<1>2. \A i, j \in 1..n : q[i] <= q[j] <=> i <= j
  <2>1. TAKE i \in 1..n, j \in 1..n
  <2>2. q[i] \in Nat /\ q[j] \in Nat /\ i \in Nat /\ j \in Nat
    BY <1>1
  <2>3. (i < j => q[i] < q[j]) /\ (j < i => q[j] < q[i]) /\ (i = j => q[i] = q[j])
    OBVIOUS
  <2> QED
    BY <2>2, <2>3
<1>3. \A m \in 0..n : LET T == {q[i] : i \in 1..m} IN IsFiniteSet(T) /\ Cardinality(T) = m
  <2>1. SUFFICES ASSUME NEW m \in 0..n, NEW T, T = {q[i] : i \in 1..m}
                 PROVE  IsFiniteSet(T) /\ Cardinality(T) = m
    OBVIOUS
  <2>2. m \in Nat /\ 1..m \subseteq 1..n
    BY <1>1
  <2> DEFINE g == [i \in 1..m |-> q[i]]
  <2>3. g \in [1..m -> T]
    BY <2>1
  <2>4. \A i, j \in 1..m : g[i] = g[j] => i = j
    <3>1. TAKE i \in 1..m, j \in 1..m
    <3>2. HAVE g[i] = g[j]
    <3>3. q[i] = q[j] /\ i \in 1..n /\ j \in 1..n /\ q[i] \in Nat
      BY <3>2, <2>2, <1>1
    <3>4. i <= j /\ j <= i
      BY <3>3, <1>2
    <3> QED
      BY <3>4
  <2>5. \A y \in T : \E i \in 1..m : g[i] = y
    BY <2>1
  <2>6. g \in Bijection(1..m, T)
    BY <2>3, <2>4, <2>5 DEF Bijection, Injection, Surjection, IsInjective
  <2>7. ExistsBijection(1..m, T)
    BY <2>6 DEF ExistsBijection
  <2>8. IsFiniteSet(1..m) /\ Cardinality(1..m) = m
    BY <2>2, FS_Interval
  <2> QED
    BY <2>7, <2>8, FS_Bijection
<1>4. IsFiniteSet(S) /\ Cardinality(S) = n
  <2>1. n \in 0..n
    BY <1>1
  <2> QED
    BY <2>1, <1>3
<1>5. \A i \in 1..n : Cardinality(Upto(S, q[i])) = i
  <2>1. TAKE i \in 1..n
  <2>2. Upto(S, q[i]) = {q[j] : j \in 1..i}
    <3>1. \A j \in 1..n : q[j] <= q[i] <=> j \in 1..i
      BY <1>2
    <3>2. 1..i \subseteq 1..n
      BY <1>1
    <3> QED
      BY <3>1, <3>2 DEF Upto
  <2>3. i \in 0..n
    BY <1>1
  <2> QED
    BY <1>3, <2>2, <2>3
<1>6. \A i \in 1..n : Sorted(S)[i] = q[i]
  <2>1. TAKE i \in 1..n
  <2>2. \A x \in S : Cardinality(Upto(S, x)) = i => x = q[i]
    <3>1. TAKE x \in S
    <3>2. PICK j \in 1..n : x = q[j]
      OBVIOUS
    <3> QED
      BY <3>2, <1>5
  <2>3. q[i] \in S
    OBVIOUS
  <2>4. Sorted(S)[i] = CHOOSE x \in S : Cardinality(Upto(S, x)) = i
    BY <1>4 DEF Sorted
  <2> QED
    BY <2>2, <2>3, <2>4, <1>5
<1>7. Sorted(S) = [i \in 1..n |-> Sorted(S)[i]]
  <2>1. Sorted(S) \in Seq(S) /\ Len(Sorted(S)) = n
    BY <1>1, <1>4, SortedIs
  <2> QED
    BY <2>1, SeqIs
<1>8. q = [i \in 1..n |-> q[i]]
  BY <1>1
<1>9. Sorted(S) = q
  <2> HIDE DEF n
  <2> QED
    BY <1>6, <1>7, <1>8
<1> QED
  BY <1>4, <1>9

\* The sorted elements are all there.
LEMMA SortedRange ==
  ASSUME NEW S \in SUBSET Nat, IsFiniteSet(S)
  PROVE  S = {Sorted(S)[i] : i \in 1..Cardinality(S)}
<1>1. \A i \in 1..Cardinality(S) : Sorted(S)[i] \in S /\ Cardinality(Upto(S, Sorted(S)[i])) = i
  BY Ranks DEF Sorted
<1>2. \A y \in S : \E i \in 1..Cardinality(S) : y = Sorted(S)[i]
  <2>1. TAKE y \in S
  <2> DEFINE i == Cardinality(Upto(S, y))
             x == Sorted(S)[i]
  <2>2. i \in 1..Cardinality(S)
    BY Ranks
  <2>3. x \in S /\ Cardinality(Upto(S, x)) = i
    BY <1>1, <2>2
  <2> HIDE DEF x
  <2>4. ~(x < y) /\ ~(y < x)
    BY <2>2, <2>3, Ranks
  <2>5. x = y
    BY <2>3, <2>4
  <2> QED
    BY <2>2, <2>5 DEF x
<1> QED
  BY <1>1, <1>2

\* A larger element comes last.
LEMMA SortedAppend ==
  ASSUME NEW S \in SUBSET Nat, IsFiniteSet(S), NEW x \in Nat, \A y \in S : y < x
  PROVE  Sorted(S \union {x}) = Append(Sorted(S), x)
<1> DEFINE q == Sorted(S)
           n == Cardinality(S)
           r == Append(q, x)
<1>1. /\ n \in Nat /\ q \in Seq(S) /\ Len(q) = n
      /\ \A i, j \in 1..n : i < j => q[i] < q[j]
  BY SortedIs
<1>2. S = {q[i] : i \in 1..n}
  BY SortedRange
<1> HIDE DEF q, n
<1>3. q \in Seq(Nat) /\ \A i \in 1..n : q[i] \in S
  <2>1. q \in [1..n -> S]
    BY <1>1, SeqIs
  <2>2. q \in [1..n -> Nat]
    BY <2>1
  <2> QED
    BY <1>1, <2>1, <2>2
<1>4. /\ r \in Seq(Nat) /\ Len(r) = n + 1 /\ r[n + 1] = x
      /\ \A i \in 1..n : r[i] = q[i]
  BY <1>1, <1>3
<1> HIDE DEF r
<1>5. \A i \in 1..(n + 1) : i \in 1..n \/ i = n + 1
  BY <1>1
<1>6. 1..n \subseteq 1..(n + 1) /\ n + 1 \in 1..(n + 1)
  BY <1>1
<1>7. S \union {x} = {r[i] : i \in 1..Len(r)}
  BY <1>2, <1>4, <1>5, <1>6
<1>8. \A i, j \in 1..Len(r) : i < j => r[i] < r[j]
  <2>1. SUFFICES ASSUME NEW i \in 1..(n + 1), NEW j \in 1..(n + 1), i < j
                 PROVE  r[i] < r[j]
    BY <1>4
  <2>2. i \in 1..n
    BY <1>1, <2>1
  <2>3. CASE j \in 1..n
    BY <1>1, <1>4, <2>1, <2>2, <2>3
  <2>4. CASE j = n + 1
    BY <1>3, <1>4, <2>2, <2>4
  <2> QED
    BY <1>5, <2>3, <2>4
<1>9. Sorted(S \union {x}) = r
  BY <1>4, <1>7, <1>8, SortedUnique
<1> QED
  BY <1>9 DEF r, q

\* Nothing, sorted.
LEMMA SortedEmpty == Sorted({}) = <<>>
  BY FS_EmptySet DEF Sorted

-----------------------------------------------------------------------------
(* At.                                                                     *)

\* Positions of a sequence are finitely many.
LEMMA PositionsFinite ==
  ASSUME NEW n \in Nat, NEW J \in SUBSET (1..n)
  PROVE  J \in SUBSET Nat /\ IsFiniteSet(J)
<1>1. IsFiniteSet(1..n)
  BY FS_Interval
<1>2. IsFiniteSet(J)
  BY <1>1, FS_Subset
<1>3. 1..n \subseteq Nat
  OBVIOUS
<1> QED
  BY <1>2, <1>3

\* A function on 1..n is a sequence.
LEMMA FunctionSeq ==
  ASSUME NEW S, NEW n \in Nat, NEW f \in [1..n -> S]
  PROVE  f \in Seq(S) /\ Len(f) = n
  OBVIOUS

\* The elements at J, each at one place and in their order.
LEMMA AtIs ==
  ASSUME NEW S, NEW q \in Seq(S), NEW J \in SUBSET (1..Len(q)), NEW r, r = At(q, J)
  PROVE  /\ r \in Seq(S) /\ Len(r) \in Nat
         /\ \A i \in 1..Len(r) : \E j \in J : r[i] = q[j]
         /\ \A j \in J : \E i \in 1..Len(r) : r[i] = q[j]
<1>1. Len(q) \in Nat /\ \A i \in 1..Len(q) : q[i] \in S
  BY SeqIs
<1>2. J \in SUBSET Nat /\ IsFiniteSet(J)
  BY <1>1, PositionsFinite
<1>3. PICK a, n : a = Sorted(J) /\ n = Cardinality(J)
  OBVIOUS
<1>4. /\ n \in Nat /\ a \in Seq(J) /\ Len(a) = n /\ J = {a[i] : i \in 1..n}
  BY <1>2, <1>3, SortedIs, SortedRange
<1>5. DOMAIN a = 1..n /\ \A i \in 1..n : a[i] \in J
  BY <1>4, SeqIs
<1>6. r = [i \in 1..n |-> q[a[i]]]
  BY <1>3, <1>5 DEF At
<1>7. r \in [1..n -> S]
  BY <1>1, <1>5, <1>6
<1>8. r \in Seq(S) /\ Len(r) = n
  <2>1. n \in Nat
    BY <1>4
  <2> QED
    BY <1>7, <2>1, FunctionSeq
<1>9. \A i \in 1..n : r[i] = q[a[i]]
  BY <1>6
<1>10. \A i \in 1..n : \E j \in J : r[i] = q[j]
  BY <1>5, <1>9
<1>11. \A j \in J : \E i \in 1..n : r[i] = q[j]
  BY <1>4, <1>9
<1>12. Len(r) \in Nat /\ 1..Len(r) = 1..n
  BY <1>4, <1>8
<1> QED
  BY <1>8, <1>10, <1>11, <1>12

\* a lists the positions J in order.
Lists(a, J) ==
  /\ Len(a) \in Nat /\ a \in [1..Len(a) -> J] /\ J = {a[i] : i \in 1..Len(a)}
  /\ \A i, j \in 1..Len(a) : i < j => a[i] < a[j]

\* The elements at J, position by position.
LEMMA AtLists ==
  ASSUME NEW S, NEW q \in Seq(S), NEW J \in SUBSET (1..Len(q)), NEW r, r = At(q, J)
  PROVE  \E a : /\ Lists(a, J) /\ r \in Seq(S) /\ Len(r) = Len(a)
                /\ \A i \in 1..Len(a) : r[i] = q[a[i]]
<1>1. Len(q) \in Nat /\ \A i \in 1..Len(q) : q[i] \in S
  BY SeqIs
<1>2. J \in SUBSET Nat /\ IsFiniteSet(J)
  BY <1>1, PositionsFinite
<1>3. PICK a, n : a = Sorted(J) /\ n = Cardinality(J)
  OBVIOUS
<1>4. /\ n \in Nat /\ a \in Seq(J) /\ Len(a) = n /\ J = {a[i] : i \in 1..n}
      /\ \A i, j \in 1..n : i < j => a[i] < a[j]
  BY <1>2, <1>3, SortedIs, SortedRange
<1>5. DOMAIN a = 1..n /\ a \in [1..n -> J] /\ \A i \in 1..n : a[i] \in J
  BY <1>4, SeqIs
<1>6. r = [i \in 1..n |-> q[a[i]]]
  BY <1>3, <1>5 DEF At
<1>7. r \in [1..n -> S]
  BY <1>1, <1>5, <1>6
<1>8. r \in Seq(S) /\ Len(r) = n
  <2>1. n \in Nat
    BY <1>4
  <2> QED
    BY <1>7, <2>1, FunctionSeq
<1>9. \A i \in 1..n : r[i] = q[a[i]]
  BY <1>6
<1>10. Lists(a, J)
  BY <1>4, <1>5 DEF Lists
<1> QED
  BY <1>4, <1>8, <1>9, <1>10

\* The elements from a to b.
LEMMA AtInterval ==
  ASSUME NEW S, NEW q \in Seq(S), NEW a \in Nat \ {0}, NEW b \in Nat, a <= b + 1,
         b <= Len(q)
  PROVE  At(q, a..b) = SubSeq(q, a, b)
<1>1. PICK n, p : n = b - a + 1 /\ p = [i \in 1..n |-> i + a - 1]
  OBVIOUS
<1>2. n \in Nat /\ Len(q) \in Nat
  BY <1>1
<1>3. p \in Seq(Nat) /\ Len(p) = n /\ \A i \in 1..n : p[i] = i + a - 1
  <2>1. p \in [1..n -> Nat]
    BY <1>1, <1>2
  <2> QED
    BY <1>1, <1>2, <2>1
<1>4. a..b = {p[i] : i \in 1..Len(p)}
  <2>1. \A x \in a..b : x - a + 1 \in 1..n /\ p[x - a + 1] = x
    BY <1>1, <1>2, <1>3
  <2>2. \A i \in 1..n : p[i] \in a..b
    BY <1>1, <1>2, <1>3
  <2> QED
    BY <1>3, <2>1, <2>2
<1>5. \A i, j \in 1..Len(p) : i < j => p[i] < p[j]
  BY <1>3
<1>6. Sorted(a..b) = p
  BY <1>3, <1>4, <1>5, SortedUnique
<1>7. At(q, a..b) = [i \in 1..n |-> q[i + a - 1]]
  BY <1>1, <1>6 DEF At
<1>8. SubSeq(q, a, b) = [i \in 1..n |-> q[i + a - 1]]
  BY <1>1, <1>2
<1> QED
  BY <1>7, <1>8

\* The first n elements.
LEMMA AtFirst ==
  ASSUME NEW S, NEW q \in Seq(S), NEW n \in Nat, n <= Len(q)
  PROVE  At(q, 1..n) = SubSeq(q, 1, n)
  BY AtInterval

\* The elements from a to b, as a sequence.
LEMMA SubSeqIs ==
  ASSUME NEW S, NEW q \in Seq(S), NEW a \in Nat \ {0}, NEW b \in Nat, a <= b + 1,
         b <= Len(q), NEW u, u = SubSeq(q, a, b)
  PROVE  u \in Seq(S) /\ Len(u) = b - a + 1 /\ \A k \in 1..(b - a + 1) : u[k] = q[a + k - 1]
  OBVIOUS

\* The first y elements are the first x and those that follow.
LEMMA SubSeqJoin ==
  ASSUME NEW S, NEW q \in Seq(S), NEW x \in Nat, NEW y \in Nat, x <= y, y <= Len(q)
  PROVE  SubSeq(q, 1, y) = SubSeq(q, 1, x) \o SubSeq(q, x + 1, y)
<1>1. PICK u, v, w : /\ u = SubSeq(q, 1, y) /\ v = SubSeq(q, 1, x)
                     /\ w = SubSeq(q, x + 1, y)
  OBVIOUS
<1>2. u \in Seq(S) /\ Len(u) = y /\ \A k \in 1..y : u[k] = q[k]
  BY <1>1
<1>3. v \in Seq(S) /\ Len(v) = x /\ \A k \in 1..x : v[k] = q[k]
  BY <1>1
<1>4. w \in Seq(S) /\ Len(w) = y - x /\ \A k \in 1..(y - x) : w[k] = q[x + k]
  BY <1>1
<1>5. PICK z : z = v \o w
  OBVIOUS
<1>6. /\ z \in Seq(S) /\ Len(z) = x + (y - x)
      /\ \A k \in 1..(x + (y - x)) : z[k] = IF k <= x THEN v[k] ELSE w[k - x]
  <2>1. v \in Seq(S) /\ w \in Seq(S)
    BY <1>3, <1>4
  <2>2. /\ v \o w \in Seq(S) /\ Len(v \o w) = Len(v) + Len(w)
        /\ \A k \in 1..(Len(v) + Len(w)) :
             (v \o w)[k] = IF k <= Len(v) THEN v[k] ELSE w[k - Len(v)]
    BY <2>1, ConcatIs
  <2>3. Len(v) = x /\ Len(w) = y - x
    BY <1>3, <1>4
  <2> QED
    BY <1>5, <2>2, <2>3, Zenon
<1>7. x + (y - x) = y
  OBVIOUS
<1>8. ASSUME NEW k \in 1..y PROVE u[k] = z[k]
  <2>1. u[k] = q[k] /\ z[k] = IF k <= x THEN v[k] ELSE w[k - x]
    BY <1>2, <1>6, <1>7
  <2>2. CASE k <= x
    <3>1. k \in 1..x
      BY <2>2
    <3> QED
      BY <1>3, <2>1, <2>2, <3>1
  <2>3. CASE ~(k <= x)
    <3>1. k - x \in 1..(y - x) /\ x + (k - x) = k
      BY <2>3
    <3>2. w[k - x] = q[x + (k - x)]
      BY <1>4, <3>1
    <3> QED
      BY <2>1, <2>3, <3>1, <3>2
  <2> QED
    BY <2>2, <2>3
<1>9. u = z
  BY <1>2, <1>6, <1>7, <1>8, SeqEq
<1> QED
  BY <1>1, <1>5, <1>9

\* A sequence that continues another one by one element.
LEMMA AppendIs ==
  ASSUME NEW S, NEW p \in Seq(S), NEW q \in Seq(S), NEW x \in S,
         Len(q) = Len(p) + 1, q[Len(p) + 1] = x, \A i \in 1..Len(p) : q[i] = p[i]
  PROVE  q = Append(p, x)
<1>1. /\ Append(p, x) \in Seq(S) /\ Len(Append(p, x)) = Len(q)
      /\ \A i \in 1..Len(q) : Append(p, x)[i] = q[i]
  OBVIOUS
<1> QED
  BY <1>1, SeqEq

-----------------------------------------------------------------------------
(* FlattenSeq.                                                             *)

\* FlattenSeq's equation.
Flattens(f, q) ==
  f = [i \in 1..Len(q) |-> IF i = 1 THEN q[i] ELSE f[i - 1] \o q[i]]

\* A sequence is the concatenation of its parts between the marks b.
LEMMA FlattenParts ==
  ASSUME NEW S, NEW hs \in Seq(S), NEW q, NEW n \in Nat, Len(q) = n,
         NEW b \in [0..n -> 0..Len(hs)], b[0] = 0, b[n] = Len(hs), n = 0 => q = <<>>,
         \A i \in 1..n : b[i - 1] <= b[i] /\ q[i] = SubSeq(hs, b[i - 1] + 1, b[i])
  PROVE  FlattenSeq(q) = hs
<1>1. Len(hs) \in Nat /\ \A i \in 0..n : b[i] \in Nat /\ b[i] <= Len(hs)
  OBVIOUS
<1>2. SubSeq(hs, 1, Len(hs)) = hs
  BY SeqIs, SeqEq
<1>3. CASE n = 0
  BY <1>1, <1>2, <1>3 DEF FlattenSeq
<1>4. CASE n # 0
  <2>1. \A i \in 1..n : i # 1 =>
          SubSeq(hs, 1, b[i]) = SubSeq(hs, 1, b[i - 1]) \o SubSeq(hs, b[i - 1] + 1, b[i])
    <3> SUFFICES ASSUME NEW i \in 1..n, i # 1
                 PROVE  SubSeq(hs, 1, b[i]) =
                          SubSeq(hs, 1, b[i - 1]) \o SubSeq(hs, b[i - 1] + 1, b[i])
      OBVIOUS
    <3>1. PICK x, y : x = b[i - 1] /\ y = b[i]
      OBVIOUS
    <3>2. x \in Nat /\ y \in Nat /\ x <= y /\ y <= Len(hs)
      <4>1. i \in 0..n /\ i - 1 \in 0..n
        OBVIOUS
      <4> QED
        BY <1>1, <3>1, <4>1
    <3>3. SubSeq(hs, 1, y) = SubSeq(hs, 1, x) \o SubSeq(hs, x + 1, y)
      BY <3>2, SubSeqJoin
    <3> QED
      BY <3>1, <3>3
  <2>2. PICK g : g = [i \in 1..n |-> SubSeq(hs, 1, b[i])]
    OBVIOUS
  <2>3. Flattens(g, q)
    <3>1. \A i \in 1..n : g[i] = IF i = 1 THEN q[i] ELSE g[i - 1] \o q[i]
      <4> SUFFICES ASSUME NEW i \in 1..n PROVE g[i] = IF i = 1 THEN q[i] ELSE g[i - 1] \o q[i]
        OBVIOUS
      <4>1. CASE i = 1
        <5>1. g[i] = SubSeq(hs, 1, b[i]) /\ q[i] = SubSeq(hs, b[i - 1] + 1, b[i])
          BY <2>2
        <5>2. i - 1 = 0 /\ b[i - 1] + 1 = 1
          BY <4>1
        <5> QED
          BY <4>1, <5>1, <5>2
      <4>2. CASE i # 1
        <5>1. i - 1 \in 1..n
          BY <4>2
        <5> QED
          BY <2>1, <2>2, <4>2, <5>1
      <4> QED
        BY <4>1, <4>2
    <3> QED
      BY <2>2, <3>1 DEF Flattens
  <2>4. PICK f : f = CHOOSE d : Flattens(d, q)
    OBVIOUS
  <2>5. Flattens(f, q)
    BY <2>3, <2>4
  <2>6. FlattenSeq(q) = f[n]
    BY <1>4, <2>4 DEF FlattenSeq, Flattens
  <2>7. \A i \in 1..n : f[i] = g[i]
    <3> SUFFICES ASSUME \E i \in 1..n : f[i] # g[i] PROVE FALSE
      OBVIOUS
    <3>1. PICK B : B = {i \in 1..n : f[i] # g[i]}
      OBVIOUS
    <3>2. B \in SUBSET Nat /\ B # {}
      <4>1. \A i \in 1..n : i \in Nat
        OBVIOUS
      <4> QED
        BY <3>1, <4>1
    <3>3. PICK i \in B : \A j \in B : i <= j
      BY <3>2, Least
    <3>4. i \in 1..n /\ f[i] # g[i]
      BY <3>1, <3>3
    <3>5. /\ f[i] = IF i = 1 THEN q[i] ELSE f[i - 1] \o q[i]
          /\ g[i] = IF i = 1 THEN q[i] ELSE g[i - 1] \o q[i]
      BY <2>3, <2>5, <3>4 DEF Flattens
    <3>6. i # 1 /\ i - 1 \in 1..n /\ i - 1 \notin B
      <4>1. i # 1
        BY <3>4, <3>5
      <4> QED
        BY <3>3, <3>4, <4>1
    <3> QED
      BY <3>1, <3>4, <3>5, <3>6
  <2>8. n \in 1..n
    BY <1>4
  <2> QED
    BY <1>2, <2>2, <2>6, <2>7, <2>8
<1> QED
  BY <1>3, <1>4

\* q[1], ..., q[k] are the parts of hs between the marks b.
FlatTo(S, q, k, hs, b) ==
  /\ hs \in Seq(S) /\ b \in [0..k -> Nat] /\ b[0] = 0 /\ b[k] = Len(hs)
  /\ \A i \in 1..k : /\ b[i] = b[i - 1] + Len(q[i]) /\ b[i] <= Len(hs)
                     /\ q[i] = SubSeq(hs, b[i - 1] + 1, b[i])

\* One more part.
LEMMA FlatStep ==
  ASSUME NEW S, NEW k \in Nat, NEW q, \A i \in 1..(k + 1) : q[i] \in Seq(S),
         NEW hs, NEW b, FlatTo(S, q, k, hs, b)
  PROVE  \E hs2, b2 : FlatTo(S, q, k + 1, hs2, b2)
<1>1. PICK t, n, m : t = q[k + 1] /\ n = Len(hs) /\ m = Len(t)
  OBVIOUS
<1>2. /\ hs \in Seq(S) /\ b \in [0..k -> Nat] /\ b[0] = 0 /\ b[k] = n /\ n \in Nat
      /\ t \in Seq(S) /\ m \in Nat
  <2>1. k + 1 \in 1..(k + 1)
    OBVIOUS
  <2>2. t \in Seq(S)
    BY <1>1, <2>1
  <2> QED
    BY <1>1, <2>2 DEF FlatTo
<1>3. \A i \in 1..k : /\ b[i] = b[i - 1] + Len(q[i]) /\ b[i] <= n
                      /\ q[i] = SubSeq(hs, b[i - 1] + 1, b[i])
  BY <1>1 DEF FlatTo
<1>4. PICK hs2 : hs2 = hs \o t
  OBVIOUS
<1>5. /\ hs2 \in Seq(S) /\ Len(hs2) = n + m
      /\ \A i \in 1..(n + m) : hs2[i] = IF i <= n THEN hs[i] ELSE t[i - n]
  BY <1>1, <1>2, <1>4, ConcatIs
<1>6. PICK b2 : b2 = [i \in 0..(k + 1) |-> IF i = k + 1 THEN n + m ELSE b[i]]
  OBVIOUS
<1>7. b2 \in [0..(k + 1) -> Nat] /\ b2[0] = 0 /\ b2[k + 1] = n + m
      /\ \A i \in 0..k : b2[i] = b[i] /\ b[i] \in Nat
  BY <1>2, <1>6
<1>8. ASSUME NEW x \in Nat, NEW y \in Nat, x <= y, y <= n
      PROVE  SubSeq(hs2, x + 1, y) = SubSeq(hs, x + 1, y)
  <2>1. PICK u, v, a : u = SubSeq(hs2, x + 1, y) /\ v = SubSeq(hs, x + 1, y) /\ a = x + 1
    OBVIOUS
  <2>2. a \in Nat \ {0} /\ a <= y + 1 /\ y <= Len(hs2) /\ y - a + 1 \in Nat
    BY <1>2, <1>5, <1>8, <2>1
  <2>3. /\ u \in Seq(S) /\ Len(u) = y - a + 1
        /\ \A i \in 1..(y - a + 1) : u[i] = hs2[a + i - 1]
    BY <1>5, <2>1, <2>2, SubSeqIs
  <2>4. /\ v \in Seq(S) /\ Len(v) = y - a + 1
        /\ \A i \in 1..(y - a + 1) : v[i] = hs[a + i - 1]
    BY <1>1, <1>2, <1>8, <2>1, <2>2, SubSeqIs
  <2>5. \A i \in 1..(y - a + 1) : a + i - 1 \in 1..(n + m) /\ a + i - 1 <= n
    BY <1>2, <1>8, <2>1, <2>2
  <2>6. \A i \in 1..(y - a + 1) : u[i] = v[i]
    BY <1>5, <2>3, <2>4, <2>5
  <2> QED
    <3>1. Len(u) = Len(v) /\ \A i \in 1..Len(u) : u[i] = v[i]
      BY <2>3, <2>4, <2>6
    <3>2. u = v
      BY <2>3, <2>4, <3>1, SeqEq
    <3> QED
      BY <2>1, <3>2
<1>9. SubSeq(hs2, n + 1, n + m) = t
  <2>1. PICK u, a, z : u = SubSeq(hs2, n + 1, n + m) /\ a = n + 1 /\ z = n + m
    OBVIOUS
  <2>2. a \in Nat \ {0} /\ z \in Nat /\ a <= z + 1 /\ z <= Len(hs2) /\ z - a + 1 = m
    BY <1>2, <1>5, <2>1
  <2>3. /\ u \in Seq(S) /\ Len(u) = z - a + 1
        /\ \A i \in 1..(z - a + 1) : u[i] = hs2[a + i - 1]
    <3>1. u = SubSeq(hs2, a, z)
      BY <2>1
    <3> QED
      BY <1>5, <2>2, <3>1, SubSeqIs
  <2>4. \A i \in 1..m : u[i] = t[i]
    <3> SUFFICES ASSUME NEW i \in 1..m PROVE u[i] = t[i]
      OBVIOUS
    <3>1. u[i] = hs2[a + i - 1]
      BY <2>2, <2>3
    <3>2. PICK x : x = a + i - 1
      OBVIOUS
    <3>3. x \in 1..(n + m) /\ ~(x <= n) /\ x - n = i
      BY <1>2, <2>1, <3>2
    <3>4. hs2[x] = t[x - n]
      BY <1>5, <3>3
    <3> QED
      BY <3>1, <3>2, <3>3, <3>4
  <2>5. Len(u) = Len(t) /\ \A i \in 1..Len(u) : u[i] = t[i]
    BY <1>1, <2>2, <2>3, <2>4
  <2>6. u = t
    BY <1>2, <2>3, <2>5, SeqEq
  <2> QED
    BY <2>1, <2>6
<1>10. ASSUME NEW i \in 1..(k + 1)
       PROVE  /\ b2[i] = b2[i - 1] + Len(q[i]) /\ b2[i] <= Len(hs2)
              /\ q[i] = SubSeq(hs2, b2[i - 1] + 1, b2[i])
  <2>1. i - 1 \in 0..k
    OBVIOUS
  <2>2. CASE i = k + 1
    <3>1. b2[i] = n + m /\ b2[i - 1] = n /\ q[i] = t
      BY <1>1, <1>2, <1>7, <2>1, <2>2
    <3> QED
      BY <1>1, <1>2, <1>5, <1>9, <3>1
  <2>3. CASE i # k + 1
    <3>1. i \in 1..k /\ i \in 0..k
      BY <2>3
    <3>2. b2[i] = b[i] /\ b2[i - 1] = b[i - 1] /\ b[i] \in Nat /\ b[i - 1] \in Nat
      BY <1>7, <2>1, <3>1
    <3>3. /\ b[i] = b[i - 1] + Len(q[i]) /\ b[i] <= n
          /\ q[i] = SubSeq(hs, b[i - 1] + 1, b[i])
      BY <1>3, <3>1
    <3>4. b[i - 1] <= b[i]
      <4>1. q[i] \in Seq(S)
        OBVIOUS
      <4>2. Len(q[i]) \in Nat
        BY <4>1
      <4> QED
        BY <3>2, <3>3, <4>2
    <3>5. SubSeq(hs2, b[i - 1] + 1, b[i]) = SubSeq(hs, b[i - 1] + 1, b[i])
      BY <1>8, <3>2, <3>3, <3>4
    <3>6. b[i] <= Len(hs2)
      <4>1. PICK y : y = b[i]
        OBVIOUS
      <4>2. y \in Nat /\ y <= n
        BY <3>2, <3>3, <4>1
      <4>3. y <= n + m
        BY <1>2, <4>2
      <4> QED
        BY <1>5, <4>1, <4>3
    <3> QED
      BY <3>2, <3>3, <3>5, <3>6
  <2> QED
    BY <2>2, <2>3
<1>11. FlatTo(S, q, k + 1, hs2, b2)
  BY <1>5, <1>7, <1>10 DEF FlatTo
<1> QED
  BY <1>11

\* Any sequence of sequences has a concatenation, in which each part has its place.
LEMMA FlattenIs ==
  ASSUME NEW S, NEW n \in Nat, NEW q \in [1..n -> Seq(S)]
  PROVE  \E b : FlatTo(S, q, n, FlattenSeq(q), b)
<1>1. PICK B : B = {k \in 0..n : ~\E hs, b : FlatTo(S, q, k, hs, b)}
  OBVIOUS
<1>2. B = {}
  <2> SUFFICES ASSUME B # {} PROVE FALSE
    OBVIOUS
  <2>1. B \in SUBSET Nat
    BY <1>1
  <2>2. PICK k \in B : \A j \in B : k <= j
    BY <2>1, Least
  <2>3. k \in 0..n /\ ~\E hs, b : FlatTo(S, q, k, hs, b)
    BY <1>1, <2>2
  <2>4. CASE k = 0
    <3>1. PICK b : b = [i \in 0..0 |-> 0]
      OBVIOUS
    <3>2. FlatTo(S, q, 0, <<>>, b)
      BY <3>1 DEF FlatTo
    <3> QED
      BY <2>3, <2>4, <3>2
  <2>5. CASE k # 0
    <3>1. PICK j : j = k - 1
      OBVIOUS
    <3>2. j \in Nat /\ j + 1 = k /\ j \in 0..n /\ j < k /\ k \in 1..n
      BY <2>3, <2>5, <3>1
    <3>3. \E hs, b : FlatTo(S, q, j, hs, b)
      <4>1. j \notin B
        BY <2>1, <2>2, <3>2
      <4> QED
        BY <1>1, <3>2, <4>1
    <3>4. PICK hs, b : FlatTo(S, q, j, hs, b)
      BY <3>3
    <3>5. \A i \in 1..(j + 1) : q[i] \in Seq(S)
      BY <3>2
    <3>6. \E hs2, b2 : FlatTo(S, q, j + 1, hs2, b2)
      BY <3>2, <3>4, <3>5, FlatStep
    <3> QED
      BY <2>3, <3>2, <3>6
  <2> QED
    BY <2>4, <2>5
<1>3. PICK hs, b : FlatTo(S, q, n, hs, b)
  BY <1>1, <1>2
<1>4. /\ hs \in Seq(S) /\ b \in [0..n -> Nat] /\ b[0] = 0 /\ b[n] = Len(hs)
      /\ \A i \in 1..n : /\ b[i] = b[i - 1] + Len(q[i]) /\ b[i] <= Len(hs)
                         /\ q[i] = SubSeq(hs, b[i - 1] + 1, b[i])
  BY <1>3 DEF FlatTo
<1>5. Len(q) = n /\ (n = 0 => q = <<>>)
  OBVIOUS
<1>6. b \in [0..n -> 0..Len(hs)]
  <2>1. \A i \in 0..n : b[i] \in 0..Len(hs)
    <3> SUFFICES ASSUME NEW i \in 0..n PROVE b[i] \in 0..Len(hs)
      OBVIOUS
    <3>1. Len(hs) \in Nat /\ b[i] \in Nat
      BY <1>4
    <3>2. i = 0 \/ i \in 1..n
      OBVIOUS
    <3> QED
      BY <1>4, <3>1, <3>2
  <2> QED
    BY <1>4, <2>1
<1>7. \A i \in 1..n : b[i - 1] <= b[i] /\ q[i] = SubSeq(hs, b[i - 1] + 1, b[i])
  <2> SUFFICES ASSUME NEW i \in 1..n
               PROVE  b[i - 1] <= b[i] /\ q[i] = SubSeq(hs, b[i - 1] + 1, b[i])
    OBVIOUS
  <2>1. i - 1 \in 0..n /\ i \in 0..n /\ q[i] \in Seq(S)
    OBVIOUS
  <2>2. Len(q[i]) \in Nat /\ b[i] \in Nat /\ b[i - 1] \in Nat
    BY <1>4, <2>1
  <2> QED
    BY <1>4, <2>2
<1>8. FlattenSeq(q) = hs
  BY <1>4, <1>5, <1>6, <1>7, FlattenParts
<1> QED
  BY <1>3, <1>8

-----------------------------------------------------------------------------
(* Sets of numbers, one above the other.                                   *)

\* What is above comes after.
LEMMA SortedUnion ==
  ASSUME NEW S \in SUBSET Nat, IsFiniteSet(S), NEW T \in SUBSET Nat, IsFiniteSet(T),
         \A x \in S : \A y \in T : x < y
  PROVE  Sorted(S \union T) = Sorted(S) \o Sorted(T)
<1>1. PICK p, q, m, n : /\ p = Sorted(S) /\ q = Sorted(T)
                        /\ m = Cardinality(S) /\ n = Cardinality(T)
  OBVIOUS
<1>2. /\ m \in Nat /\ p \in Seq(S) /\ Len(p) = m /\ S = {p[i] : i \in 1..m}
      /\ \A i, j \in 1..m : i < j => p[i] < p[j]
  BY <1>1, SortedIs, SortedRange
<1>3. /\ n \in Nat /\ q \in Seq(T) /\ Len(q) = n /\ T = {q[i] : i \in 1..n}
      /\ \A i, j \in 1..n : i < j => q[i] < q[j]
  BY <1>1, SortedIs, SortedRange
<1>4. p \in Seq(Nat) /\ q \in Seq(Nat)
  <2>1. p \in [1..m -> S] /\ q \in [1..n -> T]
    BY <1>2, <1>3, SeqIs
  <2>2. p \in [1..m -> Nat] /\ q \in [1..n -> Nat]
    BY <2>1
  <2> QED
    BY <1>2, <1>3, <2>2, FunctionSeq
<1>5. PICK r : r = p \o q
  OBVIOUS
<1>6. /\ r \in Seq(Nat) /\ Len(r) = m + n
      /\ \A i \in 1..(m + n) : r[i] = IF i <= m THEN p[i] ELSE q[i - m]
  BY <1>2, <1>3, <1>4, <1>5, ConcatIs
<1>7. \A i \in 1..m : i \in 1..(m + n) /\ r[i] = p[i] /\ p[i] \in S
  BY <1>2, <1>3, <1>6
<1>8. \A i \in 1..n : i + m \in 1..(m + n) /\ r[i + m] = q[i] /\ q[i] \in T
  <2> SUFFICES ASSUME NEW i \in 1..n
               PROVE  i + m \in 1..(m + n) /\ r[i + m] = q[i] /\ q[i] \in T
    OBVIOUS
  <2>1. PICK x : x = i + m
    OBVIOUS
  <2>2. x \in 1..(m + n) /\ ~(x <= m) /\ x - m = i
    BY <1>2, <1>3, <2>1
  <2>3. r[x] = q[x - m]
    BY <1>6, <2>2
  <2> QED
    BY <1>3, <2>1, <2>2, <2>3
<1>9. \A i \in 1..(m + n) : i \in 1..m \/ (i - m \in 1..n /\ i - m + m = i)
  BY <1>2, <1>3
<1>10. S \union T = {r[i] : i \in 1..(m + n)}
  <2>1. \A x \in S \union T : \E i \in 1..(m + n) : x = r[i]
    <3>1. \A x \in S : \E i \in 1..(m + n) : x = r[i]
      BY <1>2, <1>7
    <3>2. \A x \in T : \E i \in 1..(m + n) : x = r[i]
      BY <1>3, <1>8
    <3> QED
      BY <3>1, <3>2
  <2>2. \A i \in 1..(m + n) : r[i] \in S \union T
    BY <1>7, <1>8, <1>9
  <2> QED
    BY <2>1, <2>2
<1>11. \A i, j \in 1..(m + n) : i < j => r[i] < r[j]
  <2> SUFFICES ASSUME NEW i \in 1..(m + n), NEW j \in 1..(m + n), i < j PROVE r[i] < r[j]
    OBVIOUS
  <2>1. CASE j \in 1..m
    <3>1. i \in 1..m
      BY <1>2, <1>3, <2>1
    <3> QED
      BY <1>2, <1>7, <2>1, <3>1
  <2>2. CASE j - m \in 1..n /\ j - m + m = j
    <3>1. CASE i \in 1..m
      <4>1. r[i] \in S /\ r[j] \in T
        BY <1>7, <1>8, <2>2, <3>1
      <4> QED
        BY <4>1
    <3>2. CASE i - m \in 1..n /\ i - m + m = i
      <4>1. i - m < j - m /\ r[i] = q[i - m] /\ r[j] = q[j - m]
        BY <1>2, <1>8, <2>2, <3>2
      <4> QED
        BY <1>3, <2>2, <3>2, <4>1
    <3> QED
      BY <1>9, <3>1, <3>2
  <2> QED
    BY <1>9, <2>1, <2>2
<1> QED
  <2>1. PICK U : U = S \union T
    OBVIOUS
  <2>2. U = {r[i] : i \in 1..Len(r)} /\ \A i, j \in 1..Len(r) : i < j => r[i] < r[j]
    BY <1>6, <1>10, <1>11, <2>1
  <2>3. Sorted(U) = r
    BY <1>6, <2>2, SortedUnique
  <2> QED
    BY <1>1, <1>5, <2>1, <2>3
=============================================================================
