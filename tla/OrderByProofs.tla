--------------------------- MODULE OrderByProofs ---------------------------
(***************************************************************************)
(* What OrderBy returns for every finite set and every strict total order  *)
(* of its rows. The induction of these proofs is the least number of a set *)
(* (Least): the library's induction theorems take an operator.             *)
(***************************************************************************)
EXTENDS OrderBy, Sequences, FiniteSetTheorems, FunctionTheorems, TLAPS

-----------------------------------------------------------------------------
(* Least numbers                                                           *)

LessThan == {ss \in Nat \X Nat : ss[1] < ss[2]}

\* Every non-empty set of naturals has a least element.
LEMMA Least ==
  ASSUME NEW S \in SUBSET Nat, S # {}
  PROVE  \E x \in S : \A y \in S : x <= y
<1>1. OpToRel(<, Nat) = {ss \in Nat \X Nat : ss[1] < ss[2]}
  BY Zenon DEF OpToRel
<1>2. IsWellFoundedOn(OpToRel(<, Nat), Nat)
  BY NatLessThanWellFounded, Zenon
<1>3. IsWellFoundedOn(LessThan, Nat)
  BY <1>1, <1>2, Zenon DEF LessThan
<1>4. PICK x \in S : \A y \in S : <<y, x>> \notin LessThan
  BY <1>3, WFMin, Zenon
<1>5. ASSUME NEW y \in S PROVE x <= y
  <2>1. ASSUME y < x PROVE FALSE
    <3>1. <<y, x>> \in LessThan
      BY <2>1 DEF LessThan
    <3> QED
      BY <1>4, <3>1
  <2>2. x \in Nat /\ y \in Nat
    OBVIOUS
  <2> QED
    BY <2>1, <2>2
<1> QED
  BY <1>5

-----------------------------------------------------------------------------
(* Strict total orders                                                     *)

StrictOrder(S, R) ==
  /\ \A a \in S : <<a, a>> \notin R
  /\ \A a, b, c \in S : <<a, b>> \in R /\ <<b, c>> \in R => <<a, c>> \in R
  /\ \A a, b \in S : a # b => <<a, b>> \in R \/ <<b, a>> \in R

\* s lists the rows of S, each once, in the order R.
Lists(s, S, R) ==
  /\ s \in [1 .. Cardinality(S) -> S]
  /\ \A t \in S : \E i \in 1 .. Cardinality(S) : s[i] = t
  /\ \A i, j \in 1 .. Cardinality(S) : i < j => <<s[i], s[j]>> \in R

Preceding(t, S, R) == {u \in S : <<u, t>> \in R}

\* A row has more rows before it than any row before it has.
LEMMA RankGrows ==
  ASSUME NEW S, IsFiniteSet(S), NEW R, StrictOrder(S, R),
         NEW a \in S, NEW b \in S, <<a, b>> \in R
  PROVE  Rank(a, S, R) \in Nat /\ Rank(b, S, R) \in Nat /\ Rank(a, S, R) < Rank(b, S, R)
<1>1. /\ IsFiniteSet(Preceding(a, S, R)) /\ IsFiniteSet(Preceding(b, S, R))
      /\ Cardinality(Preceding(a, S, R)) \in Nat /\ Cardinality(Preceding(b, S, R)) \in Nat
  BY FS_Subset, FS_CardinalityType DEF Preceding
<1>2. Preceding(a, S, R) \subseteq Preceding(b, S, R)
  BY DEF Preceding, StrictOrder
<1>3. a \in Preceding(b, S, R) /\ a \notin Preceding(a, S, R)
  BY DEF Preceding, StrictOrder
<1>4. Cardinality(Preceding(a, S, R)) < Cardinality(Preceding(b, S, R))
  <2>1. /\ Cardinality(Preceding(a, S, R)) <= Cardinality(Preceding(b, S, R))
        /\ Cardinality(Preceding(b, S, R)) = Cardinality(Preceding(a, S, R)) =>
             Preceding(a, S, R) = Preceding(b, S, R)
    BY <1>1, <1>2, FS_Subset
  <2> QED
    BY <1>1, <1>3, <2>1
<1> QED
  BY <1>1, <1>4 DEF Rank, Preceding

\* Different rows have different ranks, all below the number of rows.
LEMMA RankInjective ==
  ASSUME NEW S, IsFiniteSet(S), NEW R, StrictOrder(S, R)
  PROVE  /\ Cardinality(S) \in Nat
         /\ \A t \in S : Rank(t, S, R) \in 0 .. Cardinality(S) - 1
         /\ \A a, b \in S : Rank(a, S, R) = Rank(b, S, R) => a = b
<1>1. Cardinality(S) \in Nat
  BY FS_CardinalityType
<1>2. ASSUME NEW t \in S PROVE Rank(t, S, R) \in 0 .. Cardinality(S) - 1
  <2>1. /\ IsFiniteSet(Preceding(t, S, R)) /\ Cardinality(Preceding(t, S, R)) \in Nat
        /\ Cardinality(Preceding(t, S, R)) <= Cardinality(S)
        /\ Cardinality(S) = Cardinality(Preceding(t, S, R)) => S = Preceding(t, S, R)
    BY FS_Subset, FS_CardinalityType DEF Preceding
  <2>2. t \notin Preceding(t, S, R)
    BY DEF Preceding, StrictOrder
  <2>3. Rank(t, S, R) = Cardinality(Preceding(t, S, R))
    BY DEF Rank, Preceding
  <2> QED
    BY <1>1, <2>1, <2>2, <2>3
<1>3. ASSUME NEW a \in S, NEW b \in S, a # b PROVE Rank(a, S, R) # Rank(b, S, R)
  <2>1. CASE <<a, b>> \in R
    BY <2>1, RankGrows
  <2>2. CASE <<b, a>> \in R
    BY <2>2, RankGrows
  <2> QED
    BY <1>3, <2>1, <2>2 DEF StrictOrder
<1> QED
  BY <1>1, <1>2, <1>3

\* Every rank is taken.
LEMMA RankSurjective ==
  ASSUME NEW S, IsFiniteSet(S), NEW R, StrictOrder(S, R), NEW n \in 0 .. Cardinality(S) - 1
  PROVE  \E t \in S : Rank(t, S, R) = n
<1> DEFINE T == 0 .. Cardinality(S) - 1
           f == [t \in S |-> Rank(t, S, R)]
<1>1. Cardinality(S) \in Nat
  BY FS_CardinalityType
<1>2. IsFiniteSet(T) /\ Cardinality(T) = Cardinality(S)
  BY <1>1, FS_Interval
<1>3. f \in [S -> T] /\ \A a, b \in S : f[a] = f[b] => a = b
  BY RankInjective
<1> HIDE DEF f, T
<1>4. f \in Injection(S, T)
  BY <1>3, Fun_IsInj
<1>5. f \in Surjection(S, T)
  BY <1>2, <1>4, FS_Injection
<1>6. \A m \in T : \E t \in S : f[t] = m
  BY <1>5, Fun_SurjectionProperties
<1> QED
  BY <1>6 DEF f, T

\* The query returns the rows of its WHERE clause, each once, in the order of its
\* ORDER BY clause.
LEMMA OrderByLists ==
  ASSUME NEW S, IsFiniteSet(S), NEW R, StrictOrder(S, R)
  PROVE  Lists(OrderBy(S, R), S, R)
<1> DEFINE s == OrderBy(S, R)
           n == Cardinality(S)
<1>1. n \in Nat
  BY FS_CardinalityType
<1>2. ASSUME NEW i \in 1 .. n PROVE s[i] \in S /\ Rank(s[i], S, R) = i - 1
  <2>1. \E t \in S : Rank(t, S, R) = i - 1
    BY <1>1, RankSurjective
  <2>2. s[i] = CHOOSE t \in S : Rank(t, S, R) = i - 1
    BY DEF OrderBy
  <2> HIDE DEF s
  <2> QED
    BY <2>1, <2>2
<1>3. s \in [1 .. n -> S]
  BY <1>2 DEF OrderBy
<1> HIDE DEF s
<1>4. ASSUME NEW t \in S PROVE \E i \in 1 .. n : s[i] = t
  <2>1. Rank(t, S, R) \in 0 .. n - 1
    BY RankInjective
  <2>2. Rank(t, S, R) + 1 \in 1 .. n /\ Rank(t, S, R) = (Rank(t, S, R) + 1) - 1
    BY <1>1, <2>1
  <2>3. s[Rank(t, S, R) + 1] = t
    BY <1>2, <2>2, RankInjective
  <2> QED
    BY <2>2, <2>3
<1>5. ASSUME NEW i \in 1 .. n, NEW j \in 1 .. n, i < j PROVE <<s[i], s[j]>> \in R
  <2>1. s[i] # s[j] /\ Rank(s[i], S, R) < Rank(s[j], S, R)
    BY <1>1, <1>2, <1>5
  <2>2. CASE <<s[j], s[i]>> \in R
    BY <1>2, <2>1, <2>2, RankGrows
  <2> QED
    BY <1>2, <2>1, <2>2 DEF StrictOrder
<1> QED
  BY <1>3, <1>4, <1>5 DEF Lists, s

-----------------------------------------------------------------------------
(* Listings                                                                *)

LEMMA CountTo ==
  ASSUME NEW n \in Nat
  PROVE  IsFiniteSet(1 .. n) /\ Cardinality(1 .. n) = n
<1>1. IsFiniteSet(1 .. n) /\ Cardinality(1 .. n) = IF 1 > n THEN 0 ELSE n - 1 + 1
  BY FS_Interval
<1>2. (IF 1 > n THEN 0 ELSE n - 1 + 1) = n
  OBVIOUS
<1> QED
  BY <1>1, <1>2

\* The i-th row of a listing has i - 1 rows before it.
LEMMA ListRank ==
  ASSUME NEW S, IsFiniteSet(S), NEW R, StrictOrder(S, R), NEW s, Lists(s, S, R),
         NEW i \in 1 .. Cardinality(S)
  PROVE  Rank(s[i], S, R) = i - 1
<1> DEFINE n == Cardinality(S)
           P == Preceding(s[i], S, R)
           f == [j \in 1 .. i - 1 |-> s[j]]
<1>1. n \in Nat /\ s \in [1 .. n -> S] /\ s[i] \in S
  BY FS_CardinalityType DEF Lists
<1>2. \A j, k \in 1 .. n : j < k => <<s[j], s[k]>> \in R
  BY DEF Lists
<1>3. \A j \in 1 .. n : <<s[j], s[i]>> \in R => j \in 1 .. i - 1
  <2> SUFFICES ASSUME NEW j \in 1 .. n, <<s[j], s[i]>> \in R, j >= i PROVE FALSE
    BY <1>1
  <2>1. s[j] \in S /\ (j = i \/ <<s[i], s[j]>> \in R)
    BY <1>1, <1>2
  <2> QED
    BY <1>1, <2>1 DEF StrictOrder
<1>4. \A j \in 1 .. i - 1 : j \in 1 .. n /\ s[j] \in P
  BY <1>1, <1>2 DEF Preceding
<1>5. \A t \in P : \E j \in 1 .. i - 1 : s[j] = t
  <2> SUFFICES ASSUME NEW t \in P PROVE \E j \in 1 .. i - 1 : s[j] = t
    OBVIOUS
  <2>1. t \in S /\ <<t, s[i]>> \in R
    BY DEF Preceding
  <2>2. PICK j \in 1 .. n : s[j] = t
    BY <2>1 DEF Lists
  <2> QED
    BY <1>3, <2>1, <2>2
<1>6. \A j, k \in 1 .. i - 1 : s[j] = s[k] => j = k
  <2> SUFFICES ASSUME NEW j \in 1 .. i - 1, NEW k \in 1 .. i - 1, s[j] = s[k], j # k PROVE FALSE
    OBVIOUS
  <2>1. j \in 1 .. n /\ k \in 1 .. n /\ s[j] \in S /\ (j < k \/ k < j)
    BY <1>1, <1>4
  <2> QED
    BY <1>2, <2>1 DEF StrictOrder
<1> HIDE DEF P
<1>7. f \in [1 .. i - 1 -> P] /\ \A j \in 1 .. i - 1 : f[j] = s[j]
  BY <1>4
<1> HIDE DEF f
<1>8. f \in Bijection(1 .. i - 1, P)
  <2>1. f \in Injection(1 .. i - 1, P)
    BY <1>6, <1>7, Fun_IsInj
  <2>2. f \in Surjection(1 .. i - 1, P)
    BY <1>5, <1>7, Fun_IsSurj
  <2> QED
    BY <2>1, <2>2 DEF Bijection
<1>9. IsFiniteSet(1 .. i - 1) /\ Cardinality(1 .. i - 1) = i - 1
  <2>1. i - 1 \in Nat
    BY <1>1
  <2> QED
    BY <2>1, CountTo
<1>10. Cardinality(P) = i - 1
  BY <1>8, <1>9, FS_Bijection DEF ExistsBijection
<1> QED
  BY <1>10 DEF Rank, Preceding, P

\* There is one listing of the rows only: the query's.
LEMMA ListUnique ==
  ASSUME NEW S, IsFiniteSet(S), NEW R, StrictOrder(S, R), NEW s, Lists(s, S, R)
  PROVE  s = OrderBy(S, R)
<1> DEFINE n == Cardinality(S)
           t == OrderBy(S, R)
<1>1. Lists(t, S, R)
  BY OrderByLists
<1> HIDE DEF t
<1>2. s \in [1 .. n -> S] /\ t \in [1 .. n -> S]
  BY <1>1 DEF Lists
<1>3. ASSUME NEW i \in 1 .. n PROVE s[i] = t[i]
  <2>1. Rank(s[i], S, R) = i - 1 /\ Rank(t[i], S, R) = i - 1
    BY <1>1, ListRank
  <2>2. s[i] \in S /\ t[i] \in S
    BY <1>2
  <2> QED
    BY <2>1, <2>2, RankInjective
<1>4. s = t
  <2>1. \A i \in 1 .. n : s[i] = t[i]
    BY <1>3
  <2>2. s = [i \in 1 .. n |-> s[i]] /\ t = [i \in 1 .. n |-> t[i]]
    BY <1>2
  <2> HIDE DEF n
  <2> QED
    BY <2>1, <2>2, Zenon
<1> QED
  BY <1>4 DEF t

\* T is the set of the rows behind the k-th of the listing s of S, Q orders it as
\* R does.
Rest(T, Q, s, k, S, R) ==
  /\ T \in SUBSET S
  /\ \A i \in 1 .. Cardinality(S) : s[i] \in T <=> i > k
  /\ \A a, b \in T : <<a, b>> \in Q <=> <<a, b>> \in R

\* The rows behind the k-th, listed by themselves, are the rest of the listing.
LEMMA RestLists ==
  ASSUME NEW S, IsFiniteSet(S), NEW R, StrictOrder(S, R), NEW s, Lists(s, S, R),
         NEW k \in 0 .. Cardinality(S),
         NEW T, NEW Q, Rest(T, Q, s, k, S, R)
  PROVE  /\ IsFiniteSet(T) /\ Cardinality(T) = Cardinality(S) - k
         /\ OrderBy(T, Q) \in [1 .. Cardinality(S) - k -> T]
         /\ \A i \in 1 .. Cardinality(S) - k : OrderBy(T, Q)[i] = s[k + i]
<1> DEFINE n == Cardinality(S)
           m == n - k
           r == [i \in 1 .. m |-> s[k + i]]
<1>1. n \in Nat /\ m \in Nat /\ s \in [1 .. n -> S]
  BY FS_CardinalityType DEF Lists
<1>2. \A i, j \in 1 .. n : i < j => <<s[i], s[j]>> \in R
  BY DEF Lists
<1>3. /\ T \in SUBSET S /\ \A i \in 1 .. n : s[i] \in T <=> i > k
      /\ \A a, b \in T : <<a, b>> \in Q <=> <<a, b>> \in R
  BY DEF Rest
<1>4. \A i \in 1 .. m : k + i \in 1 .. n /\ k + i > k
  BY <1>1
<1>5. r \in [1 .. m -> T] /\ \A i \in 1 .. m : r[i] = s[k + i]
  BY <1>3, <1>4
<1>6. \A t \in T : \E i \in 1 .. m : r[i] = t
  <2> SUFFICES ASSUME NEW t \in T PROVE \E i \in 1 .. m : r[i] = t
    OBVIOUS
  <2>1. PICK j \in 1 .. n : s[j] = t
    BY <1>3 DEF Lists
  <2>2. j > k
    BY <1>3, <2>1
  <2>3. j - k \in 1 .. m /\ k + (j - k) = j
    BY <1>1, <2>2
  <2> QED
    BY <1>5, <2>1, <2>3
<1>7. \A i, j \in 1 .. m : i < j => <<r[i], r[j]>> \in Q
  <2> SUFFICES ASSUME NEW i \in 1 .. m, NEW j \in 1 .. m, i < j PROVE <<r[i], r[j]>> \in Q
    OBVIOUS
  <2>1. k + i < k + j /\ r[i] = s[k + i] /\ r[j] = s[k + j] /\ r[i] \in T /\ r[j] \in T
    BY <1>1, <1>5
  <2> QED
    BY <1>2, <1>3, <1>4, <2>1
<1>8. StrictOrder(T, Q)
  BY <1>3 DEF StrictOrder
<1>9. \A i, j \in 1 .. m : r[i] = r[j] => i = j
  <2> SUFFICES ASSUME NEW i \in 1 .. m, NEW j \in 1 .. m, r[i] = r[j], i < j PROVE FALSE
    BY <1>1
  <2> QED
    BY <1>5, <1>7, <1>8 DEF StrictOrder
<1> HIDE DEF r, m
<1>10. IsFiniteSet(T) /\ Cardinality(T) = m
  <2>1. r \in Injection(1 .. m, T) /\ r \in Surjection(1 .. m, T)
    BY <1>5, <1>6, <1>9, Fun_IsInj, Fun_IsSurj
  <2>2. r \in Bijection(1 .. m, T)
    BY <2>1 DEF Bijection
  <2>3. IsFiniteSet(1 .. m) /\ Cardinality(1 .. m) = m
    BY <1>1, CountTo
  <2> QED
    BY <2>2, <2>3, FS_Bijection DEF ExistsBijection
<1>11. Lists(r, T, Q)
  BY <1>5, <1>6, <1>7, <1>10 DEF Lists
<1>12. r = OrderBy(T, Q)
  BY <1>8, <1>10, <1>11, ListUnique
<1> QED
  BY <1>5, <1>10, <1>12 DEF m
=============================================================================
