------------------------- MODULE SeatPagingProofs -------------------------
(***************************************************************************)
(* Theorems about SeatPaging for every set of seats, page size and group   *)
(* size, whatever other users book, hold and release between the clicks.   *)
(***************************************************************************)
EXTENDS SeatPaging, OrderByProofs, SequenceTheorems

-----------------------------------------------------------------------------
(* The tickets in their order                                              *)

BeforeOn(S) == {p \in S \X S : Before(p[1], p[2])}

\* Before is a strict order of the seats, and two seats are always in order.
LEMMA BeforeTransitive ==
  ASSUME NEW a \in Seats, NEW b \in Seats, NEW c \in Seats, Before(a, b), Before(b, c)
  PROVE  Before(a, c)
<1>1. /\ a \in [section: Int, number: Nat] /\ b \in [section: Int, number: Nat]
      /\ c \in [section: Int, number: Nat]
  BY SeatsAssumption
<1> QED
  BY <1>1, SMT DEF Before

LEMMA BeforeTotal ==
  ASSUME NEW a \in Seats, NEW b \in Seats
  PROVE  /\ ~ Before(a, a)
         /\ a = b \/ Before(a, b) \/ Before(b, a)
<1>1. a \in [section: Int, number: Nat] /\ b \in [section: Int, number: Nat]
  BY SeatsAssumption
<1> QED
  BY <1>1, SMT DEF Before

\* Section and seat number order the tickets of an event strictly.
LEMMA BeforeOrders ==
  ASSUME NEW S \in SUBSET Seats
  PROVE  StrictOrder(S, BeforeOn(S))
<1>1. \A a, b \in S : <<a, b>> \in BeforeOn(S) <=> Before(a, b)
  BY DEF BeforeOn
<1> QED
  BY <1>1, BeforeTransitive, BeforeTotal DEF StrictOrder

\* Ordered lists a set of tickets in ascending order.
LEMMA OrderedAscends ==
  ASSUME NEW S \in SUBSET Seats
  PROVE  /\ Ordered(S) \in Seq(S)
         /\ Len(Ordered(S)) = Cardinality(S)
         /\ \A i, j \in 1 .. Len(Ordered(S)) : i < j => Before(Ordered(S)[i], Ordered(S)[j])
         /\ ToSet(Ordered(S)) = S
<1>1. IsFiniteSet(S) /\ Cardinality(S) \in Nat
  BY SeatsAssumption, FS_Subset, FS_CardinalityType
<1>2. Lists(Ordered(S), S, BeforeOn(S))
  BY <1>1, BeforeOrders, OrderByLists DEF Ordered, BeforeOn
<1>3. Ordered(S) \in [1 .. Cardinality(S) -> S]
  BY <1>2 DEF Lists
<1>4. Ordered(S) \in Seq(S) /\ Len(Ordered(S)) = Cardinality(S)
  BY <1>1, <1>3
<1>5. \A i, j \in 1 .. Len(Ordered(S)) : i < j => Before(Ordered(S)[i], Ordered(S)[j])
  BY <1>2, <1>4 DEF Lists, BeforeOn
<1>6. ToSet(Ordered(S)) = S
  BY <1>2, <1>3 DEF Lists, ToSet
<1> QED
  BY <1>4, <1>5, <1>6

-----------------------------------------------------------------------------
(* The scan                                                                *)

\* One step of the scan, given the groups g[j] found from later positions j on.
ScanStep(s, q, g, i) ==
  IF i > Len(s) THEN <<>>
  ELSE IF IsRun(s, i, q) THEN <<SubSeq(s, i, i + q - 1)>> \o g[i + q]
  ELSE g[i + 1]

\* g is the scan from position n on.
ScansFrom(s, q, g, n) == g = [i \in n .. Len(s) + 1 |-> ScanStep(s, q, g, i)]

\* The loop of the scan ends: it is defined from every position on.
LEMMA ScanExists ==
  ASSUME NEW S, NEW s \in Seq(S), NEW q \in Nat \ {0}
  PROVE  \E g : ScansFrom(s, q, g, 1)
<1> DEFINE L == Len(s)
           bad == {k \in 0 .. L : ~ \E g : ScansFrom(s, q, g, L + 1 - k)}
<1>0. L \in Nat
  OBVIOUS
<1>1. SUFFICES ASSUME bad # {} PROVE FALSE
  <2>1. L \in 0 .. L /\ L + 1 - L = 1
    BY <1>0
  <2>2. L \notin bad => \E g : ScansFrom(s, q, g, L + 1 - L)
    BY <2>1
  <2> HIDE DEF bad, L
  <2> QED
    BY <2>1, <2>2
<1>2. PICK k \in bad : \A j \in bad : k <= j
  <2>1. bad \in SUBSET Nat
    BY <1>0
  <2> HIDE DEF bad
  <2> QED
    BY <1>1, <2>1, Least
<1>3. CASE k = 0
  <2> DEFINE g == [i \in L + 1 .. L + 1 |-> <<>>]
  <2>1. \A i \in L + 1 .. L + 1 : ScanStep(s, q, g, i) = <<>>
    BY <1>0 DEF ScanStep
  <2>2. ScansFrom(s, q, g, L + 1 - k)
    BY <1>0, <1>3, <2>1 DEF ScansFrom
  <2> HIDE DEF g
  <2> QED
    BY <2>2
<1>4. CASE k # 0
  <2>1. k - 1 \in 0 .. L /\ k - 1 \notin bad
    BY <1>0, <1>2, <1>4
  <2>2. PICK g : ScansFrom(s, q, g, L + 1 - (k - 1))
    BY <2>1
  <2> DEFINE n == L + 1 - k
             h == [i \in n .. L + 1 |-> IF i = n THEN ScanStep(s, q, g, n) ELSE g[i]]
  <2>3. n \in 1 .. L /\ L + 1 - (k - 1) = n + 1
    BY <1>0, <1>2, <1>4
  <2>4. g = [i \in n + 1 .. L + 1 |-> ScanStep(s, q, g, i)]
    BY <2>2, <2>3 DEF ScansFrom
  <2>5. \A i \in n + 1 .. L + 1 : h[i] = g[i] /\ g[i] = ScanStep(s, q, g, i)
    <3>1. \A i \in n + 1 .. L + 1 : i \in n .. L + 1 /\ i # n
      BY <2>3
    <3> HIDE DEF n
    <3> QED
      BY <2>4, <3>1
  <2>6. h[n] = ScanStep(s, q, g, n)
    BY <2>3
  <2>7. \A i \in n .. L + 1 : ScanStep(s, q, h, i) = ScanStep(s, q, g, i)
    <3> SUFFICES ASSUME NEW i \in n .. L + 1 PROVE ScanStep(s, q, h, i) = ScanStep(s, q, g, i)
      OBVIOUS
    <3>1. i > L \/ i + 1 \in n + 1 .. L + 1
      BY <1>0, <2>3
    <3>2. IsRun(s, i, q) => i + q \in n + 1 .. L + 1
      BY <1>0, <2>3 DEF IsRun
    <3> HIDE DEF h, n
    <3> QED
      BY <2>5, <3>1, <3>2 DEF ScanStep
  <2>8. ScansFrom(s, q, h, n)
    <3>1. ASSUME NEW i \in n .. L + 1 PROVE h[i] = ScanStep(s, q, h, i)
      <4>1. i = n \/ i \in n + 1 .. L + 1
        BY <2>3
      <4> HIDE DEF h, n
      <4> QED
        BY <2>5, <2>6, <2>7, <4>1
    <3>2. h = [i \in n .. L + 1 |-> h[i]]
      OBVIOUS
    <3> HIDE DEF h, n
    <3> QED
      BY <3>1, <3>2 DEF ScansFrom
  <2> HIDE DEF h
  <2> QED
    BY <1>2, <2>8
<1> QED
  BY <1>3, <1>4

\* What the scan finds from a position on.
LEMMA ScanUnfolds ==
  ASSUME NEW S, NEW s \in Seq(S), NEW q \in Nat \ {0}, NEW i \in 1 .. Len(s) + 1
  PROVE  Scan(s, q)[i] = ScanStep(s, q, Scan(s, q), i)
<1>1. Scan(s, q) = CHOOSE g : ScansFrom(s, q, g, 1)
  BY DEF Scan, ScansFrom, ScanStep
<1>2. ScansFrom(s, q, Scan(s, q), 1)
  BY <1>1, ScanExists
<1> QED
  BY <1>2 DEF ScansFrom

\* g consists of disjoint runs of q tickets of s, one behind the other from
\* position i on.
Runs(g, s, q, i) ==
  \E m \in Nat : \E p \in [1 .. m -> i .. Len(s)] :
    /\ g = [a \in 1 .. m |-> SubSeq(s, p[a], p[a] + q - 1)]
    /\ \A a \in 1 .. m : IsRun(s, p[a], q)
    /\ \A a, b \in 1 .. m : a < b => p[a] + q <= p[b]

\* g is the q elements of s from the i-th on.
CutAt(g, s, q, i, S) ==
  /\ g \in Seq(S) /\ Len(g) = q
  /\ \A k \in 1 .. q : i + k - 1 \in 1 .. Len(s) /\ g[k] = s[i + k - 1]

\* A run of q tickets as a sequence.
LEMMA RunIsCut ==
  ASSUME NEW S, NEW s \in Seq(S), NEW q \in Nat \ {0}, NEW i \in 1 .. Len(s), IsRun(s, i, q)
  PROVE  CutAt(SubSeq(s, i, i + q - 1), s, q, i, S)
<1>1. i + q - 1 \in 1 .. Len(s) /\ i <= i + q - 1 + 1
  BY DEF IsRun
<1>2. (i + q - 1) - i + 1 = q
  OBVIOUS
<1>3. \A k \in 1 .. q : i + k - 1 \in 1 .. Len(s) /\ i + k - 1 = k + i - 1
  BY <1>1
<1>4. \A k \in i .. i + q - 1 : s[k] \in S
  BY <1>1
<1>5. /\ SubSeq(s, i, i + q - 1) \in Seq(S)
      /\ Len(SubSeq(s, i, i + q - 1)) = q
      /\ \A k \in 1 .. q : SubSeq(s, i, i + q - 1)[k] = s[i + k - 1]
  BY <1>1, <1>2, <1>3, <1>4, SubSeqProperties
<1> QED
  BY <1>3, <1>5 DEF CutAt

LEMMA RunProperties ==
  ASSUME NEW S, NEW s \in Seq(S), NEW q \in Nat \ {0}, NEW i \in 1 .. Len(s), IsRun(s, i, q)
  PROVE  /\ SubSeq(s, i, i + q - 1) \in Seq(S)
         /\ Len(SubSeq(s, i, i + q - 1)) = q
         /\ \A k \in 1 .. q : /\ i + k - 1 \in 1 .. Len(s)
                              /\ SubSeq(s, i, i + q - 1)[k] = s[i + k - 1]
<1>1. CutAt(SubSeq(s, i, i + q - 1), s, q, i, S)
  BY RunIsCut
<1> QED
  BY <1>1 DEF CutAt

\* A run in front of runs.
LEMMA RunInFront ==
  ASSUME NEW S, NEW s \in Seq(S), NEW q \in Nat \ {0}, NEW i \in 1 .. Len(s),
         IsRun(s, i, q), NEW g, Runs(g, s, q, i + q)
  PROVE  Runs(<<SubSeq(s, i, i + q - 1)>> \o g, s, q, i)
<1>0. PICK m \in Nat : \E p \in [1 .. m -> i + q .. Len(s)] :
        /\ g = [a \in 1 .. m |-> SubSeq(s, p[a], p[a] + q - 1)]
        /\ \A a \in 1 .. m : IsRun(s, p[a], q)
        /\ \A a, b \in 1 .. m : a < b => p[a] + q <= p[b]
  BY DEF Runs
<1>1. PICK p \in [1 .. m -> i + q .. Len(s)] :
        /\ g = [a \in 1 .. m |-> SubSeq(s, p[a], p[a] + q - 1)]
        /\ \A a \in 1 .. m : IsRun(s, p[a], q)
        /\ \A a, b \in 1 .. m : a < b => p[a] + q <= p[b]
  BY <1>0
<1> DEFINE r == [a \in 1 .. m + 1 |-> IF a = 1 THEN i ELSE p[a - 1]]
           h == [a \in 1 .. m + 1 |-> SubSeq(s, r[a], r[a] + q - 1)]
<1>2. r[1] = i /\ \A a \in 1 .. m : r[a + 1] = p[a]
  OBVIOUS
<1>3. r \in [1 .. m + 1 -> i .. Len(s)]
  OBVIOUS
<1>4. \A a \in 2 .. m + 1 : a - 1 \in 1 .. m /\ r[a] = p[a - 1]
  OBVIOUS
<1> HIDE DEF r
<1>5. \A a \in 1 .. m + 1 : IsRun(s, r[a], q)
  <2>1. \A a \in 1 .. m + 1 : a = 1 \/ a \in 2 .. m + 1
    OBVIOUS
  <2> QED
    BY <1>1, <1>2, <1>4, <2>1
<1>6. ASSUME NEW a \in 1 .. m + 1, NEW b \in 1 .. m + 1, a < b PROVE r[a] + q <= r[b]
  <2>1. b \in 2 .. m + 1 /\ r[b] = p[b - 1] /\ b - 1 \in 1 .. m
    BY <1>4, <1>6
  <2>2. CASE a = 1
    BY <1>2, <2>1, <2>2
  <2>3. CASE a # 1
    <3>1. a \in 2 .. m + 1 /\ a - 1 < b - 1
      BY <1>6, <2>3
    <3>2. a - 1 \in 1 .. m /\ r[a] = p[a - 1]
      BY <1>4, <3>1
    <3> QED
      BY <1>1, <2>1, <3>1, <3>2
  <2> QED
    BY <2>2, <2>3
<1>7. <<SubSeq(s, i, i + q - 1)>> \o g = h
  <2> DEFINE f == <<SubSeq(s, i, i + q - 1)>>
  <2>1. \A a \in 1 .. m : p[a] \in 1 .. Len(s) /\ SubSeq(s, p[a], p[a] + q - 1) \in Seq(S)
    BY <1>1, RunProperties
  <2>2. g \in Seq(Seq(S)) /\ Len(g) = m
    BY <1>1, <2>1
  <2>3. f \in Seq(Seq(S)) /\ Len(f) = 1 /\ f[1] = SubSeq(s, i, i + q - 1)
    BY RunProperties
  <2>4. \A a \in 1 .. m + 1 : r[a] \in 1 .. Len(s) /\ SubSeq(s, r[a], r[a] + q - 1) \in Seq(S)
    BY <1>3, <1>5, RunProperties
  <2>5. h \in Seq(Seq(S)) /\ Len(h) = m + 1
    BY <2>4
  <2>7. h[1] = f[1]
    BY <1>2, <2>3
  <2>8. \A a \in 2 .. m + 1 : h[a] = g[a - 1]
    <3>0. \A a \in 1 .. m + 1 : h[a] = SubSeq(s, r[a], r[a] + q - 1)
      OBVIOUS
    <3> HIDE DEF h, f
    <3>1. \A a \in 2 .. m + 1 : h[a] = SubSeq(s, p[a - 1], p[a - 1] + q - 1)
      <4>1. \A a \in 2 .. m + 1 : a \in 1 .. m + 1
        OBVIOUS
      <4> QED
        BY <1>4, <3>0, <4>1, Zenon
    <3>2. \A b \in 1 .. m : g[b] = SubSeq(s, p[b], p[b] + q - 1)
      BY <1>1
    <3> QED
      BY <1>4, <3>1, <3>2
  <2> HIDE DEF f, h
  <2>6. /\ f \o g \in Seq(Seq(S)) /\ Len(f \o g) = 1 + m
        /\ \A a \in 1 .. 1 + m : (f \o g)[a] = IF a <= 1 THEN f[a] ELSE g[a - 1]
    <3>1. /\ f \o g \in Seq(Seq(S)) /\ Len(f \o g) = Len(f) + Len(g)
          /\ \A a \in 1 .. Len(f) + Len(g) : (f \o g)[a] = IF a <= Len(f) THEN f[a] ELSE g[a - Len(f)]
      BY <2>2, <2>3, ConcatProperties
    <3>2. Len(f) = 1 /\ Len(g) = m
      BY <2>2, <2>3
    <3> QED
      BY <3>1, <3>2, Zenon
  <2>9. \A a \in 1 .. m + 1 : (f \o g)[a] = h[a]
    <3>1. \A a \in 1 .. m + 1 : a \in 1 .. 1 + m /\ ((a = 1 /\ a <= 1) \/ (a \in 2 .. m + 1 /\ ~ (a <= 1)))
      OBVIOUS
    <3>2. m + 1 = 1 + m
      OBVIOUS
    <3> QED
      BY <2>6, <2>7, <2>8, <3>1, <3>2
  <2>10. f \o g = h
    <3> DEFINE k == f \o g
    <3>1. k \in Seq(Seq(S)) /\ Len(k) = m + 1 /\ \A a \in 1 .. m + 1 : k[a] = h[a]
      BY <2>6, <2>9
    <3> HIDE DEF k
    <3>2. k = h
      BY <2>5, <3>1, SeqEqual
    <3> QED
      BY <3>2 DEF k
  <2> QED
    BY <2>10 DEF f
<1>8. /\ m + 1 \in Nat
      /\ h = [a \in 1 .. m + 1 |-> SubSeq(s, r[a], r[a] + q - 1)]
  OBVIOUS
<1> HIDE DEF h
<1> QED
  BY <1>3, <1>5, <1>6, <1>7, <1>8 DEF Runs

\* From every position on the scan finds disjoint runs, in the order of the tickets.
LEMMA ScanFindsRuns ==
  ASSUME NEW S, NEW s \in Seq(S), NEW q \in Nat \ {0}
  PROVE  \A i \in 1 .. Len(s) + 1 : Runs(Scan(s, q)[i], s, q, i)
<1> DEFINE L == Len(s)
           bad == {k \in 0 .. L : ~ Runs(Scan(s, q)[L + 1 - k], s, q, L + 1 - k)}
<1>0. L \in Nat
  OBVIOUS
<1>1. SUFFICES ASSUME bad # {} PROVE FALSE
  <2>1. ASSUME NEW i \in 1 .. L + 1, bad = {} PROVE Runs(Scan(s, q)[i], s, q, i)
    <3>1. L + 1 - i \in 0 .. L /\ L + 1 - (L + 1 - i) = i
      BY <1>0
    <3> QED
      BY <2>1, <3>1
  <2> HIDE DEF bad
  <2> QED
    BY <2>1
<1>2. PICK k \in bad : \A j \in bad : k <= j
  <2>1. bad \in SUBSET Nat
    BY <1>0
  <2> HIDE DEF bad
  <2> QED
    BY <1>1, <2>1, Least
<1> DEFINE i == L + 1 - k
<1>3. i \in 1 .. L + 1
  BY <1>0, <1>2
<1>4. \A j \in i + 1 .. L + 1 : Runs(Scan(s, q)[j], s, q, j)
  <2> SUFFICES ASSUME NEW j \in i + 1 .. L + 1 PROVE Runs(Scan(s, q)[j], s, q, j)
    OBVIOUS
  <2>1. L + 1 - j \in 0 .. L /\ ~ (k <= L + 1 - j) /\ L + 1 - (L + 1 - j) = j
    BY <1>0, <1>2
  <2>2. L + 1 - j \notin bad
    BY <1>2, <2>1
  <2> QED
    BY <2>1, <2>2
<1>5. ~ Runs(Scan(s, q)[i], s, q, i)
  BY <1>2
<1>6. Scan(s, q)[i] = ScanStep(s, q, Scan(s, q), i)
  BY <1>3, ScanUnfolds
<1> HIDE DEF i, bad
<1>7. CASE i > L
  <2>1. Scan(s, q)[i] = <<>>
    BY <1>6, <1>7 DEF ScanStep
  <2> DEFINE p == [a \in 1 .. 0 |-> i]
  <2>2. 1 .. 0 = {}
    OBVIOUS
  <2>3. <<>> = [a \in 1 .. 0 |-> SubSeq(s, p[a], p[a] + q - 1)]
    <3>1. [a \in 1 .. 0 |-> SubSeq(s, p[a], p[a] + q - 1)] \in Seq({})
      BY <2>2
    <3>2. Len([a \in 1 .. 0 |-> SubSeq(s, p[a], p[a] + q - 1)]) = 0
      BY <2>2
    <3> QED
      BY <3>1, <3>2, EmptySeq
  <2>4. p \in [1 .. 0 -> i .. Len(s)]
    BY <2>2
  <2> HIDE DEF p
  <2>5. Runs(<<>>, s, q, i)
    BY <2>2, <2>3, <2>4 DEF Runs
  <2> QED
    BY <1>5, <2>1, <2>5
<1>8. CASE i \in 1 .. L /\ IsRun(s, i, q)
  <2>1. i + q \in i + 1 .. L + 1
    BY <1>0, <1>8 DEF IsRun
  <2>2. Runs(Scan(s, q)[i + q], s, q, i + q)
    BY <1>4, <2>1
  <2>3. Scan(s, q)[i] = <<SubSeq(s, i, i + q - 1)>> \o Scan(s, q)[i + q]
    BY <1>0, <1>6, <1>8 DEF ScanStep
  <2> QED
    BY <1>5, <1>8, <2>2, <2>3, RunInFront
<1>9. CASE i \in 1 .. L /\ ~ IsRun(s, i, q)
  <2>1. Scan(s, q)[i] = Scan(s, q)[i + 1] /\ Runs(Scan(s, q)[i + 1], s, q, i + 1)
    BY <1>0, <1>4, <1>6, <1>9 DEF ScanStep
  <2>2. Runs(Scan(s, q)[i], s, q, i)
    <3>1. \A m \in Nat : \A p \in [1 .. m -> i + 1 .. Len(s)] : p \in [1 .. m -> i .. Len(s)]
      BY <1>9
    <3> QED
      BY <2>1, <3>1 DEF Runs
  <2> QED
    BY <1>5, <2>2
<1> QED
  BY <1>0, <1>3, <1>7, <1>8, <1>9

-----------------------------------------------------------------------------
(* The page                                                                *)

\* The first n elements.
LEMMA PrefixProperties ==
  ASSUME NEW S, NEW s \in Seq(S), NEW n \in Nat
  PROVE  /\ Prefix(s, n) \in Seq(S)
         /\ Len(Prefix(s, n)) = IF n <= Len(s) THEN n ELSE Len(s)
         /\ \A i \in 1 .. Len(Prefix(s, n)) : i \in 1 .. Len(s) /\ Prefix(s, n)[i] = s[i]
<1> DEFINE k == IF n <= Len(s) THEN n ELSE Len(s)
<1>1. Min({n, Len(s)}) = k
  <2>1. k \in {n, Len(s)} /\ \A y \in {n, Len(s)} : k <= y
    OBVIOUS
  <2>2. \A x \in {n, Len(s)} : (\A y \in {n, Len(s)} : x <= y) => x = k
    OBVIOUS
  <2> HIDE DEF k
  <2> QED
    BY <2>1, <2>2, Zenon DEF Min
<1>2. k \in Nat /\ k <= Len(s) /\ k \in Int /\ \A i \in 1 .. k : i \in 1 .. Len(s) /\ s[i] \in S
  OBVIOUS
<1>3. Prefix(s, n) = SubSeq(s, 1, k)
  BY <1>1 DEF Prefix
<1> HIDE DEF k
<1>4. /\ SubSeq(s, 1, k) \in Seq(S)
      /\ Len(SubSeq(s, 1, k)) = IF 1 <= k THEN k - 1 + 1 ELSE 0
      /\ \A i \in 1 .. k - 1 + 1 : SubSeq(s, 1, k)[i] = s[1 + i - 1]
  BY <1>2, SubSeqProperties
<1>5. Len(SubSeq(s, 1, k)) = k /\ \A i \in 1 .. k : SubSeq(s, 1, k)[i] = s[i]
  <2>1. (IF 1 <= k THEN k - 1 + 1 ELSE 0) = k /\ k - 1 + 1 = k /\ \A i \in 1 .. k : 1 + i - 1 = i
    BY <1>2
  <2> QED
    BY <1>4, <2>1
<1>6. /\ Prefix(s, n) \in Seq(S) /\ Len(Prefix(s, n)) = k
      /\ \A i \in 1 .. k : i \in 1 .. Len(s) /\ Prefix(s, n)[i] = s[i]
  BY <1>2, <1>3, <1>4, <1>5
<1> QED
  BY <1>6 DEF k

\* The groups of a scan as sequences of tickets, one behind the other.
LEMMA RunsAreCut ==
  ASSUME NEW S, NEW s \in Seq(S), NEW q \in Nat \ {0}, NEW G, Runs(G, s, q, 1)
  PROVE  \E m \in Nat : \E p \in [1 .. m -> 1 .. Len(s)] :
           /\ G \in Seq(Seq(S)) /\ Len(G) = m
           /\ \A a \in 1 .. m : CutAt(G[a], s, q, p[a], S)
           /\ \A a, b \in 1 .. m : a < b => p[a] + q <= p[b]
<1> DEFINE run(i) == SubSeq(s, i, i + q - 1)
<1>1. PICK m \in Nat : \E p \in [1 .. m -> 1 .. Len(s)] :
        /\ G = [a \in 1 .. m |-> run(p[a])]
        /\ \A a \in 1 .. m : IsRun(s, p[a], q)
        /\ \A a, b \in 1 .. m : a < b => p[a] + q <= p[b]
  BY DEF Runs
<1>2. PICK p \in [1 .. m -> 1 .. Len(s)] :
        /\ G = [a \in 1 .. m |-> run(p[a])]
        /\ \A a \in 1 .. m : IsRun(s, p[a], q)
        /\ \A a, b \in 1 .. m : a < b => p[a] + q <= p[b]
  BY <1>1
<1>3. ASSUME NEW i \in 1 .. Len(s), IsRun(s, i, q) PROVE CutAt(run(i), s, q, i, S)
  BY <1>3, RunIsCut
<1> HIDE DEF run
<1>4. ASSUME NEW a \in 1 .. m PROVE CutAt(run(p[a]), s, q, p[a], S)
  <2>1. PICK i \in 1 .. Len(s) : i = p[a] /\ IsRun(s, i, q)
    BY <1>2
  <2> QED
    BY <1>3, <2>1, Zenon
<1>5. \A a \in 1 .. m : run(p[a]) \in Seq(S)
  BY <1>4 DEF CutAt
<1>6. G \in Seq(Seq(S)) /\ Len(G) = m /\ \A a \in 1 .. m : G[a] = run(p[a])
  <2>1. G = [a \in 1 .. m |-> run(p[a])]
    BY <1>2
  <2> QED
    BY <1>5, <2>1
<1>7. \A a \in 1 .. m : CutAt(G[a], s, q, p[a], S)
  BY <1>4, <1>6
<1> QED
  BY <1>2, <1>6, <1>7

Replies == [groups : Seq(Seq(Seats)), hasMore : BOOLEAN, next : Seats \cup {NoCursor}]

\* A page consists of available tickets, its cursor is an available ticket and no
\* ticket of the page lies behind it.
LEMMA PageFacts ==
  ASSUME NEW A \in SUBSET Seats, NEW q \in Nat \ {0}, NEW limit \in Nat \ {0},
         NEW P, P = PageOf(Ordered(A), q, limit)
  PROVE  /\ P \in Replies
         /\ \A a \in DOMAIN P.groups : SeatsOf(P.groups[a]) \subseteq A
         /\ P.next # NoCursor =>
              /\ P.next \in A
              /\ \A a \in DOMAIN P.groups : \A t \in SeatsOf(P.groups[a]) :
                   t = P.next \/ Before(t, P.next)
<1> DEFINE s == Ordered(A)
           G == Scan(s, q)[1]
           groups == Prefix(G, limit + 1)
           pg == Prefix(groups, limit)
<1>1. s \in Seq(A) /\ \A i, j \in 1 .. Len(s) : i < j => Before(s[i], s[j])
  BY OrderedAscends
<1>2. P = [groups |-> pg, hasMore |-> Len(groups) > limit,
           next |-> IF Len(groups) > limit THEN Last(Last(pg)) ELSE NoCursor]
  BY DEF PageOf, GroupConsecutive
<1> HIDE DEF s
<1>3. Runs(G, s, q, 1)
  BY <1>1, ScanFindsRuns
<1> HIDE DEF G
<1>4. PICK m \in Nat : \E p \in [1 .. m -> 1 .. Len(s)] :
        /\ G \in Seq(Seq(A)) /\ Len(G) = m
        /\ \A a \in 1 .. m : CutAt(G[a], s, q, p[a], A)
        /\ \A a, b \in 1 .. m : a < b => p[a] + q <= p[b]
  <2>1. s \in Seq(A)
    BY <1>1
  <2> QED
    BY <1>3, <2>1, RunsAreCut
<1>5. PICK p \in [1 .. m -> 1 .. Len(s)] :
        /\ G \in Seq(Seq(A)) /\ Len(G) = m
        /\ \A a \in 1 .. m : CutAt(G[a], s, q, p[a], A)
        /\ \A a, b \in 1 .. m : a < b => p[a] + q <= p[b]
  BY <1>4
<1>6. ASSUME NEW a \in 1 .. m
      PROVE  /\ G[a] \in Seq(A) /\ Len(G[a]) = q
             /\ \A k \in 1 .. q : p[a] + k - 1 \in 1 .. Len(s) /\ G[a][k] = s[p[a] + k - 1]
  BY <1>5 DEF CutAt
<1>7. G \in Seq(Seq(A)) /\ Len(G) = m
  BY <1>5
<1>8. /\ groups \in Seq(Seq(A)) /\ Len(groups) = IF limit + 1 <= m THEN limit + 1 ELSE m
      /\ \A a \in 1 .. Len(groups) : a \in 1 .. m /\ groups[a] = G[a]
  <2>1. limit + 1 \in Nat
    OBVIOUS
  <2> HIDE DEF G
  <2>2. /\ Prefix(G, limit + 1) \in Seq(Seq(A))
        /\ Len(Prefix(G, limit + 1)) = IF limit + 1 <= Len(G) THEN limit + 1 ELSE Len(G)
        /\ \A a \in 1 .. Len(Prefix(G, limit + 1)) :
             a \in 1 .. Len(G) /\ Prefix(G, limit + 1)[a] = G[a]
    BY <1>7, <2>1, PrefixProperties
  <2> QED
    BY <1>7, <2>2, Zenon
<1> HIDE DEF groups
<1>9. /\ pg \in Seq(Seq(A))
      /\ Len(pg) = IF limit <= Len(groups) THEN limit ELSE Len(groups)
      /\ \A a \in 1 .. Len(pg) : a \in 1 .. Len(groups) /\ pg[a] = groups[a]
  <2>1. groups \in Seq(Seq(A)) /\ limit \in Nat
    BY <1>8
  <2>2. /\ Prefix(groups, limit) \in Seq(Seq(A))
        /\ Len(Prefix(groups, limit)) = IF limit <= Len(groups) THEN limit ELSE Len(groups)
        /\ \A a \in 1 .. Len(Prefix(groups, limit)) :
             a \in 1 .. Len(groups) /\ Prefix(groups, limit)[a] = groups[a]
    BY <2>1, PrefixProperties
  <2> QED
    BY <2>2, Zenon
<1> HIDE DEF pg
<1>10. \A a \in 1 .. Len(pg) : a \in 1 .. m /\ pg[a] = G[a]
  BY <1>7, <1>8, <1>9
<1>11. DOMAIN pg = 1 .. Len(pg)
  BY <1>9
<1>12. \A a \in 1 .. Len(pg) : \A t \in SeatsOf(pg[a]) :
         \E k \in 1 .. q : p[a] + k - 1 \in 1 .. Len(s) /\ t = s[p[a] + k - 1]
  <2> SUFFICES ASSUME NEW a \in 1 .. Len(pg), NEW t \in SeatsOf(pg[a])
               PROVE  \E k \in 1 .. q : p[a] + k - 1 \in 1 .. Len(s) /\ t = s[p[a] + k - 1]
    OBVIOUS
  <2>1. a \in 1 .. m /\ pg[a] = G[a]
    BY <1>10
  <2>2. DOMAIN pg[a] = 1 .. q
    BY <1>6, <2>1
  <2>3. PICK k \in 1 .. q : t = pg[a][k]
    BY <2>2, Zenon DEF SeatsOf
  <2>4. p[a] + k - 1 \in 1 .. Len(s) /\ G[a][k] = s[p[a] + k - 1]
    BY <1>6, <2>1
  <2> QED
    BY <2>1, <2>3, <2>4
<1>13. \A a \in 1 .. Len(pg) : SeatsOf(pg[a]) \subseteq A
  <2>1. \A i \in 1 .. Len(s) : s[i] \in A
    BY <1>1
  <2> SUFFICES ASSUME NEW a \in 1 .. Len(pg), NEW t \in SeatsOf(pg[a]) PROVE t \in A
    OBVIOUS
  <2>2. PICK k \in 1 .. q : p[a] + k - 1 \in 1 .. Len(s) /\ t = s[p[a] + k - 1]
    BY <1>12
  <2> QED
    BY <2>1, <2>2
<1>14. ASSUME Len(groups) > limit
       PROVE  /\ Last(Last(pg)) \in A
              /\ \A a \in 1 .. Len(pg) : \A t \in SeatsOf(pg[a]) :
                   t = Last(Last(pg)) \/ Before(t, Last(Last(pg)))
  <2>1. Len(pg) = limit /\ limit \in 1 .. Len(pg) /\ limit \in 1 .. m /\ pg[limit] = G[limit]
    BY <1>8, <1>9, <1>10, <1>14
  <2> DEFINE e == p[limit] + q - 1
  <2>2. Last(pg) = G[limit]
    BY <2>1 DEF Last
  <2>3. e \in 1 .. Len(s) /\ Last(Last(pg)) = s[e]
    <3>1. Last(Last(pg)) = G[limit][q] /\ q \in 1 .. q
      BY <1>6, <2>1, <2>2 DEF Last
    <3> QED
      BY <1>6, <2>1, <3>1
  <2>4. ASSUME NEW a \in 1 .. Len(pg), NEW t \in SeatsOf(pg[a]) PROVE t = s[e] \/ Before(t, s[e])
    <3>1. PICK k \in 1 .. q : p[a] + k - 1 \in 1 .. Len(s) /\ t = s[p[a] + k - 1]
      BY <1>12
    <3>2. a \in 1 .. m /\ p[a] \in Nat /\ p[limit] \in Nat /\ (a = limit \/ p[a] + q <= p[limit])
      <4>1. a \in 1 .. m /\ limit \in 1 .. m /\ (a = limit \/ a < limit)
        BY <1>10, <2>1
      <4>2. \A b, d \in 1 .. m : b < d => p[b] + q <= p[d]
        BY <1>5
      <4>3. p[a] \in 1 .. Len(s) /\ p[limit] \in 1 .. Len(s)
        BY <4>1
      <4>4. a = limit \/ p[a] + q <= p[limit]
        BY <4>1, <4>2
      <4> QED
        BY <4>1, <4>3, <4>4
    <3>3. p[a] + k - 1 = e \/ p[a] + k - 1 < e
      BY <3>2
    <3> HIDE DEF e
    <3> QED
      BY <1>1, <2>3, <3>1, <3>3
  <2> QED
    BY <1>1, <2>3, <2>4
<1>15. P.groups = pg /\ P.next = IF Len(groups) > limit THEN Last(Last(pg)) ELSE NoCursor
  BY <1>2
<1>16. P \in Replies
  <2>1. pg \in Seq(Seq(Seats))
    <3>1. \A a \in 1 .. Len(pg) : pg[a] \in Seq(Seats)
      BY <1>9
    <3> QED
      BY <1>9, <3>1
  <2>2. P.next \in Seats \cup {NoCursor}
    BY <1>14, <1>15
  <2>3. (Len(groups) > limit) \in BOOLEAN
    OBVIOUS
  <2> QED
    BY <1>2, <1>15, <2>1, <2>2, <2>3 DEF Replies
<1> QED
  BY <1>11, <1>13, <1>14, <1>15, <1>16

\* A reply to the query with cursor c: its tickets lie behind c, and none of them
\* behind the cursor of the next page.
ReplyTo(P, c) ==
  /\ P \in Replies
  /\ P.next # NoCursor /\ c # NoCursor => Before(c, P.next)
  /\ \A a \in DOMAIN P.groups : \A t \in SeatsOf(P.groups[a]) :
       /\ t \in Seats
       /\ c # NoCursor => Before(c, t)
       /\ P.next # NoCursor => t = P.next \/ Before(t, P.next)

\* findTickets answers the query with the cursor it is given, whatever is booked
\* or held when it reads.
LEMMA FindTicketsReplies ==
  ASSUME NEW b, NEW h, NEW sec, NEW c \in Seats \cup {NoCursor}, NEW q \in Nat \ {0}
  PROVE  ReplyTo(FindTickets(Seats \ b, h, sec, c, q, Limit), c)
<1> DEFINE R == InRange(Seats \ b, sec, c)
           window == Prefix(Ordered(R), Take(Limit, q))
           A == ToSet(window) \ h
           P == PageOf(Ordered(A), q, Limit)
<1>1. R \in SUBSET Seats /\ (c # NoCursor => \A t \in R : Before(c, t))
  BY DEF InRange
<1>2. FindTickets(Seats \ b, h, sec, c, q, Limit) = P
  BY DEF FindTickets
<1> HIDE DEF R
<1>3. Ordered(R) \in Seq(R)
  BY <1>1, OrderedAscends
<1>4. Take(Limit, q) \in Nat
  BY LimitAssumption, SMT DEF Take
<1>5. window \in Seq(R)
  BY <1>3, <1>4, PrefixProperties
<1> HIDE DEF window
<1>6. A \in SUBSET R /\ A \in SUBSET Seats
  BY <1>1, <1>5 DEF ToSet
<1> HIDE DEF A, P
<1>7. P = PageOf(Ordered(A), q, Limit)
  BY DEF P
<1>8. /\ P \in Replies
      /\ \A a \in DOMAIN P.groups : SeatsOf(P.groups[a]) \subseteq A
      /\ P.next # NoCursor =>
           /\ P.next \in A
           /\ \A a \in DOMAIN P.groups : \A t \in SeatsOf(P.groups[a]) :
                t = P.next \/ Before(t, P.next)
  BY <1>6, <1>7, LimitAssumption, PageFacts
<1> QED
  BY <1>1, <1>2, <1>6, <1>8 DEF ReplyTo

-----------------------------------------------------------------------------
(* Blocks of adjacent seats                                                *)

\* The remainder of a division is unique.
LEMMA Remainder ==
  ASSUME NEW d \in Nat, NEW q \in Nat \ {0}, NEW c \in Int, NEW r \in 0 .. q - 1, d = q * c + r
  PROVE  d % q = r
<1> DEFINE e == d \div q
           t == d % q
<1>1. d = q * e + t /\ t \in 0 .. q - 1 /\ e \in Int
  <2>1. d = q * (d \div q) + (d % q)
    OBVIOUS
  <2>2. d % q \in 0 .. q - 1 /\ d \div q \in Int
    OBVIOUS
  <2> QED
    BY <2>1, <2>2
<1> SUFFICES t = r
  OBVIOUS
<1> HIDE DEF e, t
<1>2. q * (c - e) = t - r /\ t - r < q /\ r - t < q
  BY <1>1
<1>3. CASE c - e >= 1
  <2>1. PICK z \in Nat : c - e = z + 1
    <3>1. c - e - 1 \in Nat /\ c - e = (c - e - 1) + 1
      BY <1>1, <1>3
    <3> QED
      BY <3>1
  <2>2. q * (c - e) = q * z + q /\ q * z \in Nat
    BY <2>1
  <2> QED
    BY <1>1, <1>2, <2>2
<1>4. CASE e - c >= 1
  <2>1. PICK z \in Nat : e - c = z + 1
    <3>1. e - c - 1 \in Nat /\ e - c = (e - c - 1) + 1
      BY <1>1, <1>4
    <3> QED
      BY <3>1
  <2>2. q * (e - c) = q * z + q /\ q * z \in Nat /\ q * (e - c) = - (q * (c - e))
    BY <1>1, <2>1
  <2> QED
    BY <1>1, <1>2, <2>2
<1>5. CASE c = e
  BY <1>1, <1>5
<1>6. c - e >= 1 \/ e - c >= 1 \/ c = e
  BY <1>1
<1> QED
  BY <1>3, <1>4, <1>5, <1>6

\* q further seats start a group again, fewer do not.
LEMMA NextMultiple ==
  ASSUME NEW d \in Nat, NEW q \in Nat \ {0}, d % q = 0
  PROVE  /\ (d + q) % q = 0
         /\ \A k \in 1 .. q - 1 : (d + k) % q # 0
<1>1. PICK c \in Int : d = q * c
  <2>1. d = q * (d \div q) + (d % q) /\ d \div q \in Int
    OBVIOUS
  <2> QED
    BY <2>1
<1>2. (d + q) % q = 0
  <2>1. d + q = q * (c + 1) + 0 /\ c + 1 \in Int /\ 0 \in 0 .. q - 1 /\ d + q \in Nat
    BY <1>1
  <2> QED
    BY <2>1, Remainder
<1>3. ASSUME NEW k \in 1 .. q - 1 PROVE (d + k) % q # 0
  <2>1. d + k = q * c + k /\ k \in 0 .. q - 1 /\ d + k \in Nat
    BY <1>1
  <2>2. (d + k) % q = k
    BY <2>1, Remainder
  <2> QED
    BY <2>2
<1> QED
  BY <1>2, <1>3

LEMMA MinIsLeast ==
  ASSUME NEW S \in SUBSET Nat, S # {}
  PROVE  Min(S) \in S /\ \A y \in S : Min(S) <= y
<1>1. \E x \in S : \A y \in S : x =< y
  BY Least
<1> QED
  BY <1>1, Zenon DEF Min

\* How many seats of its block lie before a seat.
Back(t, A) == t.number - BlockStart(t, A)

\* Where the block of a seat starts.
LEMMA BlockStarts ==
  ASSUME NEW A \in SUBSET Seats, NEW t \in A
  PROVE  /\ t.number \in Nat /\ Seat(t.section, t.number) = t
         /\ BlockStart(t, A) \in 0 .. t.number /\ Back(t, A) \in Nat
         /\ \A m \in BlockStart(t, A) .. t.number : Seat(t.section, m) \in A
         /\ \A n \in 0 .. t.number :
              (\A m \in n .. t.number : Seat(t.section, m) \in A) => BlockStart(t, A) <= n
<1> DEFINE N == {n \in 0 .. t.number : \A m \in n .. t.number : Seat(t.section, m) \in A}
<1>1. t.number \in Nat /\ Seat(t.section, t.number) = t
  <2>1. t \in [section: Int, number: Nat]
    BY SeatsAssumption
  <2> QED
    BY <2>1 DEF Seat
<1>2. N \in SUBSET Nat
  BY <1>1
<1>3. t.number \in N
  BY <1>1
<1>4. BlockStart(t, A) = Min(N)
  BY DEF BlockStart
<1> HIDE DEF N
<1>5. BlockStart(t, A) \in N /\ \A n \in N : BlockStart(t, A) <= n
  BY <1>2, <1>3, <1>4, MinIsLeast
<1>6. BlockStart(t, A) \in 0 .. t.number
  BY <1>5 DEF N
<1>7. Back(t, A) \in Nat
  BY <1>1, <1>6 DEF Back
<1> QED
  BY <1>1, <1>5, <1>6, <1>7 DEF N

\* Seats with no gap between them lie in one block.
LEMMA SameBlock ==
  ASSUME NEW A \in SUBSET Seats, NEW t \in A, NEW k \in Nat,
         \A m \in t.number .. t.number + k : Seat(t.section, m) \in A,
         NEW u, u = Seat(t.section, t.number + k)
  PROVE  u \in A /\ Back(u, A) = Back(t, A) + k
<1>1. /\ t.number \in Nat
      /\ BlockStart(t, A) \in 0 .. t.number
      /\ \A m \in BlockStart(t, A) .. t.number : Seat(t.section, m) \in A
      /\ \A n \in 0 .. t.number :
           (\A m \in n .. t.number : Seat(t.section, m) \in A) => BlockStart(t, A) <= n
  BY BlockStarts
<1>2. u \in A /\ u.section = t.section /\ u.number = t.number + k
  <2>1. t.number + k \in t.number .. t.number + k
    BY <1>1
  <2> QED
    BY <2>1 DEF Seat
<1>3. /\ BlockStart(u, A) \in 0 .. u.number
      /\ \A m \in BlockStart(u, A) .. u.number : Seat(t.section, m) \in A
      /\ \A n \in 0 .. u.number :
           (\A m \in n .. u.number : Seat(t.section, m) \in A) => BlockStart(u, A) <= n
  BY <1>2, BlockStarts
<1>4. BlockStart(u, A) <= BlockStart(t, A)
  <2>1. \A m \in BlockStart(t, A) .. u.number : m \in BlockStart(t, A) .. t.number \/ m \in t.number .. t.number + k
    BY <1>1, <1>2
  <2>2. BlockStart(t, A) \in 0 .. u.number
    BY <1>1, <1>2
  <2> QED
    BY <1>1, <1>3, <2>1, <2>2
<1>5. BlockStart(t, A) <= BlockStart(u, A)
  <2>1. \A m \in BlockStart(u, A) .. t.number : m \in BlockStart(u, A) .. u.number
    BY <1>1, <1>2, <1>3
  <2>2. BlockStart(u, A) \in 0 .. t.number
    BY <1>1, <1>3, <1>4
  <2> QED
    BY <1>1, <1>3, <2>1, <2>2
<1>6. BlockStart(t, A) = BlockStart(u, A)
  BY <1>1, <1>3, <1>4, <1>5
<1> QED
  BY <1>1, <1>2, <1>3, <1>6 DEF Back

\* A seat with no seat before it starts a block.
LEMMA FirstOfBlock ==
  ASSUME NEW A \in SUBSET Seats, NEW t \in A,
         t.number = 0 \/ Seat(t.section, t.number - 1) \notin A
  PROVE  Back(t, A) = 0
<1>1. /\ t.number \in Nat
      /\ BlockStart(t, A) \in 0 .. t.number
      /\ \A m \in BlockStart(t, A) .. t.number : Seat(t.section, m) \in A
  BY BlockStarts
<1>2. BlockStart(t, A) # t.number => t.number - 1 \in BlockStart(t, A) .. t.number /\ t.number # 0
  BY <1>1
<1> QED
  BY <1>1, <1>2 DEF Back

\* The ticket of the next seat stands behind the ticket of a seat.
LEMMA NextSeat ==
  ASSUME NEW A \in SUBSET Seats, NEW s, s = Ordered(A), NEW i \in 1 .. Len(s),
         Seat(s[i].section, s[i].number + 1) \in A
  PROVE  i + 1 \in 1 .. Len(s) /\ s[i + 1] = Seat(s[i].section, s[i].number + 1)
<1> DEFINE u == Seat(s[i].section, s[i].number + 1)
<1>1. /\ s \in Seq(A) /\ Len(s) \in Nat
      /\ \A j, k \in 1 .. Len(s) : j < k => Before(s[j], s[k])
      /\ \E j \in 1 .. Len(s) : s[j] = u
  BY OrderedAscends DEF ToSet
<1>2. PICK j \in 1 .. Len(s) : s[j] = u
  BY <1>1
<1>3. s[i] \in Seats /\ s[i].section \in Int /\ s[i].number \in Nat
  <2>1. s[i] \in Seats /\ s[i] \in [section: Int, number: Nat]
    BY <1>1, SeatsAssumption
  <2> QED
    BY <2>1
<1>4. u \in Seats /\ u.section = s[i].section /\ u.number = s[i].number + 1
  BY DEF Seat
<1> HIDE DEF u
<1>5. Before(s[i], u) /\ ~ Before(u, s[i]) /\ u # s[i]
  BY <1>3, <1>4 DEF Before
<1>6. i < j
  BY <1>1, <1>2, <1>5
<1>7. j = i + 1
  <2>1. SUFFICES ASSUME i + 1 < j PROVE FALSE
    BY <1>6
  <2>2. i + 1 \in 1 .. Len(s) /\ Before(s[i], s[i + 1]) /\ Before(s[i + 1], u)
    BY <1>1, <1>2, <2>1
  <2>3. s[i + 1].section \in Int /\ s[i + 1].number \in Nat
    <3>1. s[i + 1] \in [section: Int, number: Nat]
      BY <1>1, <2>2, SeatsAssumption
    <3> QED
      BY <3>1
  <2> QED
    BY <1>3, <1>4, <2>2, <2>3 DEF Before
<1> QED
  BY <1>1, <1>2, <1>7 DEF u

\* A run consists of the seats that follow the first one.
LEMMA RunSeats ==
  ASSUME NEW A \in SUBSET Seats, NEW s \in Seq(A), NEW q \in Nat \ {0},
         NEW i \in 1 .. Len(s), IsRun(s, i, q)
  PROVE  \A k \in 0 .. q - 1 : /\ i + k \in 1 .. Len(s)
                               /\ s[i + k] = Seat(s[i].section, s[i].number + k)
<1> SUFFICES ASSUME NEW k \in 0 .. q - 1
             PROVE  /\ i + k \in 1 .. Len(s)
                    /\ s[i + k] = Seat(s[i].section, s[i].number + k)
  OBVIOUS
<1>1. i + k \in 1 .. Len(s)
  BY DEF IsRun
<1>2. s[i + k] \in [section: Int, number: Nat] /\ s[i] \in [section: Int, number: Nat]
  BY <1>1, SeatsAssumption
<1>3. s[i + k].section = s[i].section /\ s[i + k].number = s[i].number + k
  <2>1. CASE k = 0
    BY <1>2, <2>1
  <2>2. CASE k \in 1 .. q - 1
    BY <2>2 DEF IsRun
  <2> QED
    BY <2>1, <2>2
<1> QED
  BY <1>1, <1>2, <1>3 DEF Seat

\* The seats of a run.
LEMMA RunIsGroup ==
  ASSUME NEW A \in SUBSET Seats, NEW s \in Seq(A), NEW q \in Nat \ {0},
         NEW i \in 1 .. Len(s), IsRun(s, i, q)
  PROVE  SeatsOf(SubSeq(s, i, i + q - 1)) = RunFrom(s[i], q)
<1> DEFINE r == SubSeq(s, i, i + q - 1)
<1>1. /\ r \in Seq(A) /\ Len(r) = q
      /\ \A k \in 1 .. q : i + k - 1 \in 1 .. Len(s) /\ r[k] = s[i + k - 1]
  BY RunProperties
<1> HIDE DEF r
<1>2. s[i].number \in Nat
  <2>1. s[i] \in [section: Int, number: Nat]
    BY SeatsAssumption
  <2> QED
    BY <2>1
<1>3. ASSUME NEW k \in 1 .. q PROVE r[k] = Seat(s[i].section, s[i].number + (k - 1))
  <2>1. k - 1 \in 0 .. q - 1 /\ i + k - 1 = i + (k - 1)
    OBVIOUS
  <2>2. s[i + (k - 1)] = Seat(s[i].section, s[i].number + (k - 1))
    BY <2>1, RunSeats
  <2> QED
    BY <1>1, <2>1, <2>2
<1>4. \A k \in 1 .. q : s[i].number + (k - 1) \in s[i].number .. s[i].number + q - 1
  BY <1>2
<1>5. \A n \in s[i].number .. s[i].number + q - 1 :
        \E k \in 1 .. q : n = s[i].number + (k - 1)
  <2> SUFFICES ASSUME NEW n \in s[i].number .. s[i].number + q - 1
               PROVE  \E k \in 1 .. q : n = s[i].number + (k - 1)
    OBVIOUS
  <2>1. PICK b \in Nat : b = s[i].number
    BY <1>2
  <2>2. n - b + 1 \in 1 .. q /\ n = b + ((n - b + 1) - 1)
    BY <2>1
  <2>3. \E k \in 1 .. q : n = b + (k - 1)
    BY <2>2, Zenon
  <2> QED
    BY <2>1, <2>3
<1>6. SeatsOf(r) = {r[k] : k \in 1 .. q}
  <2>1. DOMAIN r = 1 .. q
    BY <1>1, Zenon, LenProperties
  <2> QED
    BY <2>1, Zenon DEF SeatsOf
<1>7. ASSUME NEW X PROVE X \in SeatsOf(r) <=> X \in RunFrom(s[i], q)
  <2>1. X \in SeatsOf(r) <=> \E k \in 1 .. q : X = Seat(s[i].section, s[i].number + (k - 1))
    BY <1>3, <1>6
  <2>2. X \in RunFrom(s[i], q) <=>
          \E n \in s[i].number .. s[i].number + q - 1 : X = Seat(s[i].section, n)
    BY DEF RunFrom
  <2> QED
    BY <1>4, <1>5, <2>1, <2>2
<1>8. SeatsOf(r) = RunFrom(s[i], q)
  BY <1>7
<1> QED
  BY <1>8 DEF r

\* The inner loop gets to q tickets exactly where q adjacent seats are available.
LEMMA RunIsBlock ==
  ASSUME NEW A \in SUBSET Seats, NEW s, s = Ordered(A), NEW q \in Nat \ {0},
         NEW i \in 1 .. Len(s)
  PROVE  IsRun(s, i, q) <=> RunFrom(s[i], q) \subseteq A
<1>1. s \in Seq(A) /\ Len(s) \in Nat /\ s[i] \in A
  BY OrderedAscends
<1>2. s[i].number \in Nat /\ s[i].section \in Int /\ Seat(s[i].section, s[i].number) = s[i]
  <2>1. s[i] \in [section: Int, number: Nat]
    BY <1>1, SeatsAssumption
  <2> QED
    BY <2>1 DEF Seat
<1>3. ASSUME IsRun(s, i, q) PROVE RunFrom(s[i], q) \subseteq A
  <2>1. ASSUME NEW n \in s[i].number .. s[i].number + q - 1
        PROVE  Seat(s[i].section, n) \in A
    <3>1. n - s[i].number \in 0 .. q - 1 /\ s[i].number + (n - s[i].number) = n
      BY <1>2
    <3>2. /\ i + (n - s[i].number) \in 1 .. Len(s)
          /\ s[i + (n - s[i].number)] = Seat(s[i].section, n)
      BY <1>1, <1>3, <3>1, RunSeats
    <3> QED
      BY <1>1, <3>2
  <2> QED
    BY <2>1 DEF RunFrom
<1>4. ASSUME RunFrom(s[i], q) \subseteq A PROVE IsRun(s, i, q)
  <2> DEFINE Follows(k) == i + k \in 1 .. Len(s) /\ s[i + k] = Seat(s[i].section, s[i].number + k)
             bad == {k \in 0 .. q - 1 : ~ Follows(k)}
  <2>1. ASSUME bad # {} PROVE FALSE
    <3>1. PICK k \in bad : \A j \in bad : k <= j
      <4>1. bad \in SUBSET Nat
        OBVIOUS
      <4> HIDE DEF bad
      <4> QED
        BY <2>1, <4>1, Least
    <3>2. k # 0
      BY <1>2, <3>1
    <3>3. k - 1 \in 0 .. q - 1 /\ k \in 1 .. q - 1
      BY <3>1, <3>2
    <3>4. Follows(k - 1)
      BY <3>1, <3>3
    <3>5. Seat(s[i].section, s[i].number + k) \in A
      <4>1. s[i].number + k \in s[i].number .. s[i].number + q - 1
        BY <1>2, <3>3
      <4> QED
        BY <1>4, <4>1 DEF RunFrom
    <3>6. PICK j \in 1 .. Len(s) : j = i + (k - 1) /\ j + 1 = i + k
      BY <3>3, <3>4
    <3>7. s[j].section = s[i].section /\ s[j].number + 1 = s[i].number + k
      BY <1>2, <3>3, <3>4, <3>6 DEF Seat
    <3>8. j + 1 \in 1 .. Len(s) /\ s[j + 1] = Seat(s[i].section, s[i].number + k)
      <4>1. Seat(s[j].section, s[j].number + 1) = Seat(s[i].section, s[i].number + k)
        BY <3>7
      <4> HIDE DEF bad, Follows
      <4> QED
        BY <3>5, <4>1, NextSeat
    <3> QED
      BY <3>1, <3>6, <3>8
  <2>2. \A k \in 0 .. q - 1 : Follows(k)
    BY <2>1
  <2>3. i + q - 1 <= Len(s)
    <3>1. q - 1 \in 0 .. q - 1
      OBVIOUS
    <3>2. Follows(q - 1)
      BY <2>2, <3>1
    <3> QED
      BY <1>1, <3>2
  <2>4. \A k \in 1 .. q - 1 : s[i + k].section = s[i].section /\ s[i + k].number = s[i].number + k
    <3>1. ASSUME NEW k \in 1 .. q - 1
          PROVE  s[i + k].section = s[i].section /\ s[i + k].number = s[i].number + k
      <4>1. k \in 0 .. q - 1
        OBVIOUS
      <4>2. s[i + k] = Seat(s[i].section, s[i].number + k)
        BY <2>2, <4>1
      <4> QED
        BY <4>2 DEF Seat
    <3> QED
      BY <3>1
  <2> QED
    BY <2>3, <2>4 DEF IsRun
<1> QED
  BY <1>3, <1>4

\* Every ticket either follows the seat before it or starts a block.
LEMMA BackOfNext ==
  ASSUME NEW A \in SUBSET Seats, NEW s, s = Ordered(A), NEW i \in 1 .. Len(s)
  PROVE  /\ s[i] \in A /\ Back(s[i], A) \in Nat
         /\ i = 1 => Back(s[i], A) = 0
         /\ i # 1 => \/ Back(s[i], A) = 0
                     \/ /\ s[i] = Seat(s[i - 1].section, s[i - 1].number + 1)
                        /\ Back(s[i], A) = Back(s[i - 1], A) + 1
<1>1. /\ s \in Seq(A) /\ Len(s) \in Nat /\ s[i] \in A
      /\ \A j, k \in 1 .. Len(s) : j < k => Before(s[j], s[k])
      /\ \A t \in A : \E j \in 1 .. Len(s) : s[j] = t
  BY OrderedAscends DEF ToSet
<1>2. Back(s[i], A) \in Nat /\ s[i].number \in Nat /\ Seat(s[i].section, s[i].number) = s[i]
  BY <1>1, BlockStarts
<1>3. CASE s[i].number = 0 \/ Seat(s[i].section, s[i].number - 1) \notin A
  BY <1>1, <1>2, <1>3, FirstOfBlock
<1>4. CASE s[i].number # 0 /\ Seat(s[i].section, s[i].number - 1) \in A
  <2>1. PICK j \in 1 .. Len(s) : s[j] = Seat(s[i].section, s[i].number - 1)
    BY <1>1, <1>4
  <2>2. s[j].section = s[i].section /\ s[j].number + 1 = s[i].number
    BY <1>2, <1>4, <2>1 DEF Seat
  <2>3. Seat(s[j].section, s[j].number + 1) = s[i]
    BY <1>2, <2>2
  <2>4. j + 1 \in 1 .. Len(s) /\ s[j + 1] = s[i]
    <3>1. Seat(s[j].section, s[j].number + 1) \in A
      BY <1>1, <2>3
    <3>2. j + 1 \in 1 .. Len(s) /\ s[j + 1] = Seat(s[j].section, s[j].number + 1)
      BY <3>1, NextSeat
    <3> QED
      BY <2>3, <3>2
  <2>5. j + 1 = i
    <3>1. s[i] \in Seats /\ ~ Before(s[i], s[i])
      BY <1>1, BeforeTotal
    <3> QED
      BY <1>1, <2>4, <3>1
  <2>6. j = i - 1 /\ i # 1
    BY <2>5
  <2>7. Back(s[i], A) = Back(s[j], A) + 1
    <3>1. s[j] \in A
      BY <1>1
    <3>2. s[j].number \in Nat /\ Seat(s[j].section, s[j].number) = s[j]
      BY <3>1, BlockStarts
    <3>3. \A m \in s[j].number .. s[j].number + 1 : Seat(s[j].section, m) \in A
      <4>1. \A m \in s[j].number .. s[j].number + 1 : m = s[j].number \/ m = s[j].number + 1
        BY <3>2
      <4> QED
        BY <1>1, <2>3, <3>1, <3>2, <4>1
    <3> QED
      BY <2>3, <3>1, <3>3, SameBlock
  <2> QED
    BY <1>1, <1>2, <2>3, <2>6, <2>7
<1> QED
  BY <1>3, <1>4

\* A position a group of the reference definition starts at.
StartsGroup(s, A, q, i) == IsRun(s, i, q) /\ Back(s[i], A) % q = 0

\* A run the scan may take only starts at the first seat of such a group.
InStep(s, A, q, i) == i <= Len(s) /\ IsRun(s, i, q) => Back(s[i], A) % q = 0

\* The scan is in step from the first ticket on, behind a run it took and behind a
\* ticket it skipped; inside a run no group starts.
LEMMA ScanStaysInStep ==
  ASSUME NEW A \in SUBSET Seats, NEW s, s = Ordered(A), NEW q \in Nat \ {0}
  PROVE  /\ InStep(s, A, q, 1)
         /\ \A i \in 1 .. Len(s) : InStep(s, A, q, i) =>
              /\ IsRun(s, i, q) => /\ InStep(s, A, q, i + q)
                                   /\ \A k \in 1 .. q - 1 : ~ StartsGroup(s, A, q, i + k)
              /\ ~ IsRun(s, i, q) => InStep(s, A, q, i + 1)
<1>1. s \in Seq(A) /\ Len(s) \in Nat /\ 0 % q = 0
  BY OrderedAscends
<1>2. InStep(s, A, q, 1)
  <2>1. ASSUME 1 <= Len(s) PROVE Back(s[1], A) % q = 0
    <3>1. 1 \in 1 .. Len(s)
      BY <1>1, <2>1
    <3>2. Back(s[1], A) = 0
      BY <3>1, BackOfNext
    <3> QED
      BY <1>1, <3>2
  <2> QED
    BY <2>1 DEF InStep
<1>3. ASSUME NEW i \in 1 .. Len(s), InStep(s, A, q, i), IsRun(s, i, q)
      PROVE  /\ InStep(s, A, q, i + q)
             /\ \A k \in 1 .. q - 1 : ~ StartsGroup(s, A, q, i + k)
  <2>1. /\ s[i] \in A /\ s[i].number \in Nat /\ Back(s[i], A) \in Nat /\ Back(s[i], A) % q = 0
        /\ Seat(s[i].section, s[i].number) = s[i]
    <3>1. s[i] \in A /\ i <= Len(s)
      BY <1>1
    <3>2. Back(s[i], A) % q = 0
      BY <1>3, <3>1, Zenon DEF InStep
    <3>3. s[i].number \in Nat /\ Back(s[i], A) \in Nat /\ Seat(s[i].section, s[i].number) = s[i]
      BY <3>1, BlockStarts
    <3> QED
      BY <3>1, <3>2, <3>3
  <2>2. \A k \in 0 .. q - 1 : /\ i + k \in 1 .. Len(s)
                              /\ s[i + k] = Seat(s[i].section, s[i].number + k)
    BY <1>1, <1>3, RunSeats
  <2>3. \A m \in s[i].number .. s[i].number + q - 1 : Seat(s[i].section, m) \in A
    <3>1. RunFrom(s[i], q) \subseteq A
      BY <1>3, RunIsBlock
    <3> QED
      BY <3>1 DEF RunFrom
  <2>4. ASSUME NEW k \in 0 .. q - 1 PROVE Back(s[i + k], A) = Back(s[i], A) + k
    <3>1. \A m \in s[i].number .. s[i].number + k : m \in s[i].number .. s[i].number + q - 1
      BY <2>1
    <3>2. \A m \in s[i].number .. s[i].number + k : Seat(s[i].section, m) \in A
      BY <2>3, <3>1
    <3>3. k \in Nat
      OBVIOUS
    <3>4. s[i + k] = Seat(s[i].section, s[i].number + k)
      BY <2>2
    <3>5. s[i] \in A
      BY <2>1
    <3> QED
      BY <3>2, <3>3, <3>4, <3>5, SameBlock
  <2>5. \A k \in 1 .. q - 1 : (Back(s[i], A) + k) % q # 0 /\ (Back(s[i], A) + q) % q = 0
    BY <2>1, NextMultiple
  <2>6. \A k \in 1 .. q - 1 : ~ StartsGroup(s, A, q, i + k)
    <3>1. \A k \in 1 .. q - 1 : k \in 0 .. q - 1
      OBVIOUS
    <3> QED
      BY <2>4, <2>5, <3>1 DEF StartsGroup
  <2>7. (Back(s[i], A) + q) % q = 0
    BY <2>1, NextMultiple
  <2>8. ASSUME i + q <= Len(s) PROVE Back(s[i + q], A) % q = 0
    <3>1. i + q \in 1 .. Len(s) /\ i + q # 1 /\ q - 1 \in 0 .. q - 1
      BY <1>1, <2>8
    <3>2. i + q - 1 = i + (q - 1)
      OBVIOUS
    <3>3. Back(s[i + q - 1], A) = Back(s[i], A) + (q - 1)
      BY <2>4, <3>1, <3>2
    <3>4. Back(s[i + q], A) = 0 \/ Back(s[i + q], A) = Back(s[i + q - 1], A) + 1
      BY <3>1, BackOfNext
    <3>5. Back(s[i + q], A) = 0 \/ Back(s[i + q], A) = Back(s[i], A) + q
      BY <2>1, <3>3, <3>4
    <3> QED
      BY <1>1, <2>7, <3>5
  <2> QED
    BY <2>6, <2>8 DEF InStep
<1>4. ASSUME NEW i \in 1 .. Len(s), ~ IsRun(s, i, q)
      PROVE  InStep(s, A, q, i + 1)
  <2>1. SUFFICES ASSUME i + 1 <= Len(s), IsRun(s, i + 1, q) PROVE Back(s[i + 1], A) % q = 0
    BY DEF InStep
  <2>2. i + 1 \in 1 .. Len(s) /\ i + 1 # 1 /\ i + 1 - 1 = i
    BY <1>1, <2>1
  <2>3. Back(s[i + 1], A) = 0 \/ s[i + 1] = Seat(s[i].section, s[i].number + 1)
    BY <2>2, BackOfNext
  <2>4. ASSUME s[i + 1] = Seat(s[i].section, s[i].number + 1) PROVE FALSE
    <3>1. s[i] \in A /\ s[i].number \in Nat /\ Seat(s[i].section, s[i].number) = s[i]
      <4>1. s[i] \in A
        BY <1>1
      <4> QED
        BY <4>1, BlockStarts
    <3>2. s[i + 1].section = s[i].section /\ s[i + 1].number = s[i].number + 1
      BY <2>4 DEF Seat
    <3>3. RunFrom(s[i + 1], q) \subseteq A
      BY <2>1, <2>2, RunIsBlock
    <3>4. \A m \in s[i].number + 1 .. s[i].number + 1 + q - 1 : Seat(s[i].section, m) \in A
      BY <3>2, <3>3 DEF RunFrom
    <3>5. \A m \in s[i].number .. s[i].number + q - 1 :
            m = s[i].number \/ m \in s[i].number + 1 .. s[i].number + 1 + q - 1
      BY <3>1
    <3>6. \A m \in s[i].number .. s[i].number + q - 1 : Seat(s[i].section, m) \in A
      BY <3>1, <3>4, <3>5
    <3>7. RunFrom(s[i], q) \subseteq A
      BY <3>6 DEF RunFrom
    <3> QED
      BY <1>4, <3>7, RunIsBlock
  <2> QED
    BY <1>1, <2>3, <2>4
<1> QED
  BY <1>2, <1>3, <1>4

\* The groups found by the scan are a sequence of sequences, one per run at most.
LEMMA ScanIsShort ==
  ASSUME NEW S, NEW s \in Seq(S), NEW q \in Nat \ {0}, NEW i \in 1 .. Len(s) + 1
  PROVE  Scan(s, q)[i] \in Seq(Seq(S)) /\ Len(Scan(s, q)[i]) <= Len(s)
<1> DEFINE g == Scan(s, q)[i]
<1>1. Runs(g, s, q, i)
  BY ScanFindsRuns
<1> HIDE DEF g
<1>2. PICK m \in Nat : \E p \in [1 .. m -> i .. Len(s)] :
        /\ g = [a \in 1 .. m |-> SubSeq(s, p[a], p[a] + q - 1)]
        /\ \A a \in 1 .. m : IsRun(s, p[a], q)
        /\ \A a, b \in 1 .. m : a < b => p[a] + q <= p[b]
  BY <1>1 DEF Runs
<1>3. PICK p \in [1 .. m -> i .. Len(s)] :
        /\ g = [a \in 1 .. m |-> SubSeq(s, p[a], p[a] + q - 1)]
        /\ \A a \in 1 .. m : IsRun(s, p[a], q)
        /\ \A a, b \in 1 .. m : a < b => p[a] + q <= p[b]
  BY <1>2
<1>4. \A a \in 1 .. m : p[a] \in 1 .. Len(s) /\ SubSeq(s, p[a], p[a] + q - 1) \in Seq(S)
  BY <1>3, RunProperties
<1>5. g \in Seq(Seq(S)) /\ Len(g) = m
  BY <1>3, <1>4
<1>6. m <= Len(s)
  <2>1. p \in [1 .. m -> 1 .. Len(s)]
    BY <1>3
  <2>2. \A a, b \in 1 .. m : p[a] = p[b] => a = b
    BY <1>3
  <2>3. p \in Injection(1 .. m, 1 .. Len(s))
    BY <2>1, <2>2, Fun_IsInj
  <2>4. IsFiniteSet(1 .. Len(s)) /\ Cardinality(1 .. Len(s)) = Len(s) /\ Cardinality(1 .. m) = m
    <3>1. Len(s) \in Nat
      OBVIOUS
    <3> QED
      BY <3>1, CountTo
  <2>5. Cardinality(1 .. m) <= Cardinality(1 .. Len(s))
    BY <2>3, <2>4, FS_Injection
  <2> QED
    BY <2>4, <2>5
<1> QED
  BY <1>5, <1>6 DEF g

\* A group in front of others.
LEMMA GroupInFront ==
  ASSUME NEW T, NEW r \in Seq(T), NEW g \in Seq(Seq(T)), NEW X
  PROVE  X \in GroupSets(<<r>> \o g) <=> X = SeatsOf(r) \/ X \in GroupSets(g)
<1> DEFINE h == <<r>> \o g
<1>1. <<r>> \in Seq(Seq(T)) /\ Len(<<r>>) = 1 /\ <<r>>[1] = r
  OBVIOUS
<1>2. /\ h \in Seq(Seq(T)) /\ Len(h) = 1 + Len(g)
      /\ \A a \in 1 .. 1 + Len(g) : h[a] = IF a <= 1 THEN <<r>>[a] ELSE g[a - 1]
  BY <1>1, ConcatProperties
<1> HIDE DEF h
<1>3. h[1] = r /\ \A a \in 1 .. Len(g) : a + 1 \in 1 .. 1 + Len(g) /\ h[a + 1] = g[a]
  BY <1>1, <1>2
<1>4. \A a \in 1 .. 1 + Len(g) : a = 1 \/ (a - 1 \in 1 .. Len(g) /\ (a - 1) + 1 = a)
  OBVIOUS
<1>5. \A a \in 1 .. 1 + Len(g) : a = 1 \/ \E b \in 1 .. Len(g) : h[a] = g[b]
  BY <1>3, <1>4
<1>6. X \in GroupSets(h) <=> \E a \in 1 .. 1 + Len(g) : X = SeatsOf(h[a])
  <2>1. DOMAIN h = 1 .. 1 + Len(g)
    BY <1>2, Zenon, LenProperties
  <2> QED
    BY <2>1, Zenon DEF GroupSets
<1>7. X \in GroupSets(g) <=> \E a \in 1 .. Len(g) : X = SeatsOf(g[a])
  <2>1. DOMAIN g = 1 .. Len(g)
    BY LenProperties, Zenon
  <2> QED
    BY <2>1, Zenon DEF GroupSets
<1>8. 1 \in 1 .. 1 + Len(g)
  OBVIOUS
<1>9. X \in GroupSets(h) <=> X = SeatsOf(r) \/ X \in GroupSets(g)
  BY <1>3, <1>5, <1>6, <1>7, <1>8, Zenon
<1> QED
  BY <1>9 DEF h

\* X is a group of the reference definition whose first seat stands at i or later.
IsGroupFrom(X, s, A, q, i) ==
  \E j \in i .. Len(s) : StartsGroup(s, A, q, j) /\ X = RunFrom(s[j], q)

\* From every position it is in step at the scan finds the groups of the reference
\* definition that start there or later.
LEMMA ScanFindsGroups ==
  ASSUME NEW A \in SUBSET Seats, NEW s, s = Ordered(A), NEW q \in Nat \ {0}, NEW X
  PROVE  \A i \in 1 .. Len(s) + 1 : InStep(s, A, q, i) =>
           (X \in GroupSets(Scan(s, q)[i]) <=> IsGroupFrom(X, s, A, q, i))
<1> DEFINE L == Len(s)
           Right(i) == InStep(s, A, q, i) =>
                         (X \in GroupSets(Scan(s, q)[i]) <=> IsGroupFrom(X, s, A, q, i))
           bad == {k \in 0 .. L : ~ Right(L + 1 - k)}
<1>0. s \in Seq(A) /\ L \in Nat
  BY OrderedAscends
<1>1. SUFFICES ASSUME bad # {} PROVE FALSE
  <2>1. ASSUME NEW i \in 1 .. L + 1, bad = {} PROVE Right(i)
    <3>1. L + 1 - i \in 0 .. L /\ L + 1 - (L + 1 - i) = i
      BY <1>0
    <3> QED
      BY <2>1, <3>1
  <2> HIDE DEF bad
  <2> QED
    BY <2>1
<1>2. PICK k \in bad : \A j \in bad : k <= j
  <2>1. bad \in SUBSET Nat
    BY <1>0
  <2> HIDE DEF bad
  <2> QED
    BY <1>1, <2>1, Least
<1> DEFINE i == L + 1 - k
<1>3. i \in 1 .. L + 1
  BY <1>0, <1>2
<1>4. ASSUME NEW j \in i + 1 .. L + 1 PROVE Right(j)
  <2>1. L + 1 - j \in 0 .. L /\ ~ (k <= L + 1 - j) /\ L + 1 - (L + 1 - j) = j
    BY <1>0, <1>2
  <2>2. L + 1 - j \notin bad
    BY <1>2, <2>1
  <2> QED
    BY <2>1, <2>2
<1>5. ~ Right(i)
  BY <1>2
<1>6. Scan(s, q)[i] = ScanStep(s, q, Scan(s, q), i)
  BY <1>0, <1>3, ScanUnfolds
<1> HIDE DEF i, bad
<1>7. InStep(s, A, q, i)
  BY <1>5
<1>8. SUFFICES X \in GroupSets(Scan(s, q)[i]) <=> IsGroupFrom(X, s, A, q, i)
  BY <1>5
<1>9. CASE i > L
  <2>1. Scan(s, q)[i] = <<>>
    BY <1>6, <1>9 DEF ScanStep
  <2>2. GroupSets(<<>>) = {}
    BY DEF GroupSets
  <2>3. i .. L = {}
    BY <1>0, <1>3, <1>9
  <2>4. ~ IsGroupFrom(X, s, A, q, i)
    BY <2>3 DEF IsGroupFrom
  <2> QED
    BY <2>1, <2>2, <2>4
<1>10. CASE i \in 1 .. L /\ IsRun(s, i, q)
  <2>1. /\ InStep(s, A, q, i + q)
        /\ \A n \in 1 .. q - 1 : ~ StartsGroup(s, A, q, i + n)
    BY <1>7, <1>10, ScanStaysInStep
  <2>2. i + q \in i + 1 .. L + 1
    BY <1>0, <1>10 DEF IsRun
  <2>3. X \in GroupSets(Scan(s, q)[i + q]) <=> IsGroupFrom(X, s, A, q, i + q)
    BY <1>4, <2>1, <2>2
  <2>4. Scan(s, q)[i] = <<SubSeq(s, i, i + q - 1)>> \o Scan(s, q)[i + q]
    BY <1>0, <1>6, <1>10 DEF ScanStep
  <2>5. SubSeq(s, i, i + q - 1) \in Seq(A) /\ Scan(s, q)[i + q] \in Seq(Seq(A))
    <3>1. i + q \in 1 .. Len(s) + 1
      BY <1>3, <2>2
    <3> QED
      BY <1>0, <1>10, <3>1, RunProperties, ScanIsShort
  <2>6. SeatsOf(SubSeq(s, i, i + q - 1)) = RunFrom(s[i], q)
    BY <1>0, <1>10, RunIsGroup
  <2>7. X \in GroupSets(Scan(s, q)[i]) <=> X = RunFrom(s[i], q) \/ X \in GroupSets(Scan(s, q)[i + q])
    BY <2>4, <2>5, <2>6, GroupInFront
  <2>8. StartsGroup(s, A, q, i)
    BY <1>0, <1>7, <1>10 DEF StartsGroup, InStep
  <2>9. IsGroupFrom(X, s, A, q, i) <=> X = RunFrom(s[i], q) \/ IsGroupFrom(X, s, A, q, i + q)
    <3>1. ASSUME NEW j \in i .. L, StartsGroup(s, A, q, j) PROVE j = i \/ j \in i + q .. L
      <4>1. SUFFICES ASSUME j \in i + 1 .. i + q - 1 PROVE FALSE
        BY <1>0, <1>3
      <4>2. j - i \in 1 .. q - 1 /\ i + (j - i) = j
        BY <1>0, <1>3, <4>1
      <4> QED
        BY <2>1, <3>1, <4>2
    <3>2. \A j \in i + q .. L : j \in i .. L
      BY <1>0, <1>3
    <3>3. i \in i .. L
      BY <1>0, <1>10
    <3> QED
      BY <2>8, <3>1, <3>2, <3>3, Zenon DEF IsGroupFrom
  <2> QED
    BY <2>3, <2>7, <2>9
<1>11. CASE i \in 1 .. L /\ ~ IsRun(s, i, q)
  <2>1. InStep(s, A, q, i + 1)
    BY <1>7, <1>11, ScanStaysInStep
  <2>2. i + 1 \in i + 1 .. L + 1
    BY <1>0, <1>11
  <2>3. X \in GroupSets(Scan(s, q)[i + 1]) <=> IsGroupFrom(X, s, A, q, i + 1)
    BY <1>4, <2>1, <2>2
  <2>4. Scan(s, q)[i] = Scan(s, q)[i + 1]
    BY <1>0, <1>6, <1>11 DEF ScanStep
  <2>5. IsGroupFrom(X, s, A, q, i) <=> IsGroupFrom(X, s, A, q, i + 1)
    <3>1. \A j \in i .. L : j = i \/ j \in i + 1 .. L
      BY <1>0, <1>3
    <3>2. \A j \in i + 1 .. L : j \in i .. L
      BY <1>0, <1>3
    <3>3. ~ StartsGroup(s, A, q, i)
      BY <1>11 DEF StartsGroup
    <3> QED
      BY <3>1, <3>2, <3>3, Zenon DEF IsGroupFrom
  <2> QED
    BY <2>3, <2>4, <2>5
<1> QED
  BY <1>0, <1>3, <1>9, <1>10, <1>11

\* groupConsecutive with room for all of them finds the groups of the reference
\* definition, in every set of available seats.
LEMMA GroupsAreBlocks ==
  ASSUME NEW A \in SUBSET Seats, NEW q \in Nat \ {0}
  PROVE  GroupSets(GroupConsecutive(Ordered(A), q, Cardinality(Seats))) = BlockGroups(A, q)
<1> DEFINE s == Ordered(A)
           g == Scan(s, q)[1]
<1>1. s \in Seq(A) /\ Len(s) = Cardinality(A) /\ Len(s) \in Nat /\ 1 \in 1 .. Len(s) + 1
  BY OrderedAscends
<1>2. \A t : t \in A <=> \E j \in 1 .. Len(s) : s[j] = t
  BY OrderedAscends DEF ToSet
<1>3. Cardinality(Seats) \in Nat /\ Len(s) <= Cardinality(Seats)
  BY <1>1, SeatsAssumption, FS_Subset, FS_CardinalityType
<1>4. g \in Seq(Seq(A)) /\ Len(g) <= Len(s)
  BY <1>1, ScanIsShort
<1>5. GroupConsecutive(s, q, Cardinality(Seats)) = g
  <2> DEFINE p == Prefix(g, Cardinality(Seats))
  <2> HIDE DEF g
  <2>1. /\ p \in Seq(Seq(A))
        /\ Len(p) = IF Cardinality(Seats) <= Len(g) THEN Cardinality(Seats) ELSE Len(g)
        /\ \A i \in 1 .. Len(p) : p[i] = g[i]
    BY <1>3, <1>4, PrefixProperties
  <2> HIDE DEF p
  <2>2. Len(p) = Len(g) /\ \A i \in 1 .. Len(p) : p[i] = g[i]
    BY <1>1, <1>3, <1>4, <2>1
  <2>3. p = g
    BY <1>4, <2>1, <2>2, SeqEqual
  <2> QED
    BY <2>3 DEF p, g, GroupConsecutive
<1>6. ASSUME NEW X PROVE X \in GroupSets(g) <=> IsGroupFrom(X, s, A, q, 1)
  BY <1>1, ScanFindsGroups, ScanStaysInStep
<1> HIDE DEF g
<1>7. ASSUME NEW X PROVE IsGroupFrom(X, s, A, q, 1) <=> X \in BlockGroups(A, q)
  <2>1. \A j \in 1 .. Len(s) : IsRun(s, j, q) <=> RunFrom(s[j], q) \subseteq A
    BY RunIsBlock
  <2> HIDE DEF s
  <2>2. X \in BlockGroups(A, q) <=>
          \E t \in A : RunFrom(t, q) \subseteq A /\ Back(t, A) % q = 0 /\ X = RunFrom(t, q)
    BY DEF BlockGroups, Back
  <2>3. IsGroupFrom(X, s, A, q, 1) <=>
          \E j \in 1 .. Len(s) : /\ RunFrom(s[j], q) \subseteq A /\ Back(s[j], A) % q = 0
                                 /\ X = RunFrom(s[j], q)
    BY <2>1 DEF IsGroupFrom, StartsGroup
  <2> QED
    BY <1>2, <2>2, <2>3, Zenon
<1> QED
  BY <1>5, <1>6, <1>7

-----------------------------------------------------------------------------
(* The walk                                                                *)

\* The cursor of the i-th page of the walk.
At(i) == IF i <= Len(stack) THEN stack[i] ELSE cursor

Entries == [data : Replies, at : Nat]

\* e answered query k, and if nothing was done since (n is the last change), it
\* still would with the seats b booked and h held.
Answered(e, k, b, h, n) ==
  /\ e \in Entries
  /\ ReplyTo(e.data, k[3])
  /\ e.at <= n
  /\ e.at = n => e.data = FindTickets(Seats \ b, h, k[1], k[3], k[2], Limit)

\* The inductive invariant: every reply in the cache, and every one the user has
\* gone on from, answered the query it belongs to; the walk began without a cursor
\* and went on with the next cursors of its replies.
WalkTypeOK ==
  /\ changes \in Nat
  /\ section \in Sections
  /\ quantity \in Quantities
  /\ cursor \in Seats \cup {NoCursor}
  /\ stack \in Seq(Seats \cup {NoCursor})
  /\ visited \in Seq(Entries)
  /\ Len(visited) = Len(stack)
  /\ asked \subseteq Queries
  /\ DOMAIN cache \subseteq Queries

CacheAnswers == \A k \in DOMAIN cache : Answered(cache[k], k, booked, held, changes)

PagesAnswer ==
  \A i \in 1 .. Len(stack) :
    /\ Answered(visited[i], QueryKey(section, quantity, stack[i]), booked, held, changes)
    /\ visited[i].data.next = At(i + 1)

Ascending ==
  /\ At(1) = NoCursor
  /\ \A i, j \in 1 .. Len(stack) + 1 :
       i < j => /\ At(j) # NoCursor
                /\ At(i) = NoCursor \/ Before(At(i), At(j))

WalkInv == WalkTypeOK /\ CacheAnswers /\ PagesAnswer /\ Ascending

\* What the list shows answered its query.
LEMMA PageAnswers ==
  ASSUME WalkInv, page # Loading
  PROVE  Answered(page, Shown, booked, held, changes)
<1>1. Shown \in DOMAIN cache /\ page = cache[Shown]
  BY DEF page
<1> QED
  BY <1>1 DEF WalkInv, CacheAnswers

LEMMA AnswerIsAnswer ==
  ASSUME WalkTypeOK, NEW k \in Queries
  PROVE  Answered(Answer(k), k, booked, held, changes)
<1>1. k[3] \in Seats \cup {NoCursor} /\ k[2] \in Nat \ {0}
  BY QuantitiesAssumption DEF Queries
<1>2. ReplyTo(FindTickets(Seats \ booked, held, k[1], k[3], k[2], Limit), k[3])
  BY <1>1, FindTicketsReplies
<1>3. Answer(k) \in Entries
  BY <1>2 DEF Answer, Entries, ReplyTo, WalkTypeOK
<1>4. changes \in Nat
  BY DEF WalkTypeOK
<1> QED
  BY <1>2, <1>3, <1>4 DEF Answer, Answered

\* What answered a query before a change has answered it.
LEMMA AnsweredBefore ==
  ASSUME NEW n \in Nat
  PROVE  \A e, k, b, h, c, g : Answered(e, k, b, h, n) => Answered(e, k, c, g, n + 1)
<1> SUFFICES ASSUME NEW e, NEW k, NEW b, NEW h, NEW c, NEW g, Answered(e, k, b, h, n)
             PROVE  Answered(e, k, c, g, n + 1)
  OBVIOUS
<1>1. e \in Entries /\ ReplyTo(e.data, k[3]) /\ e.at <= n
  BY DEF Answered
<1>2. e.at \in Nat
  BY <1>1 DEF Entries
<1>3. e.at <= n + 1 /\ e.at # n + 1
  BY <1>1, <1>2
<1> QED
  BY <1>1, <1>3 DEF Answered

\* A walk that begins.
LEMMA WalkBegins ==
  ASSUME changes' \in Nat, section' \in Sections, quantity' \in Quantities,
         cursor' = NoCursor, stack' = <<>>, visited' = <<>>,
         asked' \subseteq Queries, DOMAIN cache' \subseteq Queries, CacheAnswers'
  PROVE  WalkInv'
<1>1. Len(stack') = 0 /\ Len(visited') = 0 /\ 1 .. Len(stack') = {} /\ 1 .. Len(stack') + 1 = {1}
  OBVIOUS
<1>2. stack' \in Seq(Seats \cup {NoCursor}) /\ visited' \in Seq(Entries)
  OBVIOUS
<1>3. WalkTypeOK'
  BY <1>1, <1>2 DEF WalkTypeOK
<1>4. PagesAnswer'
  BY <1>1 DEF PagesAnswer
<1>5. Ascending'
  <2>1. At(1)' = NoCursor
    BY <1>1 DEF At
  <2>2. \A i, j \in {1} : ~ (i < j)
    OBVIOUS
  <2> QED
    BY <1>1, <2>1, <2>2 DEF Ascending
<1> QED
  BY <1>3, <1>4, <1>5 DEF WalkInv

LEMMA FirstQuery ==
  ASSUME NEW s \in Sections, NEW q \in Quantities, NEW c \in Seats \cup {NoCursor}
  PROVE  QueryKey(s, q, c) \in Queries
BY DEF QueryKey, Queries

LEMMA WalkInit == Init => WalkInv
<1> SUFFICES ASSUME Init PROVE WalkInv
  OBVIOUS
<1>1. /\ stack = <<>> /\ visited = <<>> /\ cursor = NoCursor /\ cache = <<>>
      /\ section = AllSections /\ quantity = 1 /\ changes = 0 /\ asked = {Shown}
  BY DEF Init
<1>2. /\ Len(stack) = 0 /\ Len(visited) = 0 /\ 1 .. Len(stack) = {}
      /\ 1 .. Len(stack) + 1 = {1} /\ DOMAIN cache = {}
  BY <1>1
<1>3. section \in Sections /\ quantity \in Quantities /\ cursor \in Seats \cup {NoCursor}
  BY <1>1, QuantitiesAssumption DEF Sections
<1>4. Shown \in Queries
  BY <1>3, FirstQuery DEF Shown
<1>5. WalkTypeOK
  BY <1>1, <1>2, <1>3, <1>4 DEF WalkTypeOK
<1>6. CacheAnswers /\ PagesAnswer
  BY <1>2 DEF CacheAnswers, PagesAnswer
<1>7. Ascending
  <2>1. At(1) = NoCursor
    BY <1>1, <1>2 DEF At
  <2>2. \A i, j \in {1} : ~ (i < j)
    OBVIOUS
  <2> QED
    BY <1>2, <2>1, <2>2 DEF Ascending
<1> QED
  BY <1>5, <1>6, <1>7 DEF WalkInv

\* The user stays where he is, while the cache moves.
LEMMA WalkStays ==
  ASSUME WalkInv, UNCHANGED <<booked, held, changes, section, quantity, cursor, stack, visited>>,
         asked' \subseteq Queries, DOMAIN cache' \subseteq Queries,
         \A k \in DOMAIN cache' : Answered(cache'[k], k, booked, held, changes)
  PROVE  WalkInv'
<1>1. Len(stack)' = Len(stack) /\ \A i : At(i)' = At(i)
  BY DEF At
<1>2. WalkTypeOK'
  BY DEF WalkInv, WalkTypeOK
<1>3. CacheAnswers'
  BY DEF CacheAnswers
<1>4. PagesAnswer'
  BY <1>1 DEF WalkInv, PagesAnswer
<1>5. Ascending'
  BY <1>1 DEF WalkInv, Ascending
<1> QED
  BY <1>2, <1>3, <1>4, <1>5 DEF WalkInv

\* Others book, hold or release a seat: no reply is from now any more.
LEMMA WalkOthers ==
  ASSUME WalkInv, changes' = changes + 1, UNCHANGED <<hooks, cache, asked, visited>>
  PROVE  WalkInv'
<1>0. UNCHANGED <<section, quantity, cursor, stack>> /\ changes \in Nat
  BY DEF hooks, WalkInv, WalkTypeOK
<1>1. Len(stack)' = Len(stack) /\ \A i : At(i)' = At(i)
  BY <1>0 DEF At
<1>2. WalkTypeOK'
  BY <1>0 DEF WalkInv, WalkTypeOK
<1>3. \A e, k : Answered(e, k, booked, held, changes) => Answered(e, k, booked', held', changes')
  BY <1>0, AnsweredBefore
<1>4. CacheAnswers'
  BY <1>3 DEF WalkInv, CacheAnswers
<1>5. PagesAnswer'
  <2> SUFFICES ASSUME NEW i \in 1 .. Len(stack)
               PROVE  /\ Answered(visited[i], QueryKey(section, quantity, stack[i]), booked', held', changes')
                      /\ visited[i].data.next = At(i + 1)
    BY <1>0, <1>1 DEF PagesAnswer, QueryKey
  <2> QED
    BY <1>3 DEF WalkInv, PagesAnswer
<1>6. Ascending'
  BY <1>1 DEF WalkInv, Ascending
<1> QED
  BY <1>2, <1>4, <1>5, <1>6 DEF WalkInv

LEMMA WalkNextPage ==
  ASSUME WalkInv, NextPage
  PROVE  WalkInv'
<1>0. PICK n \in Nat : n = Len(stack)
  BY DEF WalkInv, WalkTypeOK
<1>1. /\ WalkTypeOK /\ CacheAnswers /\ PagesAnswer /\ Ascending /\ n = Len(stack)
      /\ Answered(page, Shown, booked, held, changes)
      /\ page \in Entries /\ page.data \in Replies /\ ReplyTo(page.data, cursor)
  <2>1. Answered(page, Shown, booked, held, changes) /\ Shown[3] = cursor
    BY PageAnswers DEF NextPage, Shown, QueryKey
  <2> QED
    BY <1>0, <2>1 DEF WalkInv, Answered, Entries, ReplyTo
<1> DEFINE new == page.data.next
<1>2. /\ new \in Seats /\ new # NoCursor
      /\ cursor # NoCursor => Before(cursor, new)
  BY <1>1 DEF NextPage, ReplyTo, Replies
<1>3. /\ cursor' = new /\ section' = section /\ quantity' = quantity
      /\ stack' = Append(stack, cursor) /\ visited' = Append(visited, page)
      /\ UNCHANGED <<booked, held, changes, cache>>
      /\ asked' = asked \cup {QueryKey(section, quantity, new)}
  BY <1>0 DEF NextPage, Show, inventory
<1>4. /\ stack' \in Seq(Seats \cup {NoCursor}) /\ Len(stack') = n + 1
      /\ stack'[n + 1] = cursor /\ \A i \in 1 .. n : stack'[i] = stack[i]
  BY <1>1, <1>3, AppendProperties DEF WalkTypeOK
<1>5. /\ visited' \in Seq(Entries) /\ Len(visited') = n + 1
      /\ visited'[n + 1] = page /\ \A i \in 1 .. n : visited'[i] = visited[i]
  BY <1>1, <1>3, AppendProperties DEF WalkTypeOK
<1> HIDE DEF new
<1>6. At(n + 1) = cursor /\ At(n + 2)' = new /\ \A i \in 1 .. n + 1 : At(i)' = At(i)
  BY <1>1, <1>3, <1>4 DEF At
<1>7. WalkTypeOK'
  <2>1. QueryKey(section, quantity, new) \in Queries
    BY <1>1, <1>2, FirstQuery DEF WalkTypeOK
  <2> QED
    BY <1>1, <1>2, <1>3, <1>4, <1>5, <2>1 DEF WalkTypeOK
<1>8. CacheAnswers'
  BY <1>1, <1>3 DEF CacheAnswers
<1>9. PagesAnswer'
  <2>1. ASSUME NEW i \in 1 .. n + 1
        PROVE  /\ Answered(visited'[i], QueryKey(section, quantity, stack'[i]), booked, held, changes)
               /\ visited'[i].data.next = At(i + 1)'
    <3>1. CASE i = n + 1
      BY <1>1, <1>4, <1>5, <1>6, <3>1 DEF Shown, new
    <3>2. CASE i # n + 1
      <4>1. i \in 1 .. n /\ i + 1 \in 1 .. n + 1
        BY <1>1, <3>2
      <4> QED
        BY <1>1, <1>4, <1>5, <1>6, <4>1 DEF PagesAnswer
    <3> QED
      BY <3>1, <3>2
  <2> QED
    BY <1>3, <1>4, <2>1 DEF PagesAnswer
<1>10. Ascending'
  <2>1. ASSUME NEW i \in 1 .. n + 2, NEW j \in 1 .. n + 2, i < j
        PROVE  At(j)' # NoCursor /\ (At(i)' = NoCursor \/ Before(At(i)', At(j)'))
    <3>1. CASE j # n + 2
      <4>1. i \in 1 .. n + 1 /\ j \in 1 .. n + 1
        BY <1>1, <2>1, <3>1
      <4> QED
        BY <1>1, <1>6, <2>1, <4>1 DEF Ascending
    <3>2. CASE j = n + 2 /\ i = n + 1
      BY <1>1, <1>2, <1>6, <3>2
    <3>3. CASE j = n + 2 /\ i # n + 1
      <4>1. i \in 1 .. n /\ i \in 1 .. n + 1 /\ n + 1 \in 1 .. n + 1 /\ i < n + 1
        BY <1>1, <2>1, <3>3
      <4>2. cursor # NoCursor /\ (At(i) = NoCursor \/ Before(At(i), cursor))
        BY <1>1, <1>6, <4>1 DEF Ascending
      <4>3. At(i) \in Seats \cup {NoCursor} /\ cursor \in Seats
        BY <1>1, <4>1, <4>2 DEF WalkTypeOK, At
      <4>4. At(i) = NoCursor \/ Before(At(i), new)
        BY <1>2, <4>2, <4>3, BeforeTransitive
      <4> QED
        BY <1>2, <1>6, <3>3, <4>1, <4>4
    <3> QED
      BY <3>1, <3>2, <3>3
  <2>2. At(1)' = NoCursor
    <3>1. 1 \in 1 .. n + 1
      BY <1>1
    <3> QED
      BY <1>1, <1>6, <3>1 DEF Ascending
  <2> QED
    BY <1>1, <1>4, <2>1, <2>2 DEF Ascending
<1> QED
  BY <1>7, <1>8, <1>9, <1>10 DEF WalkInv

LEMMA WalkPrevPage ==
  ASSUME WalkInv, PrevPage
  PROVE  WalkInv'
<1>0. PICK n \in Nat : n = Len(stack)
  BY DEF WalkInv, WalkTypeOK
<1>1. WalkTypeOK /\ CacheAnswers /\ PagesAnswer /\ Ascending /\ n = Len(stack)
  BY <1>0 DEF WalkInv
<1>2. n \in Nat /\ n >= 1
  BY <1>1 DEF WalkTypeOK, PrevPage
<1>3. /\ cursor' = stack[n] /\ section' = section /\ quantity' = quantity
      /\ stack' = SubSeq(stack, 1, n - 1) /\ visited' = SubSeq(visited, 1, n - 1)
      /\ UNCHANGED <<booked, held, changes, cache>>
      /\ asked' = asked \cup {QueryKey(section, quantity, stack[n])}
  BY <1>0 DEF PrevPage, Show, inventory
<1>4. /\ n - 1 \in Int /\ \A i \in 1 .. n - 1 : i \in 1 .. n
      /\ (IF 1 <= n - 1 THEN (n - 1) - 1 + 1 ELSE 0) = n - 1
      /\ (n - 1) - 1 + 1 = n - 1 /\ \A i \in 1 .. n - 1 : 1 + i - 1 = i
  BY <1>2
<1>5. /\ stack' \in Seq(Seats \cup {NoCursor}) /\ Len(stack') = n - 1
      /\ \A i \in 1 .. n - 1 : stack'[i] = stack[i]
  <2>1. \A i \in 1 .. n - 1 : stack[i] \in Seats \cup {NoCursor}
    BY <1>1, <1>4 DEF WalkTypeOK
  <2> QED
    BY <1>3, <1>4, <2>1, SubSeqProperties
<1>6. /\ visited' \in Seq(Entries) /\ Len(visited') = n - 1
      /\ \A i \in 1 .. n - 1 : visited'[i] = visited[i]
  <2>1. \A i \in 1 .. n - 1 : visited[i] \in Entries
    BY <1>1, <1>4 DEF WalkTypeOK
  <2> QED
    BY <1>3, <1>4, <2>1, SubSeqProperties
<1>7. \A i \in 1 .. n : At(i)' = At(i)
  <2> SUFFICES ASSUME NEW i \in 1 .. n PROVE At(i)' = At(i)
    OBVIOUS
  <2>1. At(i) = stack[i]
    BY <1>1 DEF At
  <2>2. CASE i = n
    BY <1>2, <1>3, <1>5, <2>1, <2>2 DEF At
  <2>3. CASE i \in 1 .. n - 1
    BY <1>5, <2>1, <2>3 DEF At
  <2> QED
    BY <1>2, <2>2, <2>3
<1>8. WalkTypeOK'
  <2>1. stack[n] \in Seats \cup {NoCursor}
    BY <1>1, <1>2 DEF WalkTypeOK
  <2>2. QueryKey(section, quantity, stack[n]) \in Queries
    BY <1>1, <2>1, FirstQuery DEF WalkTypeOK
  <2> QED
    BY <1>1, <1>3, <1>5, <1>6, <2>1, <2>2 DEF WalkTypeOK
<1>9. CacheAnswers'
  BY <1>1, <1>3 DEF CacheAnswers
<1>10. PagesAnswer'
  <2>1. ASSUME NEW i \in 1 .. n - 1
        PROVE  /\ Answered(visited'[i], QueryKey(section, quantity, stack'[i]), booked, held, changes)
               /\ visited'[i].data.next = At(i + 1)'
    <3>1. i \in 1 .. n /\ i + 1 \in 1 .. n
      BY <1>2
    <3> QED
      BY <1>1, <1>5, <1>6, <1>7, <3>1 DEF PagesAnswer
  <2> QED
    BY <1>3, <1>5, <2>1 DEF PagesAnswer
<1>11. Ascending'
  <2>1. \A i \in 1 .. n : i \in 1 .. n + 1
    BY <1>2
  <2>2. Len(stack)' + 1 = n /\ 1 \in 1 .. n
    BY <1>2, <1>5
  <2> QED
    BY <1>1, <1>7, <2>1, <2>2 DEF Ascending
<1> QED
  BY <1>8, <1>9, <1>10, <1>11 DEF WalkInv

LEMMA WalkFirstPage ==
  ASSUME WalkInv, NEW s \in Sections, NEW q \in Quantities, FirstPage(s, q)
  PROVE  WalkInv'
<1>1. /\ cursor' = NoCursor /\ stack' = <<>> /\ visited' = <<>> /\ section' = s /\ quantity' = q
      /\ UNCHANGED <<booked, held, changes, cache>>
      /\ asked' = asked \cup {QueryKey(s, q, NoCursor)}
  BY DEF FirstPage, Show, inventory
<1>2. WalkTypeOK /\ CacheAnswers
  BY DEF WalkInv
<1>3. asked' \subseteq Queries /\ DOMAIN cache' \subseteq Queries
  BY <1>1, <1>2, FirstQuery DEF WalkTypeOK
<1>4. CacheAnswers'
  BY <1>1, <1>2 DEF CacheAnswers
<1>5. changes' \in Nat
  BY <1>1, <1>2 DEF WalkTypeOK
<1> QED
  BY <1>1, <1>3, <1>4, <1>5, WalkBegins

\* The walk stays in order, whatever other users do between its steps and whatever
\* the cache has kept.
LEMMA WalkStep ==
  ASSUME WalkInv, [Next]_vars
  PROVE  WalkInv'
<1>1. WalkTypeOK /\ CacheAnswers
  BY DEF WalkInv
<1>2. Shown \in Queries
  BY <1>1, FirstQuery DEF Shown, WalkTypeOK
<1>3. CASE OthersHold \/ OthersRelease \/ OthersBook
  <2>1. changes' = changes + 1 /\ UNCHANGED <<hooks, cache, asked, visited>>
    BY <1>3 DEF OthersHold, OthersRelease, OthersBook, Others
  <2> QED
    BY <2>1, WalkOthers
<1>4. ASSUME NEW k \in asked, Fetch(k) PROVE WalkInv'
  <2>1. k \in Queries /\ Answered(Answer(k), k, booked, held, changes)
    BY <1>1, AnswerIsAnswer DEF WalkTypeOK
  <2>2. /\ UNCHANGED <<booked, held, changes, section, quantity, cursor, stack, visited>>
        /\ asked' \subseteq Queries
        /\ cache' = [j \in DOMAIN cache \cup {k} |-> IF j = k THEN Answer(k) ELSE cache[j]]
    BY <1>1, <1>4 DEF Fetch, inventory, hooks, WalkTypeOK
  <2>3. DOMAIN cache' \subseteq Queries
    BY <1>1, <2>1, <2>2 DEF WalkTypeOK
  <2>4. \A j \in DOMAIN cache' : Answered(cache'[j], j, booked, held, changes)
    BY <1>1, <2>1, <2>2 DEF CacheAnswers
  <2> QED
    BY <2>2, <2>3, <2>4, WalkStays
<1>5. ASSUME NEW k \in asked, FetchFails(k) PROVE WalkInv'
  <2>1. /\ UNCHANGED <<booked, held, changes, section, quantity, cursor, stack, visited>>
        /\ asked' \subseteq Queries /\ cache' = cache /\ DOMAIN cache' \subseteq Queries
    BY <1>1, <1>5 DEF FetchFails, inventory, hooks, WalkTypeOK
  <2> QED
    BY <1>1, <2>1, WalkStays DEF CacheAnswers
<1>6. ASSUME NEW k \in DOMAIN cache, Collect(k) PROVE WalkInv'
  <2>1. /\ UNCHANGED <<booked, held, changes, section, quantity, cursor, stack, visited>>
        /\ asked' \subseteq Queries
        /\ cache' = [j \in DOMAIN cache \ {k} |-> cache[j]]
    BY <1>1, <1>6 DEF Collect, Restrict, inventory, hooks, WalkTypeOK
  <2>2. DOMAIN cache' \subseteq Queries
    BY <1>1, <2>1 DEF WalkTypeOK
  <2>3. \A j \in DOMAIN cache' : Answered(cache'[j], j, booked, held, changes)
    BY <1>1, <2>1 DEF CacheAnswers
  <2> QED
    BY <2>1, <2>2, <2>3, WalkStays
<1>7. CASE Refetch
  <2>1. /\ UNCHANGED <<booked, held, changes, section, quantity, cursor, stack, visited>>
        /\ asked' \subseteq Queries /\ cache' = cache /\ DOMAIN cache' \subseteq Queries
    BY <1>1, <1>2, <1>7 DEF Refetch, inventory, hooks, WalkTypeOK
  <2> QED
    BY <1>1, <2>1, WalkStays DEF CacheAnswers
<1>8. CASE NextPage
  BY <1>8, WalkNextPage
<1>9. CASE PrevPage
  BY <1>9, WalkPrevPage
<1>10. CASE SectionChange \/ QuantityChange \/ Reopen
  <2>1. AllSections \in Sections /\ 1 \in Quantities /\ section \in Sections /\ quantity \in Quantities
    BY <1>1, QuantitiesAssumption DEF Sections, WalkTypeOK
  <2>2. \E s \in Sections, q \in Quantities : FirstPage(s, q)
    BY <1>10, <2>1 DEF SectionChange, QuantityChange, Reopen
  <2> QED
    BY <2>2, WalkFirstPage
<1>11. CASE Reload
  <2>1. /\ cursor' = NoCursor /\ stack' = <<>> /\ visited' = <<>>
        /\ section' = AllSections /\ quantity' = 1 /\ changes' = changes /\ cache' = <<>>
        /\ asked' = {QueryKey(AllSections, 1, NoCursor)}
    BY <1>11 DEF Reload, inventory
  <2>2. AllSections \in Sections /\ 1 \in Quantities
    BY QuantitiesAssumption DEF Sections
  <2>3. asked' \subseteq Queries
    BY <2>1, <2>2, FirstQuery
  <2>4. DOMAIN cache' = {}
    BY <2>1
  <2>5. CacheAnswers'
    BY <2>4 DEF CacheAnswers
  <2>6. changes' \in Nat
    BY <1>1, <2>1 DEF WalkTypeOK
  <2> QED
    BY <2>1, <2>2, <2>3, <2>4, <2>5, <2>6, WalkBegins
<1>12. CASE UNCHANGED vars
  <2>1. /\ UNCHANGED <<booked, held, changes, section, quantity, cursor, stack, visited>>
        /\ asked' = asked /\ cache' = cache
        /\ asked' \subseteq Queries /\ DOMAIN cache' \subseteq Queries
    BY <1>1, <1>12 DEF vars, inventory, hooks, WalkTypeOK
  <2> QED
    BY <1>1, <2>1, WalkStays DEF CacheAnswers
<1> QED
  BY <1>3, <1>4, <1>5, <1>6, <1>7, <1>8, <1>9, <1>10, <1>11, <1>12 DEF Next

LEMMA WalkInvariant == Spec => []WalkInv
<1>1. Init => WalkInv
  BY WalkInit
<1>2. WalkInv /\ [Next]_vars => WalkInv'
  BY WalkStep
<1> QED
  BY <1>1, <1>2, PTL DEF Spec

\* TicketList's cursors ascend: paging on never leads back, whatever other users
\* book, hold and release between the clicks.
THEOREM CursorsAscendAlways == Spec => []CursorsAscend
<1>1. WalkInv => CursorsAscend
  <2> SUFFICES ASSUME WalkInv PROVE CursorsAscend
    OBVIOUS
  <2> DEFINE walk == Append(stack, cursor)
  <2>1. stack \in Seq(Seats \cup {NoCursor}) /\ cursor \in Seats \cup {NoCursor} /\ Len(stack) \in Nat
    BY DEF WalkInv, WalkTypeOK
  <2>2. DOMAIN walk = 1 .. Len(stack) + 1 /\ \A i \in 1 .. Len(stack) + 1 : walk[i] = At(i)
    BY <2>1, AppendProperties DEF At
  <2> HIDE DEF walk
  <2>3. \A i, j \in DOMAIN walk :
          i < j => walk[j] # NoCursor /\ (walk[i] = NoCursor \/ Before(walk[i], walk[j]))
    BY <2>2 DEF WalkInv, Ascending
  <2> QED
    BY <2>3 DEF CursorsAscend, walk
<1> QED
  BY <1>1, WalkInvariant, PTL

\* No ticket is shown on two pages of a walk through TicketList, even when the
\* inventory moves under it.
THEOREM NoSeatTwiceInAWalk == Spec => []NoSeatTwice
<1>1. WalkInv => NoSeatTwice
  <2> SUFFICES ASSUME WalkInv PROVE NoSeatTwice
    OBVIOUS
  <2> DEFINE n == Len(stack)
  <2>1. WalkTypeOK /\ PagesAnswer /\ Ascending /\ n \in Nat /\ Len(visited) = n
    BY DEF WalkInv, WalkTypeOK
  <2>2. \A i \in DOMAIN Pages :
          /\ i \in 1 .. n + 1 /\ ReplyTo(Pages[i].data, At(i))
          /\ i # n + 1 => Pages[i].data.next = At(i + 1)
    <3>1. ASSUME NEW i \in 1 .. n
          PROVE  i \in 1 .. n + 1 /\ i # n + 1 /\ ReplyTo(visited[i].data, At(i)) /\ visited[i].data.next = At(i + 1)
      BY <2>1 DEF PagesAnswer, Answered, QueryKey, At
    <3>2. CASE page = Loading
      <4>1. Pages = visited /\ DOMAIN Pages = 1 .. n
        BY <2>1, <3>2 DEF Pages, WalkTypeOK
      <4> QED
        BY <3>1, <4>1
    <3>3. CASE page # Loading
      <4>1. ReplyTo(page.data, cursor) /\ page \in Entries /\ At(n + 1) = cursor
        BY <2>1, <3>3, PageAnswers DEF Answered, Shown, QueryKey, At
      <4>2. /\ DOMAIN Pages = 1 .. n + 1 /\ Pages[n + 1] = page
            /\ \A i \in 1 .. n : Pages[i] = visited[i]
        BY <2>1, <3>3, <4>1, AppendProperties DEF Pages, WalkTypeOK
      <4>3. \A i \in 1 .. n + 1 : i = n + 1 \/ i \in 1 .. n
        BY <2>1
      <4> QED
        BY <3>1, <4>1, <4>2, <4>3
    <3> QED
      BY <3>2, <3>3
  <2>3. ASSUME NEW i \in DOMAIN Pages, NEW j \in DOMAIN Pages, i < j,
               NEW a \in DOMAIN Pages[i].data.groups, NEW b \in DOMAIN Pages[j].data.groups,
               NEW t \in SeatsOf(Pages[i].data.groups[a]), t \in SeatsOf(Pages[j].data.groups[b])
        PROVE  FALSE
    <3>1. i \in 1 .. n + 1 /\ j \in 1 .. n + 1 /\ i # n + 1 /\ i + 1 \in 1 .. n + 1
      BY <2>1, <2>2, <2>3
    <3>2. t \in Seats /\ (At(i + 1) # NoCursor => t = At(i + 1) \/ Before(t, At(i + 1)))
      BY <2>2, <3>1 DEF ReplyTo
    <3>3. At(j) # NoCursor => Before(At(j), t)
      BY <2>2, <2>3 DEF ReplyTo
    <3>4. At(i + 1) # NoCursor /\ At(j) # NoCursor /\ (i + 1 = j \/ Before(At(i + 1), At(j)))
      BY <2>1, <2>3, <3>1 DEF Ascending
    <3>5. At(i + 1) \in Seats /\ At(j) \in Seats
      BY <2>1, <3>1, <3>4 DEF At, WalkTypeOK
    <3>6. t = At(j) \/ Before(t, At(j))
      BY <3>2, <3>4, <3>5, BeforeTransitive
    <3> QED
      BY <3>2, <3>3, <3>4, <3>5, <3>6, BeforeTransitive, BeforeTotal
  <2>4. ASSUME NEW i \in DOMAIN Pages, NEW j \in DOMAIN Pages, i # j,
               NEW t \in UNION GroupSets(Pages[i].data.groups), t \in UNION GroupSets(Pages[j].data.groups)
        PROVE  FALSE
    <3>1. PICK a \in DOMAIN Pages[i].data.groups : t \in SeatsOf(Pages[i].data.groups[a])
      BY Zenon DEF GroupSets
    <3>2. PICK b \in DOMAIN Pages[j].data.groups : t \in SeatsOf(Pages[j].data.groups[b])
      BY <2>4, Zenon DEF GroupSets
    <3>3. i < j \/ j < i
      BY <2>1, <2>2, <2>4
    <3> QED
      BY <2>3, <3>1, <3>2, <3>3
  <2> QED
    BY <2>4, Zenon DEF NoSeatTwice
<1> QED
  BY <1>1, WalkInvariant, PTL

\* In every inventory the scan finds the blocks of adjacent seats, whatever group
\* size the user picked: EventsService.groupConsecutive loses no group and finds no
\* other.
THEOREM ScanFindsBlocksAlways == Spec => []ScanFindsBlocks
<1>1. WalkInv => ScanFindsBlocks
  <2>1. SUFFICES ASSUME WalkInv PROVE ScanFindsBlocks
    OBVIOUS
  <2>2. quantity \in Nat \ {0} /\ Available \in SUBSET Seats
    BY <2>1, QuantitiesAssumption DEF WalkInv, WalkTypeOK, Available
  <2> QED
    BY <2>2, GroupsAreBlocks DEF ScanFindsBlocks
<1> QED
  BY <1>1, WalkInvariant, PTL

-----------------------------------------------------------------------------
(* The groups of a page                                                    *)

\* A group of the reference definition starts at seat t.
Starts(t, S, q) == t \in S /\ RunFrom(t, q) \subseteq S /\ Back(t, S) % q = 0

LEMMA BlockGroupsStart ==
  ASSUME NEW S, NEW q, NEW X
  PROVE  X \in BlockGroups(S, q) <=> \E t \in S : Starts(t, S, q) /\ X = RunFrom(t, q)
  BY DEF BlockGroups, Starts, Back

\* Two groups that start at different seats are different.
LEMMA RunFromInjective ==
  ASSUME NEW t \in Seats, NEW u \in Seats, NEW q \in Nat \ {0}, RunFrom(t, q) = RunFrom(u, q)
  PROVE  t = u
<1>1. /\ t.number \in Nat /\ u.number \in Nat
      /\ Seat(t.section, t.number) = t /\ Seat(u.section, u.number) = u
  <2>1. t \in [section: Int, number: Nat] /\ u \in [section: Int, number: Nat]
    BY SeatsAssumption
  <2> QED
    BY <2>1 DEF Seat
<1>2. t \in RunFrom(t, q) /\ u \in RunFrom(u, q)
  <2>1. t.number \in t.number .. t.number + q - 1 /\ u.number \in u.number .. u.number + q - 1
    BY <1>1
  <2> QED
    BY <1>1, <2>1, Zenon DEF RunFrom
<1>3. PICK n \in t.number .. t.number + q - 1 : u = Seat(t.section, n)
  BY <1>2 DEF RunFrom
<1>4. PICK m \in u.number .. u.number + q - 1 : t = Seat(u.section, m)
  BY <1>2 DEF RunFrom
<1>5. u.section = t.section /\ u.number = n /\ t.number = m
  BY <1>3, <1>4 DEF Seat
<1>6. u.number = t.number
  BY <1>1, <1>5
<1> QED
  BY <1>1, <1>5, <1>6

\* The scan of a set of tickets, as the positions its groups start at.
ScanAt(G, p, m, A, s, q) ==
  /\ p \in [1 .. m -> 1 .. Len(s)]
  /\ G \in Seq(Seq(A)) /\ Len(G) = m
  /\ \A a \in 1 .. m : /\ SeatsOf(G[a]) = RunFrom(s[p[a]], q) /\ Starts(s[p[a]], A, q)
                       /\ Len(G[a]) = q /\ p[a] + q - 1 \in 1 .. Len(s)
                       /\ Last(G[a]) = s[p[a] + q - 1]
                       /\ s[p[a] + q - 1] = Seat(s[p[a]].section, s[p[a]].number + q - 1)
  /\ \A a, b \in 1 .. m : a < b => p[a] + q <= p[b]
  /\ \A t \in A : Starts(t, A, q) => \E a \in 1 .. m : t = s[p[a]]

LEMMA ScanStarts ==
  ASSUME NEW A \in SUBSET Seats, NEW q \in Nat \ {0}, NEW s, s = Ordered(A)
  PROVE  \E m \in Nat : \E p : ScanAt(Scan(s, q)[1], p, m, A, s, q)
<1> DEFINE G == Scan(s, q)[1]
           run(i) == SubSeq(s, i, i + q - 1)
<1>1. s \in Seq(A) /\ Len(s) \in Nat /\ 1 \in 1 .. Len(s) + 1 /\ \A j \in 1 .. Len(s) : s[j] \in A
  <2>1. s \in Seq(A)
    BY OrderedAscends
  <2> QED
    BY <2>1
<1>2. Runs(G, s, q, 1)
  BY <1>1, ScanFindsRuns
<1>3. ASSUME NEW X PROVE X \in GroupSets(G) <=> IsGroupFrom(X, s, A, q, 1)
  <2>1. InStep(s, A, q, 1)
    BY ScanStaysInStep
  <2> QED
    BY <1>1, <2>1, ScanFindsGroups
<1>4. \A j \in 1 .. Len(s) : IsRun(s, j, q) <=> RunFrom(s[j], q) \subseteq A
  BY RunIsBlock
<1>5. \A j \in 1 .. Len(s) : StartsGroup(s, A, q, j) <=> Starts(s[j], A, q)
  BY <1>1, <1>4 DEF StartsGroup, Starts
<1>6. \A t \in A : \E j \in 1 .. Len(s) : s[j] = t
  BY OrderedAscends DEF ToSet
<1> HIDE DEF G
<1>7. PICK m \in Nat : \E p \in [1 .. m -> 1 .. Len(s)] :
        /\ G = [a \in 1 .. m |-> run(p[a])]
        /\ \A a \in 1 .. m : IsRun(s, p[a], q)
        /\ \A a, b \in 1 .. m : a < b => p[a] + q <= p[b]
  BY <1>2 DEF Runs
<1>8. PICK p \in [1 .. m -> 1 .. Len(s)] :
        /\ G = [a \in 1 .. m |-> run(p[a])]
        /\ \A a \in 1 .. m : IsRun(s, p[a], q)
        /\ \A a, b \in 1 .. m : a < b => p[a] + q <= p[b]
  BY <1>7
<1>9. ASSUME NEW a \in 1 .. m
      PROVE  /\ run(p[a]) \in Seq(A) /\ Len(run(p[a])) = q
             /\ \A k \in 1 .. q : p[a] + k - 1 \in 1 .. Len(s) /\ run(p[a])[k] = s[p[a] + k - 1]
             /\ SeatsOf(run(p[a])) = RunFrom(s[p[a]], q)
  <2>1. PICK i \in 1 .. Len(s) : i = p[a] /\ IsRun(s, i, q)
    BY <1>8
  <2>2. s \in Seq(A)
    BY <1>1
  <2>3. SeatsOf(run(i)) = RunFrom(s[i], q)
    BY <2>1, <2>2, RunIsGroup
  <2>4. /\ run(i) \in Seq(A) /\ Len(run(i)) = q
        /\ \A k \in 1 .. q : i + k - 1 \in 1 .. Len(s) /\ run(i)[k] = s[i + k - 1]
    <3>1. CutAt(run(i), s, q, i, A)
      BY <2>1, <2>2, RunIsCut
    <3> QED
      BY <3>1 DEF CutAt
  <2> QED
    BY <2>1, <2>3, <2>4, Zenon
<1> HIDE DEF run
<1>10. G \in Seq(Seq(A)) /\ Len(G) = m /\ \A a \in 1 .. m : G[a] = run(p[a])
  <2>1. \A a \in 1 .. m : run(p[a]) \in Seq(A)
    BY <1>9
  <2>2. G = [a \in 1 .. m |-> run(p[a])]
    BY <1>8
  <2> QED
    BY <2>1, <2>2
<1>11. DOMAIN G = 1 .. m
  BY <1>10, LenProperties, Zenon
<1>12. ASSUME NEW a \in 1 .. m
       PROVE  SeatsOf(G[a]) = RunFrom(s[p[a]], q) /\ Starts(s[p[a]], A, q)
  <2>1. SeatsOf(G[a]) = RunFrom(s[p[a]], q)
    BY <1>9, <1>10
  <2>2. SeatsOf(G[a]) \in GroupSets(G)
    BY <1>11 DEF GroupSets
  <2>3. PICK j \in 1 .. Len(s) : StartsGroup(s, A, q, j) /\ SeatsOf(G[a]) = RunFrom(s[j], q)
    BY <1>3, <2>2 DEF IsGroupFrom
  <2>4. s[j] \in Seats /\ s[p[a]] \in Seats
    BY <1>1, <1>8
  <2>5. s[j] = s[p[a]]
    BY <2>1, <2>3, <2>4, RunFromInjective
  <2> QED
    BY <1>5, <2>1, <2>3, <2>5
<1>13. ASSUME NEW a \in 1 .. m
       PROVE  /\ Len(G[a]) = q /\ p[a] + q - 1 \in 1 .. Len(s)
              /\ Last(G[a]) = s[p[a] + q - 1]
              /\ s[p[a] + q - 1] = Seat(s[p[a]].section, s[p[a]].number + q - 1)
  <2>1. /\ G[a] = run(p[a]) /\ Len(run(p[a])) = q /\ q \in 1 .. q
        /\ p[a] + q - 1 \in 1 .. Len(s) /\ run(p[a])[q] = s[p[a] + q - 1]
    BY <1>9, <1>10
  <2>2. Last(G[a]) = s[p[a] + q - 1]
    BY <2>1 DEF Last
  <2>3. p[a] \in 1 .. Len(s) /\ q - 1 \in 0 .. q - 1
    BY <1>8
  <2>4. s[p[a] + (q - 1)] = Seat(s[p[a]].section, s[p[a]].number + (q - 1))
    <3>1. PICK i \in 1 .. Len(s) : i = p[a] /\ IsRun(s, i, q)
      BY <1>8
    <3>2. s \in Seq(A)
      BY <1>1
    <3>3. \A k \in 0 .. q - 1 : s[i + k] = Seat(s[i].section, s[i].number + k)
      BY <3>1, <3>2, RunSeats
    <3> QED
      BY <2>3, <3>1, <3>3, Zenon
  <2>5. p[a] + (q - 1) = p[a] + q - 1 /\ s[p[a]].number + (q - 1) = s[p[a]].number + q - 1
    <3>1. s[p[a]].number \in Nat
      BY <1>1, <2>3, BlockStarts
    <3> QED
      BY <2>3, <3>1
  <2> QED
    BY <2>1, <2>2, <2>4, <2>5
<1>14. ASSUME NEW t \in A, Starts(t, A, q) PROVE \E a \in 1 .. m : t = s[p[a]]
  <2>1. PICK j \in 1 .. Len(s) : s[j] = t
    BY <1>6
  <2>2. IsGroupFrom(RunFrom(t, q), s, A, q, 1)
    BY <1>5, <1>14, <2>1 DEF IsGroupFrom
  <2>3. RunFrom(t, q) \in GroupSets(G)
    BY <1>3, <2>2
  <2>4. PICK a \in 1 .. m : RunFrom(t, q) = SeatsOf(G[a])
    BY <1>11, <2>3 DEF GroupSets
  <2>5. RunFrom(t, q) = RunFrom(s[p[a]], q) /\ t \in Seats /\ s[p[a]] \in Seats
    BY <1>1, <1>8, <1>12, <2>4
  <2> QED
    BY <2>5, RunFromInjective
<1>15. ScanAt(G, p, m, A, s, q)
  BY <1>8, <1>10, <1>12, <1>13, <1>14 DEF ScanAt
<1> QED
  BY <1>15 DEF G

\* A seat behind which a group of the reference definition ends.
GroupEnd(e, S, q) == \E t \in S : Starts(t, S, q) /\ e = Seat(t.section, t.number + q - 1)

\* X is one of these groups and does not start behind e, if there is an e.
GroupUpTo(X, S, q, more, e) ==
  \E t \in S : Starts(t, S, q) /\ X = RunFrom(t, q) /\ (more => ~ Before(e, t))

\* A page has the groups up to its next cursor, or all of them.
LEMMA PageGroups ==
  ASSUME NEW A \in SUBSET Seats, NEW q \in Nat \ {0}, NEW limit \in Nat \ {0},
         NEW P, P = PageOf(Ordered(A), q, limit)
  PROVE  /\ P.hasMore => GroupEnd(P.next, A, q)
         /\ ~ P.hasMore => P.next = NoCursor /\ Len(P.groups) <= limit
         /\ Len(P.groups) \in Nat /\ DOMAIN P.groups = 1 .. Len(P.groups)
         /\ \A X : X \in GroupSets(P.groups) <=> GroupUpTo(X, A, q, P.hasMore, P.next)
<1> DEFINE s == Ordered(A)
           G == Scan(s, q)[1]
           groups == Prefix(G, limit + 1)
           pg == Prefix(groups, limit)
<1>1. /\ s \in Seq(A) /\ Len(s) \in Nat
      /\ \A i, j \in 1 .. Len(s) : i < j => Before(s[i], s[j])
  BY OrderedAscends
<1>2. P = [groups |-> pg, hasMore |-> Len(groups) > limit,
           next |-> IF Len(groups) > limit THEN Last(Last(pg)) ELSE NoCursor]
  BY DEF PageOf, GroupConsecutive
<1>3. PICK m \in Nat : \E p : ScanAt(G, p, m, A, s, q)
  BY ScanStarts
<1>4. PICK p : ScanAt(G, p, m, A, s, q)
  BY <1>3
<1> HIDE DEF s, G
<1>5. /\ p \in [1 .. m -> 1 .. Len(s)] /\ G \in Seq(Seq(A)) /\ Len(G) = m
      /\ \A a, b \in 1 .. m : a < b => p[a] + q <= p[b]
  BY <1>4 DEF ScanAt
<1>6. \A a \in 1 .. m : /\ SeatsOf(G[a]) = RunFrom(s[p[a]], q) /\ Starts(s[p[a]], A, q)
                        /\ p[a] + q - 1 \in 1 .. Len(s) /\ Last(G[a]) = s[p[a] + q - 1]
                        /\ s[p[a] + q - 1] = Seat(s[p[a]].section, s[p[a]].number + q - 1)
  BY <1>4 DEF ScanAt
<1>7. \A t \in A : Starts(t, A, q) => \E a \in 1 .. m : t = s[p[a]]
  BY <1>4 DEF ScanAt
<1>8. /\ groups \in Seq(Seq(A)) /\ Len(groups) = IF limit + 1 <= m THEN limit + 1 ELSE m
      /\ \A a \in 1 .. Len(groups) : a \in 1 .. m /\ groups[a] = G[a]
  <2>1. G \in Seq(Seq(A)) /\ Len(G) = m /\ limit + 1 \in Nat
    BY <1>5
  <2>2. /\ Prefix(G, limit + 1) \in Seq(Seq(A))
        /\ Len(Prefix(G, limit + 1)) = IF limit + 1 <= Len(G) THEN limit + 1 ELSE Len(G)
        /\ \A a \in 1 .. Len(Prefix(G, limit + 1)) :
             a \in 1 .. Len(G) /\ Prefix(G, limit + 1)[a] = G[a]
    BY <2>1, PrefixProperties
  <2> QED
    BY <2>1, <2>2, Zenon
<1> HIDE DEF groups
<1>9. /\ pg \in Seq(Seq(A))
      /\ Len(pg) = IF limit <= Len(groups) THEN limit ELSE Len(groups)
      /\ \A a \in 1 .. Len(pg) : a \in 1 .. Len(groups) /\ pg[a] = groups[a]
  <2>1. groups \in Seq(Seq(A)) /\ limit \in Nat
    BY <1>8
  <2>2. /\ Prefix(groups, limit) \in Seq(Seq(A))
        /\ Len(Prefix(groups, limit)) = IF limit <= Len(groups) THEN limit ELSE Len(groups)
        /\ \A a \in 1 .. Len(Prefix(groups, limit)) :
             a \in 1 .. Len(groups) /\ Prefix(groups, limit)[a] = groups[a]
    BY <2>1, PrefixProperties
  <2> QED
    BY <2>2, Zenon
<1> HIDE DEF pg
<1>10. /\ \A a \in 1 .. Len(pg) : a \in 1 .. m /\ pg[a] = G[a]
       /\ DOMAIN pg = 1 .. Len(pg)
  BY <1>8, <1>9
<1>11. /\ P.groups = pg /\ (P.hasMore <=> Len(groups) > limit)
       /\ P.next = IF P.hasMore THEN Last(Last(pg)) ELSE NoCursor
  <2> DEFINE more == Len(groups) > limit
             next == IF more THEN Last(Last(pg)) ELSE NoCursor
  <2>1. P = [groups |-> pg, hasMore |-> more, next |-> next]
    BY <1>2, Zenon
  <2>2. more <=> Len(groups) > limit
    OBVIOUS
  <2>3. next = IF more THEN Last(Last(pg)) ELSE NoCursor
    OBVIOUS
  <2> HIDE DEF more, next
  <2>4. P.groups = pg
    BY <2>1
  <2>5. P.hasMore <=> more
    BY <2>1
  <2>6. P.next = next
    BY <2>1
  <2> QED
    BY <2>2, <2>3, <2>4, <2>5, <2>6, Zenon
<1>12. P.hasMore => Len(pg) = limit /\ limit \in 1 .. m
  BY <1>8, <1>9, <1>11
<1>13. ~ P.hasMore => Len(pg) = m /\ m <= limit
  BY <1>8, <1>9, <1>11
<1>14. P.hasMore => /\ P.next = s[p[limit] + q - 1]
                    /\ GroupEnd(P.next, A, q)
  <2> SUFFICES ASSUME P.hasMore
               PROVE  P.next = s[p[limit] + q - 1] /\ GroupEnd(P.next, A, q)
    OBVIOUS
  <2>1. Last(pg) = G[limit] /\ limit \in 1 .. m
    BY <1>10, <1>12 DEF Last
  <2>2. P.next = s[p[limit] + q - 1]
    BY <1>6, <1>11, <2>1
  <2>3. Starts(s[p[limit]], A, q) /\ s[p[limit]] \in A
    BY <1>6, <2>1 DEF Starts
  <2>4. P.next = Seat(s[p[limit]].section, s[p[limit]].number + q - 1)
    BY <1>6, <2>1, <2>2
  <2> QED
    BY <2>2, <2>3, <2>4 DEF GroupEnd
<1>15. ASSUME NEW a \in 1 .. m
       PROVE  a \in 1 .. Len(pg) <=> (P.hasMore => ~ Before(P.next, s[p[a]]))
  <2>1. CASE ~ P.hasMore
    BY <1>13, <2>1
  <2>2. CASE P.hasMore
    <3>1. PICK e \in 1 .. Len(s) : e = p[limit] + q - 1 /\ P.next = s[e]
      BY <1>6, <1>12, <1>14, <2>2
    <3>2. PICK i \in 1 .. Len(s) : i = p[a]
      BY <1>5
    <3>3. p[limit] \in 1 .. Len(s) /\ limit \in 1 .. m
      BY <1>5, <1>12, <2>2
    <3>4. CASE a <= limit
      <4>1. i <= e
        <5>1. a = limit \/ p[a] + q <= p[limit]
          BY <1>5, <3>3, <3>4
        <5>2. PICK l \in 1 .. Len(s) : l = p[limit] /\ e = l + q - 1
          BY <3>1, <3>3
        <5>3. i = l \/ i + q <= l
          BY <3>2, <5>1, <5>2
        <5> QED
          BY <5>2, <5>3
      <4>2. s[i] \in Seats /\ s[e] \in Seats
        BY <1>1
      <4>3. i = e \/ Before(s[i], s[e])
        BY <1>1, <4>1
      <4>4. ~ Before(s[e], s[i])
        BY <4>2, <4>3, BeforeTotal, BeforeTransitive
      <4> QED
        BY <1>12, <2>2, <3>1, <3>2, <3>4, <4>4
    <3>5. CASE limit < a
      <4>1. e < i
        BY <1>5, <3>1, <3>2, <3>3, <3>5
      <4>2. Before(s[e], s[i])
        BY <1>1, <4>1
      <4> QED
        BY <1>12, <2>2, <3>1, <3>2, <3>5, <4>2
    <3> QED
      BY <3>4, <3>5
  <2> QED
    BY <2>1, <2>2
<1>16. ASSUME NEW X
       PROVE  X \in GroupSets(P.groups) <=> GroupUpTo(X, A, q, P.hasMore, P.next)
  <2>1. X \in GroupSets(P.groups) <=> \E a \in 1 .. Len(pg) : X = RunFrom(s[p[a]], q)
    <3>1. X \in GroupSets(pg) <=> \E a \in 1 .. Len(pg) : X = SeatsOf(pg[a])
      BY <1>10 DEF GroupSets
    <3>2. \A a \in 1 .. Len(pg) : SeatsOf(pg[a]) = RunFrom(s[p[a]], q)
      BY <1>6, <1>10
    <3> QED
      BY <1>11, <3>1, <3>2
  <2>2. ASSUME NEW a \in 1 .. Len(pg), X = RunFrom(s[p[a]], q)
        PROVE  GroupUpTo(X, A, q, P.hasMore, P.next)
    <3>1. a \in 1 .. m
      BY <1>10
    <3>2. Starts(s[p[a]], A, q) /\ s[p[a]] \in A
      BY <1>6, <3>1 DEF Starts
    <3> QED
      BY <1>15, <2>2, <3>1, <3>2 DEF GroupUpTo
  <2>3. ASSUME GroupUpTo(X, A, q, P.hasMore, P.next)
        PROVE  \E a \in 1 .. Len(pg) : X = RunFrom(s[p[a]], q)
    <3>1. PICK t \in A : Starts(t, A, q) /\ X = RunFrom(t, q) /\ (P.hasMore => ~ Before(P.next, t))
      BY <2>3 DEF GroupUpTo
    <3>2. PICK a \in 1 .. m : t = s[p[a]]
      BY <1>7, <3>1
    <3> QED
      BY <1>15, <3>1, <3>2
  <2> QED
    BY <2>1, <2>2, <2>3
<1>17. Len(P.groups) \in Nat /\ DOMAIN P.groups = 1 .. Len(P.groups)
  BY <1>9, <1>10, <1>11
<1> QED
  BY <1>11, <1>13, <1>14, <1>16, <1>17

\* A whole group in front does not change where the next ones start.
LEMMA SameRemainder ==
  ASSUME NEW d \in Nat, NEW q \in Nat \ {0}, NEW k \in Nat, d % q = 0
  PROVE  k % q = 0 <=> (d + (q + k)) % q = 0
<1>1. PICK a \in Int : d = q * a
  <2>1. d = q * (d \div q) + (d % q) /\ d \div q \in Int
    OBVIOUS
  <2> QED
    BY <2>1
<1>2. PICK b \in Int, r \in 0 .. q - 1 : k = q * b + r /\ r = k % q
  <2>1. k = q * (k \div q) + (k % q) /\ k \div q \in Int /\ k % q \in 0 .. q - 1
    OBVIOUS
  <2> QED
    BY <2>1
<1>3. d + (q + k) = q * (a + 1 + b) + r
  BY <1>1, <1>2
<1>4. (d + (q + k)) % q = r
  <2>1. PICK e \in Int, n \in Nat : e = a + 1 + b /\ n = d + (q + k)
    BY <1>1, <1>2
  <2>2. n = q * e + r /\ r \in 0 .. q - 1
    BY <1>2, <1>3, <2>1
  <2>3. n % q = r
    BY <2>2, Remainder
  <2> QED
    BY <2>1, <2>3
<1> QED
  BY <1>2, <1>4

\* Behind the end of a group the blocks are cut as if what lies before were there.
LEMMA GroupsBehind ==
  ASSUME NEW A \in SUBSET Seats, NEW q \in Nat \ {0}, NEW c, GroupEnd(c, A, q),
         NEW B, B = {t \in A : Before(c, t)}, NEW t \in B
  PROVE  Starts(t, B, q) <=> Starts(t, A, q)
<1>1. PICK u \in A : Starts(u, A, q) /\ c = Seat(u.section, u.number + q - 1)
  BY DEF GroupEnd
<1>2. /\ u.number \in Nat /\ Back(u, A) \in Nat /\ Back(u, A) % q = 0
      /\ Seat(u.section, u.number) = u
  BY <1>1, BlockStarts DEF Starts
<1>3. c.section = u.section /\ c.number = u.number + q - 1 /\ c.number \in Nat
  BY <1>1, <1>2 DEF Seat
<1>4. t \in A /\ Before(c, t) /\ B \in SUBSET Seats
  OBVIOUS
<1>5. /\ t.number \in Nat /\ Seat(t.section, t.number) = t /\ Back(t, A) \in Nat /\ Back(t, B) \in Nat
      /\ BlockStart(t, A) \in 0 .. t.number
      /\ \A m \in BlockStart(t, A) .. t.number : Seat(t.section, m) \in A
      /\ \A n \in 0 .. t.number :
           (\A m \in n .. t.number : Seat(t.section, m) \in A) => BlockStart(t, A) <= n
  BY <1>4, BlockStarts
<1>6. t.section \in Int /\ u.section \in Int
  <2>1. t \in [section: Int, number: Nat] /\ u \in [section: Int, number: Nat]
    BY <1>4, SeatsAssumption
  <2> QED
    BY <2>1
<1>7. \A n : Seat(t.section, n) \in A /\ Before(c, Seat(t.section, n)) => Seat(t.section, n) \in B
  OBVIOUS
<1>8. \A n : Before(c, Seat(t.section, n)) <=>
               c.section < t.section \/ (c.section = t.section /\ c.number < n)
  BY DEF Before, Seat
<1>9. c.section < t.section \/ (c.section = t.section /\ c.number < t.number)
  BY <1>4 DEF Before
<1>10. RunFrom(t, q) \subseteq B <=> RunFrom(t, q) \subseteq A
  <2>1. ASSUME NEW n \in t.number .. t.number + q - 1 PROVE Before(c, Seat(t.section, n))
    BY <1>3, <1>5, <1>8, <1>9
  <2> QED
    BY <1>7, <2>1 DEF RunFrom
<1>11. CASE c.section = t.section /\ BlockStart(t, A) <= c.number
  <2>1. c.number < t.number
    BY <1>6, <1>9, <1>11
  <2>2. PICK k \in Nat : t.number = c.number + 1 + k
    <3>1. t.number - (c.number + 1) \in Nat /\ t.number = c.number + 1 + (t.number - (c.number + 1))
      BY <1>3, <1>5, <2>1
    <3> QED
      BY <3>1
  <2> DEFINE v == Seat(t.section, c.number + 1)
  <2>3. \A m \in c.number + 1 .. c.number + 1 + k : Seat(t.section, m) \in A /\ Seat(t.section, m) \in B
    <3>1. \A m \in c.number + 1 .. c.number + 1 + k :
             m \in BlockStart(t, A) .. t.number /\ c.number < m
      BY <1>3, <1>5, <1>11, <2>2
    <3> QED
      BY <1>5, <1>7, <1>8, <1>11, <3>1
  <2>4. v \in B /\ v.section = t.section /\ v.number = c.number + 1
    <3>1. c.number + 1 \in c.number + 1 .. c.number + 1 + k
      BY <1>3, <2>2
    <3> QED
      BY <2>3, <3>1 DEF Seat
  <2> HIDE DEF v
  <2>5. Back(v, B) = 0
    <3>1. v.number - 1 = c.number
      BY <1>3, <2>4
    <3>2. ~ Before(c, Seat(v.section, c.number))
      BY <1>3, <1>6, <1>8, <1>11, <2>4
    <3> QED
      BY <1>4, <2>4, <3>1, <3>2, FirstOfBlock
  <2>6. t = Seat(v.section, v.number + k)
    BY <1>5, <2>2, <2>4
  <2>7. Back(t, B) = k
    <3>1. \A m \in v.number .. v.number + k : Seat(v.section, m) \in B
      BY <2>3, <2>4
    <3>2. Back(t, B) = Back(v, B) + k
      BY <1>4, <2>4, <2>6, <3>1, SameBlock
    <3> QED
      BY <2>2, <2>5, <3>2
  <2>8. Back(t, A) = Back(u, A) + (q + k)
    <3>1. \A m \in u.number .. u.number + (q + k) : Seat(u.section, m) \in A
      <4>1. ASSUME NEW m \in u.number .. u.number + q - 1 PROVE Seat(u.section, m) \in A
        BY <1>1 DEF Starts, RunFrom
      <4>2. \A m \in u.number .. u.number + (q + k) :
              m \in u.number .. u.number + q - 1 \/ m \in c.number + 1 .. c.number + 1 + k
        BY <1>2, <1>3, <2>2
      <4>3. u.section = t.section
        BY <1>3, <1>11
      <4> QED
        BY <2>3, <4>1, <4>2, <4>3
    <3>2. t = Seat(u.section, u.number + (q + k))
      <4>1. u.number + (q + k) = t.number
        BY <1>2, <1>3, <2>2
      <4> QED
        BY <1>3, <1>5, <1>11, <4>1
    <3>3. q + k \in Nat
      BY <2>2
    <3> QED
      BY <1>1, <3>1, <3>2, <3>3, SameBlock
  <2>9. Back(t, B) % q = 0 <=> Back(t, A) % q = 0
    BY <1>2, <2>2, <2>7, <2>8, SameRemainder
  <2> QED
    BY <1>4, <1>10, <2>9 DEF Starts
<1>12. CASE ~ (c.section = t.section /\ BlockStart(t, A) <= c.number)
  <2>1. PICK b \in Nat : b = BlockStart(t, A) /\ b <= t.number
    BY <1>5
  <2>2. PICK k \in Nat : t.number = b + k
    <3>1. t.number - b \in Nat /\ t.number = b + (t.number - b)
      BY <1>5, <2>1
    <3> QED
      BY <3>1
  <2> DEFINE v == Seat(t.section, b)
  <2>3. \A m \in b .. b + k : Seat(t.section, m) \in A /\ Seat(t.section, m) \in B
    <3>1. \A m \in b .. b + k : /\ m \in BlockStart(t, A) .. t.number
                                /\ c.section < t.section \/ (c.section = t.section /\ c.number < m)
      BY <1>3, <1>5, <1>6, <1>9, <1>12, <2>1, <2>2
    <3> QED
      BY <1>5, <1>7, <1>8, <3>1
  <2>4. v \in A /\ v \in B /\ v.section = t.section /\ v.number = b
    <3>1. b \in b .. b + k
      BY <2>1, <2>2
    <3> QED
      BY <2>3, <3>1 DEF Seat
  <2> HIDE DEF v
  <2>5. v.number = 0 \/ Seat(v.section, v.number - 1) \notin A
    <3> SUFFICES ASSUME b # 0, Seat(t.section, b - 1) \in A PROVE FALSE
      BY <2>4
    <3>1. b - 1 \in 0 .. t.number
      BY <1>5, <2>1
    <3>2. \A m \in b - 1 .. t.number : m = b - 1 \/ m \in b .. b + k
      BY <1>5, <2>1, <2>2
    <3>3. \A m \in b - 1 .. t.number : Seat(t.section, m) \in A
      BY <2>3, <3>2
    <3>4. b <= b - 1
      BY <1>5, <2>1, <3>1, <3>3
    <3> QED
      BY <2>1, <3>4
  <2>6. Back(v, A) = 0 /\ Back(v, B) = 0
    BY <1>4, <2>4, <2>5, FirstOfBlock
  <2>7. t = Seat(v.section, v.number + k)
    BY <1>5, <2>2, <2>4
  <2>8. Back(t, A) = Back(v, A) + k /\ Back(t, B) = Back(v, B) + k
    <3>1. \A m \in v.number .. v.number + k : Seat(v.section, m) \in A
      BY <2>3, <2>4
    <3>2. \A m \in v.number .. v.number + k : Seat(v.section, m) \in B
      BY <2>3, <2>4
    <3>3. Back(t, A) = Back(v, A) + k
      BY <2>4, <2>7, <3>1, SameBlock
    <3>4. Back(t, B) = Back(v, B) + k
      BY <1>4, <2>4, <2>7, <3>2, SameBlock
    <3> QED
      BY <3>3, <3>4
  <2> QED
    BY <1>4, <1>10, <2>6, <2>8 DEF Starts
<1> QED
  BY <1>11, <1>12

LEMMA GroupEndBehind ==
  ASSUME NEW A \in SUBSET Seats, NEW q \in Nat \ {0}, NEW c, GroupEnd(c, A, q),
         NEW B, B = {t \in A : Before(c, t)}, NEW e, GroupEnd(e, B, q)
  PROVE  GroupEnd(e, A, q)
<1>1. PICK t \in B : Starts(t, B, q) /\ e = Seat(t.section, t.number + q - 1)
  BY DEF GroupEnd
<1>2. Starts(t, A, q) /\ t \in A
  BY <1>1, GroupsBehind
<1> QED
  BY <1>1, <1>2 DEF GroupEnd

\* A group ends with one of its seats.
LEMMA GroupEndIsSeat ==
  ASSUME NEW A \in SUBSET Seats, NEW q \in Nat \ {0}, NEW e, GroupEnd(e, A, q)
  PROVE  e \in A
<1>1. PICK t \in A : Starts(t, A, q) /\ e = Seat(t.section, t.number + q - 1)
  BY DEF GroupEnd
<1>2. t.number \in Nat
  BY BlockStarts
<1>3. t.number + q - 1 \in t.number .. t.number + q - 1
  BY <1>2
<1>4. e \in RunFrom(t, q)
  BY <1>1, <1>3 DEF RunFrom
<1> QED
  BY <1>1, <1>4 DEF Starts

-----------------------------------------------------------------------------
(* What a page leaves out                                                  *)

Behind(c, A) == {t \in A : c # NoCursor => Before(c, t)}

\* A page shows the groups of A between its cursor and its next one.
Between(X, c, P, A, q) ==
  \E t \in A : /\ Starts(t, A, q) /\ X = RunFrom(t, q)
               /\ c # NoCursor => Before(c, t)
               /\ P.hasMore => ~ Before(P.next, t)

Covers(P, c, A, q) ==
  /\ P.hasMore => GroupEnd(P.next, A, q)
  /\ ~ P.hasMore => P.next = NoCursor
  /\ \A X : X \in GroupSets(P.groups) <=> Between(X, c, P, A, q)

\* A page made from all the tickets behind its cursor leaves no group out.
LEMMA PageCovers ==
  ASSUME NEW A \in SUBSET Seats, NEW q \in Nat \ {0}, NEW limit \in Nat \ {0},
         NEW c, c = NoCursor \/ GroupEnd(c, A, q),
         NEW P, P = PageOf(Ordered(Behind(c, A)), q, limit)
  PROVE  Covers(P, c, A, q)
<1> DEFINE B == Behind(c, A)
<1>1. B \in SUBSET Seats /\ B \subseteq A
  BY DEF Behind
<1>2. /\ P.hasMore => GroupEnd(P.next, B, q)
      /\ ~ P.hasMore => P.next = NoCursor
      /\ \A X : X \in GroupSets(P.groups) <=> GroupUpTo(X, B, q, P.hasMore, P.next)
  BY <1>1, PageGroups
<1>3. CASE c = NoCursor
  <2>1. B = A
    BY <1>3 DEF Behind
  <2>2. ASSUME NEW X
        PROVE  GroupUpTo(X, A, q, P.hasMore, P.next) <=> Between(X, c, P, A, q)
    BY <1>3 DEF GroupUpTo, Between
  <2> QED
    BY <1>2, <2>1, <2>2 DEF Covers
<1>4. CASE c # NoCursor
  <2>1. GroupEnd(c, A, q) /\ B = {t \in A : Before(c, t)}
    BY <1>4 DEF Behind
  <2>2. \A t \in B : Starts(t, B, q) <=> Starts(t, A, q)
    BY <2>1, GroupsBehind
  <2>3. \A t : t \in B <=> t \in A /\ Before(c, t)
    BY <2>1
  <2>4. ASSUME NEW X
        PROVE  GroupUpTo(X, B, q, P.hasMore, P.next) <=> Between(X, c, P, A, q)
    BY <1>4, <2>2, <2>3 DEF GroupUpTo, Between
  <2>5. P.hasMore => GroupEnd(P.next, A, q)
    BY <1>2, <2>1, GroupEndBehind
  <2> QED
    BY <1>2, <2>4, <2>5 DEF Covers
<1> QED
  BY <1>3, <1>4

\* A prefix of the ordered tickets: all that are not behind its last one.
LEMMA WindowIsPrefix ==
  ASSUME NEW R \in SUBSET Seats, NEW n \in Nat, NEW W, W = ToSet(Prefix(Ordered(R), n))
  PROVE  /\ W \in SUBSET R
         /\ Cardinality(R) <= n => W = R
         /\ n < Cardinality(R) => Cardinality(W) = n
         /\ \A w \in W : \A t \in R : Before(t, w) => t \in W
<1> DEFINE s == Ordered(R)
           p == Prefix(s, n)
<1>1. /\ s \in Seq(R) /\ Len(s) = Cardinality(R) /\ Len(s) \in Nat
      /\ \A i, j \in 1 .. Len(s) : i < j => Before(s[i], s[j])
      /\ ToSet(s) = R
  BY OrderedAscends
<1> HIDE DEF s
<1>2. /\ p \in Seq(R)
      /\ Len(p) = IF n <= Len(s) THEN n ELSE Len(s)
      /\ \A i \in 1 .. Len(p) : i \in 1 .. Len(s) /\ p[i] = s[i]
  <2>1. s \in Seq(R)
    BY <1>1
  <2> QED
    BY <2>1, PrefixProperties
<1>3. W = ToSet(p)
  BY DEF s
<1> HIDE DEF p
<1>4. Len(p) \in Nat /\ DOMAIN p = 1 .. Len(p) /\ DOMAIN s = 1 .. Len(s)
  BY <1>1, <1>2, LenProperties
<1>5. \A t : t \in W <=> \E i \in 1 .. Len(p) : t = s[i]
  BY <1>2, <1>3, <1>4 DEF ToSet
<1>6. \A t \in R : \E i \in 1 .. Len(s) : t = s[i]
  BY <1>1, <1>4 DEF ToSet
<1>7. \A i \in 1 .. Len(s) : s[i] \in R
  BY <1>1
<1>8. W \in SUBSET R
  BY <1>2, <1>5, <1>7
<1>9. ASSUME Cardinality(R) <= n PROVE W = R
  <2>1. Len(p) = Len(s)
    BY <1>1, <1>2, <1>9
  <2> QED
    BY <1>5, <1>6, <1>8, <2>1
<1>10. ASSUME n < Cardinality(R) PROVE Cardinality(W) = n
  <2>1. Len(p) = n /\ \A i \in 1 .. n : i \in 1 .. Len(s)
    BY <1>1, <1>2, <1>10
  <2> DEFINE f == [i \in 1 .. n |-> s[i]]
  <2>2. f \in [1 .. n -> W]
    BY <1>5, <2>1
  <2>3. ASSUME NEW i \in 1 .. n, NEW j \in 1 .. n, f[i] = f[j] PROVE i = j
    <3>1. s[i] = s[j] /\ s[i] \in Seats /\ i \in 1 .. Len(s) /\ j \in 1 .. Len(s)
      BY <1>7, <2>1, <2>3
    <3>2. ~ Before(s[i], s[j]) /\ ~ Before(s[j], s[i])
      BY <3>1, BeforeTotal
    <3>3. ~ (i < j) /\ ~ (j < i)
      BY <1>1, <3>1, <3>2
    <3> QED
      BY <3>3
  <2>4. \A t \in W : \E i \in 1 .. n : f[i] = t
    BY <1>5, <2>1
  <2>5. ExistsBijection(1 .. n, W)
    <3>1. f \in Bijection(1 .. n, W)
      <4> HIDE DEF f
      <4> QED
        BY <2>2, <2>3, <2>4, Fun_IsBij
    <3> QED
      BY <3>1, Zenon DEF ExistsBijection
  <2>6. IsFiniteSet(1 .. n) /\ Cardinality(1 .. n) = n
    BY CountTo
  <2> QED
    BY <2>5, <2>6, FS_Bijection, SMT DEF ExistsBijection
<1>11. ASSUME NEW w \in W, NEW t \in R, Before(t, w) PROVE t \in W
  <2>1. PICK i \in 1 .. Len(p) : w = s[i]
    BY <1>5
  <2>2. PICK j \in 1 .. Len(s) : t = s[j]
    BY <1>6
  <2>3. i \in 1 .. Len(s) /\ s[i] \in Seats /\ s[j] \in Seats
    BY <1>2, <1>7, <2>1
  <2>4. ~ Before(s[i], s[j]) /\ i # j
    BY <1>11, <2>1, <2>2, <2>3, BeforeTotal, BeforeTransitive
  <2>5. j < i
    BY <1>1, <2>3, <2>4
  <2>6. j \in 1 .. Len(p)
    BY <1>4, <2>5
  <2> QED
    BY <1>5, <2>2, <2>6
<1> QED
  BY <1>8, <1>9, <1>10, <1>11

\* Every seat is a group of its own.
LEMMA SingleStarts ==
  ASSUME NEW A \in SUBSET Seats, NEW t
  PROVE  /\ Starts(t, A, 1) <=> t \in A
         /\ t \in A => RunFrom(t, 1) = {t}
<1>1. ASSUME t \in A PROVE RunFrom(t, 1) = {t} /\ Back(t, A) % 1 = 0
  <2>1. t.number \in Nat /\ Seat(t.section, t.number) = t /\ Back(t, A) \in Nat
    BY <1>1, BlockStarts
  <2>2. t.number .. t.number + 1 - 1 = {t.number}
    BY <2>1
  <2>3. \A d \in Nat : d % 1 = 0
    OBVIOUS
  <2> QED
    BY <2>1, <2>2, <2>3 DEF RunFrom
<1> QED
  BY <1>1 DEF Starts

LEMMA SingleEnds ==
  ASSUME NEW A \in SUBSET Seats, NEW e
  PROVE  GroupEnd(e, A, 1) <=> e \in A
<1>1. ASSUME NEW t \in A PROVE Seat(t.section, t.number + 1 - 1) = t
  <2>1. t.number \in Nat /\ Seat(t.section, t.number) = t
    BY BlockStarts
  <2>2. t.number + 1 - 1 = t.number
    BY <2>1
  <2> QED
    BY <2>1, <2>2, Zenon
<1> QED
  BY <1>1, SingleStarts DEF GroupEnd

\* A page without a next one is made from at most limit tickets, when they are
\* sold one by one.
LEMMA SinglePage ==
  ASSUME NEW W \in SUBSET Seats, NEW limit \in Nat \ {0},
         NEW P, P = PageOf(Ordered(W), 1, limit), ~ P.hasMore
  PROVE  Cardinality(W) <= limit
<1> DEFINE L == Len(P.groups)
           at(t) == CHOOSE i \in 1 .. L : SeatsOf(P.groups[i]) = {t}
           f == [t \in W |-> at(t)]
<1>1. /\ L \in Nat /\ L <= limit /\ DOMAIN P.groups = 1 .. L
      /\ \A X : X \in GroupSets(P.groups) <=> GroupUpTo(X, W, 1, P.hasMore, P.next)
  <2>1. 1 \in Nat \ {0}
    OBVIOUS
  <2> QED
    BY <2>1, PageGroups
<1> HIDE DEF L
<1>2. ASSUME NEW t \in W
      PROVE  at(t) \in 1 .. L /\ SeatsOf(P.groups[at(t)]) = {t}
  <2>1. GroupUpTo({t}, W, 1, P.hasMore, P.next)
    BY SingleStarts DEF GroupUpTo
  <2>2. {t} \in GroupSets(P.groups)
    BY <1>1, <2>1
  <2>3. \E i \in 1 .. L : SeatsOf(P.groups[i]) = {t}
    BY <1>1, <2>2 DEF GroupSets
  <2> QED
    BY <2>3
<1> HIDE DEF at
<1>3. f \in [W -> 1 .. L] /\ \A t, u \in W : f[t] = f[u] => t = u
  BY <1>2
<1> HIDE DEF f
<1>4. f \in Injection(W, 1 .. L)
  BY <1>3, Fun_IsInj
<1>5. IsFiniteSet(1 .. L) /\ Cardinality(1 .. L) = L
  BY <1>1, CountTo
<1>6. Cardinality(W) <= L /\ IsFiniteSet(W)
  BY <1>4, <1>5, FS_Injection
<1>7. Cardinality(W) \in Nat
  BY <1>6, FS_CardinalityType
<1> QED
  BY <1>1, <1>6, <1>7

\* When tickets are sold one by one, a window of more tickets than the page shows
\* leaves none out.
LEMMA SinglesCovered ==
  ASSUME NEW A \in SUBSET Seats, NEW limit \in Nat \ {0}, NEW n \in Nat, limit < n,
         NEW c, c = NoCursor \/ GroupEnd(c, A, 1),
         NEW W, W = ToSet(Prefix(Ordered(Behind(c, A)), n)),
         NEW P, P = PageOf(Ordered(W), 1, limit)
  PROVE  Covers(P, c, A, 1)
<1> DEFINE B == Behind(c, A)
<1>1. B \in SUBSET Seats /\ \A t : t \in B <=> t \in A /\ (c # NoCursor => Before(c, t))
  BY DEF Behind
<1> HIDE DEF B
<1>2. Cardinality(B) \in Nat
  BY <1>1, SeatsAssumption, FS_Subset, FS_CardinalityType
<1>3. /\ W \in SUBSET B /\ W \in SUBSET Seats
      /\ Cardinality(B) <= n => W = B
      /\ n < Cardinality(B) => Cardinality(W) = n
      /\ \A w \in W : \A t \in B : Before(t, w) => t \in W
  BY <1>1, WindowIsPrefix DEF B
<1>4. CASE Cardinality(B) <= n
  <2>1. P = PageOf(Ordered(Behind(c, A)), 1, limit)
    BY <1>3, <1>4 DEF B
  <2>2. 1 \in Nat \ {0}
    OBVIOUS
  <2> QED
    BY <2>1, <2>2, PageCovers
<1>5. CASE n < Cardinality(B)
  <2>1. 1 \in Nat \ {0}
    OBVIOUS
  <2>2. /\ P.hasMore => GroupEnd(P.next, W, 1)
        /\ ~ P.hasMore => P.next = NoCursor
        /\ \A X : X \in GroupSets(P.groups) <=> GroupUpTo(X, W, 1, P.hasMore, P.next)
    BY <1>3, <2>1, PageGroups
  <2>3. P.hasMore
    <3> SUFFICES ASSUME ~ P.hasMore PROVE FALSE
      OBVIOUS
    <3>1. Cardinality(W) <= limit
      BY <1>3, SinglePage
    <3> QED
      BY <1>3, <1>5, <3>1
  <2>4. P.next \in W /\ P.next \in A
    BY <1>1, <1>3, <2>2, <2>3, SingleEnds
  <2>5. GroupEnd(P.next, A, 1)
    BY <2>4, SingleEnds
  <2>6. ASSUME NEW t \in Seats, ~ Before(P.next, t) PROVE t \in B <=> t \in W
    <3>1. P.next \in Seats
      BY <2>4
    <3>2. t = P.next \/ Before(t, P.next)
      BY <2>6, <3>1, BeforeTotal
    <3> QED
      BY <1>3, <2>4, <3>2
  <2>7. ASSUME NEW X
        PROVE  GroupUpTo(X, W, 1, P.hasMore, P.next) <=> Between(X, c, P, A, 1)
    <3>1. GroupUpTo(X, W, 1, P.hasMore, P.next) <=>
            \E t \in W : X = RunFrom(t, 1) /\ ~ Before(P.next, t)
      BY <1>3, <2>3, SingleStarts DEF GroupUpTo
    <3>2. Between(X, c, P, A, 1) <=>
            \E t \in B : X = RunFrom(t, 1) /\ ~ Before(P.next, t)
      BY <1>1, <2>3, SingleStarts DEF Between
    <3>3. \A t \in W : t \in B /\ t \in Seats
      BY <1>3
    <3>4. \A t \in B : t \in Seats
      BY <1>1
    <3> QED
      BY <2>6, <3>1, <3>2, <3>3, <3>4
  <2> QED
    BY <2>2, <2>5, <2>7 DEF Covers
<1> QED
  BY <1>2, <1>4, <1>5

\* The tickets findTickets can show, and the condition under which its window
\* holds all of them that the page needs.
Showable(U, h, sec) == {t \in U \ h : sec \in {AllSections, t.section}}
WindowSuffices(U, h, q) == Cardinality(U) <= Take(Limit, q) \/ (h = {} /\ q = 1)

LEMMA AnswerCovers ==
  ASSUME NEW U \in SUBSET Seats, NEW h, NEW sec, NEW q \in Nat \ {0},
         WindowSuffices(U, h, q),
         NEW A, A = Showable(U, h, sec),
         NEW c, c = NoCursor \/ GroupEnd(c, A, q)
  PROVE  Covers(FindTickets(U, h, sec, c, q, Limit), c, A, q)
<1> DEFINE R == InRange(U, sec, c)
           n == Take(Limit, q)
           W == ToSet(Prefix(Ordered(R), n))
           P == PageOf(Ordered(W \ h), q, Limit)
<1>1. FindTickets(U, h, sec, c, q, Limit) = P
  BY DEF FindTickets
<1>2. R \in SUBSET U /\ R \in SUBSET Seats /\ A \in SUBSET Seats
  BY DEF InRange, Showable
<1>3. R \ h = Behind(c, A)
  BY DEF InRange, Showable, Behind
<1>4. n \in Nat /\ Limit \in Nat \ {0} /\ (q = 1 => Limit < n)
  BY LimitAssumption, SMT DEF Take
<1>5. WindowSuffices(U, h, q) <=> Cardinality(U) <= n \/ (h = {} /\ q = 1)
  BY DEF WindowSuffices
<1> HIDE DEF R, n
<1>6. W \in SUBSET R /\ (Cardinality(R) <= n => W = R)
  BY <1>2, <1>4, WindowIsPrefix
<1> HIDE DEF W, P
<1>7. P = PageOf(Ordered(W \ h), q, Limit)
  BY DEF P
<1>8. CASE Cardinality(U) <= n
  <2>1. /\ IsFiniteSet(U) /\ Cardinality(U) \in Nat
        /\ Cardinality(R) \in Nat /\ Cardinality(R) <= Cardinality(U)
    BY <1>2, SeatsAssumption, FS_Subset, FS_CardinalityType
  <2>2. W = R
    BY <1>4, <1>6, <1>8, <2>1
  <2>3. P = PageOf(Ordered(Behind(c, A)), q, Limit)
    BY <1>3, <1>7, <2>2
  <2> QED
    BY <1>1, <1>2, <1>4, <2>3, PageCovers
<1>9. CASE h = {} /\ q = 1
  <2>1. R = Behind(c, A) /\ W \ h = W
    BY <1>3, <1>9
  <2>2. W = ToSet(Prefix(Ordered(Behind(c, A)), n))
    BY <2>1 DEF W
  <2>3. P = PageOf(Ordered(W), 1, Limit)
    BY <1>7, <1>9, <2>1
  <2>4. Limit < n
    BY <1>4, <1>9
  <2>5. c = NoCursor \/ GroupEnd(c, A, 1)
    BY <1>9
  <2>6. Covers(P, c, A, 1)
    BY <1>2, <1>4, <2>2, <2>3, <2>4, <2>5, SinglesCovered
  <2> QED
    BY <1>1, <1>9, <2>6
<1> QED
  BY <1>5, <1>8, <1>9

-----------------------------------------------------------------------------
(* A walk to the last page                                                 *)

\* A chain of queries: the first from the first ticket on, each further one from
\* where the reply before it says, up to a reply that says there is no more.
Chain(n, P, c) ==
  /\ c[1] = NoCursor
  /\ \A i \in 1 .. n : c[i + 1] = P[i].next /\ c[i + 1] # NoCursor
  /\ ~ P[n + 1].hasMore

\* Such a chain misses no group, when no page does.
LEMMA ChainCovers ==
  ASSUME NEW A \in SUBSET Seats, NEW q \in Nat \ {0}, NEW n \in Nat, NEW P, NEW c,
         Chain(n, P, c),
         \A i \in 1 .. n + 1 :
           c[i] = NoCursor \/ GroupEnd(c[i], A, q) => Covers(P[i], c[i], A, q)
  PROVE  \A X : X \in BlockGroups(A, q) <=>
                  \E i \in 1 .. n + 1 : X \in GroupSets(P[i].groups)
<1> DEFINE good(i) == c[i] = NoCursor \/ GroupEnd(c[i], A, q)
<1>1. ASSUME NEW i \in 1 .. n + 1 PROVE good(i)
  <2> SUFFICES ASSUME ~ good(i) PROVE FALSE
    OBVIOUS
  <2> DEFINE D == {j \in 1 .. n + 1 : ~ good(j)}
  <2>1. D \in SUBSET Nat /\ D # {}
    OBVIOUS
  <2>2. PICK k \in D : \A j \in D : k <= j
    BY <2>1, Least
  <2>3. k \in 1 .. n + 1 /\ ~ good(k)
    BY <2>2
  <2>4. k # 1
    BY <2>3 DEF Chain
  <2>5. PICK l \in 1 .. n : l = k - 1 /\ l + 1 = k
    <3>1. k - 1 \in 1 .. n /\ k - 1 + 1 = k
      BY <2>3, <2>4
    <3> QED
      BY <3>1
  <2>6. l \in 1 .. n + 1 /\ ~ (k <= l)
    BY <2>5
  <2>7. good(l)
    BY <2>2, <2>6
  <2>8. Covers(P[l], c[l], A, q) /\ c[k] = P[l].next /\ c[k] # NoCursor
    BY <2>5, <2>6, <2>7 DEF Chain
  <2>9. good(k)
    BY <2>8 DEF Covers
  <2> QED
    BY <2>3, <2>9
<1>2. ASSUME NEW i \in 1 .. n + 1 PROVE Covers(P[i], c[i], A, q)
  BY <1>1
<1> HIDE DEF good
<1>3. ASSUME NEW X, NEW i \in 1 .. n + 1, X \in GroupSets(P[i].groups)
      PROVE  X \in BlockGroups(A, q)
  <2>1. Between(X, c[i], P[i], A, q)
    BY <1>2, <1>3 DEF Covers
  <2> QED
    BY <2>1, BlockGroupsStart DEF Between
<1>4. ASSUME NEW X, X \in BlockGroups(A, q)
      PROVE  \E i \in 1 .. n + 1 : X \in GroupSets(P[i].groups)
  <2>1. PICK t \in A : Starts(t, A, q) /\ X = RunFrom(t, q)
    BY <1>4, BlockGroupsStart
  <2> DEFINE D == {i \in 1 .. n + 1 : i = n + 1 \/ ~ Before(c[i + 1], t)}
  <2>2. D \in SUBSET Nat /\ n + 1 \in D
    OBVIOUS
  <2>3. PICK k \in D : \A j \in D : k <= j
    BY <2>2, Least
  <2>4. k \in 1 .. n + 1 /\ (k = n + 1 \/ ~ Before(c[k + 1], t))
    BY <2>3
  <2>5. c[k] # NoCursor => Before(c[k], t)
    <3>1. CASE k = 1
      BY <3>1 DEF Chain
    <3>2. CASE k # 1
      <4>1. PICK l \in 1 .. n : l = k - 1 /\ l + 1 = k
        <5>1. k - 1 \in 1 .. n /\ k - 1 + 1 = k
          BY <2>4, <3>2
        <5> QED
          BY <5>1
      <4>2. l \in 1 .. n + 1 /\ ~ (k <= l)
        BY <4>1
      <4>3. l \notin D
        BY <2>3, <4>2
      <4>4. Before(c[l + 1], t)
        BY <4>2, <4>3
      <4> QED
        BY <4>1, <4>4
    <3> QED
      BY <3>1, <3>2
  <2>6. P[k].hasMore => ~ Before(P[k].next, t)
    <3> SUFFICES ASSUME P[k].hasMore PROVE ~ Before(P[k].next, t)
      OBVIOUS
    <3>1. k # n + 1
      BY DEF Chain
    <3>2. k \in 1 .. n
      BY <2>4, <3>1
    <3>3. c[k + 1] = P[k].next
      BY <3>2 DEF Chain
    <3> QED
      BY <2>4, <3>1, <3>3
  <2>7. Between(X, c[k], P[k], A, q)
    BY <2>1, <2>5, <2>6 DEF Between
  <2> QED
    BY <1>2, <2>4, <2>7 DEF Covers
<1> QED
  BY <1>3, <1>4

\* A user who pages to the last page has seen every group of adjacent seats there
\* is and no other, when all pages of the walk, from the cache or not, were read since
\* the last booking, hold or release, and the over-fetched window was large enough.
THEOREM WalkCompleteAlways == Spec => []WalkComplete
<1>1. WalkInv => WalkComplete
  <2> SUFFICES ASSUME WalkInv, WalkEnded, Covered
               PROVE  GroupsSeen = BlockGroups(Available, quantity)
    BY DEF WalkComplete
  <2>1. /\ WalkTypeOK /\ PagesAnswer /\ Ascending
        /\ page # Loading /\ ~ page.data.hasMore /\ \A i \in DOMAIN Pages : Pages[i].at = changes
    BY DEF WalkInv, WalkEnded
  <2>2. PICK n \in Nat : n = Len(stack)
    BY <2>1 DEF WalkTypeOK
  <2> DEFINE c == [i \in 1 .. n + 1 |-> At(i)]
             P == [i \in 1 .. n + 1 |-> Pages[i].data]
  <2>3. /\ visited \in Seq(Entries) /\ Len(visited) = n
        /\ page \in Entries /\ Answered(page, Shown, booked, held, changes)
    BY <2>1, <2>2, PageAnswers DEF WalkTypeOK, Answered
  <2>4. Pages = Append(visited, page)
    BY <2>1 DEF Pages
  <2>5. /\ Len(Pages) = n + 1 /\ Pages \in Seq(Entries)
        /\ Pages[n + 1] = page /\ \A i \in 1 .. n : Pages[i] = visited[i]
    BY <2>3, <2>4, AppendProperties
  <2>6. DOMAIN Pages = 1 .. n + 1
    BY <2>5, LenProperties
  <2>7. At(n + 1) = cursor /\ \A i \in 1 .. n : At(i) = stack[i]
    BY <2>2 DEF At
  <2> DEFINE U == Seats \ booked
  <2>8. ASSUME NEW i \in 1 .. n + 1
        PROVE  P[i] = FindTickets(U, held, section, c[i], quantity, Limit)
    <3>1. Answered(Pages[i], QueryKey(section, quantity, At(i)), booked, held, changes)
      <4>1. CASE i = n + 1
        BY <2>3, <2>5, <2>7, <4>1 DEF Shown
      <4>2. CASE i \in 1 .. n
        BY <2>1, <2>2, <2>5, <2>7, <4>2 DEF PagesAnswer
      <4> QED
        BY <4>1, <4>2
    <3>2. Pages[i].at = changes
      BY <2>1, <2>6
    <3>3. Pages[i].data = FindTickets(U, held, section, At(i), quantity, Limit)
      BY <3>1, <3>2 DEF Answered, QueryKey
    <3>4. c[i] = At(i) /\ P[i] = Pages[i].data
      OBVIOUS
    <3> QED
      BY <3>3, <3>4
  <2>9. Chain(n, P, c)
    <3>1. 1 \in 1 .. n + 1 /\ \A i \in 1 .. n : i \in 1 .. n + 1 /\ i + 1 \in 1 .. n + 1 /\ 1 < i + 1
      OBVIOUS
    <3>2. \A i \in 1 .. n + 1 : c[i] = At(i) /\ P[i] = Pages[i].data
      OBVIOUS
    <3>3. c[1] = NoCursor
      BY <2>1, <3>1, <3>2 DEF Ascending
    <3>4. \A i \in 1 .. n : visited[i].data.next = At(i + 1)
      BY <2>1, <2>2 DEF PagesAnswer
    <3>5. \A i \in 1 .. n : At(i + 1) # NoCursor
      BY <2>1, <2>2, <3>1 DEF Ascending
    <3>6. n + 1 \in 1 .. n + 1
      OBVIOUS
    <3> HIDE DEF c, P
    <3> QED
      BY <2>1, <2>5, <3>1, <3>2, <3>3, <3>4, <3>5, <3>6 DEF Chain
  <2>10. Available = Showable(U, held, section) /\ Available \in SUBSET Seats
    BY DEF Available, Showable
  <2>11. U \in SUBSET Seats /\ WindowSuffices(U, held, quantity) /\ quantity \in Nat \ {0}
    BY <2>1, QuantitiesAssumption DEF Covered, WindowSuffices, WalkTypeOK
  <2> HIDE DEF U, c
  <2>12. ASSUME NEW i \in 1 .. n + 1, c[i] = NoCursor \/ GroupEnd(c[i], Available, quantity)
         PROVE  Covers(P[i], c[i], Available, quantity)
    <3>1. Covers(FindTickets(U, held, section, c[i], quantity, Limit), c[i], Available, quantity)
      BY <2>10, <2>11, <2>12, AnswerCovers
    <3> QED
      BY <2>8, <3>1
  <2>13. \A X : X \in GroupsSeen <=> \E i \in 1 .. n + 1 : X \in GroupSets(P[i].groups)
    BY <2>6 DEF GroupsSeen
  <2> HIDE DEF P
  <2>14. \A X : X \in BlockGroups(Available, quantity) <=>
                  \E i \in 1 .. n + 1 : X \in GroupSets(P[i].groups)
    <3>1. \A i \in 1 .. n + 1 :
            c[i] = NoCursor \/ GroupEnd(c[i], Available, quantity) =>
              Covers(P[i], c[i], Available, quantity)
      BY <2>12
    <3> QED
      BY <2>9, <2>10, <2>11, <3>1, ChainCovers
  <2> QED
    BY <2>13, <2>14
<1> QED
  BY <1>1, WalkInvariant, PTL
=============================================================================
