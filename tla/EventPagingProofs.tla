------------------------- MODULE EventPagingProofs -------------------------
(***************************************************************************)
(* Theorems about EventPaging for every catalog and every page size.       *)
(***************************************************************************)
EXTENDS EventPaging, OrderByProofs, SequenceTheorems

-----------------------------------------------------------------------------
(* The order of the events                                                 *)

\* ORDER BY compares as the WHERE clause of a cursor does.
LEMMA SortedIsAfter ==
  ASSUME NEW a \in Events, NEW b \in Events
  PROVE  Sorted(a, b) <=> After(b, a)
<1>1. /\ a \in [start: Int, type: Int, name: Int, id: Int]
      /\ b \in [start: Int, type: Int, name: Int, id: Int]
  BY EventsAssumption
<1>2. \A e : /\ Columns(e)[1] = e.start /\ Columns(e)[2] = e.type
             /\ Columns(e)[3] = e.name /\ Columns(e)[4] = e.id
  BY DEF Columns
<1>3. /\ 1 .. 4 = {1, 2, 3, 4} /\ 1 .. 1 - 1 = {} /\ 1 .. 2 - 1 = {1}
      /\ 1 .. 3 - 1 = {1, 2} /\ 1 .. 4 - 1 = {1, 2, 3}
  OBVIOUS
<1>4. Sorted(a, b) <=>
        \/ Columns(a)[1] < Columns(b)[1]
        \/ Columns(a)[1] = Columns(b)[1] /\ Columns(a)[2] < Columns(b)[2]
        \/ /\ Columns(a)[1] = Columns(b)[1] /\ Columns(a)[2] = Columns(b)[2]
           /\ Columns(a)[3] < Columns(b)[3]
        \/ /\ Columns(a)[1] = Columns(b)[1] /\ Columns(a)[2] = Columns(b)[2]
           /\ Columns(a)[3] = Columns(b)[3] /\ Columns(a)[4] < Columns(b)[4]
  BY <1>3 DEF Sorted
<1> QED
  BY <1>1, <1>2, <1>4 DEF After

ByColumns(S) == {p \in S \X S : Sorted(p[1], p[2])}

\* The four columns order the events strictly.
LEMMA SortedOrders ==
  ASSUME NEW S \in SUBSET Events
  PROVE  StrictOrder(S, ByColumns(S))
<1>1. \A a, b \in S : <<a, b>> \in ByColumns(S) <=> After(b, a)
  BY SortedIsAfter DEF ByColumns
<1>2. \A e \in S : e \in [start: Int, type: Int, name: Int, id: Int]
  BY EventsAssumption
<1>3. \A a \in S : ~ After(a, a)
  BY <1>2 DEF After
<1>4. \A a, b, c \in S : After(b, a) /\ After(c, b) => After(c, a)
  BY <1>2 DEF After
<1>5. \A a, b \in S : a # b => After(b, a) \/ After(a, b)
  BY <1>2 DEF After
<1> QED
  BY <1>1, <1>3, <1>4, <1>5 DEF StrictOrder

-----------------------------------------------------------------------------
(* The pages                                                               *)

Full == SortedRows(catalog)
Size == Cardinality(catalog)

\* The full listing of the catalog.
LEMMA FullLists ==
  ASSUME catalog \in SUBSET Events
  PROVE  /\ IsFiniteSet(catalog) /\ Size \in Nat
         /\ Lists(Full, catalog, ByColumns(catalog))
         /\ Full \in Seq(catalog) /\ Len(Full) = Size
<1>1. IsFiniteSet(catalog) /\ Size \in Nat
  BY EventsAssumption, FS_Subset, FS_CardinalityType DEF Size
<1>2. Lists(Full, catalog, ByColumns(catalog))
  BY <1>1, SortedOrders, OrderByLists DEF Full, SortedRows, ByColumns
<1>3. Full \in [1 .. Size -> catalog]
  BY <1>2 DEF Lists, Size
<1> QED
  BY <1>1, <1>2, <1>3

\* The page behind the first k events.
End(k) == IF Size - k > PageLimit THEN k + PageLimit ELSE Size
PageAt(k) == [events  |-> SubSeq(Full, k + 1, End(k)),
              hasMore |-> Size - k > PageLimit,
              next    |-> IF Size - k > PageLimit THEN Full[k + PageLimit] ELSE NoCursor]

\* The k-th event as a cursor.
CursorAt(k) == IF k = 0 THEN NoCursor ELSE Full[k]

\* The rows behind the cursor are the rest of the listing.
LEMMA RowsBehind ==
  ASSUME catalog \in SUBSET Events, NEW k \in 0 .. Size
  PROVE  LET rows == SortedRows({e \in catalog : CursorAt(k) # NoCursor => After(e, CursorAt(k))})
         IN  /\ rows \in Seq(catalog) /\ Len(rows) = Size - k
             /\ \A i \in 1 .. Size - k : rows[i] = Full[k + i]
<1> DEFINE S == {e \in catalog : CursorAt(k) # NoCursor => After(e, CursorAt(k))}
           R == ByColumns(catalog)
<1>1. /\ IsFiniteSet(catalog) /\ Size \in Nat /\ Lists(Full, catalog, R)
      /\ Full \in Seq(catalog) /\ Len(Full) = Size /\ StrictOrder(catalog, R)
  BY FullLists, SortedOrders
<1>2. \A a, b \in catalog : <<a, b>> \in R <=> After(b, a)
  BY SortedIsAfter DEF ByColumns
<1>3. \A i \in 1 .. Size : Full[i] \in catalog
  BY <1>1
<1>4. \A e \in catalog : \E i \in 1 .. Size : Full[i] = e
  BY <1>1 DEF Lists, Size
<1>5. \A i, j \in 1 .. Size : i < j => <<Full[i], Full[j]>> \in R
  BY <1>1 DEF Lists, Size
<1> HIDE DEF R
<1>6. \A i \in 1 .. Size : Full[i] \in S <=> i > k
  <2>1. CASE k = 0
    <3>1. S = catalog
      BY <2>1 DEF CursorAt
    <3> HIDE DEF S
    <3> QED
      BY <1>3, <2>1, <3>1
  <2>2. CASE k # 0
    <3>1. k \in 1 .. Size /\ Full[k] \in catalog
      BY <1>3, <2>2
    <3>2. Full[k] # NoCursor /\ CursorAt(k) = Full[k]
      BY <2>2, <3>1, NoCursorAssumption DEF CursorAt
    <3>3. S = {e \in catalog : <<Full[k], e>> \in R}
      BY <1>2, <3>1, <3>2
    <3> SUFFICES ASSUME NEW i \in 1 .. Size PROVE <<Full[k], Full[i]>> \in R <=> i > k
      BY <1>3, <3>3
    <3>4. CASE i > k
      BY <1>5, <3>1, <3>4
    <3>5. CASE i = k
      BY <1>1, <3>1, <3>5 DEF StrictOrder
    <3>6. CASE i < k
      <4>1. <<Full[i], Full[k]>> \in R
        BY <1>5, <3>1, <3>6
      <4>2. <<Full[k], Full[i]>> \in R => <<Full[i], Full[i]>> \in R
        BY <1>1, <1>3, <3>1, <4>1, Zenon DEF StrictOrder
      <4>3. <<Full[i], Full[i]>> \notin R
        BY <1>1, <1>3, Zenon DEF StrictOrder
      <4> QED
        BY <3>1, <3>6, <4>2, <4>3
    <3> QED
      BY <3>1, <3>4, <3>5, <3>6
  <2> QED
    BY <2>1, <2>2
<1>7. S \in SUBSET catalog
  OBVIOUS
<1> HIDE DEF S
<1>8. \A a, b \in S : <<a, b>> \in ByColumns(S) <=> <<a, b>> \in R
  BY <1>7 DEF ByColumns, R
<1>9. /\ SortedRows(S) \in [1 .. Size - k -> S]
      /\ \A i \in 1 .. Size - k : SortedRows(S)[i] = Full[k + i]
  <2> DEFINE Q == ByColumns(S)
             f == Full
  <2>1. IsFiniteSet(catalog) /\ StrictOrder(catalog, R) /\ Lists(f, catalog, R) /\ S \in SUBSET catalog
    BY <1>1, <1>7
  <2>2. \A i \in 1 .. Cardinality(catalog) : f[i] \in S <=> i > k
    BY <1>6 DEF Size
  <2>3. \A a, b \in S : <<a, b>> \in Q <=> <<a, b>> \in R
    BY <1>8
  <2>4. k \in 0 .. Cardinality(catalog)
    BY DEF Size
  <2> HIDE DEF Q, f
  <2>5. Rest(S, Q, f, k, catalog, R)
    BY <2>1, <2>2, <2>3 DEF Rest
  <2>6. /\ OrderBy(S, Q) \in [1 .. Cardinality(catalog) - k -> S]
        /\ \A i \in 1 .. Cardinality(catalog) - k : OrderBy(S, Q)[i] = f[k + i]
    BY <2>1, <2>4, <2>5, RestLists
  <2> QED
    BY <2>6 DEF Q, f, Size, SortedRows, ByColumns
<1>10. Size - k \in Nat
  BY <1>1
<1> HIDE DEF Size
<1>11. SortedRows(S) \in Seq(catalog) /\ Len(SortedRows(S)) = Size - k
  BY <1>7, <1>9, <1>10
<1> QED
  BY <1>9, <1>11 DEF S

\* findAll answers the cursor at the k-th event with the page behind it.
LEMMA FindAllAnswers ==
  ASSUME catalog \in SUBSET Events, NEW k \in 0 .. Size
  PROVE  FindAll(CursorAt(k)) = PageAt(k)
<1> DEFINE S == {e \in catalog : CursorAt(k) # NoCursor => After(e, CursorAt(k))}
           all == SortedRows(S)
           rows == FirstRows(S, PageLimit + 1)
           m == Size - k
<1>1. /\ all \in Seq(catalog) /\ Len(all) = m
      /\ \A i \in 1 .. m : all[i] = Full[k + i]
  BY RowsBehind
<1>2. Size \in Nat /\ m \in Nat /\ PageLimit \in Nat \ {0} /\ k \in Nat /\ k + m = Size
  BY FullLists, PageLimitAssumption
<1>3. FindAll(CursorAt(k)) = Page(rows)
  BY DEF FindAll
<1>4. rows = IF Len(all) > PageLimit + 1 THEN SubSeq(all, 1, PageLimit + 1) ELSE all
  BY DEF FirstRows
<1> HIDE DEF S, all, rows, m
<1>5. /\ rows \in Seq(catalog) /\ Len(rows) = IF m > PageLimit + 1 THEN PageLimit + 1 ELSE m
      /\ \A i \in 1 .. Len(rows) : rows[i] = Full[k + i]
  <2>1. CASE m > PageLimit + 1
    <3> DEFINE n == PageLimit + 1
    <3>1. n \in Nat /\ n \in Int /\ 1 <= n /\ \A i \in 1 .. n : i \in 1 .. m /\ all[i] \in catalog
      BY <1>1, <1>2, <2>1
    <3>2. rows = SubSeq(all, 1, n)
      BY <1>1, <1>4, <2>1
    <3> HIDE DEF n
    <3>3. /\ rows \in Seq(catalog) /\ Len(rows) = IF 1 <= n THEN n - 1 + 1 ELSE 0
          /\ \A i \in 1 .. n - 1 + 1 : rows[i] = all[1 + i - 1]
      BY <3>1, <3>2, SubSeqProperties
    <3>4. Len(rows) = n /\ n - 1 + 1 = n /\ \A i \in 1 .. n : 1 + i - 1 = i
      BY <3>1, <3>3
    <3>5. \A i \in 1 .. n : rows[i] = Full[k + i]
      BY <1>1, <3>1, <3>3, <3>4
    <3> QED
      BY <2>1, <3>3, <3>4, <3>5 DEF n
  <2>2. CASE ~ (m > PageLimit + 1)
    BY <1>1, <1>4, <2>2
  <2> QED
    BY <2>1, <2>2
<1>6. (Len(rows) = PageLimit + 1) <=> (m > PageLimit)
  <2>1. CASE m > PageLimit + 1
    <3>1. m > PageLimit /\ Len(rows) = PageLimit + 1
      BY <1>2, <1>5, <2>1
    <3> QED
      BY <3>1
  <2>2. CASE ~ (m > PageLimit + 1)
    <3>1. Len(rows) = m /\ (m > PageLimit <=> m = PageLimit + 1)
      BY <1>2, <1>5, <2>2
    <3> QED
      BY <3>1
  <2> QED
    BY <2>1, <2>2
<1>7. Full \in Seq(catalog) /\ Len(Full) = Size
  BY FullLists
<1> DEFINE page == IF Len(rows) = PageLimit + 1 THEN Front(rows) ELSE rows
<1>8. /\ page \in Seq(catalog) /\ Len(page) = End(k) - k
      /\ \A i \in 1 .. End(k) - k : page[i] = Full[k + i]
  <2>1. CASE m > PageLimit
    <3>1. Len(rows) = PageLimit + 1 /\ page = SubSeq(rows, 1, PageLimit)
      <4>1. Len(rows) = PageLimit + 1 /\ Len(rows) - 1 = PageLimit
        BY <1>2, <1>6, <2>1
      <4>2. page = Front(rows)
        BY <4>1
      <4> HIDE DEF page
      <4> QED
        BY <4>1, <4>2 DEF Front
    <3>2. End(k) - k = PageLimit
      BY <1>2, <2>1 DEF End, m
    <3>3. \A i \in 1 .. PageLimit : rows[i] \in catalog
      BY <1>2, <1>5, <3>1
    <3> HIDE DEF page
    <3>4. /\ page \in Seq(catalog) /\ Len(page) = IF 1 <= PageLimit THEN PageLimit - 1 + 1 ELSE 0
          /\ \A i \in 1 .. PageLimit - 1 + 1 : page[i] = rows[1 + i - 1]
      BY <1>2, <3>1, <3>3, SubSeqProperties
    <3>5. Len(page) = PageLimit /\ \A i \in 1 .. PageLimit : page[i] = rows[i] /\ i \in 1 .. Len(rows)
      <4>1. /\ PageLimit - 1 + 1 = PageLimit /\ (IF 1 <= PageLimit THEN PageLimit - 1 + 1 ELSE 0) = PageLimit
            /\ \A i \in 1 .. PageLimit : 1 + i - 1 = i /\ i \in 1 .. PageLimit + 1
        BY <1>2
      <4> QED
        BY <3>1, <3>4, <4>1
    <3> QED
      BY <1>5, <3>2, <3>4, <3>5
  <2>2. CASE ~ (m > PageLimit)
    BY <1>2, <1>5, <1>6, <2>2 DEF End, m
  <2> QED
    BY <2>1, <2>2
<1>9. page = SubSeq(Full, k + 1, End(k))
  <2> DEFINE sub == SubSeq(Full, k + 1, End(k))
  <2>1. /\ End(k) \in Int /\ k + 1 \in Int /\ End(k) >= k /\ End(k) <= Size
        /\ End(k) - (k + 1) + 1 = End(k) - k
        /\ (IF k + 1 <= End(k) THEN End(k) - (k + 1) + 1 ELSE 0) = End(k) - k
        /\ \A i \in 1 .. End(k) - k : k + 1 + i - 1 = k + i
        /\ \A i \in k + 1 .. End(k) : i \in 1 .. Size
    BY <1>2 DEF End, m
  <2>2. \A i \in k + 1 .. End(k) : Full[i] \in catalog
    BY <1>7, <2>1
  <2>3. /\ sub \in Seq(catalog) /\ Len(sub) = IF k + 1 <= End(k) THEN End(k) - (k + 1) + 1 ELSE 0
        /\ \A i \in 1 .. End(k) - (k + 1) + 1 : sub[i] = Full[k + 1 + i - 1]
    BY <2>1, <2>2, SubSeqProperties
  <2> HIDE DEF sub, page
  <2>4. Len(sub) = End(k) - k /\ \A i \in 1 .. End(k) - k : sub[i] = Full[k + i]
    BY <2>1, <2>3
  <2>5. Len(sub) = Len(page) /\ \A i \in 1 .. Len(page) : page[i] = sub[i]
    BY <1>8, <2>4
  <2>6. page = sub
    BY <1>8, <2>3, <2>5, SeqEqual
  <2> QED
    BY <2>6 DEF sub
<1>10. m > PageLimit => Last(page) = Full[k + PageLimit]
  <2> SUFFICES ASSUME m > PageLimit PROVE Last(page) = Full[k + PageLimit]
    OBVIOUS
  <2>1. End(k) - k = PageLimit /\ PageLimit \in 1 .. End(k) - k
    BY <1>2 DEF End, m
  <2> HIDE DEF page
  <2> QED
    BY <1>8, <2>1 DEF Last
<1>11. Page(rows) = [events |-> page, hasMore |-> Len(rows) = PageLimit + 1,
                     next |-> IF Len(rows) = PageLimit + 1 THEN Last(page) ELSE NoCursor]
  BY DEF Page
<1> HIDE DEF page
<1>12. CASE m > PageLimit
  <2>1. (m > PageLimit) = TRUE /\ (Len(rows) = PageLimit + 1) = TRUE
    BY <1>6, <1>12
  <2>2. Page(rows) = [events |-> page, hasMore |-> TRUE, next |-> Last(page)]
    BY <1>11, <2>1
  <2>3. PageAt(k) = [events |-> SubSeq(Full, k + 1, End(k)), hasMore |-> TRUE,
                     next |-> Full[k + PageLimit]]
    BY <2>1 DEF PageAt, m
  <2> QED
    BY <1>3, <1>9, <1>10, <1>12, <2>2, <2>3
<1>13. CASE ~ (m > PageLimit)
  <2>1. (m > PageLimit) = FALSE /\ (Len(rows) = PageLimit + 1) = FALSE
    BY <1>6, <1>13
  <2>2. Page(rows) = [events |-> page, hasMore |-> FALSE, next |-> NoCursor]
    BY <1>11, <2>1
  <2>3. PageAt(k) = [events |-> SubSeq(Full, k + 1, End(k)), hasMore |-> FALSE, next |-> NoCursor]
    BY <2>1 DEF PageAt, m
  <2> QED
    BY <1>3, <1>9, <2>2, <2>3
<1> QED
  BY <1>12, <1>13

-----------------------------------------------------------------------------
(* Pages one behind the other                                              *)

\* A beginning and what follows it.
LEMMA Continue ==
  ASSUME NEW T, NEW s \in Seq(T), NEW a \in Nat, NEW b \in Nat, a <= b, b <= Len(s)
  PROVE  SubSeq(s, 1, a) \o SubSeq(s, a + 1, b) = SubSeq(s, 1, b)
<1> DEFINE u == SubSeq(s, 1, a)
           v == SubSeq(s, a + 1, b)
           w == SubSeq(s, 1, b)
<1>1. \A i \in 1 .. b : s[i] \in T
  OBVIOUS
<1>2. u \in Seq(T) /\ Len(u) = a /\ \A i \in 1 .. a : u[i] = s[i]
  OBVIOUS
<1>3. v \in Seq(T) /\ Len(v) = b - a /\ \A i \in 1 .. b - a : v[i] = s[a + i]
  <2>1. /\ a + 1 \in Int /\ b - (a + 1) + 1 = b - a /\ \A i \in 1 .. b - a : a + 1 + i - 1 = a + i
        /\ (IF a + 1 <= b THEN b - (a + 1) + 1 ELSE 0) = b - a
        /\ \A i \in a + 1 .. b : s[i] \in T
    OBVIOUS
  <2>2. /\ v \in Seq(T) /\ Len(v) = IF a + 1 <= b THEN b - (a + 1) + 1 ELSE 0
        /\ \A i \in 1 .. b - (a + 1) + 1 : v[i] = s[a + 1 + i - 1]
    BY <2>1, SubSeqProperties
  <2> HIDE DEF v
  <2> QED
    BY <2>1, <2>2
<1>4. w \in Seq(T) /\ Len(w) = b /\ \A i \in 1 .. b : w[i] = s[i]
  OBVIOUS
<1> HIDE DEF u, v, w
<1> DEFINE x == u \o v
<1>5. /\ x \in Seq(T) /\ Len(x) = Len(u) + Len(v)
      /\ \A i \in 1 .. Len(u) + Len(v) : x[i] = IF i <= Len(u) THEN u[i] ELSE v[i - Len(u)]
  BY <1>2, <1>3, ConcatProperties
<1>6. Len(u) + Len(v) = b
  BY <1>2, <1>3
<1> HIDE DEF x
<1>7. \A i \in 1 .. b : x[i] = w[i]
  <2> SUFFICES ASSUME NEW i \in 1 .. b PROVE x[i] = w[i]
    OBVIOUS
  <2>1. CASE i <= a
    BY <1>2, <1>4, <1>5, <1>6, <2>1
  <2>2. CASE ~ (i <= a)
    <3>1. i - a \in 1 .. b - a /\ a + (i - a) = i
      BY <2>2
    <3> QED
      BY <1>2, <1>3, <1>4, <1>5, <1>6, <2>2, <3>1
  <2> QED
    BY <2>1, <2>2
<1>8. x = w
  BY <1>4, <1>5, <1>6, <1>7, SeqEqual
<1> QED
  BY <1>8 DEF x, u, v, w

\* One step of FlattenSeq, given what it made of the sequences before.
FlatStep(parts, g, i) == IF i = 1 THEN parts[i] ELSE g[i - 1] \o parts[i]
Flattens(parts, g) == g = [i \in 1 .. Len(parts) |-> FlatStep(parts, g, i)]

\* Parts of a sequence that follow each other flatten to its beginning.
LEMMA FlattenParts ==
  ASSUME NEW T, NEW s \in Seq(T), NEW n \in Nat, NEW e \in [0 .. n -> 0 .. Len(s)],
         e[0] = 0, \A i \in 1 .. n : e[i - 1] <= e[i],
         NEW parts \in Seq(Seq(T)), Len(parts) = n,
         \A i \in 1 .. n : parts[i] = SubSeq(s, e[i - 1] + 1, e[i])
  PROVE  FlattenSeq(parts) = SubSeq(s, 1, e[n])
<1> DEFINE front == [i \in 1 .. n |-> SubSeq(s, 1, e[i])]
<1>0. \A i \in 1 .. n : /\ i - 1 \in 0 .. n /\ i \in 0 .. n /\ e[i - 1] \in Nat /\ e[i] \in Nat
                        /\ e[i - 1] <= e[i] /\ e[i] <= Len(s)
  <2> SUFFICES ASSUME NEW i \in 1 .. n
               PROVE  /\ i - 1 \in 0 .. n /\ i \in 0 .. n /\ e[i - 1] \in Nat /\ e[i] \in Nat
                      /\ e[i - 1] <= e[i] /\ e[i] <= Len(s)
    OBVIOUS
  <2>1. i - 1 \in 0 .. n /\ i \in 0 .. n /\ Len(s) \in Nat
    OBVIOUS
  <2>2. e[i - 1] \in 0 .. Len(s) /\ e[i] \in 0 .. Len(s)
    BY <2>1
  <2> QED
    BY <2>1, <2>2
<1>3. ASSUME NEW i \in 1 .. n
      PROVE  IF i = 1 THEN parts[i] = SubSeq(s, 1, e[i])
             ELSE SubSeq(s, 1, e[i - 1]) \o parts[i] = SubSeq(s, 1, e[i])
  <2>1. CASE i = 1
    <3>1. e[1 - 1] + 1 = 1
      OBVIOUS
    <3> QED
      BY <2>1, <3>1
  <2>2. CASE i # 1
    BY <1>0, <2>2, Continue
  <2> QED
    BY <2>1, <2>2
<1>4. Flattens(parts, front)
  <2>0. \A i \in 1 .. n : front[i] = SubSeq(s, 1, e[i])
    OBVIOUS
  <2>1. front = [i \in 1 .. n |-> front[i]]
    OBVIOUS
  <2> HIDE DEF front
  <2>2. ASSUME NEW i \in 1 .. n PROVE front[i] = FlatStep(parts, front, i)
    <3>1. i # 1 => i - 1 \in 1 .. n
      OBVIOUS
    <3> QED
      BY <1>3, <2>0, <3>1 DEF FlatStep
  <2> QED
    BY <2>1, <2>2 DEF Flattens
<1> DEFINE flat == CHOOSE g : Flattens(parts, g)
<1>5. Flattens(parts, flat)
  BY <1>4
<1>6. FlattenSeq(parts) = IF Len(parts) = 0 THEN parts ELSE flat[Len(parts)]
  BY DEF FlattenSeq, Flattens, FlatStep
<1> HIDE DEF flat, front
<1>7. \A i \in 1 .. n : flat[i] = FlatStep(parts, flat, i)
  BY <1>5 DEF Flattens
<1> DEFINE bad == {i \in 1 .. n : flat[i] # SubSeq(s, 1, e[i])}
<1>8. bad = {}
  <2> SUFFICES ASSUME bad # {} PROVE FALSE
    OBVIOUS
  <2>1. bad \in SUBSET Nat
    OBVIOUS
  <2> HIDE DEF bad
  <2>2. PICK k \in bad : \A j \in bad : k <= j
    BY <2>1, Least
  <2>3. k \in 1 .. n /\ flat[k] # SubSeq(s, 1, e[k])
    BY DEF bad
  <2>4. k # 1 => flat[k - 1] = SubSeq(s, 1, e[k - 1])
    <3>1. k # 1 => k - 1 \in 1 .. n /\ k - 1 \notin bad
      BY <2>2, <2>3
    <3> QED
      BY <3>1 DEF bad
  <2>5. flat[k] = FlatStep(parts, flat, k)
    BY <1>7, <2>3
  <2> QED
    BY <1>3, <2>3, <2>4, <2>5 DEF FlatStep
<1>9. CASE n = 0
  <2>1. parts = <<>> /\ SubSeq(s, 1, e[n]) = <<>>
    BY <1>9
  <2> QED
    BY <1>6, <1>9, <2>1
<1>10. CASE n # 0
  <2>1. n \in 1 .. n
    BY <1>10
  <2>2. n \notin bad
    BY <1>8
  <2>3. flat[n] = SubSeq(s, 1, e[n])
    BY <2>1, <2>2
  <2> QED
    BY <1>6, <1>10, <2>3
<1> QED
  BY <1>9, <1>10

-----------------------------------------------------------------------------
(* The walk                                                                *)

\* How many events lie before the i-th page of the walk, and its cursor.
Offset(i) == (i - 1) * PageLimit
At(i) == IF i <= Len(stack) THEN stack[i] ELSE cursor

LEMMA OffsetGrows ==
  ASSUME NEW i \in Nat \ {0}
  PROVE  /\ Offset(i) \in Nat /\ Offset(1) = 0
         /\ Offset(i + 1) = Offset(i) + PageLimit
         /\ Offset(i) = 0 <=> i = 1
<1>1. PageLimit \in Nat /\ PageLimit >= 1
  BY PageLimitAssumption
<1>2. Offset(1) = 0
  BY <1>1 DEF Offset
<1>3. Offset(i + 1) = Offset(i) + PageLimit
  BY <1>1 DEF Offset
<1>4. Offset(i) \in Nat
  BY <1>1 DEF Offset
<1>5. CASE i = 1
  BY <1>2, <1>3, <1>4, <1>5
<1>6. CASE i # 1
  <2>1. PICK j \in Nat : i = j + 2
    <3>1. i - 2 \in Nat /\ i = (i - 2) + 2
      BY <1>6
    <3> QED
      BY <3>1
  <2>2. Offset(i) = j * PageLimit + PageLimit /\ j * PageLimit \in Nat
    BY <1>1, <2>1 DEF Offset
  <2>3. Offset(i) # 0
    BY <1>1, <2>2
  <2> QED
    BY <1>2, <1>3, <1>4, <1>6, <2>3
<1> QED
  BY <1>5, <1>6

\* The inductive invariant: the pages of the walk start at every PageLimit-th
\* event of the full listing, and each is the reply for its cursor.
Replies == [events : Seq(catalog), hasMore : BOOLEAN, next : catalog \cup {NoCursor}]

TypeOK == /\ catalog \in SUBSET Events
          /\ stack \in Seq(catalog \cup {NoCursor}) /\ cursor \in catalog \cup {NoCursor}
          /\ earlier \in Seq(Replies) /\ Len(earlier) = Len(stack)

Cursors ==
  \A i \in 1 .. Len(stack) + 1 :
    /\ Offset(i) \in 0 .. Size
    /\ At(i) = CursorAt(Offset(i))
    /\ i # 1 => Offset(i) < Size

Answers == /\ \A i \in 1 .. Len(stack) : earlier[i] = PageAt(Offset(i))
           /\ data # Loading => data = PageAt(Offset(Len(stack) + 1))

WalkInv == TypeOK /\ Cursors /\ Answers

LEMMA PageAtType ==
  ASSUME catalog \in SUBSET Events, NEW k \in 0 .. Size
  PROVE  /\ PageAt(k) \in Replies
         /\ PageAt(k).next # NoCursor <=> Size - k > PageLimit
         /\ Size - k > PageLimit => /\ PageAt(k).next = CursorAt(k + PageLimit)
                                    /\ k + PageLimit \in 1 .. Size /\ k + PageLimit < Size
<1>1. /\ Size \in Nat /\ Full \in Seq(catalog) /\ Len(Full) = Size /\ k \in Nat
      /\ PageLimit \in Nat /\ PageLimit >= 1
  BY FullLists, PageLimitAssumption
<1>2. k + 1 \in Int /\ End(k) \in Int /\ \A i \in k + 1 .. End(k) : i \in 1 .. Size
  BY <1>1 DEF End
<1>3. \A i \in k + 1 .. End(k) : Full[i] \in catalog
  BY <1>1, <1>2
<1>4. SubSeq(Full, k + 1, End(k)) \in Seq(catalog)
  BY <1>2, <1>3, SubSeqProperties
<1>5. CASE Size - k > PageLimit
  <2>1. k + PageLimit \in 1 .. Size /\ k + PageLimit < Size /\ k + PageLimit # 0
    BY <1>1, <1>5
  <2>2. Full[k + PageLimit] \in catalog /\ Full[k + PageLimit] # NoCursor
    BY <1>1, <2>1, NoCursorAssumption
  <2>3. (Size - k > PageLimit) = TRUE
    BY <1>5
  <2>4. PageAt(k) = [events |-> SubSeq(Full, k + 1, End(k)), hasMore |-> TRUE,
                     next |-> Full[k + PageLimit]]
    BY <2>3 DEF PageAt
  <2>5. PageAt(k).next = CursorAt(k + PageLimit)
    BY <2>1, <2>4 DEF CursorAt
  <2> QED
    BY <1>4, <1>5, <2>1, <2>2, <2>4, <2>5 DEF Replies
<1>6. CASE ~ (Size - k > PageLimit)
  <2>1. (Size - k > PageLimit) = FALSE
    BY <1>6
  <2>2. PageAt(k) = [events |-> SubSeq(Full, k + 1, End(k)), hasMore |-> FALSE, next |-> NoCursor]
    BY <2>1 DEF PageAt
  <2> QED
    BY <1>4, <1>6, <2>2 DEF Replies
<1> QED
  BY <1>5, <1>6

LEMMA WalkInit == Init => WalkInv
<1> SUFFICES ASSUME Init PROVE WalkInv
  OBVIOUS
<1>1. /\ catalog \in SUBSET Events /\ stack = <<>> /\ earlier = <<>> /\ cursor = NoCursor
      /\ data = Loading /\ Len(stack) = 0 /\ 1 .. Len(stack) = {} /\ 1 .. Len(stack) + 1 = {1}
  BY DEF Init
<1>2. TypeOK
  BY <1>1 DEF TypeOK
<1>3. Cursors
  <2>1. Offset(1) = 0 /\ Size \in Nat
    BY <1>1, OffsetGrows, FullLists
  <2>2. At(1) = NoCursor /\ CursorAt(0) = NoCursor
    BY <1>1 DEF At, CursorAt
  <2> QED
    BY <1>1, <2>1, <2>2 DEF Cursors
<1>4. Answers
  BY <1>1 DEF Answers
<1> QED
  BY <1>2, <1>3, <1>4 DEF WalkInv

\* The listing does not change while the catalog does not.
LEMMA SameCatalog ==
  ASSUME UNCHANGED catalog
  PROVE  /\ Size' = Size /\ Replies' = Replies
         /\ \A k : CursorAt(k)' = CursorAt(k) /\ PageAt(k)' = PageAt(k)
  BY DEF Size, Replies, CursorAt, PageAt, End, Full, SortedRows

LEMMA WalkLoad ==
  ASSUME WalkInv, Load
  PROVE  WalkInv'
<1>1. PICK n \in Nat : n = Len(stack)
  BY DEF WalkInv, TypeOK
<1>2. /\ TypeOK /\ Cursors /\ Answers
      /\ UNCHANGED <<catalog, cursor, stack, earlier>> /\ data' = FindAll(cursor)
  BY DEF WalkInv, Load
<1>3. n + 1 \in 1 .. Len(stack) + 1 /\ At(n + 1) = cursor
  BY <1>1 DEF At
<1>4. Offset(n + 1) \in 0 .. Size /\ cursor = CursorAt(Offset(n + 1)) /\ catalog \in SUBSET Events
  BY <1>2, <1>3 DEF Cursors, TypeOK
<1>5. data' = PageAt(Offset(n + 1))
  BY <1>2, <1>4, FindAllAnswers
<1>6. \A i : At(i)' = At(i)
  BY <1>2 DEF At
<1>7. TypeOK'
  BY <1>2, SameCatalog DEF TypeOK
<1>8. Cursors'
  BY <1>2, <1>6, SameCatalog DEF Cursors
<1>9. Answers'
  BY <1>1, <1>2, <1>5, SameCatalog DEF Answers
<1> QED
  BY <1>7, <1>8, <1>9 DEF WalkInv

LEMMA WalkNextPage ==
  ASSUME WalkInv, NextPage
  PROVE  WalkInv'
<1>0. PICK n \in Nat : n = Len(stack)
  BY DEF WalkInv, TypeOK
<1>1. /\ TypeOK /\ Cursors /\ Answers /\ n = Len(stack) /\ catalog \in SUBSET Events
      /\ data = PageAt(Offset(n + 1)) /\ data.next # NoCursor
  BY <1>0 DEF WalkInv, NextPage, Answers, TypeOK
<1>2. /\ cursor' = data.next /\ data' = Loading /\ catalog' = catalog
      /\ stack' = Append(stack, cursor) /\ earlier' = Append(earlier, data)
  BY DEF NextPage
<1>3. At(n + 1) = cursor /\ n + 1 \in 1 .. n + 1
  BY <1>1 DEF At
<1>4. Offset(n + 1) \in 0 .. Size
  BY <1>1, <1>3 DEF Cursors
<1>5. /\ data \in Replies /\ Offset(n + 2) = Offset(n + 1) + PageLimit
      /\ Offset(n + 2) \in 0 .. Size /\ Offset(n + 2) < Size /\ data.next = CursorAt(Offset(n + 2))
  <2>1. (n + 1) + 1 = n + 2 /\ n + 1 \in Nat \ {0}
    OBVIOUS
  <2>2. Offset(n + 2) = Offset(n + 1) + PageLimit
    BY <2>1, OffsetGrows
  <2> QED
    BY <1>1, <1>4, <2>2, PageAtType
<1>6. /\ stack' \in Seq(catalog \cup {NoCursor}) /\ Len(stack') = n + 1
      /\ stack'[n + 1] = cursor /\ \A i \in 1 .. n : stack'[i] = stack[i]
  BY <1>1, <1>2, AppendProperties DEF TypeOK
<1>7. /\ earlier' \in Seq(Replies) /\ Len(earlier') = n + 1
      /\ earlier'[n + 1] = data /\ \A i \in 1 .. n : earlier'[i] = earlier[i]
  BY <1>1, <1>2, <1>5, AppendProperties DEF TypeOK
<1>8. At(n + 2)' = data.next /\ \A i \in 1 .. n + 1 : At(i)' = At(i)
  <2>1. At(n + 2)' = data.next
    BY <1>2, <1>6 DEF At
  <2>2. ASSUME NEW i \in 1 .. n + 1 PROVE At(i)' = At(i)
    <3>1. CASE i = n + 1
      BY <1>3, <1>6, <3>1 DEF At
    <3>2. CASE i \in 1 .. n
      BY <1>1, <1>6, <3>2 DEF At
    <3> QED
      BY <3>1, <3>2
  <2> QED
    BY <2>1, <2>2
<1>9. TypeOK'
  BY <1>1, <1>2, <1>5, <1>6, <1>7, SameCatalog DEF TypeOK, Replies
<1>10. Cursors'
  <2>1. ASSUME NEW i \in 1 .. n + 2
        PROVE  /\ Offset(i) \in 0 .. Size' /\ At(i)' = CursorAt(Offset(i))'
               /\ i # 1 => Offset(i) < Size'
    <3>1. CASE i = n + 2
      BY <1>2, <1>5, <1>8, <3>1, SameCatalog
    <3>2. CASE i \in 1 .. n + 1
      BY <1>1, <1>2, <1>8, <3>2, SameCatalog DEF Cursors
    <3> QED
      BY <3>1, <3>2
  <2> QED
    BY <1>6, <2>1 DEF Cursors
<1>11. Answers'
  <2>1. ASSUME NEW i \in 1 .. n + 1 PROVE earlier'[i] = PageAt(Offset(i))'
    <3>1. CASE i = n + 1
      BY <1>1, <1>2, <1>7, <3>1, SameCatalog
    <3>2. CASE i \in 1 .. n
      BY <1>1, <1>2, <1>7, <3>2, SameCatalog DEF Answers
    <3> QED
      BY <3>1, <3>2
  <2> QED
    BY <1>2, <1>6, <2>1 DEF Answers, Loading
<1> QED
  BY <1>9, <1>10, <1>11 DEF WalkInv

LEMMA WalkPrevPage ==
  ASSUME WalkInv, PrevPage
  PROVE  WalkInv'
<1>0. PICK n \in Nat : n = Len(stack)
  BY DEF WalkInv, TypeOK
<1>1. TypeOK /\ Cursors /\ Answers /\ n = Len(stack) /\ catalog \in SUBSET Events
  BY <1>0 DEF WalkInv, TypeOK
<1>2. n >= 1 /\ n \in 1 .. n /\ n \in 1 .. n + 1
  BY <1>1 DEF TypeOK, PrevPage
<1>3. /\ cursor' = stack[n] /\ data' = earlier[n] /\ catalog' = catalog
      /\ stack' = SubSeq(stack, 1, n - 1) /\ earlier' = SubSeq(earlier, 1, n - 1)
  BY <1>1 DEF PrevPage, Last, Front, TypeOK
<1>4. /\ n - 1 \in Int /\ \A i \in 1 .. n - 1 : i \in 1 .. n
      /\ (IF 1 <= n - 1 THEN (n - 1) - 1 + 1 ELSE 0) = n - 1
      /\ (n - 1) - 1 + 1 = n - 1 /\ \A i \in 1 .. n - 1 : 1 + i - 1 = i
  BY <1>2
<1>5. /\ stack' \in Seq(catalog \cup {NoCursor}) /\ Len(stack') = n - 1
      /\ \A i \in 1 .. n - 1 : stack'[i] = stack[i]
  <2>1. \A i \in 1 .. n - 1 : stack[i] \in catalog \cup {NoCursor}
    BY <1>1, <1>4 DEF TypeOK
  <2> QED
    BY <1>3, <1>4, <2>1, SubSeqProperties
<1>6. /\ earlier' \in Seq(Replies) /\ Len(earlier') = n - 1
      /\ \A i \in 1 .. n - 1 : earlier'[i] = earlier[i]
  <2>1. \A i \in 1 .. n - 1 : earlier[i] \in Replies
    BY <1>1, <1>4 DEF TypeOK
  <2> QED
    BY <1>3, <1>4, <2>1, SubSeqProperties
<1>7. \A i \in 1 .. n : At(i)' = At(i)
  <2> SUFFICES ASSUME NEW i \in 1 .. n PROVE At(i)' = At(i)
    OBVIOUS
  <2>1. At(i) = stack[i]
    BY <1>1 DEF At
  <2>2. CASE i = n
    BY <1>2, <1>3, <1>5, <2>1, <2>2 DEF At
  <2>3. CASE i \in 1 .. n - 1
    BY <1>5, <2>1, <2>3 DEF At
  <2> QED
    BY <1>2, <2>2, <2>3
<1>8. TypeOK'
  <2>1. cursor' \in catalog \cup {NoCursor}
    BY <1>1, <1>2, <1>3 DEF TypeOK
  <2> QED
    BY <1>1, <1>3, <1>5, <1>6, <2>1, SameCatalog DEF TypeOK
<1>9. Cursors'
  <2>1. Len(stack)' + 1 = n /\ \A i \in 1 .. n : i \in 1 .. n + 1
    BY <1>2, <1>5
  <2> QED
    BY <1>1, <1>3, <1>7, <2>1, SameCatalog DEF Cursors
<1>10. Answers'
  <2>1. Len(stack)' + 1 = n
    BY <1>2, <1>5
  <2> QED
    BY <1>1, <1>2, <1>3, <1>4, <1>5, <1>6, <2>1, SameCatalog DEF Answers
<1> QED
  BY <1>8, <1>9, <1>10 DEF WalkInv

LEMMA WalkInvariant == Spec => []WalkInv
<1>1. Init => WalkInv
  BY WalkInit
<1>2. WalkInv /\ [Next]_vars => WalkInv'
  <2> SUFFICES ASSUME WalkInv, [Next]_vars PROVE WalkInv'
    OBVIOUS
  <2>1. CASE UNCHANGED vars
    <3>1. UNCHANGED <<catalog, cursor, stack, data, earlier>> /\ \A i : At(i)' = At(i)
      BY <2>1 DEF vars, At
    <3> QED
      BY <3>1, SameCatalog DEF WalkInv, TypeOK, Cursors, Answers, Loading
  <2> QED
    BY <2>1, WalkLoad, WalkNextPage, WalkPrevPage DEF Next
<1> QED
  BY <1>1, <1>2, PTL DEF Spec

\* What the user has seen is the beginning of the full listing, up to the end of
\* the current page.
LEMMA SeenIsBeginning ==
  ASSUME WalkInv
  PROVE  LET n == Len(stack)
             seen == IF data = Loading THEN Offset(n + 1) ELSE End(Offset(n + 1))
         IN  /\ n \in Nat /\ Offset(n + 1) \in 0 .. Size /\ seen \in 0 .. Size
             /\ Seen = SubSeq(Full, 1, seen)
<1> DEFINE n == Len(stack)
           m == Len(Walk)
           seen == IF data = Loading THEN Offset(n + 1) ELSE End(Offset(n + 1))
           e == [i \in 0 .. m |-> IF Offset(i + 1) < Size THEN Offset(i + 1) ELSE Size]
           parts == [i \in DOMAIN Walk |-> Walk[i].events]
<1>1. TypeOK /\ Cursors /\ Answers /\ n \in Nat /\ Len(earlier) = n /\ catalog \in SUBSET Events
  BY DEF WalkInv, TypeOK
<1>2. Size \in Nat /\ Full \in Seq(catalog) /\ Len(Full) = Size
  BY <1>1, FullLists
<1>3. PageLimit \in Nat /\ PageLimit >= 1
  BY PageLimitAssumption
<1>4. \A i \in 1 .. n + 1 : Offset(i) \in 0 .. Size
  BY <1>1 DEF Cursors
<1>5. \A i \in Nat \ {0} : Offset(i) \in Nat /\ Offset(i + 1) = Offset(i) + PageLimit /\ Offset(1) = 0
  BY OffsetGrows
<1> HIDE DEF n
<1>6. /\ Walk \in Seq(Replies) /\ m \in Nat /\ m = IF data = Loading THEN n ELSE n + 1
      /\ \A i \in 1 .. m : i \in 1 .. n + 1 /\ Walk[i] = PageAt(Offset(i))
  <2>1. CASE data = Loading
    BY <1>1, <2>1 DEF Walk, TypeOK, Answers, n
  <2>2. CASE data # Loading
    <3>1. data = PageAt(Offset(n + 1)) /\ n + 1 \in 1 .. n + 1
      BY <1>1, <2>2 DEF Answers, n
    <3>2. data \in Replies /\ earlier \in Seq(Replies)
      BY <1>1, <1>4, <3>1, PageAtType DEF TypeOK
    <3>3. Walk = Append(earlier, data)
      BY <2>2 DEF Walk
    <3>4. /\ Walk \in Seq(Replies) /\ Len(Walk) = n + 1 /\ Walk[n + 1] = data
          /\ \A i \in 1 .. n : Walk[i] = earlier[i]
      BY <1>1, <3>2, <3>3, AppendProperties
    <3>5. \A i \in 1 .. n : Walk[i] = PageAt(Offset(i))
      BY <1>1, <3>4 DEF Answers, n
    <3>6. \A i \in 1 .. n + 1 : i = n + 1 \/ i \in 1 .. n
      BY <1>1
    <3> QED
      BY <1>1, <2>2, <3>1, <3>4, <3>5, <3>6
  <2> QED
    BY <2>1, <2>2
<1> HIDE DEF m
<1>7. DOMAIN Walk = 1 .. m
  BY <1>6 DEF m
<1>8. \A i \in 0 .. m : e[i] = IF Offset(i + 1) < Size THEN Offset(i + 1) ELSE Size
  OBVIOUS
<1>9. \A i \in 0 .. m : i + 1 \in Nat \ {0} /\ Offset(i + 1) \in Nat
  BY <1>5, <1>6
<1>10. e \in [0 .. m -> 0 .. Len(Full)]
  BY <1>2, <1>9
<1> HIDE DEF e
<1>11. \A i \in 1 .. m : e[i - 1] = Offset(i) /\ e[i] = End(Offset(i)) /\ e[i - 1] <= e[i]
  <2> SUFFICES ASSUME NEW i \in 1 .. m
               PROVE  e[i - 1] = Offset(i) /\ e[i] = End(Offset(i)) /\ e[i - 1] <= e[i]
    OBVIOUS
  <2>1. /\ i - 1 \in 0 .. m /\ i \in 0 .. m /\ (i - 1) + 1 = i /\ i \in Nat \ {0}
        /\ Offset(i) \in 0 .. Size
    BY <1>4, <1>6
  <2>2. Offset(i + 1) = Offset(i) + PageLimit
    BY <1>5, <2>1
  <2>3. e[i - 1] = Offset(i)
    BY <1>2, <1>8, <2>1
  <2>4. e[i] = End(Offset(i))
    BY <1>2, <1>3, <1>8, <2>1, <2>2 DEF End
  <2>5. Offset(i) <= End(Offset(i))
    BY <1>2, <1>3, <2>1 DEF End
  <2> QED
    BY <2>3, <2>4, <2>5
<1>12. e[0] = 0
  BY <1>2, <1>5, <1>6, <1>8
<1>13. /\ parts \in Seq(Seq(catalog)) /\ Len(parts) = m
       /\ \A i \in 1 .. m : parts[i] = SubSeq(Full, e[i - 1] + 1, e[i])
  <2>1. \A i \in 1 .. m : /\ Walk[i].events \in Seq(catalog)
                         /\ Walk[i].events = SubSeq(Full, e[i - 1] + 1, e[i])
    <3> SUFFICES ASSUME NEW i \in 1 .. m
                 PROVE  /\ Walk[i].events \in Seq(catalog)
                        /\ Walk[i].events = SubSeq(Full, e[i - 1] + 1, e[i])
      OBVIOUS
    <3>1. Walk[i] \in Replies /\ Walk[i] = PageAt(Offset(i))
      BY <1>6, <1>7 DEF m
    <3>2. PageAt(Offset(i)).events = SubSeq(Full, Offset(i) + 1, End(Offset(i)))
      BY DEF PageAt
    <3> QED
      BY <1>11, <3>1, <3>2 DEF Replies
  <2>2. parts \in [1 .. m -> Seq(catalog)] /\ \A i \in 1 .. m : parts[i] = Walk[i].events
    BY <1>7, <2>1
  <2> HIDE DEF parts
  <2>3. parts \in Seq(Seq(catalog)) /\ Len(parts) = m
    BY <1>6, <2>2
  <2> QED
    BY <2>1, <2>2, <2>3
<1>14. Seen = FlattenSeq(parts)
  BY DEF Seen
<1> HIDE DEF parts
<1>15. FlattenSeq(parts) = SubSeq(Full, 1, e[m])
  BY <1>2, <1>6, <1>10, <1>11, <1>12, <1>13, FlattenParts
<1>16. e[m] = seen
  <2>1. CASE data = Loading
    <3>1. m = n /\ m \in 0 .. m /\ Offset(n + 1) \in 0 .. Size
      BY <1>1, <1>4, <1>6, <2>1
    <3> QED
      BY <1>2, <1>8, <2>1, <3>1
  <2>2. CASE data # Loading
    <3>1. m = n + 1 /\ m \in 1 .. m
      BY <1>1, <1>6, <2>2
    <3> QED
      BY <1>11, <2>2, <3>1
  <2> QED
    BY <2>1, <2>2
<1>17. e[m] \in 0 .. Size /\ Offset(n + 1) \in 0 .. Size
  BY <1>1, <1>2, <1>4, <1>6, <1>10
<1> HIDE DEF seen
<1>18. seen \in 0 .. Size /\ Seen = SubSeq(Full, 1, seen)
  BY <1>14, <1>15, <1>16, <1>17
<1> QED
  BY <1>1, <1>17, <1>18 DEF n, seen

\* EventsPage shows the events of the catalog in their order, none skipped or
\* repeated, whatever ties the columns have and wherever the user turns back.
THEOREM WalkIsPrefixAlways == Spec => []WalkIsPrefix
<1>1. WalkInv => WalkIsPrefix
  <2> SUFFICES ASSUME WalkInv PROVE WalkIsPrefix
    OBVIOUS
  <2>1. PICK k \in 0 .. Size : Seen = SubSeq(Full, 1, k)
    BY SeenIsBeginning
  <2>2. Size \in Nat /\ Full \in Seq(catalog) /\ Len(Full) = Size
    BY FullLists DEF WalkInv, TypeOK
  <2>3. Seen \in Seq(catalog) /\ Len(Seen) = k
    BY <2>1, <2>2
  <2>4. SubSeq(Seen, 1, Len(Seen)) = Seen
    BY <2>3
  <2> QED
    BY <2>1, <2>2, <2>3, <2>4 DEF WalkIsPrefix, IsPrefix, Full
<1> QED
  BY <1>1, WalkInvariant, PTL

\* hasMore tells rightly whether there are events behind the page, and no page
\* but that of an empty catalog is empty.
THEOREM EndsAtTheEndAlways == Spec => []EndsAtTheEnd
<1>1. WalkInv => EndsAtTheEnd
  <2> SUFFICES ASSUME WalkInv, data # Loading
               PROVE  /\ data.hasMore <=> Len(Seen) < Cardinality(catalog)
                      /\ data.events = <<>> => catalog = {}
    BY DEF EndsAtTheEnd
  <2> DEFINE k == Offset(Len(stack) + 1)
  <2>1. k \in 0 .. Size /\ End(k) \in 0 .. Size /\ Seen = SubSeq(Full, 1, End(k))
    BY SeenIsBeginning
  <2>2. Size \in Nat /\ Full \in Seq(catalog) /\ Len(Full) = Size /\ IsFiniteSet(catalog)
    BY FullLists DEF WalkInv, TypeOK
  <2>3. PageLimit \in Nat /\ PageLimit >= 1
    BY PageLimitAssumption
  <2>4. data = PageAt(k) /\ (k = 0 \/ k < Size)
    <3>1. data = PageAt(k) /\ Len(stack) \in Nat
      BY DEF WalkInv, Answers, TypeOK
    <3>2. Len(stack) = 0 => k = 0
      BY OffsetGrows
    <3>3. Len(stack) # 0 => k < Size
      BY <3>1 DEF WalkInv, Cursors
    <3> QED
      BY <3>1, <3>2, <3>3
  <2> HIDE DEF k
  <2>5. data.events = SubSeq(Full, k + 1, End(k)) /\ data.hasMore = (Size - k > PageLimit)
    BY <2>4 DEF PageAt
  <2>6. Len(Seen) = End(k)
    BY <2>1, <2>2
  <2>7. data.hasMore <=> Len(Seen) < Cardinality(catalog)
    <3>1. Size - k > PageLimit <=> End(k) < Size
      BY <2>1, <2>2, <2>3 DEF End
    <3> QED
      BY <2>5, <2>6, <3>1 DEF Size
  <2>8. ASSUME data.events = <<>> PROVE catalog = {}
    <3>1. ASSUME k < End(k) PROVE FALSE
      <4>1. k + 1 \in Int /\ End(k) \in Int /\ k + 1 <= End(k) /\ End(k) - (k + 1) + 1 # 0
        BY <2>1, <3>1
      <4>2. \A i \in k + 1 .. End(k) : Full[i] \in catalog
        BY <2>1, <2>2
      <4>3. Len(SubSeq(Full, k + 1, End(k))) = End(k) - (k + 1) + 1
        BY <4>1, <4>2, SubSeqProperties
      <4> QED
        BY <2>5, <2>8, <4>1, <4>3
    <3>2. Size = 0
      BY <2>1, <2>2, <2>3, <2>4, <3>1 DEF End
    <3> QED
      BY <2>2, <3>2, FS_EmptySet DEF Size
  <2> QED
    BY <2>7, <2>8
<1> QED
  BY <1>1, WalkInvariant, PTL
=============================================================================
