------------------------- MODULE MigrationsProofs -------------------------
(***************************************************************************)
(* Theorems about Migrations for every catalog of seeds, chunk size and    *)
(* number of sales. First what holds beside the sales: an invariant that   *)
(* relates the transaction of TypeORM to the sales under way, from which   *)
(* no booking is orphaned and no sale lost but to the DROP INDEX           *)
(* statements. Then what the scripts do: each statement, each script and   *)
(* each plan of scripts leads from one database to another, so a second    *)
(* invariant names what a transaction sees after each of its statements.   *)
(***************************************************************************)
EXTENDS Migrations, OrderByProofs, SequenceTheorems

-----------------------------------------------------------------------------
(* Flattened sequences                                                     *)

\* One step of FlattenSeq, given what it made of the sequences before.
FlatStep(ss, g, i) == IF i = 1 THEN ss[i] ELSE g[i - 1] \o ss[i]
FlattensTo(ss, g, n) == g = [i \in 1 .. n |-> FlatStep(ss, g, i)]

\* The recursion of FlattenSeq ends.
LEMMA FlattenExists ==
  ASSUME NEW T, NEW ss \in Seq(Seq(T))
  PROVE  \A n \in Nat : \E g : FlattensTo(ss, g, n)
<1> DEFINE bad == {n \in Nat : ~ \E g : FlattensTo(ss, g, n)}
<1>1. SUFFICES ASSUME bad # {} PROVE FALSE
  OBVIOUS
<1>2. PICK n \in bad : \A j \in bad : n <= j
  <2>1. bad \in SUBSET Nat
    OBVIOUS
  <2> HIDE DEF bad
  <2> QED
    BY <1>1, <2>1, Least
<1>3. n \in Nat /\ ~ \E g : FlattensTo(ss, g, n)
  BY <1>2
<1>4. CASE n = 0
  <2> DEFINE g == [i \in 1 .. 0 |-> <<>>]
  <2>1. g = [i \in 1 .. 0 |-> FlatStep(ss, g, i)]
    <3>1. \A i \in 1 .. 0 : FALSE
      OBVIOUS
    <3> QED
      BY <3>1
  <2> HIDE DEF g
  <2>2. FlattensTo(ss, g, n)
    BY <1>4, <2>1 DEF FlattensTo
  <2> QED
    BY <1>3, <2>2
<1>5. CASE n # 0
  <2>1. n - 1 \in Nat /\ n - 1 \notin bad
    BY <1>2, <1>3, <1>5
  <2>2. PICK g : FlattensTo(ss, g, n - 1)
    BY <2>1
  <2> DEFINE h == [i \in 1 .. n |-> IF i = n THEN FlatStep(ss, g, n) ELSE g[i]]
  <2>3. \A i \in 1 .. n : i = n \/ i \in 1 .. n - 1
    BY <1>3, <1>5
  <2>4. \A i \in 1 .. n - 1 : h[i] = g[i] /\ g[i] = FlatStep(ss, g, i) /\ i # n /\ i \in 1 .. n
    <3>1. \A i \in 1 .. n - 1 : g[i] = FlatStep(ss, g, i)
      BY <2>2 DEF FlattensTo
    <3>2. \A i \in 1 .. n - 1 : i # n /\ i \in 1 .. n
      BY <1>3
    <3>3. \A i \in 1 .. n - 1 : h[i] = g[i]
      BY <3>2
    <3> QED
      BY <3>1, <3>2, <3>3
  <2>5. h[n] = FlatStep(ss, g, n)
    BY <1>3, <1>5
  <2>6. h = [i \in 1 .. n |-> h[i]]
    OBVIOUS
  <2> HIDE DEF h
  <2>7. \A i \in 1 .. n : FlatStep(ss, h, i) = FlatStep(ss, g, i)
    <3>1. \A i \in 1 .. n : i = 1 \/ i - 1 \in 1 .. n - 1
      BY <1>3
    <3> QED
      BY <2>4, <3>1 DEF FlatStep
  <2>8. \A i \in 1 .. n : h[i] = FlatStep(ss, h, i)
    BY <2>3, <2>4, <2>5, <2>7
  <2>9. FlattensTo(ss, h, n)
    BY <2>6, <2>8 DEF FlattensTo
  <2> QED
    BY <1>3, <2>9
<1> QED
  BY <1>4, <1>5

LEMMA FlattenUnfolds ==
  ASSUME NEW T, NEW ss \in Seq(Seq(T)), Len(ss) # 0
  PROVE  \E g : /\ FlattenSeq(ss) = g[Len(ss)]
                /\ \A i \in 1 .. Len(ss) : g[i] = FlatStep(ss, g, i)
<1> DEFINE g == CHOOSE f : FlattensTo(ss, f, Len(ss))
<1>1. FlattenSeq(ss) = g[Len(ss)]
  BY DEF FlattenSeq, FlattensTo, FlatStep
<1>2. FlattensTo(ss, g, Len(ss))
  <2>1. Len(ss) \in Nat
    OBVIOUS
  <2> QED
    BY <2>1, FlattenExists
<1> HIDE DEF g
<1>3. \A i \in 1 .. Len(ss) : g[i] = FlatStep(ss, g, i)
  BY <1>2 DEF FlattensTo
<1> QED
  BY <1>1, <1>3

\* Every element of the sequences is one of the flattened sequence.
Holds(f, ss, j) == \A k \in 1 .. Len(ss[j]) : \E m \in 1 .. Len(f) : f[m] = ss[j][k]

LEMMA ConcatHolds ==
  ASSUME NEW T, NEW ss \in Seq(Seq(T)), NEW i \in 1 .. Len(ss), NEW f \in Seq(T)
  PROVE  /\ f \o ss[i] \in Seq(T)
         /\ Holds(f \o ss[i], ss, i)
         /\ \A j : Holds(f, ss, j) => Holds(f \o ss[i], ss, j)
<1>1. ss[i] \in Seq(T) /\ Len(f) \in Nat /\ Len(ss[i]) \in Nat
  OBVIOUS
<1> DEFINE h == f \o ss[i]
<1>2. /\ h \in Seq(T) /\ Len(h) = Len(f) + Len(ss[i])
      /\ \A k \in 1 .. Len(f) + Len(ss[i]) : h[k] = IF k <= Len(f) THEN f[k] ELSE ss[i][k - Len(f)]
  BY <1>1, ConcatProperties
<1> HIDE DEF h
<1>3. \A k \in 1 .. Len(f) : k \in 1 .. Len(h) /\ h[k] = f[k]
  BY <1>1, <1>2
<1>4. \A k \in 1 .. Len(ss[i]) : k + Len(f) \in 1 .. Len(h) /\ h[k + Len(f)] = ss[i][k]
  <2>1. \A k \in 1 .. Len(ss[i]) : /\ k + Len(f) \in 1 .. Len(f) + Len(ss[i])
                                   /\ ~ (k + Len(f) <= Len(f)) /\ (k + Len(f)) - Len(f) = k
    BY <1>1
  <2> QED
    BY <1>2, <2>1
<1>5. Holds(h, ss, i)
  BY <1>4 DEF Holds
<1>6. \A j : Holds(f, ss, j) => Holds(h, ss, j)
  BY <1>3 DEF Holds
<1> QED
  BY <1>2, <1>5, <1>6 DEF h

\* FlattenSeq keeps all elements, and adds none.
LEMMA FlattenElements ==
  ASSUME NEW T, NEW ss \in Seq(Seq(T))
  PROVE  /\ FlattenSeq(ss) \in Seq(T)
         /\ \A j \in 1 .. Len(ss) : Holds(FlattenSeq(ss), ss, j)
<1>1. CASE Len(ss) = 0
  <2>1. ss = <<>> /\ FlattenSeq(ss) = ss
    BY <1>1, EmptySeq DEF FlattenSeq
  <2>2. 1 .. Len(ss) = {}
    BY <1>1
  <2>3. <<>> \in Seq(T)
    OBVIOUS
  <2> QED
    BY <2>1, <2>2, <2>3
<1>2. CASE Len(ss) # 0
  <2>1. PICK g : /\ FlattenSeq(ss) = g[Len(ss)]
                 /\ \A i \in 1 .. Len(ss) : g[i] = FlatStep(ss, g, i)
    BY <1>2, FlattenUnfolds
  <2> DEFINE Good(i) == g[i] \in Seq(T) /\ \A j \in 1 .. i : Holds(g[i], ss, j)
             bad == {i \in 1 .. Len(ss) : ~ Good(i)}
  <2>2. bad = {}
    <3> SUFFICES ASSUME bad # {} PROVE FALSE
      OBVIOUS
    <3>1. bad \in SUBSET Nat
      OBVIOUS
    <3>2. PICK i \in bad : \A j \in bad : i <= j
      <4> HIDE DEF bad
      <4> QED
        BY <3>1, Least
    <3>3. i \in 1 .. Len(ss) /\ ~ Good(i) /\ g[i] = FlatStep(ss, g, i) /\ ss[i] \in Seq(T)
      BY <2>1, <3>2
    <3>4. CASE i = 1
      <4>1. g[i] = ss[i] /\ \A j \in 1 .. i : j = i
        BY <3>3, <3>4 DEF FlatStep
      <4>2. Holds(ss[i], ss, i)
        BY DEF Holds
      <4> QED
        BY <3>3, <4>1, <4>2
    <3>5. CASE i # 1
      <4>1. i - 1 \in 1 .. Len(ss) /\ i - 1 \notin bad
        BY <3>2, <3>3, <3>5
      <4>2. g[i - 1] \in Seq(T) /\ \A j \in 1 .. i - 1 : Holds(g[i - 1], ss, j)
        BY <4>1
      <4>3. g[i] = g[i - 1] \o ss[i]
        BY <3>3, <3>5 DEF FlatStep
      <4>4. /\ g[i] \in Seq(T) /\ Holds(g[i], ss, i)
            /\ \A j : Holds(g[i - 1], ss, j) => Holds(g[i], ss, j)
        BY <3>3, <4>2, <4>3, ConcatHolds
      <4>5. \A j \in 1 .. i : j = i \/ j \in 1 .. i - 1
        BY <3>3
      <4> QED
        BY <3>3, <4>2, <4>4, <4>5
    <3> QED
      BY <3>4, <3>5
  <2>3. Len(ss) \in 1 .. Len(ss)
    BY <1>2
  <2>4. Len(ss) \notin bad
    BY <2>2
  <2>5. Good(Len(ss))
    BY <2>3, <2>4
  <2> QED
    BY <2>1, <2>5
<1> QED
  BY <1>1, <1>2

\* Empty sequences in front of one flatten to it.
LEMMA FlattenLast ==
  ASSUME NEW T, NEW ss \in Seq(Seq(T)), Len(ss) = 4,
         ss[1] = <<>>, ss[2] = <<>>, ss[3] = <<>>
  PROVE  FlattenSeq(ss) = ss[4]
<1>0. Len(ss) # 0
  OBVIOUS
<1>1. PICK g : /\ FlattenSeq(ss) = g[Len(ss)]
               /\ \A i \in 1 .. Len(ss) : g[i] = FlatStep(ss, g, i)
  BY <1>0, FlattenUnfolds
<1>2. /\ g[1] = ss[1] /\ g[2] = g[1] \o ss[2] /\ g[3] = g[2] \o ss[3] /\ g[4] = g[3] \o ss[4]
  <2>1. \A i \in 1 .. 4 : g[i] = FlatStep(ss, g, i)
    BY <1>1
  <2>2. g[1] = FlatStep(ss, g, 1) /\ g[2] = FlatStep(ss, g, 2)
        /\ g[3] = FlatStep(ss, g, 3) /\ g[4] = FlatStep(ss, g, 4)
    BY <2>1
  <2>3. 2 # 1 /\ 3 # 1 /\ 4 # 1 /\ 2 - 1 = 1 /\ 3 - 1 = 2 /\ 4 - 1 = 3
    OBVIOUS
  <2> QED
    BY <2>2, <2>3, Zenon DEF FlatStep
<1>3. <<>> \in Seq(T) /\ ss[4] \in Seq(T)
  <2>1. 4 \in 1 .. Len(ss)
    OBVIOUS
  <2> QED
    BY <2>1, EmptySeq, ElementOfSeq, Zenon
<1>4. <<>> \o <<>> = <<>> /\ <<>> \o ss[4] = ss[4]
  BY <1>3, ConcatEmptySeq
<1>5. g[4] = ss[4]
  BY <1>2, <1>4
<1> QED
  BY <1>1, <1>5

-----------------------------------------------------------------------------
(* The statements of the up scripts                                        *)

SaleTables == {"booking", "payment_record"}
Lasting == {"row", "fk", "table"}

DoneUp(m) == [Sql EXCEPT !.adds = {Done(m)}]
DoneDown(m) == [Sql EXCEPT !.dels = {Done(m)}]

SeedTables == {"user", "venue", "event_host", "event", "ticket"}
SeedIds == {{"seed"}} \cup {{e} : e \in DOMAIN EventSeeds}
           \cup UNION {{ToSet(Chunks(BuildTickets(e))[k]) : k \in DOMAIN Chunks(BuildTickets(e))} :
                         e \in DOMAIN EventSeeds}
Saves == {Save(t, ids) : t \in SeedTables, ids \in SeedIds}

UpStatements == Saves \cup {SchemaUp[k] : k \in 1 .. 11} \cup {PaymentUp[k] : k \in 1 .. 3}
                \cup {IndexesUp[k] : k \in 1 .. 4} \cup {DoneUp(m) : m \in Migration}

\* No up script takes away a row, a constraint or a table, or writes a sale.
Harmless(s) == /\ s.wipes = {} /\ s.clears = {}
               /\ \A i \in s.dels : i[2] \notin Lasting
               /\ \A i \in s.adds : i[2] = "row" => i[1] \notin SaleTables

LEMMA UpHarmless ==
  ASSUME NEW s \in UpStatements
  PROVE  Harmless(s)
<1>1. CASE s \in Saves
  <2>1. PICK t \in SeedTables, ids \in SeedIds : s = Save(t, ids)
    BY <1>1 DEF Saves
  <2>2. /\ s.wipes = {} /\ s.clears = {} /\ s.dels = {}
        /\ s.adds = {Row(t, id) : id \in ids}
    BY <2>1 DEF Save, Sql
  <2>3. t \notin SaleTables
    BY DEF SeedTables, SaleTables
  <2> QED
    BY <2>2, <2>3 DEF Harmless, Row
<1>2. CASE \E m \in Migration : s = DoneUp(m)
  BY <1>2 DEF Harmless, DoneUp, Done, Row, Sql, SaleTables
<1>3. CASE \E k \in 1 .. 11 : s = SchemaUp[k]
  <2>1. \/ \E t, refs : s = CreateTable(t, refs, {})
        \/ s = CreateTable("booking", {}, {Column("booking", "payment_status"),
                                           Check("booking", "payment_status")})
        \/ \E t, r : s = AddFk(t, r)
    BY <1>3 DEF SchemaUp
  <2>2. ASSUME NEW t, NEW refs, s = CreateTable(t, refs, {}) PROVE Harmless(s)
    BY <2>2 DEF Harmless, CreateTable, Sql, Table, Fk
  <2>3. ASSUME NEW t, NEW r, s = AddFk(t, r) PROVE Harmless(s)
    BY <2>3 DEF Harmless, AddFk, Sql, Fk
  <2>4. ASSUME s = CreateTable("booking", {}, {Column("booking", "payment_status"),
                                               Check("booking", "payment_status")})
        PROVE  Harmless(s)
    BY <2>4 DEF Harmless, CreateTable, Sql, Table, Fk, Column, Check
  <2> QED
    BY <2>1, <2>2, <2>3, <2>4
<1>4. CASE \E k \in 1 .. 3 : s = PaymentUp[k]
  <2>1. \/ s = DropIfExists("booking", {Check("booking", "payment_status")})
        \/ s = DropIfExists("booking", {Column("booking", "payment_status"),
                                        Default("booking", "payment_status")})
        \/ s = CreateTable("payment_record", {"booking"}, {})
    BY <1>4 DEF PaymentUp
  <2>2. CASE s = CreateTable("payment_record", {"booking"}, {})
    BY <2>2 DEF Harmless, CreateTable, Sql, Table, Fk
  <2>3. ASSUME NEW items, s = DropIfExists("booking", items), \A i \in items : i[2] \notin Lasting
        PROVE  Harmless(s)
    <3>1. s.wipes = {} /\ s.clears = {} /\ s.dels = items /\ s.adds = {}
      BY <2>3 DEF DropIfExists, Sql
    <3> QED
      BY <2>3, <3>1 DEF Harmless
  <2>4. /\ \A i \in {Check("booking", "payment_status")} : i[2] \notin Lasting
        /\ \A i \in {Column("booking", "payment_status"), Default("booking", "payment_status")} :
             i[2] \notin Lasting
    BY DEF Column, Check, Default, Lasting
  <2> QED
    BY <2>1, <2>2, <2>3, <2>4
<1>5. CASE \E k \in 1 .. 4 : s = IndexesUp[k]
  <2>1. \E t, c : s = CreateIndex(t, c)
    BY <1>5 DEF IndexesUp
  <2> QED
    BY <2>1 DEF Harmless, CreateIndex, Sql, Index
<1> QED
  BY <1>1, <1>2, <1>3, <1>4, <1>5 DEF UpStatements

LEMMA SeedEventSaves ==
  ASSUME NEW e \in DOMAIN EventSeeds
  PROVE  SeedEvent(e) \in Seq(Saves)
<1> DEFINE T == {<<e, a, b>> : a \in 1 .. 3, b \in Nat}
           ss == [sec \in 1 .. 3 |-> [seat \in 1 .. EventSeeds[e][sec] |-> <<e, sec, seat>>]]
           q == BuildTickets(e)
           n == (Len(q) + ChunkSize - 1) \div ChunkSize
           saves == [k \in 1 .. n |-> Save("ticket", ToSet(Chunks(q)[k]))]
<1>1. \A sec \in 1 .. 3 : EventSeeds[e][sec] \in Nat
  BY SeedsAssumption
<1>2. ss \in Seq(Seq(T))
  <2>1. ASSUME NEW sec \in 1 .. 3 PROVE ss[sec] \in Seq(T)
    <3>1. EventSeeds[e][sec] \in Nat
      BY <1>1
    <3>2. \A seat \in 1 .. EventSeeds[e][sec] : <<e, sec, seat>> \in T
      BY <3>1
    <3> HIDE DEF T
    <3> QED
      BY <3>1, <3>2
  <2> HIDE DEF T
  <2> QED
    BY <2>1
<1>3. q = FlattenSeq(ss)
  BY DEF BuildTickets
<1> HIDE DEF T, ss
<1>4. q \in Seq(T)
  BY <1>2, <1>3, FlattenElements
<1> HIDE DEF q
<1>5. n \in Nat
  <2>1. Len(q) + ChunkSize - 1 \in Nat /\ ChunkSize \in Nat \ {0}
    BY <1>4, ChunkSizeAssumption
  <2> QED
    BY <2>1
<1>6. DOMAIN Chunks(q) = 1 .. n
  BY DEF Chunks
<1> HIDE DEF n
<1>7. \A k \in 1 .. n : Save("ticket", ToSet(Chunks(q)[k])) \in Saves
  <2> DEFINE chunk(k) == ToSet(Chunks(BuildTickets(e))[k])
             chunks == {chunk(k) : k \in DOMAIN Chunks(BuildTickets(e))}
  <2>1. \A k \in DOMAIN Chunks(BuildTickets(e)) : chunk(k) \in chunks
    OBVIOUS
  <2>2. chunks \subseteq SeedIds
    BY DEF SeedIds
  <2>3. \A k \in 1 .. n : chunk(k) \in SeedIds /\ chunk(k) = ToSet(Chunks(q)[k])
    BY <1>6, <2>1, <2>2 DEF q
  <2> HIDE DEF chunk, chunks
  <2>4. \A ids \in SeedIds : Save("ticket", ids) \in Saves
    BY DEF Saves, SeedTables
  <2> QED
    BY <2>3, <2>4
<1>8. saves \in Seq(Saves)
  BY <1>5, <1>7
<1>9. <<Save("event", {e})>> \in Seq(Saves)
  <2>1. Save("event", {e}) \in Saves
    BY DEF Saves, SeedTables, SeedIds
  <2> QED
    BY <2>1
<1>10. SeedEvent(e) = <<Save("event", {e})>> \o saves
  BY <1>6 DEF SeedEvent, q
<1> HIDE DEF saves
<1> QED
  BY <1>8, <1>9, <1>10, ConcatProperties

LEMMA SeedUpSaves == SeedUp \in Seq(Saves)
<1>1. \A e \in DOMAIN EventSeeds : SeedEvent(e) \in Seq(Saves)
  BY SeedEventSaves
<1> DEFINE events == [e \in DOMAIN EventSeeds |-> SeedEvent(e)]
           first == << Save("user", {"seed"}), Save("venue", {"seed"}), Save("event_host", {"seed"}) >>
<1>2. events \in Seq(Seq(Saves))
  <2>1. DOMAIN EventSeeds = 1 .. Len(EventSeeds) /\ Len(EventSeeds) \in Nat
    BY SeedsAssumption
  <2> QED
    BY <1>1, <2>1
<1>3. first \in Seq(Saves)
  <2>1. \A t \in {"user", "venue", "event_host"} : Save(t, {"seed"}) \in Saves
    BY DEF Saves, SeedTables, SeedIds
  <2> QED
    BY <2>1
<1>4. SeedUp = first \o FlattenSeq(events)
  BY DEF SeedUp
<1> HIDE DEF events, first
<1>5. FlattenSeq(events) \in Seq(Saves)
  BY <1>2, FlattenElements
<1> QED
  BY <1>3, <1>4, <1>5, ConcatProperties

LEMMA UpPlans ==
  /\ \A m \in Migration : Up[m] \in Seq(UpStatements)
  /\ Len(SchemaUp) = 11 /\ Len(PaymentUp) = 3 /\ Len(IndexesUp) = 4
<1>1. SchemaUp \in Seq(UpStatements) /\ Len(SchemaUp) = 11
  <2>1. \A k \in 1 .. 11 : SchemaUp[k] \in UpStatements
    BY DEF UpStatements
  <2>2. Len(SchemaUp) = 11 /\ SchemaUp = [k \in 1 .. 11 |-> SchemaUp[k]]
    BY DEF SchemaUp
  <2> QED
    BY <2>1, <2>2
<1>2. PaymentUp \in Seq(UpStatements) /\ Len(PaymentUp) = 3
  <2>1. \A k \in 1 .. 3 : PaymentUp[k] \in UpStatements
    BY DEF UpStatements
  <2>2. Len(PaymentUp) = 3 /\ PaymentUp = [k \in 1 .. 3 |-> PaymentUp[k]]
    BY DEF PaymentUp
  <2> QED
    BY <2>1, <2>2
<1>3. IndexesUp \in Seq(UpStatements) /\ Len(IndexesUp) = 4
  <2>1. \A k \in 1 .. 4 : IndexesUp[k] \in UpStatements
    BY DEF UpStatements
  <2>2. Len(IndexesUp) = 4 /\ IndexesUp = [k \in 1 .. 4 |-> IndexesUp[k]]
    BY DEF IndexesUp
  <2> QED
    BY <2>1, <2>2
<1>4. SeedUp \in Seq(UpStatements)
  BY SeedUpSaves DEF UpStatements
<1>5. Up[1] = SchemaUp /\ Up[2] = PaymentUp /\ Up[3] = SeedUp /\ Up[4] = IndexesUp
  BY DEF Up
<1>6. \A m \in Migration : m = 1 \/ m = 2 \/ m = 3 \/ m = 4
  BY DEF Migration
<1> QED
  BY <1>1, <1>2, <1>3, <1>4, <1>5, <1>6

\* What migration:run does.
Pending == [m \in Migration |-> IF m \in Applied THEN <<>> ELSE Append(Up[m], DoneUp(m))]
UpPlan == FlattenSeq(Pending)

Does(plan, s) == \E k \in 1 .. Len(plan) : plan[k] = s

LEMMA PendingScripts ==
  /\ Pending \in Seq(Seq(UpStatements)) /\ Len(Pending) = 4
  /\ \A m \in Migration : Pending[m] = IF m \in Applied THEN <<>> ELSE Append(Up[m], DoneUp(m))
<1>1. \A m \in Migration : Append(Up[m], DoneUp(m)) \in Seq(UpStatements)
  BY UpPlans, AppendProperties DEF UpStatements
<1>2. \A m \in Migration : Pending[m] \in Seq(UpStatements)
  BY <1>1, EmptySeq DEF Pending
<1>3. Pending = [m \in 1 .. 4 |-> Pending[m]]
  BY DEF Pending, Migration
<1>4. \A m \in Migration : Pending[m] = IF m \in Applied THEN <<>> ELSE Append(Up[m], DoneUp(m))
  BY DEF Pending
<1> HIDE DEF Pending
<1>5. Pending \in Seq(Seq(UpStatements)) /\ Len(Pending) = 4
  BY <1>2, <1>3 DEF Migration
<1> QED
  BY <1>4, <1>5

LEMMA UpPlanFacts ==
  /\ UpPlan \in Seq(UpStatements)
  /\ \A m \in Migration \ Applied : Does(UpPlan, DoneUp(m))
  /\ 1 \notin Applied => Does(UpPlan, AddFk("booking", "ticket"))
  /\ 2 \notin Applied => Does(UpPlan, CreateTable("payment_record", {"booking"}, {}))
  /\ 1 \in Applied /\ 2 \in Applied /\ 3 \in Applied /\ 4 \notin Applied =>
       UpPlan = Append(IndexesUp, DoneUp(4))
<1>1. ASSUME NEW m \in Migration
      PROVE  /\ Append(Up[m], DoneUp(m)) \in Seq(UpStatements)
             /\ Len(Append(Up[m], DoneUp(m))) = Len(Up[m]) + 1 /\ Len(Up[m]) \in Nat
             /\ \A k \in 1 .. Len(Up[m]) : Append(Up[m], DoneUp(m))[k] = Up[m][k]
             /\ Append(Up[m], DoneUp(m))[Len(Up[m]) + 1] = DoneUp(m)
  <2>1. Up[m] \in Seq(UpStatements) /\ DoneUp(m) \in UpStatements
    BY UpPlans DEF UpStatements
  <2> QED
    BY <2>1, AppendProperties
<1>2. Pending \in Seq(Seq(UpStatements)) /\ Len(Pending) = 4
  BY PendingScripts
<1>3. \A m \in Migration : Pending[m] = IF m \in Applied THEN <<>> ELSE Append(Up[m], DoneUp(m))
  BY PendingScripts
<1>4. UpPlan \in Seq(UpStatements) /\ \A m \in Migration : Holds(UpPlan, Pending, m)
  BY <1>2, FlattenElements DEF UpPlan, Migration
<1>5. ASSUME NEW m \in Migration \ Applied
      PROVE  /\ \A k \in 1 .. Len(Up[m]) : Does(UpPlan, Up[m][k])
             /\ Does(UpPlan, DoneUp(m))
  <2>1. /\ Pending[m] = Append(Up[m], DoneUp(m)) /\ Len(Pending[m]) = Len(Up[m]) + 1
        /\ Len(Up[m]) \in Nat
    BY <1>1, <1>3
  <2>2. \A k \in 1 .. Len(Up[m]) + 1 : Does(UpPlan, Pending[m][k])
    BY <1>4, <2>1 DEF Holds, Does
  <2>3. \A k \in 1 .. Len(Up[m]) : k \in 1 .. Len(Up[m]) + 1 /\ Pending[m][k] = Up[m][k]
    BY <1>1, <2>1
  <2>4. Len(Up[m]) + 1 \in 1 .. Len(Up[m]) + 1 /\ Pending[m][Len(Up[m]) + 1] = DoneUp(m)
    BY <1>1, <2>1
  <2> QED
    BY <2>2, <2>3, <2>4
<1>6. 1 \in Migration /\ 2 \in Migration /\ 3 \in Migration /\ 4 \in Migration
  BY DEF Migration
<1>7. Up[1] = SchemaUp /\ Up[2] = PaymentUp /\ Up[4] = IndexesUp
  BY DEF Up
<1>8. ASSUME 1 \notin Applied PROVE Does(UpPlan, AddFk("booking", "ticket"))
  <2>1. SchemaUp[11] = AddFk("booking", "ticket") /\ 11 \in 1 .. Len(SchemaUp)
    BY DEF SchemaUp
  <2> QED
    BY <1>5, <1>6, <1>7, <1>8, <2>1
<1>9. ASSUME 2 \notin Applied
      PROVE  Does(UpPlan, CreateTable("payment_record", {"booking"}, {}))
  <2>1. PaymentUp[3] = CreateTable("payment_record", {"booking"}, {}) /\ 3 \in 1 .. Len(PaymentUp)
    BY DEF PaymentUp
  <2> QED
    BY <1>5, <1>6, <1>7, <1>9, <2>1
<1>10. ASSUME 1 \in Applied, 2 \in Applied, 3 \in Applied, 4 \notin Applied
       PROVE  UpPlan = Append(IndexesUp, DoneUp(4))
  <2>1. Pending[1] = <<>> /\ Pending[2] = <<>> /\ Pending[3] = <<>>
        /\ Pending[4] = Append(IndexesUp, DoneUp(4))
    BY <1>3, <1>6, <1>7, <1>10
  <2> QED
    BY <1>2, <2>1, FlattenLast DEF UpPlan
<1> QED
  BY <1>4, <1>5, <1>8, <1>9, <1>10

\* It ends with the indexes, the second of which locks the bookings.
LEMMA IndexesPlan ==
  LET plan == Append(IndexesUp, DoneUp(4))
  IN  /\ Len(plan) = 5
      /\ plan[1] = CreateIndex("ticket", "event_id")
      /\ plan[2] = CreateIndex("booking", "user_id")
<1> DEFINE plan == Append(IndexesUp, DoneUp(4))
<1>1. IndexesUp \in Seq({IndexesUp[k] : k \in 1 .. 4} \cup {DoneUp(4)}) /\ Len(IndexesUp) = 4
  <2>1. Len(IndexesUp) = 4 /\ IndexesUp = [k \in 1 .. 4 |-> IndexesUp[k]]
    BY DEF IndexesUp
  <2> QED
    BY <2>1
<1>2. Len(plan) = 5 /\ plan[1] = IndexesUp[1] /\ plan[2] = IndexesUp[2]
  <2> DEFINE T == {IndexesUp[k] : k \in 1 .. 4} \cup {DoneUp(4)}
  <2>1. IndexesUp \in Seq(T) /\ DoneUp(4) \in T
    BY <1>1
  <2> HIDE DEF T
  <2>2. Len(plan) = Len(IndexesUp) + 1 /\ \A k \in 1 .. Len(IndexesUp) : plan[k] = IndexesUp[k]
    BY <2>1, AppendProperties
  <2> QED
    BY <1>1, <2>2
<1> HIDE DEF plan
<1>3. IndexesUp[1] = CreateIndex("ticket", "event_id") /\ IndexesUp[2] = CreateIndex("booking", "user_id")
  BY DEF IndexesUp
<1> QED
  BY <1>2, <1>3 DEF plan

-----------------------------------------------------------------------------
(* The statements of the down scripts                                      *)

\* What a statement of the down script of migration m leaves alone.
Spares(m, s) ==
  /\ "typeorm_migrations" \notin s.wipes \cup s.clears
  /\ \A i \in s.dels : i[1] = "typeorm_migrations" \/ i[2] = "row" => i = Done(m)
  /\ \A i \in s.adds : i[2] # "row"
  /\ m >= 2 => Fk("booking", "ticket") \notin s.dels /\ "booking" \notin s.wipes
  /\ m >= 3 => s.wipes = {} /\ s.adds = {} /\ \A i \in s.dels : i[2] \in {"row", "index"}
  /\ m = 4 => s.clears = {}

DownPlan(m) == Append(Down[m], DoneDown(m))

LEMMA DropSpares ==
  ASSUME NEW m \in 1 .. 2, NEW t, t # "typeorm_migrations", m = 2 => t # "booking", NEW refs
  PROVE  Spares(m, DropTable(t, refs))
<1>1. DropTable(t, refs).wipes = {t} /\ DropTable(t, refs).clears = {}
      /\ DropTable(t, refs).dels = {} /\ DropTable(t, refs).adds = {}
  BY DEF DropTable, Sql
<1> QED
  BY <1>1 DEF Spares

LEMMA DoneSpares ==
  ASSUME NEW m \in Migration
  PROVE  Spares(m, DoneDown(m))
<1>1. DoneDown(m).wipes = {} /\ DoneDown(m).clears = {}
      /\ DoneDown(m).dels = {Done(m)} /\ DoneDown(m).adds = {}
  BY DEF DoneDown, Sql
<1>2. Done(m)[2] = "row" /\ Done(m) # Fk("booking", "ticket")
  BY DEF Done, Row, Fk
<1> QED
  BY <1>1, <1>2 DEF Spares

LEMMA SchemaDownSpares == \A k \in 1 .. 11 : Spares(1, SchemaDown[k])
<1>1. ASSUME NEW t, t # "typeorm_migrations", NEW r PROVE Spares(1, DropFk(t, r))
  <2>1. DropFk(t, r).wipes = {} /\ DropFk(t, r).clears = {}
        /\ DropFk(t, r).dels = {Fk(t, r)} /\ DropFk(t, r).adds = {}
    BY DEF DropFk, Sql
  <2>2. Fk(t, r)[1] # "typeorm_migrations" /\ Fk(t, r)[2] # "row"
    BY <1>1 DEF Fk
  <2> QED
    BY <2>1, <2>2 DEF Spares
<1>2. ASSUME NEW k \in 1 .. 11
      PROVE  \E t \in {"booking", "user", "ticket", "event", "venue", "event_host"} :
               SchemaDown[k] = DropTable(t, {}) \/ \E r : SchemaDown[k] = DropFk(t, r)
  BY DEF SchemaDown
<1> QED
  BY <1>1, <1>2, DropSpares

LEMMA PaymentDownSpares == \A k \in 1 .. 3 : Spares(2, PaymentDown[k])
<1>1. Spares(2, PaymentDown[1])
  <2>1. PaymentDown[1] = DropTable("payment_record", {"booking"})
    BY DEF PaymentDown
  <2> QED
    BY <2>1, DropSpares
<1>2. ASSUME NEW items, \A i \in items : i[2] # "row" PROVE Spares(2, Add("booking", items))
  <2>1. Add("booking", items).wipes = {} /\ Add("booking", items).clears = {}
        /\ Add("booking", items).dels = {} /\ Add("booking", items).adds = items
    BY DEF Add, Sql
  <2> QED
    BY <1>2, <2>1 DEF Spares
<1>3. Spares(2, PaymentDown[2])
  <2>1. PaymentDown[2] = Add("booking", {Column("booking", "payment_status"),
                                         Default("booking", "payment_status")})
    BY DEF PaymentDown
  <2>2. \A i \in {Column("booking", "payment_status"), Default("booking", "payment_status")} :
          i[2] # "row"
    BY DEF Column, Default
  <2> QED
    BY <1>2, <2>1, <2>2
<1>4. Spares(2, PaymentDown[3])
  <2>1. PaymentDown[3] = Add("booking", {Check("booking", "payment_status")})
    BY DEF PaymentDown
  <2>2. \A i \in {Check("booking", "payment_status")} : i[2] # "row"
    BY DEF Check
  <2> QED
    BY <1>2, <2>1, <2>2
<1> QED
  BY <1>1, <1>3, <1>4

LEMMA SeedDownSpares ==
  \A k \in 1 .. 7 : /\ Spares(3, SeedDown[k])
                    /\ SeedDown[k].alone = {} /\ SeedDown[k].still = {} /\ SeedDown[k].dels = {}
<1>1. ASSUME NEW t, t # "typeorm_migrations"
      PROVE  /\ Spares(3, DeleteFrom(t))
             /\ DeleteFrom(t).alone = {} /\ DeleteFrom(t).still = {} /\ DeleteFrom(t).dels = {}
  <2>1. /\ DeleteFrom(t).wipes = {} /\ DeleteFrom(t).clears = {t}
        /\ DeleteFrom(t).dels = {} /\ DeleteFrom(t).adds = {}
        /\ DeleteFrom(t).alone = {} /\ DeleteFrom(t).still = {}
    BY DEF DeleteFrom, Sql
  <2> QED
    BY <1>1, <2>1 DEF Spares
<1>2. ASSUME NEW k \in 1 .. 7
      PROVE  \E t \in {"payment_record", "booking", "ticket", "event", "event_host", "venue", "user"} :
               SeedDown[k] = DeleteFrom(t)
  BY DEF SeedDown
<1> QED
  BY <1>1, <1>2

LEMMA IndexesDownSpares == \A k \in 1 .. 4 : Spares(4, IndexesDown[k])
<1>1. ASSUME NEW t, t # "typeorm_migrations", NEW c PROVE Spares(4, DropIndex(t, c))
  <2>1. DropIndex(t, c).wipes = {} /\ DropIndex(t, c).clears = {}
        /\ DropIndex(t, c).dels = {Index(t, c)} /\ DropIndex(t, c).adds = {}
    BY DEF DropIndex, Sql
  <2>2. Index(t, c)[1] # "typeorm_migrations" /\ Index(t, c)[2] = "index"
        /\ Index(t, c) # Fk("booking", "ticket")
    BY <1>1 DEF Index, Fk
  <2> QED
    BY <2>1, <2>2 DEF Spares
<1>2. ASSUME NEW k \in 1 .. 4
      PROVE  \E t \in {"payment_record", "booking", "ticket"} : \E c : IndexesDown[k] = DropIndex(t, c)
  BY DEF IndexesDown
<1> QED
  BY <1>1, <1>2

DownStatements == {SchemaDown[k] : k \in 1 .. 11} \cup {PaymentDown[k] : k \in 1 .. 3}
                  \cup {SeedDown[k] : k \in 1 .. 7} \cup {IndexesDown[k] : k \in 1 .. 4}
                  \cup {DoneDown(m) : m \in Migration}

LEMMA DownScripts ==
  /\ \A m \in Migration : Down[m] \in Seq(DownStatements)
  /\ Down[1] = SchemaDown /\ Down[2] = PaymentDown /\ Down[3] = SeedDown /\ Down[4] = IndexesDown
  /\ Len(Down[1]) = 11 /\ Len(Down[2]) = 3 /\ Len(Down[3]) = 7 /\ Len(Down[4]) = 4
<1>1. SchemaDown \in Seq(DownStatements) /\ Len(SchemaDown) = 11
  <2>1. \A k \in 1 .. 11 : SchemaDown[k] \in DownStatements
    BY DEF DownStatements
  <2>2. Len(SchemaDown) = 11 /\ SchemaDown = [k \in 1 .. 11 |-> SchemaDown[k]]
    BY DEF SchemaDown
  <2> QED
    BY <2>1, <2>2
<1>2. PaymentDown \in Seq(DownStatements) /\ Len(PaymentDown) = 3
  <2>1. \A k \in 1 .. 3 : PaymentDown[k] \in DownStatements
    BY DEF DownStatements
  <2>2. Len(PaymentDown) = 3 /\ PaymentDown = [k \in 1 .. 3 |-> PaymentDown[k]]
    BY DEF PaymentDown
  <2> QED
    BY <2>1, <2>2
<1>3. SeedDown \in Seq(DownStatements) /\ Len(SeedDown) = 7
  <2>1. \A k \in 1 .. 7 : SeedDown[k] \in DownStatements
    BY DEF DownStatements
  <2>2. Len(SeedDown) = 7 /\ SeedDown = [k \in 1 .. 7 |-> SeedDown[k]]
    BY DEF SeedDown
  <2> QED
    BY <2>1, <2>2
<1>4. IndexesDown \in Seq(DownStatements) /\ Len(IndexesDown) = 4
  <2>1. \A k \in 1 .. 4 : IndexesDown[k] \in DownStatements
    BY DEF DownStatements
  <2>2. Len(IndexesDown) = 4 /\ IndexesDown = [k \in 1 .. 4 |-> IndexesDown[k]]
    BY DEF IndexesDown
  <2> QED
    BY <2>1, <2>2
<1>5. Down[1] = SchemaDown /\ Down[2] = PaymentDown /\ Down[3] = SeedDown /\ Down[4] = IndexesDown
  BY DEF Down
<1>6. \A m \in Migration : m = 1 \/ m = 2 \/ m = 3 \/ m = 4
  BY DEF Migration
<1> QED
  BY <1>1, <1>2, <1>3, <1>4, <1>5, <1>6

\* What migration:revert does.
LEMMA DownPlans ==
  /\ \A m \in Migration :
       /\ Len(DownPlan(m)) \in Nat \ {0} /\ DownPlan(m)[Len(DownPlan(m))] = DoneDown(m)
       /\ \A k \in 1 .. Len(DownPlan(m)) : Spares(m, DownPlan(m)[k])
  /\ Len(DownPlan(3)) = 8
  /\ DownPlan(3)[1] = DeleteFrom("payment_record") /\ DownPlan(3)[2] = DeleteFrom("booking")
  /\ DownPlan(3)[3] = DeleteFrom("ticket")
  /\ \A k \in 1 .. 8 : DownPlan(3)[k].alone = {} /\ DownPlan(3)[k].still = {}
  /\ \A k \in 1 .. Len(DownPlan(4)) :
       DownPlan(4)[k] \in ToSet(IndexesDown) \/ DownPlan(4)[k] = DoneDown(4)
<1>1. ASSUME NEW m \in Migration
      PROVE  /\ Len(DownPlan(m)) = Len(Down[m]) + 1 /\ DownPlan(m)[Len(Down[m]) + 1] = DoneDown(m)
             /\ \A k \in 1 .. Len(Down[m]) : DownPlan(m)[k] = Down[m][k]
  <2>1. Down[m] \in Seq(DownStatements) /\ DoneDown(m) \in DownStatements
    BY DownScripts DEF DownStatements
  <2> QED
    BY <2>1, AppendProperties DEF DownPlan
<1>2. Down[1] = SchemaDown /\ Len(Down[1]) = 11 /\ Down[2] = PaymentDown /\ Len(Down[2]) = 3
  BY DownScripts
<1>3. Down[3] = SeedDown /\ Len(Down[3]) = 7 /\ Down[4] = IndexesDown /\ Len(Down[4]) = 4
  BY DownScripts
<1>4. 1 \in Migration /\ 2 \in Migration /\ 3 \in Migration /\ 4 \in Migration
  BY DEF Migration
<1>5. /\ Len(DownPlan(1)) = 12 /\ DownPlan(1)[12] = DoneDown(1)
      /\ \A k \in 1 .. 11 : DownPlan(1)[k] = SchemaDown[k]
  <2>1. /\ Len(DownPlan(1)) = Len(Down[1]) + 1
        /\ DownPlan(1)[Len(Down[1]) + 1] = DoneDown(1)
        /\ \A k \in 1 .. Len(Down[1]) : DownPlan(1)[k] = Down[1][k]
    BY <1>1, <1>4, Zenon
  <2>2. 11 + 1 = 12
    OBVIOUS
  <2> QED
    BY <1>2, <2>1, <2>2, Zenon
<1>6. /\ Len(DownPlan(2)) = 4 /\ DownPlan(2)[4] = DoneDown(2)
      /\ \A k \in 1 .. 3 : DownPlan(2)[k] = PaymentDown[k]
  <2>1. /\ Len(DownPlan(2)) = Len(Down[2]) + 1
        /\ DownPlan(2)[Len(Down[2]) + 1] = DoneDown(2)
        /\ \A k \in 1 .. Len(Down[2]) : DownPlan(2)[k] = Down[2][k]
    BY <1>1, <1>4, Zenon
  <2>2. 3 + 1 = 4
    OBVIOUS
  <2> QED
    BY <1>2, <2>1, <2>2, Zenon
<1>7. /\ Len(DownPlan(3)) = 8 /\ DownPlan(3)[8] = DoneDown(3)
      /\ \A k \in 1 .. 7 : DownPlan(3)[k] = SeedDown[k]
  <2>1. /\ Len(DownPlan(3)) = Len(Down[3]) + 1
        /\ DownPlan(3)[Len(Down[3]) + 1] = DoneDown(3)
        /\ \A k \in 1 .. Len(Down[3]) : DownPlan(3)[k] = Down[3][k]
    BY <1>1, <1>4, Zenon
  <2>2. 7 + 1 = 8
    OBVIOUS
  <2> QED
    BY <1>3, <2>1, <2>2, Zenon
<1>8. /\ Len(DownPlan(4)) = 5 /\ DownPlan(4)[5] = DoneDown(4)
      /\ \A k \in 1 .. 4 : DownPlan(4)[k] = IndexesDown[k]
  <2>1. /\ Len(DownPlan(4)) = Len(Down[4]) + 1
        /\ DownPlan(4)[Len(Down[4]) + 1] = DoneDown(4)
        /\ \A k \in 1 .. Len(Down[4]) : DownPlan(4)[k] = Down[4][k]
    BY <1>1, <1>4, Zenon
  <2>2. 4 + 1 = 5
    OBVIOUS
  <2> QED
    BY <1>3, <2>1, <2>2, Zenon
<1>9. \A k \in 1 .. 12 : Spares(1, DownPlan(1)[k])
  <2>1. \A k \in 1 .. 12 : k = 12 \/ k \in 1 .. 11
    OBVIOUS
  <2> QED
    BY <1>4, <1>5, <2>1, SchemaDownSpares, DoneSpares
<1>10. \A k \in 1 .. 4 : Spares(2, DownPlan(2)[k])
  <2>1. \A k \in 1 .. 4 : k = 4 \/ k \in 1 .. 3
    OBVIOUS
  <2> QED
    BY <1>4, <1>6, <2>1, PaymentDownSpares, DoneSpares
<1>11. \A k \in 1 .. 8 : k = 8 \/ k \in 1 .. 7
  OBVIOUS
<1>12. \A k \in 1 .. 8 : Spares(3, DownPlan(3)[k])
  BY <1>4, <1>7, <1>11, SeedDownSpares, DoneSpares
<1>13. \A k \in 1 .. 8 : DownPlan(3)[k].alone = {} /\ DownPlan(3)[k].still = {}
  <2>1. DoneDown(3).alone = {} /\ DoneDown(3).still = {}
    BY DEF DoneDown, Sql
  <2> QED
    BY <1>7, <1>11, <2>1, SeedDownSpares
<1>14. \A k \in 1 .. 5 : k = 5 \/ k \in 1 .. 4
  OBVIOUS
<1>15. \A k \in 1 .. 5 : Spares(4, DownPlan(4)[k])
  BY <1>4, <1>8, <1>14, IndexesDownSpares, DoneSpares
<1>16. \A k \in 1 .. 4 : IndexesDown[k] \in ToSet(IndexesDown)
  <2>1. DOMAIN IndexesDown = 1 .. 4
    BY <1>3
  <2> QED
    BY <2>1 DEF ToSet
<1>17. \A k \in 1 .. 5 : DownPlan(4)[k] \in ToSet(IndexesDown) \/ DownPlan(4)[k] = DoneDown(4)
  BY <1>8, <1>14, <1>16
<1>18. /\ SeedDown[1] = DeleteFrom("payment_record") /\ SeedDown[2] = DeleteFrom("booking")
       /\ SeedDown[3] = DeleteFrom("ticket")
  BY DEF SeedDown
<1>19. /\ DownPlan(3)[1] = SeedDown[1] /\ DownPlan(3)[2] = SeedDown[2] /\ DownPlan(3)[3] = SeedDown[3]
  BY <1>7
<1>20. \A m \in Migration : m = 1 \/ m = 2 \/ m = 3 \/ m = 4
  BY DEF Migration
<1>21. /\ \A m \in Migration :
            /\ Len(DownPlan(m)) \in Nat \ {0} /\ DownPlan(m)[Len(DownPlan(m))] = DoneDown(m)
            /\ \A k \in 1 .. Len(DownPlan(m)) : Spares(m, DownPlan(m)[k])
  <2> SUFFICES ASSUME NEW m \in Migration
               PROVE  /\ Len(DownPlan(m)) \in Nat \ {0} /\ DownPlan(m)[Len(DownPlan(m))] = DoneDown(m)
                      /\ \A k \in 1 .. Len(DownPlan(m)) : Spares(m, DownPlan(m)[k])
    OBVIOUS
  <2>0. 12 \in Nat \ {0} /\ 4 \in Nat \ {0} /\ 8 \in Nat \ {0} /\ 5 \in Nat \ {0}
    OBVIOUS
  <2>1. CASE m = 1
    BY <1>5, <1>9, <2>0, <2>1, Zenon
  <2>2. CASE m = 2
    BY <1>6, <1>10, <2>0, <2>2, Zenon
  <2>3. CASE m = 3
    BY <1>7, <1>12, <2>0, <2>3, Zenon
  <2>4. CASE m = 4
    BY <1>8, <1>15, <2>0, <2>4, Zenon
  <2> QED
    BY <1>20, <2>1, <2>2, <2>3, <2>4
<1> QED
  BY <1>7, <1>8, <1>13, <1>17, <1>18, <1>19, <1>21, Zenon

-----------------------------------------------------------------------------
(* The invariant                                                           *)

SaleStates == {"idle", "inserted", "charged", "recorded", "booked", "refused", "lost"}

\* Migrations are applied from the first one on.
AppliedFirst == \A m \in Applied : \A n \in Migration : n < m => n \in Applied

\* What the applied ones have made is there.
Constraints ==
  /\ 1 \in Applied => Fk("booking", "ticket") \in db
  /\ 2 \in Applied => Fk("payment_record", "booking") \in db /\ Table("payment_record") \in db

\* No ticket, booking or sale under way without the seed.
SeedInv ==
  RowsOf("ticket", db) # {} \/ RowsOf("booking", db) # {} \/ Selling # {} => Seeded \in Applied

\* The rows of a sale are of one that was committed, and it has both.
SalesInv ==
  /\ sale \in [Sales -> SaleStates]
  /\ \A t \in SaleTables : \A i \in RowsOf(t, db) :
       /\ i = Row(t, i[3]) /\ i[3] \in Sales /\ sale[i[3]] = "booked"
       /\ \A u \in SaleTables : Row(u, i[3]) \in db

\* A run of pending migrations has added what its statements add, and no sale is
\* under way when it has locked the bookings.
UpInv ==
  /\ Applied # Migration /\ run.plan = UpPlan
  /\ \A i \in run.dels : i[2] \notin Lasting
  /\ \A i \in run.adds : i[2] = "row" => i[1] \notin SaleTables
  /\ \A k \in 1 .. run.done : \A i \in run.plan[k].adds : i[2] \in Lasting => i \in run.adds
  /\ Seeded \in Applied /\ run.done >= 2 => Selling = {}

\* A revert of the seed: behind the bookings only whole sales are seen, behind the
\* tickets none, and none is under way.
SeedDownInv ==
  /\ run.adds = {}
  /\ \A t \in SaleTables : \A i \in RowsOf(t, run.dels) : i \in db
  /\ run.done >= 2 =>
       \A s \in Sales : Row("booking", s) \in View <=> Row("payment_record", s) \in View
  /\ run.done >= 3 => /\ \A t \in {"ticket"} \cup SaleTables : RowsOf(t, View) = {}
                      /\ Selling = {}

DownInv ==
  /\ Applied # {} /\ run.plan = DownPlan(Latest)
  /\ \A i \in run.adds : i[2] # "row"
  /\ \A i \in run.dels : i[1] = "typeorm_migrations" => i = Done(Latest)
  /\ Latest >= 2 => Fk("booking", "ticket") \notin run.dels
  /\ Latest >= 3 => \A i \in run.dels : i[2] \in {"row", "index"}
  /\ Latest = 4 => \A i \in run.dels : i[2] = "row" => i = Done(4)
  /\ Latest = 3 => SeedDownInv
  /\ run.done = Len(run.plan) => Done(Latest) \in run.dels

RunTypeOK ==
  /\ run = [plan |-> run.plan, done |-> run.done, adds |-> run.adds, dels |-> run.dels]
  /\ run.done \in 0 .. Len(run.plan)

RunInv == run # None => RunTypeOK /\ (UpInv \/ DownInv)

Inv == AppliedFirst /\ Constraints /\ SeedInv /\ SalesInv /\ RunInv

\* The last applied migration is the one that is reverted.
LEMMA LatestIsLast ==
  ASSUME Applied # {}
  PROVE  Latest \in Applied /\ Latest \in Migration /\ \A n \in Applied : n <= Latest
<1>1. \E m \in Applied : \A n \in Applied : n <= m
  <2>1. \A m \in Applied : m \in 1 .. 4
    BY DEF Applied, Migration
  <2>2. PICK m \in Applied : TRUE
    OBVIOUS
  <2>3. CASE 4 \in Applied
    BY <2>1, <2>3
  <2>4. CASE 4 \notin Applied /\ 3 \in Applied
    BY <2>1, <2>4
  <2>5. CASE 4 \notin Applied /\ 3 \notin Applied /\ 2 \in Applied
    BY <2>1, <2>5
  <2>6. CASE 4 \notin Applied /\ 3 \notin Applied /\ 2 \notin Applied
    BY <2>1, <2>2, <2>6
  <2> QED
    BY <2>3, <2>4, <2>5, <2>6
<1> QED
  BY <1>1 DEF Latest, Applied

LEMMA InvInit == Init => Inv
<1> SUFFICES ASSUME Init PROVE Inv
  OBVIOUS
<1>1. db = {} /\ Applied = {} /\ run = None /\ sale = [s \in Sales |-> "idle"]
  BY DEF Init, Applied
<1>2. Selling = {} /\ \A t : RowsOf(t, db) = {}
  BY <1>1 DEF Selling, RowsOf
<1>3. SalesInv
  BY <1>1, <1>2 DEF SalesInv, SaleStates
<1> QED
  BY <1>1, <1>2, <1>3 DEF Inv, AppliedFirst, Constraints, SeedInv, RunInv

\* What the scripts of the plan leave alone, as long as it is under way.
LEMMA PlanStatements ==
  ASSUME Inv, Unfinished
  PROVE  /\ RunTypeOK /\ run.done \in Nat /\ run.done + 1 \in 1 .. Len(run.plan)
         /\ Statement = run.plan[run.done + 1]
         /\ UpInv => Harmless(Statement)
         /\ DownInv => /\ Latest \in Migration /\ Spares(Latest, Statement)
                       /\ run.done + 1 = Len(run.plan) => Statement = DoneDown(Latest)
<1>1. RunTypeOK /\ run.done < Len(run.plan)
  BY DEF Inv, RunInv, Unfinished
<1>2. UpInv => run.plan \in Seq(UpStatements)
  BY UpPlanFacts DEF UpInv
<1>3. DownInv => Latest \in Migration
  BY LatestIsLast DEF DownInv
<1>4. DownInv => /\ Len(run.plan) \in Nat
                 /\ run.plan[Len(run.plan)] = DoneDown(Latest)
                 /\ \A k \in 1 .. Len(run.plan) : Spares(Latest, run.plan[k])
  BY <1>3, DownPlans DEF DownInv
<1>5. UpInv \/ DownInv
  BY DEF Inv, RunInv, Unfinished
<1>6. Len(run.plan) \in Nat
  BY <1>2, <1>4, <1>5
<1>7. run.done \in Nat /\ run.done + 1 \in 1 .. Len(run.plan)
  BY <1>1, <1>6 DEF RunTypeOK
<1>8. UpInv => Harmless(run.plan[run.done + 1])
  BY <1>2, <1>7, UpHarmless
<1> QED
  BY <1>1, <1>3, <1>4, <1>7, <1>8 DEF Statement

\* What one statement does to the transaction's changes and to what it sees.
LEMMA StepEffect ==
  ASSUME Inv, Step
  PROVE  /\ db' = db /\ sale' = sale
         /\ run' = [plan |-> run.plan, done |-> run.done + 1,
                    adds |-> (run.adds \ Gone(View, Statement)) \cup Statement.adds,
                    dels |-> (run.dels \cup Gone(View, Statement)) \ Statement.adds]
         /\ View' = Result(View, Statement)
<1>1. run = [plan |-> run.plan, done |-> run.done, adds |-> run.adds, dels |-> run.dels]
  BY PlanStatements DEF Step, RunTypeOK
<1>2. run' = [plan |-> run.plan, done |-> run.done + 1,
              adds |-> (run.adds \ Gone(View, Statement)) \cup Statement.adds,
              dels |-> (run.dels \cup Gone(View, Statement)) \ Statement.adds]
  BY <1>1 DEF Step
<1>3. db' = db /\ sale' = sale
  BY DEF Step
<1>4. View' = (db \ ((run.dels \cup Gone(View, Statement)) \ Statement.adds))
              \cup ((run.adds \ Gone(View, Statement)) \cup Statement.adds)
  BY <1>2, <1>3 DEF View
<1>5. View' = Result(View, Statement)
  BY <1>4 DEF Result, View
<1> QED
  BY <1>2, <1>3, <1>5

\* What depends on the migrations that are applied.
LEMMA SamePlans ==
  ASSUME Applied' = Applied
  PROVE  UpPlan' = UpPlan /\ Latest' = Latest
<1>1. Pending' = Pending
  BY DEF Pending
<1>2. UpPlan' = UpPlan
  BY <1>1 DEF UpPlan
<1>3. Latest' = Latest
  BY DEF Latest
<1> QED
  BY <1>2, <1>3

\* Once the seed is there, nothing but the indexes is pending.
LEMMA IndexesRun ==
  ASSUME AppliedFirst, Applied # Migration, Seeded \in Applied
  PROVE  UpPlan[1] = CreateIndex("ticket", "event_id") /\ UpPlan[2] = CreateIndex("booking", "user_id")
<1>1. 1 \in Applied /\ 2 \in Applied /\ 3 \in Applied
  BY DEF AppliedFirst, Seeded, Migration
<1>2. 4 \notin Applied
  <2>1. Applied \subseteq 1 .. 4
    BY DEF Applied, Migration
  <2>2. \A m \in 1 .. 4 : m = 1 \/ m = 2 \/ m = 3 \/ m = 4
    OBVIOUS
  <2> QED
    BY <1>1, <2>1, <2>2 DEF Migration
<1>3. UpPlan = Append(IndexesUp, DoneUp(4))
  BY <1>1, <1>2, UpPlanFacts
<1> QED
  BY <1>3, IndexesPlan, Zenon

\* A step of a run of pending migrations.
LEMMA UpStep ==
  ASSUME Inv, Step, UpInv
  PROVE  RunTypeOK' /\ UpInv'
<1> DEFINE st == Statement
<1>1. /\ db' = db /\ sale' = sale
      /\ run' = [plan |-> run.plan, done |-> run.done + 1,
                 adds |-> (run.adds \ Gone(View, st)) \cup st.adds,
                 dels |-> (run.dels \cup Gone(View, st)) \ st.adds]
  BY StepEffect
<1>2. /\ RunTypeOK /\ run.done \in Nat /\ run.done + 1 \in 1 .. Len(run.plan)
      /\ st = run.plan[run.done + 1] /\ Harmless(st) /\ ~ Waits(st)
  BY PlanStatements DEF Step
<1> HIDE DEF st
<1>3. Applied' = Applied /\ Selling' = Selling
  BY <1>1 DEF Applied, Selling
<1>4. Gone(View, st) = st.dels
  BY <1>2 DEF Gone, Harmless
<1>5. /\ run'.plan = run.plan /\ run'.done = run.done + 1
      /\ run'.adds = (run.adds \ st.dels) \cup st.adds
      /\ run'.dels = (run.dels \cup st.dels) \ st.adds
  BY <1>1, <1>4
<1>6. RunTypeOK'
  <2>1. run' = [plan |-> run'.plan, done |-> run'.done, adds |-> run'.adds, dels |-> run'.dels]
    BY <1>1
  <2>2. run'.done \in 0 .. Len(run'.plan)
    BY <1>2, <1>5
  <2> QED
    BY <2>1, <2>2 DEF RunTypeOK
<1>7. Applied' # Migration /\ run'.plan = UpPlan'
  BY <1>3, <1>5, SamePlans DEF UpInv
<1>8. /\ \A i \in run'.dels : i[2] \notin Lasting
      /\ \A i \in run'.adds : i[2] = "row" => i[1] \notin SaleTables
  BY <1>2, <1>5 DEF UpInv, Harmless
<1>9. ASSUME NEW k \in 1 .. run'.done, NEW i \in run'.plan[k].adds, i[2] \in Lasting
      PROVE  i \in run'.adds
  <2>1. k \in 1 .. run.done \/ k = run.done + 1
    BY <1>2, <1>5
  <2>2. CASE k = run.done + 1
    BY <1>2, <1>5, <1>9, <2>2
  <2>3. CASE k \in 1 .. run.done
    <3>1. i \in run.adds
      BY <1>5, <1>9, <2>3 DEF UpInv
    <3>2. i \notin st.dels
      BY <1>2, <1>9 DEF Harmless
    <3> QED
      BY <1>5, <3>1, <3>2
  <2> QED
    BY <2>1, <2>2, <2>3
<1>10. ASSUME Seeded \in Applied, run'.done >= 2
       PROVE  Selling = {}
  <2>1. CASE run.done >= 2
    BY <1>10, <2>1 DEF UpInv
  <2>2. CASE ~ run.done >= 2
    <3>1. run.done = 1
      BY <1>2, <1>5, <1>10, <2>2
    <3>2. run.plan[2] = CreateIndex("booking", "user_id")
      BY <1>10, IndexesRun DEF UpInv, Inv
    <3>3. st = CreateIndex("booking", "user_id")
      BY <1>2, <3>1, <3>2
    <3>4. "booking" \in st.still
      BY <3>3 DEF CreateIndex, Sql
    <3> QED
      BY <1>2, <3>4 DEF Waits, Writing
  <2> QED
    BY <2>1, <2>2
<1> QED
  BY <1>3, <1>6, <1>7, <1>8, <1>9, <1>10 DEF UpInv

\* The sale of a row of booking or payment_record has both, and is booked.
LEMMA SaleRow ==
  ASSUME SalesInv, NEW t \in SaleTables, NEW i \in RowsOf(t, db)
  PROVE  /\ i = Row(t, i[3]) /\ i[3] \in Sales /\ sale[i[3]] = "booked"
         /\ Row("booking", i[3]) \in db /\ Row("payment_record", i[3]) \in db
  BY DEF SalesInv, SaleTables

\* A step of the revert of the seed.
LEMMA SeedDownStep ==
  ASSUME Inv, Step, DownInv, Latest = 3
  PROVE  SeedDownInv'
<1> DEFINE st == Statement
           gone == Gone(View, st)
<1>1. /\ db' = db /\ sale' = sale
      /\ run'.done = run.done + 1
      /\ run'.adds = (run.adds \ gone) \cup st.adds
      /\ run'.dels = (run.dels \cup gone) \ st.adds
      /\ View' = Result(View, st)
  BY StepEffect
<1>2. /\ run.done \in Nat /\ run.done + 1 \in 1 .. Len(run.plan)
      /\ st = run.plan[run.done + 1] /\ Spares(3, st) /\ ~ Waits(st) /\ Works(st, View)
  BY PlanStatements DEF Step
<1> HIDE DEF st
<1>3. st.adds = {} /\ st.wipes = {} /\ \A i \in st.dels : i[2] = "row" => i = Done(3)
  BY <1>2 DEF Spares
<1>4. SeedDownInv
  BY DEF DownInv
<1>5. View = db \ run.dels
  BY <1>4 DEF SeedDownInv, View
<1>6. gone = st.dels \cup UNION {RowsOf(t, View) : t \in st.clears}
  BY <1>3 DEF Gone
<1>7. View' = View \ gone
  BY <1>1, <1>3 DEF Result
<1>8. run'.adds = {}
  BY <1>1, <1>3, <1>4 DEF SeedDownInv
<1>9. run'.dels = run.dels \cup gone
  BY <1>1, <1>3
<1>10. ASSUME NEW t \in SaleTables, NEW i \in gone, i[1] = t, i[2] = "row"
       PROVE  i \in View
  <2>1. Done(3)[1] # t
    BY DEF Done, Row, SaleTables
  <2>2. i \notin st.dels
    BY <1>3, <1>10, <2>1
  <2> QED
    BY <1>6, <1>10, <2>2 DEF RowsOf
<1> HIDE DEF gone
<1>11. ASSUME NEW t \in SaleTables, NEW i \in RowsOf(t, run'.dels)
       PROVE  i \in db'
  BY <1>1, <1>4, <1>5, <1>9, <1>10, <1>11 DEF SeedDownInv, RowsOf
<1>12. \A t, c : st = DeleteFrom(t) => st.clears = {t} /\ st.dels = {}
  BY DEF DeleteFrom, Sql
<1>13. Selling' = Selling
  BY <1>1 DEF Selling
<1>14. run.plan = DownPlan(3)
  BY DEF DownInv
<1>15. Fk("payment_record", "booking") \in View /\ Fk("booking", "ticket") \in View
  <2>1. 1 \in Applied /\ 2 \in Applied
    <3>1. 3 \in Applied
      BY LatestIsLast DEF DownInv
    <3> QED
      BY <3>1 DEF Inv, AppliedFirst, Migration
  <2>2. Fk("payment_record", "booking") \in db /\ Fk("booking", "ticket") \in db
    BY <2>1 DEF Inv, Constraints
  <2>3. \A i \in run.dels : i[2] # "fk"
    BY DEF DownInv
  <2>4. \A t, r : Fk(t, r)[2] = "fk"
    BY DEF Fk
  <2> QED
    BY <1>5, <2>2, <2>3, <2>4
<1>16. \A t, r : st = DeleteFrom(r) /\ Fk(t, r) \in View => RowsOf(t, View) = {}
  <2> SUFFICES ASSUME NEW t, NEW r, st = DeleteFrom(r), Fk(t, r) \in View
               PROVE  RowsOf(t, View) = {}
    OBVIOUS
  <2>1. r \in st.clears
    BY <1>12
  <2>2. Fk(t, r)[1] = t /\ Fk(t, r)[2] = "fk" /\ Fk(t, r)[3] = r
    BY DEF Fk
  <2>3. t \in Children(r, View)
    BY <2>2 DEF Children
  <2> QED
    BY <1>2, <2>1, <2>3 DEF Works
<1>17. \A r : st = DeleteFrom(r) => RowsOf(r, View') = {}
  <2> SUFFICES ASSUME NEW r, st = DeleteFrom(r) PROVE RowsOf(r, View') = {}
    OBVIOUS
  <2>1. RowsOf(r, View) \subseteq gone
    BY <1>6, <1>12
  <2> QED
    BY <1>7, <2>1 DEF RowsOf
<1>18. \A t : RowsOf(t, View') \subseteq RowsOf(t, View)
  BY <1>7 DEF RowsOf
<1>19. ASSUME run'.done >= 3
       PROVE  Selling = {} /\ \A t \in {"ticket"} \cup SaleTables : RowsOf(t, View') = {}
  <2>1. CASE run.done >= 3
    <3>1. Selling = {} /\ \A t \in {"ticket"} \cup SaleTables : RowsOf(t, View) = {}
      BY <1>4, <2>1 DEF SeedDownInv
    <3> QED
      BY <1>18, <3>1
  <2>2. CASE ~ run.done >= 3
    <3>1. run.done = 2
      BY <1>1, <1>2, <1>19, <2>2
    <3>2. st = DeleteFrom("ticket")
      BY <1>2, <1>14, <3>1, DownPlans
    <3>3. RowsOf("booking", View) = {} /\ RowsOf("ticket", View') = {}
      BY <1>15, <1>16, <1>17, <3>2
    <3>4. RowsOf("payment_record", View) = {}
      <4> SUFFICES ASSUME NEW i \in RowsOf("payment_record", View) PROVE FALSE
        OBVIOUS
      <4>1. i \in RowsOf("payment_record", db) /\ i \in View
        BY <1>5 DEF RowsOf
      <4>2. i = Row("payment_record", i[3]) /\ i[3] \in Sales
        BY <4>1, SaleRow DEF Inv, SaleTables
      <4>3. Row("payment_record", i[3]) \in View
        BY <4>1, <4>2
      <4>4. Row("booking", i[3]) \in View
        BY <1>4, <3>1, <4>2, <4>3 DEF SeedDownInv
      <4> QED
        BY <3>3, <4>4 DEF RowsOf, Row
    <3>5. Selling = {}
      BY <1>2, <1>12, <3>2 DEF Waits, Reading
    <3> QED
      BY <1>18, <3>3, <3>4, <3>5 DEF SaleTables
  <2> QED
    BY <2>1, <2>2
<1>20. ASSUME run'.done >= 2, NEW s \in Sales
       PROVE  Row("booking", s) \in View' <=> Row("payment_record", s) \in View'
  <2>1. \A t : Row(t, s) \in View' => Row(t, s) \in RowsOf(t, View')
    BY DEF Row, RowsOf
  <2>2. CASE run'.done >= 3
    BY <1>19, <2>1, <2>2 DEF SaleTables
  <2>3. CASE ~ run'.done >= 3
    <3>1. run.done = 1
      BY <1>1, <1>2, <1>20, <2>3
    <3>2. st = DeleteFrom("booking")
      BY <1>2, <1>14, <3>1, DownPlans
    <3>3. RowsOf("payment_record", View') = {} /\ RowsOf("booking", View') = {}
      BY <1>15, <1>16, <1>17, <1>18, <3>2
    <3> QED
      BY <2>1, <3>3
  <2> QED
    BY <2>2, <2>3
<1> QED
  BY <1>8, <1>11, <1>13, <1>19, <1>20 DEF SeedDownInv

\* A step of a revert.
LEMMA DownStep ==
  ASSUME Inv, Step, DownInv
  PROVE  RunTypeOK' /\ DownInv'
<1> DEFINE st == Statement
           gone == Gone(View, st)
<1>1. /\ db' = db /\ sale' = sale
      /\ run' = [plan |-> run.plan, done |-> run.done + 1,
                 adds |-> (run.adds \ gone) \cup st.adds,
                 dels |-> (run.dels \cup gone) \ st.adds]
  BY StepEffect
<1>2. /\ RunTypeOK /\ run.done \in Nat /\ run.done + 1 \in 1 .. Len(run.plan)
      /\ Latest \in Migration /\ Spares(Latest, st)
      /\ run.done + 1 = Len(run.plan) => st = DoneDown(Latest)
  BY PlanStatements DEF Step
<1> HIDE DEF st
<1>3. Applied' = Applied /\ Latest' = Latest
  <2>1. Applied' = Applied
    BY <1>1 DEF Applied
  <2> QED
    BY <2>1, SamePlans
<1>4. \A i \in gone : \/ i \in st.dels
                      \/ i[1] \in st.wipes
                      \/ i[1] \in st.clears /\ i[2] = "row"
  BY DEF Gone, RowsOf
<1>5. st.dels \subseteq gone
  BY DEF Gone
<1> HIDE DEF gone
<1>6. /\ run'.plan = run.plan /\ run'.done = run.done + 1
      /\ run'.adds = (run.adds \ gone) \cup st.adds
      /\ run'.dels = (run.dels \cup gone) \ st.adds
  BY <1>1
<1>7. RunTypeOK'
  <2>1. run' = [plan |-> run'.plan, done |-> run'.done, adds |-> run'.adds, dels |-> run'.dels]
    BY <1>1
  <2>2. run'.done \in 0 .. Len(run'.plan)
    BY <1>2, <1>6
  <2> QED
    BY <2>1, <2>2 DEF RunTypeOK
<1>8. Applied' # {} /\ run'.plan = DownPlan(Latest')
  BY <1>3, <1>6 DEF DownInv
<1>9. \A i \in run'.adds : i[2] # "row"
  BY <1>2, <1>6 DEF DownInv, Spares
<1>10. \A i \in run'.dels : i[1] = "typeorm_migrations" => i = Done(Latest)
  BY <1>2, <1>4, <1>6 DEF DownInv, Spares
<1>11. Latest >= 2 => Fk("booking", "ticket") \notin run'.dels
  <2>1. Fk("booking", "ticket")[1] = "booking" /\ Fk("booking", "ticket")[2] = "fk"
    BY DEF Fk
  <2> QED
    BY <1>2, <1>4, <1>6, <2>1 DEF DownInv, Spares
<1>12. Latest >= 3 => \A i \in run'.dels : i[2] \in {"row", "index"}
  BY <1>2, <1>4, <1>6 DEF DownInv, Spares
<1>13. Latest = 4 => \A i \in run'.dels : i[2] = "row" => i = Done(4)
  BY <1>2, <1>4, <1>6 DEF DownInv, Spares
<1>14. Latest = 3 => SeedDownInv'
  BY SeedDownStep
<1>15. run'.done = Len(run'.plan) => Done(Latest) \in run'.dels
  <2> SUFFICES ASSUME run'.done = Len(run'.plan) PROVE Done(Latest) \in run'.dels
    OBVIOUS
  <2>1. st.dels = {Done(Latest)} /\ st.adds = {}
    BY <1>2, <1>6 DEF DoneDown, Sql
  <2> QED
    BY <1>5, <1>6, <2>1
<1> QED
  BY <1>3, <1>7, <1>8, <1>9, <1>10, <1>11, <1>12, <1>13, <1>14, <1>15 DEF DownInv

\* What does not look at TypeORM's transaction.
LEMMA SameData ==
  ASSUME db' = db, sale' = sale, AppliedFirst, Constraints, SeedInv, SalesInv
  PROVE  AppliedFirst' /\ Constraints' /\ SeedInv' /\ SalesInv'
<1>1. Applied' = Applied /\ Selling' = Selling
  BY DEF Applied, Selling
<1>2. AppliedFirst'
  BY <1>1 DEF AppliedFirst
<1>3. Constraints'
  BY <1>1 DEF Constraints
<1>4. SeedInv'
  BY <1>1 DEF SeedInv
<1>5. SalesInv'
  BY DEF SalesInv
<1> QED
  BY <1>2, <1>3, <1>4, <1>5

LEMMA StepKeeps == Inv /\ Step => Inv'
<1> SUFFICES ASSUME Inv, Step PROVE Inv'
  OBVIOUS
<1>1. db' = db /\ sale' = sale
  BY DEF Step
<1>2. run # None /\ (UpInv \/ DownInv)
  BY DEF Step, Unfinished, Inv, RunInv
<1>3. RunInv'
  BY <1>2, UpStep, DownStep DEF RunInv
<1>4. AppliedFirst' /\ Constraints' /\ SeedInv' /\ SalesInv'
  BY <1>1, SameData DEF Inv
<1> QED
  BY <1>3, <1>4 DEF Inv

\* A transaction that ends without effect.
LEMMA RollbackKeeps == Inv /\ Rollback => Inv'
<1> SUFFICES ASSUME Inv, Rollback PROVE Inv'
  OBVIOUS
<1>1. db' = db /\ sale' = sale /\ run' = None
  BY DEF Rollback
<1>2. RunInv'
  BY <1>1 DEF RunInv
<1> QED
  BY <1>1, <1>2, SameData DEF Inv

LEMMA BeginUpKeeps == Inv /\ Run => Inv'
<1> SUFFICES ASSUME Inv, Run PROVE Inv'
  OBVIOUS
<1>1. /\ db' = db /\ sale' = sale /\ Applied # Migration
      /\ run' = [plan |-> UpPlan, done |-> 0, adds |-> {}, dels |-> {}]
  BY DEF Run, Begin, UpPlan, Pending, DoneUp
<1>2. UpPlan \in Seq(UpStatements)
  BY UpPlanFacts
<1> HIDE DEF UpPlan
<1>3. Applied' = Applied
  BY <1>1 DEF Applied
<1>4. UpPlan' = UpPlan
  BY <1>3, SamePlans
<1>5. run'.plan = UpPlan /\ run'.done = 0 /\ run'.adds = {} /\ run'.dels = {}
  BY <1>1
<1>6. RunTypeOK'
  <2>1. run' = [plan |-> run'.plan, done |-> run'.done, adds |-> run'.adds, dels |-> run'.dels]
    BY <1>1
  <2>2. run'.done \in 0 .. Len(run'.plan)
    BY <1>2, <1>5
  <2> QED
    BY <2>1, <2>2 DEF RunTypeOK
<1>7. UpInv'
  BY <1>1, <1>3, <1>4, <1>5 DEF UpInv
<1>8. RunInv'
  BY <1>6, <1>7 DEF RunInv
<1> QED
  BY <1>1, <1>8, SameData DEF Inv

LEMMA BeginDownKeeps == Inv /\ Revert => Inv'
<1> SUFFICES ASSUME Inv, Revert PROVE Inv'
  OBVIOUS
<1>1. /\ db' = db /\ sale' = sale /\ Applied # {}
      /\ run' = [plan |-> DownPlan(Latest), done |-> 0, adds |-> {}, dels |-> {}]
  BY DEF Revert, Begin, DownPlan, DoneDown
<1>2. Len(DownPlan(Latest)) \in Nat \ {0}
  BY <1>1, LatestIsLast, DownPlans
<1>3. Applied' = Applied /\ Latest' = Latest
  <2>1. Applied' = Applied
    BY <1>1 DEF Applied
  <2> QED
    BY <2>1, SamePlans
<1>4. run'.plan = DownPlan(Latest) /\ run'.done = 0 /\ run'.adds = {} /\ run'.dels = {}
  BY <1>1
<1>5. RunTypeOK'
  <2>1. run' = [plan |-> run'.plan, done |-> run'.done, adds |-> run'.adds, dels |-> run'.dels]
    BY <1>1
  <2>2. run'.done \in 0 .. Len(run'.plan)
    BY <1>2, <1>4
  <2> QED
    BY <2>1, <2>2 DEF RunTypeOK
<1>6. SeedDownInv'
  BY <1>4 DEF SeedDownInv, RowsOf
<1>7. run'.done # Len(run'.plan)
  BY <1>2, <1>4
<1>8. DownInv'
  BY <1>1, <1>3, <1>4, <1>6, <1>7 DEF DownInv
<1>9. RunInv'
  BY <1>5, <1>8 DEF RunInv
<1> QED
  BY <1>1, <1>9, SameData DEF Inv

\* All pending migrations are applied together.
LEMMA CommitUp ==
  ASSUME Inv, Commit, UpInv
  PROVE  Inv'
<1>1. /\ db' = View /\ run' = None /\ sale' = sale
      /\ run.plan = UpPlan /\ run.done = Len(UpPlan)
  BY DEF Commit, UpInv
<1>2. \A i \in db : i[2] \in Lasting => i \in db'
  BY <1>1 DEF UpInv, View
<1>3. \A s : Does(UpPlan, s) => \A i \in s.adds : i[2] \in Lasting => i \in db'
  BY <1>1 DEF Does, UpInv, View
<1>4. Applied' = Migration
  <2> SUFFICES ASSUME NEW m \in Migration PROVE Done(m) \in db'
    BY DEF Applied
  <2>1. Done(m)[2] \in Lasting
    BY DEF Done, Row, Lasting
  <2>2. CASE m \in Applied
    BY <1>2, <2>1, <2>2 DEF Applied
  <2>3. CASE m \notin Applied
    <3>1. Done(m) \in DoneUp(m).adds
      BY DEF DoneUp, Sql
    <3> QED
      BY <1>3, <2>1, <2>3, <3>1, UpPlanFacts
  <2> QED
    BY <2>2, <2>3
<1>5. AppliedFirst'
  BY <1>4 DEF AppliedFirst
<1>6. Fk("booking", "ticket") \in db'
  <2>1. \A t, r : Fk(t, r)[2] \in Lasting /\ Fk(t, r) \in AddFk(t, r).adds
    BY DEF Fk, Lasting, AddFk, Sql
  <2>2. CASE 1 \in Applied
    BY <1>2, <2>1, <2>2 DEF Inv, Constraints
  <2>3. CASE 1 \notin Applied
    BY <1>3, <2>1, <2>3, UpPlanFacts
  <2> QED
    BY <2>2, <2>3
<1>7. Fk("payment_record", "booking") \in db' /\ Table("payment_record") \in db'
  <2>1. /\ Fk("payment_record", "booking")[2] \in Lasting /\ Table("payment_record")[2] \in Lasting
        /\ {Fk("payment_record", "booking"), Table("payment_record")} \subseteq
             CreateTable("payment_record", {"booking"}, {}).adds
    BY DEF Fk, Table, Lasting, CreateTable, Sql
  <2>2. CASE 2 \in Applied
    BY <1>2, <2>1, <2>2 DEF Inv, Constraints
  <2>3. CASE 2 \notin Applied
    BY <1>3, <2>1, <2>3, UpPlanFacts
  <2> QED
    BY <2>2, <2>3
<1>8. Constraints'
  BY <1>6, <1>7 DEF Constraints
<1>9. SeedInv'
  BY <1>4 DEF SeedInv, Seeded, Migration
<1>10. SalesInv'
  <2>1. sale' \in [Sales -> SaleStates]
    BY <1>1 DEF Inv, SalesInv
  <2>2. ASSUME NEW t \in SaleTables, NEW i \in RowsOf(t, db')
        PROVE  i \in RowsOf(t, db)
    BY <1>1, <2>2 DEF UpInv, View, RowsOf
  <2>3. \A u, s : Row(u, s) \in db => Row(u, s) \in db'
    BY <1>2 DEF Row, Lasting
  <2>4. ASSUME NEW t \in SaleTables, NEW i \in RowsOf(t, db')
        PROVE  /\ i = Row(t, i[3]) /\ i[3] \in Sales /\ sale'[i[3]] = "booked"
               /\ \A u \in SaleTables : Row(u, i[3]) \in db'
    BY <1>1, <2>2, <2>3, <2>4 DEF Inv, SalesInv
  <2> QED
    BY <2>1, <2>4 DEF SalesInv
<1>11. RunInv'
  BY <1>1 DEF RunInv
<1> QED
  BY <1>5, <1>8, <1>9, <1>10, <1>11 DEF Inv

\* The last applied migration is undone.
LEMMA CommitDown ==
  ASSUME Inv, Commit, DownInv
  PROVE  Inv'
<1>1. db' = View /\ run' = None /\ sale' = sale /\ run.done = Len(run.plan)
  BY DEF Commit
<1>2. /\ Latest \in Applied /\ Latest \in Migration /\ \A n \in Applied : n <= Latest
  BY LatestIsLast DEF DownInv
<1>3. \A i : i[2] = "row" => (i \in db' <=> i \in db /\ i \notin run.dels)
  BY <1>1 DEF DownInv, View
<1>4. \A i \in db : i \notin run.dels => i \in db'
  BY <1>1 DEF View
<1>5. Applied' = Applied \ {Latest}
  <2>1. \A m, n : Done(m) = Done(n) => m = n
    BY DEF Done, Row
  <2>2. \A m : Done(m)[1] = "typeorm_migrations" /\ Done(m)[2] = "row"
    BY DEF Done, Row
  <2>3. \A m : Done(m) \in run.dels => m = Latest
    BY <2>1, <2>2 DEF DownInv
  <2>4. Done(Latest) \in run.dels
    BY <1>1 DEF DownInv
  <2>5. \A m : Done(m) \in db' <=> Done(m) \in db /\ m # Latest
    BY <1>3, <2>2, <2>3, <2>4
  <2> QED
    BY <2>5 DEF Applied
<1>6. \A m \in Applied : m \in Nat /\ Latest \in Nat
  BY <1>2 DEF Applied, Migration
<1>7. AppliedFirst'
  <2> SUFFICES ASSUME NEW m \in Applied', NEW n \in Migration, n < m
               PROVE  n \in Applied'
    BY DEF AppliedFirst
  <2>1. m \in Applied /\ n \in Applied
    BY <1>5 DEF Inv, AppliedFirst
  <2>2. n # Latest
    BY <1>2, <1>6, <2>1
  <2> QED
    BY <1>5, <2>1, <2>2
<1>8. Constraints'
  <2>1. 1 \in Applied' => Fk("booking", "ticket") \in db'
    <3> SUFFICES ASSUME 1 \in Applied' PROVE Fk("booking", "ticket") \in db'
      OBVIOUS
    <3>1. 1 \in Applied /\ Latest >= 2
      BY <1>2, <1>5, <1>6
    <3> QED
      BY <1>4, <3>1 DEF DownInv, Inv, Constraints
  <2>2. 2 \in Applied' => Fk("payment_record", "booking") \in db' /\ Table("payment_record") \in db'
    <3> SUFFICES ASSUME 2 \in Applied'
                 PROVE  Fk("payment_record", "booking") \in db' /\ Table("payment_record") \in db'
      OBVIOUS
    <3>1. 2 \in Applied /\ Latest >= 3
      BY <1>2, <1>5, <1>6
    <3>2. Fk("payment_record", "booking")[2] = "fk" /\ Table("payment_record")[2] = "table"
      BY DEF Fk, Table
    <3> QED
      BY <1>4, <3>1, <3>2 DEF DownInv, Inv, Constraints
  <2> QED
    BY <2>1, <2>2 DEF Constraints
<1>9. \A t : RowsOf(t, db') \subseteq RowsOf(t, db)
  BY <1>3 DEF RowsOf
<1>10. Latest = 4 \/ Latest = 3 \/ Latest <= 2
  BY <1>2 DEF Migration
<1>11. CASE Latest = 4
  <2>1. 3 \in Applied'
    BY <1>2, <1>5, <1>11 DEF Inv, AppliedFirst, Migration
  <2>2. SeedInv'
    BY <2>1 DEF SeedInv, Seeded
  <2>3. \A t \in SaleTables : \A s : Row(t, s)[2] = "row" /\ Row(t, s) # Done(4)
    BY DEF Row, Done, SaleTables
  <2>4. \A t \in SaleTables : \A s : Row(t, s) \in db => Row(t, s) \in db'
    BY <1>4, <1>11, <2>3 DEF DownInv
  <2>5. ASSUME NEW t \in SaleTables, NEW i \in RowsOf(t, db')
        PROVE  /\ i = Row(t, i[3]) /\ i[3] \in Sales /\ sale'[i[3]] = "booked"
               /\ \A u \in SaleTables : Row(u, i[3]) \in db'
    BY <1>1, <1>9, <2>4, <2>5 DEF Inv, SalesInv
  <2>6. SalesInv'
    BY <1>1, <2>5 DEF Inv, SalesInv
  <2> QED
    BY <1>1, <1>7, <1>8, <2>2, <2>6 DEF Inv, RunInv
<1>12. ASSUME \A t \in {"ticket"} \cup SaleTables : RowsOf(t, db') = {}, Selling = {}
       PROVE  Inv'
  <2>1. Selling' = Selling
    BY <1>1 DEF Selling
  <2>2. SeedInv'
    BY <1>12, <2>1 DEF SeedInv, SaleTables
  <2>3. SalesInv'
    BY <1>1, <1>12 DEF Inv, SalesInv
  <2> QED
    BY <1>1, <1>7, <1>8, <2>2, <2>3 DEF Inv, RunInv
<1>13. CASE Latest = 3
  <2>1. run.done = 8 /\ SeedDownInv
    BY <1>1, <1>13, DownPlans DEF DownInv
  <2>2. \A t \in {"ticket"} \cup SaleTables : RowsOf(t, db') = {}
    BY <1>1, <2>1 DEF SeedDownInv
  <2>3. Selling = {}
    BY <2>1 DEF SeedDownInv
  <2> QED
    BY <1>12, <2>2, <2>3
<1>14. CASE Latest <= 2
  <2>1. Seeded \notin Applied
    BY <1>2, <1>6, <1>14 DEF Seeded
  <2>2. RowsOf("ticket", db) = {} /\ RowsOf("booking", db) = {} /\ Selling = {}
    BY <2>1 DEF Inv, SeedInv
  <2>3. RowsOf("payment_record", db) = {}
    <3> SUFFICES ASSUME NEW i \in RowsOf("payment_record", db) PROVE FALSE
      OBVIOUS
    <3>1. Row("booking", i[3]) \in db
      BY SaleRow DEF Inv, SaleTables
    <3> QED
      BY <2>2, <3>1 DEF RowsOf, Row
  <2>4. \A t \in {"ticket"} \cup SaleTables : RowsOf(t, db') = {}
    BY <1>9, <2>2, <2>3 DEF SaleTables
  <2> QED
    BY <1>12, <2>2, <2>4
<1> QED
  BY <1>10, <1>11, <1>13, <1>14

-----------------------------------------------------------------------------
(* The sales                                                               *)

\* A sale can be under way only on the seed, before a run has locked the bookings
\* and before a revert has deleted the tickets.
MaySell ==
  /\ Seeded \in Applied
  /\ run # None => /\ UpInv => ~ run.done >= 2
                   /\ DownInv /\ Latest = 3 => ~ run.done >= 3

LEMMA Sellers ==
  ASSUME Inv, Selling # {}
  PROVE  MaySell
<1>1. Seeded \in Applied
  BY DEF Inv, SeedInv
<1>2. UpInv => ~ run.done >= 2
  BY <1>1 DEF UpInv
<1>3. DownInv /\ Latest = 3 => ~ run.done >= 3
  BY DEF DownInv, SeedDownInv
<1> QED
  BY <1>1, <1>2, <1>3 DEF MaySell

\* A sale that moves without writing.
LEMMA SaleMoves ==
  ASSUME Inv, db' = db, run' = run, sale' \in [Sales -> SaleStates],
         \A s \in Sales : sale[s] = "booked" => sale'[s] = "booked",
         Selling' # {} => MaySell
  PROVE  Inv'
<1>1. Applied' = Applied /\ View' = View
  BY DEF Applied, View
<1>2. UpPlan' = UpPlan /\ Latest' = Latest
  BY <1>1, SamePlans
<1>3. AppliedFirst' /\ Constraints'
  BY <1>1 DEF Inv, AppliedFirst, Constraints
<1>4. SeedInv'
  BY <1>1 DEF Inv, SeedInv, MaySell
<1>5. SalesInv'
  BY DEF Inv, SalesInv
<1>6. RunTypeOK' <=> RunTypeOK
  BY DEF RunTypeOK
<1>7. run # None /\ UpInv => UpInv'
  <2> SUFFICES ASSUME run # None, UpInv PROVE UpInv'
    OBVIOUS
  <2>1. Seeded \in Applied' /\ run'.done >= 2 => Selling' = {}
    BY DEF MaySell
  <2> QED
    BY <1>1, <1>2, <2>1 DEF UpInv
<1>8. run # None /\ DownInv => DownInv'
  <2> SUFFICES ASSUME run # None, DownInv PROVE DownInv'
    OBVIOUS
  <2>1. Latest' = 3 => SeedDownInv'
    <3> SUFFICES ASSUME Latest = 3 PROVE SeedDownInv'
      BY <1>2
    <3>1. SeedDownInv
      BY DEF DownInv
    <3>2. run'.done >= 3 => Selling' = {}
      BY DEF MaySell
    <3> QED
      BY <1>1, <3>1, <3>2 DEF SeedDownInv
  <2> QED
    BY <1>1, <1>2, <2>1 DEF DownInv
<1>9. RunInv'
  BY <1>6, <1>7, <1>8 DEF Inv, RunInv
<1> QED
  BY <1>3, <1>4, <1>5, <1>9 DEF Inv

LEMMA InsertKeeps == \A s \in Sales : Inv /\ SaleInsert(s) => Inv'
<1> SUFFICES ASSUME NEW s \in Sales, Inv, SaleInsert(s) PROVE Inv'
  OBVIOUS
<1>1. db' = db /\ run' = run /\ sale[s] = "idle" /\ sale \in [Sales -> SaleStates]
  BY DEF SaleInsert, Inv, SalesInv
<1>2. CASE To(s, "refused")
  <2>1. /\ sale' = [sale EXCEPT ![s] = "refused"] /\ sale' \in [Sales -> SaleStates]
    BY <1>1, <1>2 DEF To, SaleStates
  <2>2. Selling' \subseteq Selling
    BY <1>1, <2>1 DEF Selling
  <2>3. Selling' # {} => MaySell
    BY <2>2, Sellers
  <2>4. \A r \in Sales : sale[r] = "booked" => sale'[r] = "booked"
    BY <1>1, <2>1
  <2> QED
    BY <1>1, <2>1, <2>3, <2>4, SaleMoves
<1>3. CASE ~ To(s, "refused")
  <2>1. /\ RowsOf("ticket", db) # {} /\ RowsOf("ticket", db) \cap Deleted = {}
        /\ To(s, "inserted") /\ "booking" \notin Locked("still")
    BY <1>3 DEF SaleInsert
  <2>2. sale' = [sale EXCEPT ![s] = "inserted"] /\ sale' \in [Sales -> SaleStates]
    BY <1>1, <2>1 DEF To, SaleStates
  <2>3. Seeded \in Applied
    BY <2>1 DEF Inv, SeedInv
  <2>4. ASSUME run # None, UpInv PROVE ~ run.done >= 2
    <3> SUFFICES ASSUME run.done >= 2 PROVE FALSE
      OBVIOUS
    <3>1. RunTypeOK /\ run.plan = UpPlan /\ Applied # Migration
      BY <2>4 DEF Inv, RunInv, UpInv
    <3>2. run.plan[2] = CreateIndex("booking", "user_id")
      BY <2>3, <3>1, IndexesRun DEF Inv
    <3>3. run.plan[2].still = {"booking"}
      BY <3>2 DEF CreateIndex, Sql
    <3>4. Len(run.plan) \in Nat
      BY <3>1, UpPlanFacts
    <3>5. 2 \in 1 .. run.done
      BY <3>1, <3>4 DEF RunTypeOK
    <3>6. Locked("still") = UNION {run.plan[i].still : i \in 1 .. run.done}
      BY <2>4 DEF Locked
    <3>7. "booking" \in Locked("still")
      BY <3>3, <3>5, <3>6
    <3> QED
      BY <2>1, <3>7
  <2>5. ASSUME run # None, DownInv, Latest = 3 PROVE ~ run.done >= 3
    <3>1. PICK i \in RowsOf("ticket", db) : TRUE
      BY <2>1
    <3>2. i \notin run.dels /\ i \in db
      BY <2>1, <2>5, <3>1 DEF Deleted, RowsOf
    <3>3. RowsOf("ticket", View) # {}
      BY <3>1, <3>2 DEF RowsOf, View
    <3> QED
      BY <2>5, <3>3 DEF DownInv, SeedDownInv
  <2>6. MaySell
    BY <2>3, <2>4, <2>5 DEF MaySell
  <2>7. \A r \in Sales : sale[r] = "booked" => sale'[r] = "booked"
    BY <1>1, <2>2
  <2> QED
    BY <1>1, <2>2, <2>6, <2>7, SaleMoves
<1> QED
  BY <1>2, <1>3

\* A sale under way that moves on without committing.
LEMMA MoveKeeps ==
  ASSUME Inv, NEW s \in Selling, NEW st \in SaleStates \ {"booked"}, To(s, st), db' = db, run' = run
  PROVE  Inv'
<1>1. s \in Sales /\ sale[s] # "booked" /\ sale \in [Sales -> SaleStates]
  BY DEF Selling, Inv, SalesInv
<1>2. sale' = [sale EXCEPT ![s] = st] /\ sale' \in [Sales -> SaleStates]
  BY <1>1 DEF To
<1>3. MaySell
  BY Sellers
<1>4. \A r \in Sales : sale[r] = "booked" => sale'[r] = "booked"
  BY <1>1, <1>2
<1> QED
  BY <1>2, <1>3, <1>4, SaleMoves

LEMMA SaleCommitKeeps == \A s \in Sales : Inv /\ SaleCommit(s) => Inv'
<1> SUFFICES ASSUME NEW s \in Sales, Inv, SaleCommit(s) PROVE Inv'
  OBVIOUS
<1> DEFINE new == {Row("booking", s), Row("payment_record", s)}
<1>1. /\ sale[s] = "recorded" /\ sale \in [Sales -> SaleStates]
      /\ db' = db \cup new /\ run' = run /\ sale' = [sale EXCEPT ![s] = "booked"]
  BY DEF SaleCommit, To, Inv, SalesInv
<1>2. \A i \in new : i[1] \in SaleTables /\ i[2] = "row" /\ i[3] = s /\ i = Row(i[1], i[3])
  BY DEF Row, SaleTables
<1>3. \A t \in SaleTables : Row(t, s) \in new
  BY DEF SaleTables
<1> HIDE DEF new
<1>4. s \in Selling /\ Selling' \subseteq Selling
  BY <1>1 DEF Selling
<1>5. MaySell
  BY <1>4, Sellers
<1>6. Applied' = Applied
  <2>1. \A m : Done(m) \notin new
    <3>1. \A m : Done(m)[1] \notin SaleTables
      BY DEF Done, Row, SaleTables
    <3> QED
      BY <1>2, <3>1
  <2> QED
    BY <1>1, <2>1 DEF Applied
<1>7. UpPlan' = UpPlan /\ Latest' = Latest
  BY <1>6, SamePlans
<1>8. AppliedFirst' /\ Constraints' /\ SeedInv'
  <2>1. AppliedFirst' /\ Constraints'
    BY <1>1, <1>6 DEF Inv, AppliedFirst, Constraints
  <2>2. SeedInv'
    BY <1>5, <1>6 DEF SeedInv, MaySell
  <2> QED
    BY <2>1, <2>2
<1>9. SalesInv'
  <2>1. sale' \in [Sales -> SaleStates]
    BY <1>1 DEF SaleStates
  <2>2. ASSUME NEW t \in SaleTables, NEW i \in RowsOf(t, db')
        PROVE  /\ i = Row(t, i[3]) /\ i[3] \in Sales /\ sale'[i[3]] = "booked"
               /\ \A u \in SaleTables : Row(u, i[3]) \in db'
    <3>1. i \in new \/ i \in RowsOf(t, db)
      BY <1>1, <2>2 DEF RowsOf
    <3>2. CASE i \in new
      BY <1>1, <1>2, <1>3, <2>2, <3>2 DEF RowsOf
    <3>3. CASE i \in RowsOf(t, db)
      BY <1>1, <3>3 DEF Inv, SalesInv
    <3> QED
      BY <3>1, <3>2, <3>3
  <2> QED
    BY <2>1, <2>2 DEF SalesInv
<1>10. RunTypeOK' <=> RunTypeOK
  BY <1>1 DEF RunTypeOK
<1>11. run # None /\ UpInv => UpInv'
  BY <1>1, <1>4, <1>6, <1>7 DEF UpInv
<1>12. ASSUME run # None, DownInv, Latest = 3
       PROVE  SeedDownInv'
  <2>1. SeedDownInv /\ ~ run.done >= 3
    BY <1>5, <1>12 DEF DownInv, MaySell
  <2>2. \A i \in new : i \notin run.dels
    <3> SUFFICES ASSUME NEW i \in new, i \in run.dels PROVE FALSE
      OBVIOUS
    <3>1. i[1] \in SaleTables /\ i \in RowsOf(i[1], db)
      BY <1>2, <2>1 DEF SeedDownInv, RowsOf
    <3>2. sale[i[3]] = "booked"
      BY <3>1, SaleRow DEF Inv
    <3> QED
      BY <1>1, <1>2, <3>2
  <2>3. View' = View \cup new
    BY <1>1, <2>1, <2>2 DEF SeedDownInv, View
  <2>4. \A t \in SaleTables : \A i \in RowsOf(t, run'.dels) : i \in db'
    BY <1>1, <2>1 DEF SeedDownInv
  <2>5. ASSUME run'.done >= 2, NEW r \in Sales
        PROVE  Row("booking", r) \in View' <=> Row("payment_record", r) \in View'
    <3>1. Row("booking", r) \in View <=> Row("payment_record", r) \in View
      BY <1>1, <2>1, <2>5 DEF SeedDownInv
    <3>2. Row("booking", r)[3] = r /\ Row("payment_record", r)[3] = r
      BY DEF Row
    <3>3. Row("booking", r) \in new <=> r = s
      BY <1>2, <1>3, <3>2 DEF SaleTables
    <3>4. Row("payment_record", r) \in new <=> r = s
      BY <1>2, <1>3, <3>2 DEF SaleTables
    <3> QED
      BY <2>3, <3>1, <3>3, <3>4
  <2>6. run'.adds = {} /\ ~ run'.done >= 3
    BY <1>1, <2>1 DEF SeedDownInv
  <2> QED
    BY <2>4, <2>5, <2>6 DEF SeedDownInv
<1>13. run # None /\ DownInv => DownInv'
  BY <1>1, <1>6, <1>7, <1>12 DEF DownInv
<1>14. RunInv'
  BY <1>1, <1>10, <1>11, <1>13 DEF Inv, RunInv
<1> QED
  BY <1>8, <1>9, <1>14 DEF Inv

LEMMA NextKeeps == Inv /\ [Next]_vars => Inv'
<1> SUFFICES ASSUME Inv, [Next]_vars PROVE Inv'
  OBVIOUS
<1>1. CASE UNCHANGED vars
  <2>1. db' = db /\ run' = run /\ sale' = sale
    BY <1>1 DEF vars
  <2>2. Selling' = Selling
    BY <2>1 DEF Selling
  <2>3. Selling' # {} => MaySell
    BY <2>2, Sellers
  <2>4. sale' \in [Sales -> SaleStates] /\ \A s \in Sales : sale[s] = "booked" => sale'[s] = "booked"
    BY <2>1 DEF Inv, SalesInv
  <2> QED
    BY <2>1, <2>3, <2>4, SaleMoves
<1>2. CASE Run
  BY <1>2, BeginUpKeeps
<1>3. CASE Revert
  BY <1>3, BeginDownKeeps
<1>4. CASE Step
  BY <1>4, StepKeeps
<1>5. CASE Fail
  BY <1>5, RollbackKeeps DEF Fail
<1>6. CASE Commit
  <2>1. UpInv \/ DownInv
    BY <1>6 DEF Commit, Inv, RunInv
  <2> QED
    BY <1>6, <2>1, CommitUp, CommitDown
<1>7. CASE Interrupt
  BY <1>7, RollbackKeeps DEF Interrupt
<1>8. ASSUME NEW s \in Sales, SaleInsert(s) PROVE Inv'
  BY <1>8, InsertKeeps
<1>9. ASSUME NEW s \in Sales, SaleCharge(s) PROVE Inv'
  <2>1. s \in Selling
    BY <1>9 DEF SaleCharge, Selling
  <2>2. "charged" \in SaleStates \ {"booked"} /\ "refused" \in SaleStates \ {"booked"}
    BY DEF SaleStates
  <2> QED
    BY <1>9, <2>1, <2>2, MoveKeeps DEF SaleCharge
<1>10. ASSUME NEW s \in Sales, SaleRecord(s) PROVE Inv'
  <2>1. s \in Selling
    BY <1>10 DEF SaleRecord, Selling
  <2>2. "recorded" \in SaleStates \ {"booked"} /\ "lost" \in SaleStates \ {"booked"}
    BY DEF SaleStates
  <2> QED
    BY <1>10, <2>1, <2>2, MoveKeeps DEF SaleRecord
<1>11. ASSUME NEW s \in Sales, SaleCommit(s) PROVE Inv'
  BY <1>11, SaleCommitKeeps
<1>12. ASSUME NEW s \in Sales, Deadlock(s) PROVE Inv'
  <2>1. s \in Selling /\ "lost" \in SaleStates \ {"booked"}
    BY <1>12 DEF Deadlock, Selling, SaleStates
  <2>2. CASE Rollback
    BY <2>2, RollbackKeeps
  <2>3. CASE ~ Rollback
    BY <1>12, <2>1, <2>3, MoveKeeps DEF Deadlock
  <2> QED
    BY <2>2, <2>3
<1> QED
  BY <1>1, <1>2, <1>3, <1>4, <1>5, <1>6, <1>7, <1>8, <1>9, <1>10, <1>11, <1>12 DEF Next, SaleStep

LEMMA InvAlways == Spec => []Inv
  BY InvInit, NextKeeps, PTL DEF Spec

\* A payment has its booking, and a booking its ticket, in every state that
\* migration:run, migration:revert and the sales beside them can leave behind,
\* for every catalog of the seed, chunk size and number of sales.
THEOREM NoOrphansAlways == Spec => []NoOrphans
<1>1. Inv => NoOrphans
  <2> SUFFICES ASSUME Inv PROVE NoOrphans
    OBVIOUS
  <2>1. ASSUME NEW t \in SaleTables, NEW u \in SaleTables
        PROVE  Sold(t) \subseteq Sold(u)
    <3> SUFFICES ASSUME NEW i \in RowsOf(t, db) PROVE i[3] \in Sold(u)
      BY DEF Sold
    <3>1. Row(u, i[3]) \in db
      BY DEF Inv, SalesInv
    <3>2. Row(u, i[3]) \in RowsOf(u, db) /\ Row(u, i[3])[3] = i[3]
      BY <3>1 DEF RowsOf, Row
    <3> QED
      BY <3>2 DEF Sold
  <2>2. Sold("payment_record") = Sold("booking")
    BY <2>1 DEF SaleTables
  <2>3. Sold("booking") # {} => Seeded \in Applied
    BY DEF Inv, SeedInv, Sold
  <2> QED
    BY <2>2, <2>3 DEF NoOrphans
<1> QED
  BY <1>1, InvAlways, PTL

\* A sale that loses its payment loses it to a DROP INDEX of the revert of
\* PerformanceIndexes: nothing else that waits for it keeps payment_record locked,
\* and the table is there whenever a sale is.
THEOREM LostToIndexesOnlyAlways == Spec => LostToIndexesOnly
<1> DEFINE Lost == \A s \in Sales : sale[s] # "lost" /\ sale'[s] = "lost" =>
                     Latest = Indexed /\ run # None /\ Statement \in ToSet(IndexesDown)
<1>1. Inv /\ [Next]_vars => [Lost]_vars
  <2> SUFFICES ASSUME Inv, Next, NEW s \in Sales, sale[s] # "lost", sale'[s] = "lost"
               PROVE  Latest = Indexed /\ run # None /\ Statement \in ToSet(IndexesDown)
    OBVIOUS
  <2>1. sale \in [Sales -> SaleStates] /\ \A r \in Sales : sale[r] # "lost" \/ sale[r] = "lost"
    BY DEF Inv, SalesInv
  <2>2. SaleRecord(s) \/ Deadlock(s)
    <3>1. ASSUME sale' = sale PROVE FALSE
      BY <3>1
    <3>2. CASE Run \/ Revert \/ Step \/ Fail \/ Commit \/ Interrupt
      BY <3>1, <3>2 DEF Run, Revert, Begin, Step, Fail, Commit, Interrupt, Rollback
    <3>3. CASE \E r \in Sales : SaleInsert(r) \/ SaleStep(r) \/ Deadlock(r)
      <4>1. PICK r \in Sales : SaleInsert(r) \/ SaleStep(r) \/ Deadlock(r)
        BY <3>3
      <4>2. ASSUME NEW st, To(r, st) PROVE st = "lost" /\ r = s
        BY <2>1, <4>2 DEF To
      <4>3. ~ Rollback
        BY <3>1 DEF Rollback
      <4>4. ~ SaleInsert(r)
        BY <4>2 DEF SaleInsert
      <4>5. ~ SaleCharge(r) /\ ~ SaleCommit(r)
        BY <4>2 DEF SaleCharge, SaleCommit
      <4>6. SaleRecord(r) \/ Deadlock(r)
        BY <4>1, <4>4, <4>5 DEF SaleStep
      <4>7. r = s
        BY <4>2, <4>3, <4>6 DEF SaleRecord, Deadlock
      <4> QED
        BY <4>6, <4>7
    <3> QED
      BY <3>2, <3>3 DEF Next
  <2>3. s \in Selling
    BY <2>2 DEF Selling, SaleRecord, Deadlock
  <2>4. MaySell /\ Seeded \in Applied
    BY <2>3, Sellers DEF MaySell
  <2>5. ~ SaleRecord(s)
    <3>1. Table("payment_record") \in db
      BY <2>4 DEF Inv, AppliedFirst, Constraints, Seeded, Migration
    <3>2. ASSUME To(s, "recorded") PROVE FALSE
      BY <2>1, <3>2 DEF To
    <3> QED
      BY <3>1, <3>2 DEF SaleRecord
  <2>6. Deadlock(s) /\ PaymentLocked /\ Unfinished /\ Waits(Statement)
    BY <2>2, <2>5 DEF Deadlock
  <2>7. run # None /\ RunTypeOK /\ (UpInv \/ DownInv)
    BY <2>6 DEF Unfinished, Inv, RunInv
  <2>8. PICK k \in 1 .. run.done :
          "payment_record" \in run.plan[k].alone \/ "payment_record" \in run.plan[k].still
    <3>1. /\ Locked("alone") = UNION {run.plan[i].alone : i \in 1 .. run.done}
          /\ Locked("still") = UNION {run.plan[i].still : i \in 1 .. run.done}
      BY <2>7 DEF Locked
    <3> QED
      BY <2>6, <3>1 DEF PaymentLocked
  <2>9. ~ UpInv
    <3> SUFFICES ASSUME UpInv PROVE FALSE
      OBVIOUS
    <3>1. run.done \in Nat
      BY <2>6, PlanStatements
    <3>2. k = 1
      BY <2>4, <2>7, <2>8, <3>1 DEF MaySell
    <3>3. run.plan[1] = CreateIndex("ticket", "event_id")
      BY <2>4, IndexesRun DEF UpInv, Inv
    <3>4. run.plan[1].alone = {} /\ run.plan[1].still = {"ticket"}
      BY <3>3 DEF CreateIndex, Sql
    <3> QED
      BY <2>8, <3>2, <3>4
  <2>10. DownInv /\ Latest \in Migration /\ Latest >= 3
    <3>1. DownInv
      BY <2>7, <2>9
    <3>2. Latest \in Migration /\ \A n \in Applied : n <= Latest
      BY <3>1, LatestIsLast DEF DownInv
    <3> QED
      BY <2>4, <3>1, <3>2 DEF Seeded
  <2>11. Latest # 3
    <3> SUFFICES ASSUME Latest = 3 PROVE FALSE
      OBVIOUS
    <3>1. run.plan = DownPlan(3)
      BY <2>10 DEF DownInv
    <3>2. k \in 1 .. 8
      BY <2>7, <2>8, <3>1, DownPlans DEF RunTypeOK
    <3>3. run.plan[k].alone = {} /\ run.plan[k].still = {}
      BY <3>1, <3>2, DownPlans
    <3> QED
      BY <2>8, <3>3
  <2>12. Latest = 4 /\ run.plan = DownPlan(4)
    BY <2>10, <2>11 DEF Migration, DownInv
  <2>13. run.done + 1 \in 1 .. Len(DownPlan(4)) /\ Statement = DownPlan(4)[run.done + 1]
    BY <2>6, <2>12, PlanStatements
  <2>14. Statement \in ToSet(IndexesDown) \/ Statement = DoneDown(4)
    BY <2>13, DownPlans
  <2>15. Statement # DoneDown(4)
    <3>1. ~ Waits(DoneDown(4))
      BY DEF Waits, DoneDown, Sql
    <3> QED
      BY <2>6, <3>1
  <2> QED
    BY <2>7, <2>12, <2>14, <2>15 DEF Indexed
<1> QED
  BY <1>1, InvAlways, PTL DEF Spec, LostToIndexesOnly

-----------------------------------------------------------------------------
(* The road of a script: what its statements find and leave                *)

\* Statement s works on the items S and leaves T; it writes no sale.
Fits(s, S, T) == Works(s, S) /\ T = Result(S, s) /\ s.adds \cap SaleRows = {}

\* r[k] is there when k statements of p are done.
Road(r, p, S, T) ==
  /\ r[0] = S /\ r[Len(p)] = T
  /\ \A k \in 1 .. Len(p) : Fits(p[k], r[k - 1], r[k])

Leads(S, p, T) == \E r : Road(r, p, S, T)

LEMMA LeadsNowhere == \A S : Leads(S, <<>>, S)
<1> TAKE S
<1> DEFINE r == [k \in {0} |-> S]
<1>1. r[0] = S /\ Len(<<>>) = 0
  OBVIOUS
<1>2. \A k \in 1 .. 0 : FALSE
  OBVIOUS
<1> HIDE DEF r
<1>3. Road(r, <<>>, S, S)
  BY <1>1, <1>2 DEF Road
<1> QED
  BY <1>3 DEF Leads

\* One script after the other.
LEMMA LeadsOn ==
  ASSUME NEW A, NEW p \in Seq(A), NEW q \in Seq(A), NEW S, NEW T, NEW U,
         Leads(S, p, T), Leads(T, q, U)
  PROVE  Leads(S, p \o q, U)
<1>1. PICK a : Road(a, p, S, T)
  BY DEF Leads
<1>2. PICK b : Road(b, q, T, U)
  BY DEF Leads
<1> DEFINE m == Len(p)
           n == Len(q)
           r == [k \in 0 .. m + n |-> IF k <= m THEN a[k] ELSE b[k - m]]
           h == p \o q
<1>3. m \in Nat /\ n \in Nat
  OBVIOUS
<1>4. Len(h) = m + n /\ \A k \in 1 .. m + n : h[k] = IF k <= m THEN p[k] ELSE q[k - m]
  BY ConcatProperties
<1> HIDE DEF h
<1>5. \A k \in 0 .. m : r[k] = a[k]
  <2>1. \A k \in 0 .. m : k \in 0 .. m + n /\ k <= m
    BY <1>3
  <2> QED
    BY <2>1
<1>6. \A k \in 0 .. n : r[m + k] = b[k]
  <2>1. a[m] = b[0]
    BY <1>1, <1>2 DEF Road
  <2>2. \A k \in 1 .. n : m + k \in 0 .. m + n /\ ~ (m + k <= m) /\ (m + k) - m = k
    BY <1>3
  <2>3. \A k \in 1 .. n : r[m + k] = b[k]
    BY <2>2
  <2>4. r[m + 0] = b[0]
    <3>1. m + 0 = m /\ m \in 0 .. m
      BY <1>3
    <3> QED
      BY <1>5, <2>1, <3>1, Zenon
  <2>5. \A k \in 0 .. n : k = 0 \/ k \in 1 .. n
    BY <1>3
  <2> HIDE DEF r
  <2> QED
    BY <2>3, <2>4, <2>5
<1> HIDE DEF r
<1>7. ASSUME NEW k \in 1 .. m PROVE Fits(h[k], r[k - 1], r[k])
  <2>1. k \in 1 .. m + n /\ k <= m /\ k \in 0 .. m /\ k - 1 \in 0 .. m
    BY <1>3
  <2>2. h[k] = p[k] /\ r[k] = a[k] /\ r[k - 1] = a[k - 1]
    BY <1>4, <1>5, <2>1, Zenon
  <2>3. Fits(p[k], a[k - 1], a[k])
    BY <1>1 DEF Road
  <2> QED
    BY <2>2, <2>3, Zenon
<1>8. ASSUME NEW k \in 1 .. n PROVE Fits(h[m + k], r[(m + k) - 1], r[m + k])
  <2>1. /\ m + k \in 1 .. m + n /\ ~ (m + k <= m) /\ (m + k) - m = k
        /\ k \in 0 .. n /\ k - 1 \in 0 .. n /\ m + (k - 1) = (m + k) - 1
    BY <1>3
  <2>2. h[m + k] = q[k]
    BY <1>4, <2>1
  <2>3. r[m + k] = b[k] /\ r[(m + k) - 1] = b[k - 1]
    <3>1. r[m + k] = b[k] /\ r[m + (k - 1)] = b[k - 1]
      BY <1>6, <2>1, Zenon
    <3> QED
      BY <2>1, <3>1, Zenon
  <2>4. Fits(q[k], b[k - 1], b[k])
    BY <1>2 DEF Road
  <2> QED
    BY <2>2, <2>3, <2>4, Zenon
<1>9. \A k \in 1 .. m + n : Fits(h[k], r[k - 1], r[k])
  <2> TAKE k \in 1 .. m + n
  <2>1. CASE k \in 1 .. m
    BY <1>7, <2>1
  <2>2. CASE k \notin 1 .. m
    <3>1. k - m \in 1 .. n /\ m + (k - m) = k
      BY <1>3, <2>2
    <3>2. PICK j \in 1 .. n : m + j = k
      BY <3>1, Zenon
    <3>3. Fits(h[m + j], r[(m + j) - 1], r[m + j])
      BY <1>8
    <3> QED
      BY <3>2, <3>3, Zenon
  <2> QED
    BY <2>1, <2>2
<1>10. r[0] = S /\ r[m + n] = U
  <2>1. 0 \in 0 .. m /\ n \in 0 .. n
    BY <1>3
  <2>2. a[0] = S /\ b[n] = U
    BY <1>1, <1>2 DEF Road
  <2> QED
    BY <1>5, <1>6, <2>1, <2>2, Zenon
<1>11. Road(r, h, S, U)
  BY <1>4, <1>9, <1>10 DEF Road
<1> QED
  BY <1>11 DEF Leads, h

\* One statement more.
LEMMA LeadsThen ==
  ASSUME NEW A, NEW p \in Seq(A), NEW s \in A, NEW S, NEW T, NEW U,
         Leads(S, p, T), Fits(s, T, U)
  PROVE  Leads(S, Append(p, s), U)
<1> DEFINE q == <<s>>
           r == [k \in 0 .. 1 |-> IF k = 0 THEN T ELSE U]
<1>1. q \in Seq(A) /\ Len(q) = 1 /\ q[1] = s
  OBVIOUS
<1>2. r[0] = T /\ r[1] = U
  OBVIOUS
<1>3. \A k \in 1 .. 1 : k = 1 /\ k - 1 = 0
  OBVIOUS
<1>4. Append(p, s) = p \o q
  OBVIOUS
<1> HIDE DEF q, r
<1>5. Road(r, q, T, U)
  BY <1>1, <1>2, <1>3 DEF Road
<1>6. Leads(T, q, U)
  BY <1>5 DEF Leads
<1> QED
  BY <1>1, <1>4, <1>6, LeadsOn

\* Scripts one after the other, st[i] being there after i of them.
Stages(ss, st) == \A i \in 1 .. Len(ss) : Leads(st[i - 1], ss[i], st[i])

LEMMA LeadsFlat ==
  ASSUME NEW A, NEW ss \in Seq(Seq(A)), NEW st, Stages(ss, st)
  PROVE  Leads(st[0], FlattenSeq(ss), st[Len(ss)])
<1>1. CASE Len(ss) = 0
  <2>1. ss = <<>> /\ FlattenSeq(ss) = ss
    BY <1>1, EmptySeq DEF FlattenSeq
  <2> QED
    BY <1>1, <2>1, LeadsNowhere, Zenon
<1>2. CASE Len(ss) # 0
  <2>1. PICK g : /\ FlattenSeq(ss) = g[Len(ss)]
                 /\ \A i \in 1 .. Len(ss) : g[i] = FlatStep(ss, g, i)
    BY <1>2, FlattenUnfolds
  <2> DEFINE Good(i) == g[i] \in Seq(A) /\ Leads(st[0], g[i], st[i])
             bad == {i \in 1 .. Len(ss) : ~ Good(i)}
  <2>2. bad = {}
    <3> SUFFICES ASSUME bad # {} PROVE FALSE
      OBVIOUS
    <3>1. bad \in SUBSET Nat
      OBVIOUS
    <3>2. PICK i \in bad : \A j \in bad : i <= j
      <4> HIDE DEF bad
      <4> QED
        BY <3>1, Least
    <3>3. /\ i \in 1 .. Len(ss) /\ ~ Good(i) /\ g[i] = FlatStep(ss, g, i) /\ ss[i] \in Seq(A)
          /\ Leads(st[i - 1], ss[i], st[i])
      BY <2>1, <3>2 DEF Stages
    <3>4. CASE i = 1
      <4>1. g[i] = ss[i] /\ i - 1 = 0
        BY <3>3, <3>4 DEF FlatStep
      <4> QED
        BY <3>3, <4>1
    <3>5. CASE i # 1
      <4>1. i - 1 \in 1 .. Len(ss) /\ i - 1 \notin bad
        BY <3>2, <3>3, <3>5
      <4>2. g[i - 1] \in Seq(A) /\ Leads(st[0], g[i - 1], st[i - 1])
        BY <4>1
      <4>3. g[i] = g[i - 1] \o ss[i]
        BY <3>3, <3>5 DEF FlatStep
      <4>4. g[i] \in Seq(A)
        BY <3>3, <4>2, <4>3, ConcatProperties
      <4>5. Leads(st[0], g[i], st[i])
        <5>1. ss[i] \in Seq(A) /\ g[i - 1] \in Seq(A)
          BY <3>3, <4>2
        <5>2. Leads(st[0], g[i - 1] \o ss[i], st[i])
          BY <3>3, <4>2, <5>1, LeadsOn
        <5> QED
          BY <4>3, <5>2
      <4> QED
        BY <3>3, <4>4, <4>5
    <3> QED
      BY <3>4, <3>5
  <2>3. Len(ss) \in 1 .. Len(ss)
    BY <1>2
  <2>4. Good(Len(ss))
    BY <2>2, <2>3
  <2> QED
    BY <2>1, <2>4
<1> QED
  BY <1>1, <1>2

\* One statement after the other, st[k] being there after k of them.
LEMMA LeadsEach ==
  ASSUME NEW p, NEW st, \A k \in 1 .. Len(p) : Fits(p[k], st[k - 1], st[k])
  PROVE  Leads(st[0], p, st[Len(p)])
<1>1. Road(st, p, st[0], st[Len(p)])
  BY DEF Road
<1> QED
  BY <1>1 DEF Leads

\* The same, the items being listed.
LEMMA LeadsBy ==
  ASSUME NEW p, NEW n \in Nat, Len(p) = n, NEW st, \A k \in 1 .. n : Fits(p[k], st[k], st[k + 1])
  PROVE  Leads(st[1], p, st[n + 1])
<1> DEFINE r == [k \in 0 .. n |-> st[k + 1]]
<1>1. r[0] = st[1] /\ r[n] = st[n + 1]
  OBVIOUS
<1>2. \A k \in 1 .. n : r[k] = st[k + 1] /\ r[k - 1] = st[k]
  <2>1. \A k \in 1 .. n : k \in 0 .. n /\ k - 1 \in 0 .. n /\ (k - 1) + 1 = k
    OBVIOUS
  <2> QED
    BY <2>1
<1> HIDE DEF r
<1>3. \A k \in 1 .. Len(p) : Fits(p[k], r[k - 1], r[k])
  BY <1>2
<1>4. Leads(r[0], p, r[Len(p)])
  BY <1>3, LeadsEach
<1> QED
  BY <1>1, <1>4, Zenon

-----------------------------------------------------------------------------
(* A database: its tables T, its foreign keys F and what else it holds, E  *)

Names == {"event_host", "venue", "event", "ticket", "user", "booking", "payment_record"}

Db(T, F, E) == {Table(t) : t \in T} \cup {Fk(f[1], f[2]) : f \in F} \cup E

\* E has neither tables nor foreign keys.
Plain(E) == \A i \in E : i[2] \notin {"table", "fk"}
Shape(T, F, E) == T \subseteq Names /\ F \subseteq Names \X Names /\ Plain(E)

LEMMA DbItems ==
  ASSUME NEW T, NEW F, NEW E, Shape(T, F, E)
  PROVE  /\ \A t : Table(t) \in Db(T, F, E) <=> t \in T
         /\ \A t, r : Fk(t, r) \in Db(T, F, E) <=> <<t, r>> \in F
         /\ \A i : i[2] \notin {"table", "fk"} => (i \in Db(T, F, E) <=> i \in E)
         /\ \A j \in Db(T, F, E) : j[2] = "fk" => <<j[1], j[3]>> \in F
<1>1. \A i : i \in Db(T, F, E) <=> \/ \E t \in T : i = Table(t)
                                   \/ \E f \in F : i = Fk(f[1], f[2])
                                   \/ i \in E
  BY DEF Db
<1>2. \A t : Table(t)[1] = t /\ Table(t)[2] = "table"
  BY DEF Table
<1>3. \A t, r : Fk(t, r)[1] = t /\ Fk(t, r)[2] = "fk" /\ Fk(t, r)[3] = r
  BY DEF Fk
<1>4. \A f \in F : f = <<f[1], f[2]>>
  BY DEF Shape
<1>5. \A i \in E : i[2] # "table" /\ i[2] # "fk"
  BY DEF Shape, Plain
<1>6. \A t : Table(t) \in Db(T, F, E) <=> t \in T
  BY <1>1, <1>2, <1>3, <1>5
<1>7. \A t, r : Fk(t, r) \in Db(T, F, E) <=> <<t, r>> \in F
  <2> TAKE t, r
  <2>1. ASSUME Fk(t, r) \in Db(T, F, E) PROVE <<t, r>> \in F
    <3>1. PICK f \in F : Fk(t, r) = Fk(f[1], f[2])
      BY <1>1, <1>2, <1>3, <1>5, <2>1
    <3>2. t = f[1] /\ r = f[2]
      BY <1>3, <3>1
    <3> QED
      BY <1>4, <3>2
  <2>2. ASSUME <<t, r>> \in F PROVE Fk(t, r) \in Db(T, F, E)
    <3>1. <<t, r>>[1] = t /\ <<t, r>>[2] = r
      OBVIOUS
    <3> QED
      BY <1>1, <2>2, <3>1
  <2> QED
    BY <2>1, <2>2
<1>8. \A i : i[2] \notin {"table", "fk"} => (i \in Db(T, F, E) <=> i \in E)
  BY <1>1, <1>2, <1>3
<1>9. ASSUME NEW j \in Db(T, F, E), j[2] = "fk" PROVE <<j[1], j[3]>> \in F
  <2>1. PICK f \in F : j = Fk(f[1], f[2])
    BY <1>1, <1>2, <1>5, <1>9
  <2>2. j[1] = f[1] /\ j[3] = f[2]
    BY <1>3, <2>1
  <2> QED
    BY <1>4, <2>2
<1> QED
  BY <1>6, <1>7, <1>8, <1>9

\* What a statement finds there.
LEMMA DbRows ==
  ASSUME NEW T, NEW F, NEW E, Shape(T, F, E)
  PROVE  /\ \A t : RowsOf(t, Db(T, F, E)) = RowsOf(t, E)
         /\ \A t : \A c \in Children(t, Db(T, F, E)) : <<c, t>> \in F
<1>1. \A i : i[2] = "row" => (i \in Db(T, F, E) <=> i \in E)
  BY DbItems
<1>2. \A t : RowsOf(t, Db(T, F, E)) = RowsOf(t, E)
  BY <1>1 DEF RowsOf
<1>3. \A j \in Db(T, F, E) : j[2] = "fk" => <<j[1], j[3]>> \in F
  BY DbItems
<1>4. ASSUME NEW t, NEW c \in Children(t, Db(T, F, E)) PROVE <<c, t>> \in F
  BY <1>3 DEF Children
<1> QED
  BY <1>2, <1>4

-----------------------------------------------------------------------------
(* What the migrations leave behind                                        *)

Six == {"event_host", "venue", "event", "ticket", "user", "booking"}
Five == {<<"event", "event_host">>, <<"event", "venue">>, <<"ticket", "event">>,
         <<"booking", "user">>, <<"booking", "ticket">>}
FivePaid == Five \cup {<<"payment_record", "booking">>}

Preset == Default("booking", "payment_status")
Status == {Column("booking", "payment_status"), Check("booking", "payment_status")}
Indexes == {Index("ticket", "event_id"), Index("booking", "user_id"),
            Index("payment_record", "user_id"), Index("payment_record", "booking_id")}

Parents == {Row(t, "seed") : t \in {"user", "venue", "event_host"}}
SeatIds(e) == UNION {{<<e, sec, seat>> : seat \in 1 .. EventSeeds[e][sec]} : sec \in 1 .. 3}
Seats(e) == {Row("ticket", id) : id \in SeatIds(e)}
SeedRows == Parents \cup {Row("event", e) : e \in DOMAIN EventSeeds}
            \cup UNION {Seats(e) : e \in DOMAIN EventSeeds}

\* The first a migrations are applied.
Besides(a) == (IF a = 1 THEN Status ELSE {}) \cup (IF a >= 3 THEN SeedRows ELSE {})
           \cup (IF a = 4 THEN Indexes ELSE {}) \cup {Done(m) : m \in 1 .. a}
AsApplied(a) == Db(IF a = 0 THEN {} ELSE IF a = 1 THEN Six ELSE Names,
                   IF a = 0 THEN {} ELSE IF a = 1 THEN Five ELSE FivePaid, Besides(a))

\* The down of the second leaves a default behind.
AsLeft(S, a) == S = AsApplied(a) \/ (a = 1 /\ S = AsApplied(1) \cup {Preset})

-----------------------------------------------------------------------------
(* One statement                                                           *)

\* s needs N, adds A, drops D, and neither empties nor drops a table.
Writes(s, N, A, D) ==
  s.needs = N /\ s.adds = A /\ s.dels = D /\ s.wipes = {} /\ s.clears = {}

\* A row that A adds finds its parents on S.
ParentsIn(A, S) ==
  \A i \in A : i[2] = "row" => \A j \in S : j[1] = i[1] /\ j[2] = "fk" => RowsOf(j[3], S) # {}

NoSale(A) == \A i \in A : i[2] = "row" => i[1] \notin SaleTables

LEMMA NoSaleRow ==
  ASSUME NEW A, NoSale(A)
  PROVE  A \cap SaleRows = {}
<1>1. \A i \in SaleRows : i[1] \in SaleTables /\ i[2] = "row"
  BY DEF SaleRows, SaleTables, Row
<1> QED
  BY <1>1 DEF NoSale

LEMMA FitsWrites ==
  ASSUME NEW s, NEW N, NEW A, NEW D, NEW S, Writes(s, N, A, D),
         N \subseteq S, A \cap S = {}, ParentsIn(A, S), NoSale(A)
  PROVE  Fits(s, S, (S \ D) \cup A)
<1>1. s.needs = N /\ s.adds = A /\ s.dels = D /\ s.wipes = {} /\ s.clears = {}
  BY DEF Writes
<1>2. Gone(S, s) = D
  BY <1>1 DEF Gone
<1>3. Result(S, s) = (S \ D) \cup A
  BY <1>1, <1>2, Zenon DEF Result
<1>4. Works(s, S)
  BY <1>1 DEF Works, ParentsIn
<1>5. A \cap SaleRows = {}
  BY NoSaleRow
<1> QED
  BY <1>1, <1>3, <1>4, <1>5, Zenon DEF Fits

\* None of the items is a row.
Rowless(A) == \A i \in A : i[2] # "row"

LEMMA FitsRowless ==
  ASSUME NEW s, NEW N, NEW A, NEW D, NEW S, Writes(s, N, A, D),
         N \subseteq S, A \cap S = {}, Rowless(A)
  PROVE  Fits(s, S, (S \ D) \cup A)
<1>1. ParentsIn(A, S)
  BY DEF Rowless, ParentsIn
<1>2. NoSale(A)
  BY DEF Rowless, NoSale
<1> QED
  BY <1>1, <1>2, FitsWrites

LEMMA StatementWrites ==
  /\ \A t, refs, extras :
       Writes(CreateTable(t, refs, extras), {Table(r) : r \in refs},
              {Table(t)} \cup {Fk(t, r) : r \in refs} \cup extras, {})
  /\ \A t, r : Writes(AddFk(t, r), {Table(t), Table(r)}, {Fk(t, r)}, {})
  /\ \A t, r : Writes(DropFk(t, r), {Fk(t, r)}, {}, {Fk(t, r)})
  /\ \A t, items : Writes(Add(t, items), {Table(t)}, items, {})
  /\ \A t, items : Writes(DropIfExists(t, items), {Table(t)}, {}, items)
  /\ \A t, c : Writes(CreateIndex(t, c), {Table(t)}, {Index(t, c)}, {})
  /\ \A t, c : Writes(DropIndex(t, c), {Index(t, c)}, {}, {Index(t, c)})
  /\ \A t, ids : Writes(Save(t, ids), {Table(t)}, {Row(t, id) : id \in ids}, {})
  /\ \A m : Writes(DoneUp(m), {}, {Done(m)}, {})
  /\ \A m : Writes(DoneDown(m), {}, {}, {Done(m)})
<1>1. \A t, refs, extras :
       Writes(CreateTable(t, refs, extras), {Table(r) : r \in refs},
              {Table(t)} \cup {Fk(t, r) : r \in refs} \cup extras, {})
  BY DEF Writes, Sql, CreateTable
<1>2. \A t, r : Writes(AddFk(t, r), {Table(t), Table(r)}, {Fk(t, r)}, {})
  BY DEF Writes, Sql, AddFk
<1>3. \A t, r : Writes(DropFk(t, r), {Fk(t, r)}, {}, {Fk(t, r)})
  BY DEF Writes, Sql, DropFk
<1>4. \A t, items : Writes(Add(t, items), {Table(t)}, items, {})
  BY DEF Writes, Sql, Add
<1>5. \A t, items : Writes(DropIfExists(t, items), {Table(t)}, {}, items)
  BY DEF Writes, Sql, DropIfExists
<1>6. \A t, c : Writes(CreateIndex(t, c), {Table(t)}, {Index(t, c)}, {})
  BY DEF Writes, Sql, CreateIndex
<1>7. \A t, c : Writes(DropIndex(t, c), {Index(t, c)}, {}, {Index(t, c)})
  BY DEF Writes, Sql, DropIndex
<1>8. \A t, ids : Writes(Save(t, ids), {Table(t)}, {Row(t, id) : id \in ids}, {})
  BY DEF Writes, Sql, Save
<1>9. \A m : Writes(DoneUp(m), {}, {Done(m)}, {})
  BY DEF Writes, Sql, DoneUp
<1>10. \A m : Writes(DoneDown(m), {}, {}, {Done(m)})
  BY DEF Writes, Sql, DoneDown
<1> QED
  BY <1>1, <1>2, <1>3, <1>4, <1>5, <1>6, <1>7, <1>8, <1>9, <1>10, Zenon

LEMMA DbGrows ==
  ASSUME NEW T, NEW F, NEW E, NEW T2, NEW F2, NEW E2
  PROVE  Db(T \cup T2, F \cup F2, E \cup E2) = Db(T, F, E) \cup Db(T2, F2, E2)
  BY DEF Db

LEMMA FitsCreate ==
  ASSUME NEW T, NEW F, NEW E, Shape(T, F, E), NEW t \in Names \ T, NEW refs \in SUBSET T,
         \A r \in refs : <<t, r>> \notin F,
         NEW X, Plain(X), Rowless(X), X \cap E = {}
  PROVE  Fits(CreateTable(t, refs, X), Db(T, F, E),
              Db(T \cup {t}, F \cup {<<t, r>> : r \in refs}, E \cup X))
<1> DEFINE N == {Table(r) : r \in refs}
           A == {Table(t)} \cup {Fk(t, r) : r \in refs} \cup X
<1>1. Writes(CreateTable(t, refs, X), N, A, {})
  BY StatementWrites, Zenon
<1>2. N \subseteq Db(T, F, E)
  BY DbItems
<1>3. Rowless(A)
  <2>1. Table(t)[2] # "row" /\ \A r : Fk(t, r)[2] # "row"
    BY DEF Table, Fk
  <2> QED
    BY <2>1 DEF Rowless
<1>4. A \cap Db(T, F, E) = {}
  <2>1. Table(t) \notin Db(T, F, E)
    BY DbItems
  <2>2. \A r \in refs : Fk(t, r) \notin Db(T, F, E)
    <3> TAKE r \in refs
    <3>1. Fk(t, r) \in Db(T, F, E) <=> <<t, r>> \in F
      BY DbItems
    <3> QED
      BY <3>1
  <2>3. \A i \in X : i \notin Db(T, F, E)
    <3>1. \A i \in X : i[2] \notin {"table", "fk"} /\ i \notin E
      BY DEF Plain
    <3> QED
      BY <3>1, DbItems
  <2> QED
    BY <2>1, <2>2, <2>3
<1>5. A = Db({t}, {<<t, r>> : r \in refs}, X)
  <2> DEFINE F2 == {<<t, r>> : r \in refs}
  <2>1. {Table(x) : x \in {t}} = {Table(t)}
    OBVIOUS
  <2>2. {Fk(f[1], f[2]) : f \in F2} = {Fk(t, r) : r \in refs}
    <3>1. \A r : <<t, r>>[1] = t /\ <<t, r>>[2] = r
      OBVIOUS
    <3>2. \A r \in refs : Fk(<<t, r>>[1], <<t, r>>[2]) = Fk(t, r)
      BY <3>1, Zenon
    <3>3. {Fk(f[1], f[2]) : f \in F2} = {Fk(<<t, r>>[1], <<t, r>>[2]) : r \in refs}
      OBVIOUS
    <3> QED
      BY <3>2, <3>3
  <2> QED
    BY <2>1, <2>2, Zenon DEF Db
<1> HIDE DEF A, N
<1>6. Fits(CreateTable(t, refs, X), Db(T, F, E), (Db(T, F, E) \ {}) \cup A)
  BY <1>1, <1>2, <1>3, <1>4, FitsRowless
<1>7. (Db(T, F, E) \ {}) \cup A = Db(T, F, E) \cup A
  OBVIOUS
<1> DEFINE F2 == {<<t, r>> : r \in refs}
<1>8. Db(T \cup {t}, F \cup F2, E \cup X) = Db(T, F, E) \cup Db({t}, F2, X)
  <2> HIDE DEF F2
  <2> QED
    BY DbGrows
<1> QED
  BY <1>5, <1>6, <1>7, <1>8, Zenon

LEMMA FitsAddFk ==
  ASSUME NEW T, NEW F, NEW E, Shape(T, F, E), NEW t \in T, NEW r \in T, <<t, r>> \notin F
  PROVE  Fits(AddFk(t, r), Db(T, F, E), Db(T, F \cup {<<t, r>>}, E))
<1> DEFINE N == {Table(t), Table(r)}
           A == {Fk(t, r)}
<1>1. Writes(AddFk(t, r), N, A, {})
  BY StatementWrites, Zenon
<1>2. N \subseteq Db(T, F, E)
  BY DbItems
<1>3. Rowless(A)
  BY DEF Fk, Rowless
<1>4. A \cap Db(T, F, E) = {}
  BY DbItems
<1>5. Db(T, F \cup {<<t, r>>}, E) = (Db(T, F, E) \ {}) \cup A
  <2>1. {Fk(f[1], f[2]) : f \in F \cup {<<t, r>>}} = {Fk(f[1], f[2]) : f \in F} \cup A
    <3>1. <<t, r>>[1] = t /\ <<t, r>>[2] = r
      OBVIOUS
    <3> QED
      BY <3>1
  <2> HIDE DEF A
  <2> QED
    BY <2>1 DEF Db
<1> HIDE DEF A, N
<1>6. Fits(AddFk(t, r), Db(T, F, E), (Db(T, F, E) \ {}) \cup A)
  BY <1>1, <1>2, <1>3, <1>4, FitsRowless
<1> QED
  BY <1>5, <1>6, Zenon

LEMMA FitsDropFk ==
  ASSUME NEW T, NEW F, NEW E, Shape(T, F, E), NEW t, NEW r, <<t, r>> \in F
  PROVE  Fits(DropFk(t, r), Db(T, F, E), Db(T, F \ {<<t, r>>}, E))
<1> DEFINE N == {Fk(t, r)}
<1>1. Writes(DropFk(t, r), N, {}, N)
  BY StatementWrites, Zenon
<1>2. N \subseteq Db(T, F, E)
  BY DbItems
<1>3. Rowless({})
  BY DEF Rowless
<1>4. Db(T, F \ {<<t, r>>}, E) = (Db(T, F, E) \ N) \cup {}
  <2> DEFINE G == F \ {<<t, r>>}
  <2>1. Shape(T, G, E)
    BY DEF Shape
  <2>2. \A f \in F : f = <<f[1], f[2]>>
    BY DEF Shape
  <2>3. Fk(t, r) \notin Db(T, G, E)
    <3>1. Fk(t, r) \in Db(T, G, E) <=> <<t, r>> \in G
      <4> HIDE DEF G
      <4> QED
        BY <2>1, DbItems
    <3> QED
      BY <3>1
  <2>4. {Fk(f[1], f[2]) : f \in F} = {Fk(f[1], f[2]) : f \in G} \cup N
    <3>1. F = G \cup {<<t, r>>}
      OBVIOUS
    <3>2. <<t, r>>[1] = t /\ <<t, r>>[2] = r
      OBVIOUS
    <3> HIDE DEF G
    <3> QED
      BY <3>1, <3>2
  <2>5. Db(T, F, E) = Db(T, G, E) \cup N
    <3> HIDE DEF G, N
    <3> QED
      BY <2>4 DEF Db
  <2> QED
    BY <2>3, <2>5
<1> HIDE DEF N
<1>5. {} \cap Db(T, F, E) = {}
  OBVIOUS
<1>6. Fits(DropFk(t, r), Db(T, F, E), (Db(T, F, E) \ N) \cup {})
  BY <1>1, <1>2, <1>3, <1>5, FitsRowless
<1> QED
  BY <1>4, <1>6, Zenon

\* A statement about columns, constraints or indexes.
LEMMA FitsExtras ==
  ASSUME NEW T, NEW F, NEW E, Shape(T, F, E), NEW s, NEW N, NEW A, NEW D, Writes(s, N, A, D),
         N \subseteq Db(T, F, E), Plain(A), Rowless(A), A \cap E = {}, Plain(D)
  PROVE  Fits(s, Db(T, F, E), Db(T, F, (E \ D) \cup A))
<1>1. A \cap Db(T, F, E) = {}
  <2>1. \A i \in A : i[2] \notin {"table", "fk"} /\ i \notin E
    BY DEF Plain
  <2> QED
    BY <2>1, DbItems
<1>2. (Db(T, F, E) \ D) \cup A = Db(T, F, (E \ D) \cup A)
  <2>1. \A x \in T : Table(x) \notin D
    BY DEF Plain, Table
  <2>2. \A f \in F : Fk(f[1], f[2]) \notin D
    BY DEF Plain, Fk
  <2> QED
    BY <2>1, <2>2 DEF Db
<1>3. Fits(s, Db(T, F, E), (Db(T, F, E) \ D) \cup A)
  BY <1>1, FitsRowless
<1> QED
  BY <1>2, <1>3, Zenon

\* A statement that adds rows.
LEMMA FitsRows ==
  ASSUME NEW T, NEW F, NEW E, Shape(T, F, E), NEW s, NEW N, NEW A, Writes(s, N, A, {}),
         N \subseteq Db(T, F, E), A \cap E = {}, NoSale(A), \A i \in A : i[2] = "row",
         \A i \in A : \A p : <<i[1], p>> \in F => RowsOf(p, E) # {}
  PROVE  Fits(s, Db(T, F, E), Db(T, F, E \cup A))
<1>1. A \cap Db(T, F, E) = {}
  <2>1. \A i \in A : i[2] \notin {"table", "fk"} /\ i \notin E
    OBVIOUS
  <2> QED
    BY <2>1, DbItems
<1>2. (Db(T, F, E) \ {}) \cup A = Db(T, F, E \cup A)
  BY DEF Db
<1>3. ParentsIn(A, Db(T, F, E))
  <2> SUFFICES ASSUME NEW i \in A, NEW j \in Db(T, F, E), j[1] = i[1], j[2] = "fk"
               PROVE  RowsOf(j[3], Db(T, F, E)) # {}
    BY Zenon DEF ParentsIn
  <2>1. <<j[1], j[3]>> \in F
    BY DbItems
  <2>2. RowsOf(j[3], E) # {}
    BY <2>1, Zenon
  <2>3. RowsOf(j[3], Db(T, F, E)) = RowsOf(j[3], E)
    BY DbRows
  <2> QED
    BY <2>2, <2>3
<1>4. Fits(s, Db(T, F, E), (Db(T, F, E) \ {}) \cup A)
  BY <1>1, <1>3, FitsWrites
<1> QED
  BY <1>2, <1>4, Zenon

LEMMA FitsDeleteFrom ==
  ASSUME NEW T, NEW F, NEW E, Shape(T, F, E), NEW t \in T,
         \A c : <<c, t>> \in F => RowsOf(c, E) = {}
  PROVE  Fits(DeleteFrom(t), Db(T, F, E), Db(T, F, E \ RowsOf(t, E)))
<1> DEFINE s == DeleteFrom(t)
           S == Db(T, F, E)
<1>1. s.needs = {Table(t)} /\ s.adds = {} /\ s.dels = {} /\ s.wipes = {} /\ s.clears = {t}
  BY DEF DeleteFrom, Sql
<1> HIDE DEF s
<1>2. Table(t) \in S
  BY DbItems
<1>3. RowsOf(t, S) = RowsOf(t, E) /\ \A c : RowsOf(c, S) = RowsOf(c, E)
  BY DbRows
<1>4. \A c \in Children(t, S) : RowsOf(c, S) = {}
  <2> TAKE c \in Children(t, S)
  <2>1. <<c, t>> \in F
    BY DbRows
  <2> QED
    BY <1>3, <2>1, Zenon
<1>5. Db(T, F, E \ RowsOf(t, E)) = S \ RowsOf(t, E)
  <2>1. \A x : Table(x)[2] # "row" /\ \A y : Fk(x, y)[2] # "row"
    BY DEF Table, Fk
  <2>2. \A i \in RowsOf(t, E) : i[2] = "row"
    BY DEF RowsOf
  <2>3. \A x \in T : Table(x) \notin RowsOf(t, E)
    BY <2>1, <2>2
  <2>4. \A f \in F : Fk(f[1], f[2]) \notin RowsOf(t, E)
    BY <2>1, <2>2
  <2> QED
    BY <2>3, <2>4 DEF Db
<1> HIDE DEF S
<1>6. Gone(S, s) = RowsOf(t, E)
  BY <1>1, <1>3 DEF Gone
<1>7. Result(S, s) = S \ RowsOf(t, E)
  BY <1>1, <1>6 DEF Result
<1>8. Works(s, S)
  BY <1>1, <1>2, <1>4 DEF Works
<1> QED
  BY <1>1, <1>5, <1>7, <1>8 DEF Fits, s, S

\* Without anything of the tables in A.
Dropped(E, A) == {i \in E : i[1] \notin A}

\* No foreign key refers to t.
Unreferenced(t, F) == \A f \in F : f[2] # t

LEMMA FitsDropTable ==
  ASSUME NEW T, NEW F, NEW E, Shape(T, F, E), NEW t \in T, NEW refs,
         Unreferenced(t, F)
  PROVE  Fits(DropTable(t, refs), Db(T, F, E),
              Db(T \ {t}, Dropped(F, {t}), Dropped(E, {t})))
<1> DEFINE s == DropTable(t, refs)
           S == Db(T, F, E)
<1>1. s.needs = {Table(t)} /\ s.adds = {} /\ s.dels = {} /\ s.wipes = {t} /\ s.clears = {}
  BY DEF DropTable, Sql
<1> HIDE DEF s
<1>2. Table(t) \in S
  BY DbItems
<1>3. Children(t, S) \subseteq {t}
  <2>1. \A c \in Children(t, S) : <<c, t>> \in F
    BY DbRows
  <2>2. \A c : <<c, t>>[2] = t
    OBVIOUS
  <2> QED
    BY <2>1, <2>2 DEF Unreferenced
<1>4. Db(T \ {t}, Dropped(F, {t}), Dropped(E, {t})) = {i \in S : i[1] # t}
  <2>1. \A x : Table(x)[1] = x /\ \A y : Fk(x, y)[1] = x
    BY DEF Table, Fk
  <2> QED
    BY <2>1 DEF Db, Dropped
<1> HIDE DEF S
<1>5. Gone(S, s) = {i \in S : i[1] = t}
  BY <1>1 DEF Gone
<1>6. Result(S, s) = {i \in S : i[1] # t}
  BY <1>1, <1>5 DEF Result
<1>7. Works(s, S)
  BY <1>1, <1>2, <1>3 DEF Works
<1> QED
  BY <1>1, <1>4, <1>6, <1>7 DEF Fits, s, S

-----------------------------------------------------------------------------
(* The scripts, in the order of their statements                           *)

TableOrder == << "event_host", "venue", "event", "ticket", "user", "booking" >>
FkOrder == << <<"event", "event_host">>, <<"event", "venue">>, <<"ticket", "event">>,
              <<"booking", "user">>, <<"booking", "ticket">> >>
IndexOrder == << Index("ticket", "event_id"), Index("booking", "user_id"),
                 Index("payment_record", "user_id"), Index("payment_record", "booking_id") >>
DeleteOrder == << "payment_record", "booking", "ticket", "event", "event_host", "venue", "user" >>

\* The first n of them.
UpTo(q, n) == {q[j] : j \in 1 .. n}
Apart(q, n) == \A i \in 1 .. n : \A j \in 1 .. n : q[i] = q[j] => i = j

LEMMA UpToGrows ==
  ASSUME NEW q, NEW n \in Nat
  PROVE  /\ UpTo(q, 0) = {}
         /\ UpTo(q, n + 1) = UpTo(q, n) \cup {q[n + 1]}
<1>1. UpTo(q, 0) = {}
  BY DEF UpTo
<1>2. \A j : j \in 1 .. n + 1 <=> j \in 1 .. n \/ j = n + 1
  OBVIOUS
<1> QED
  BY <1>1, <1>2 DEF UpTo

LEMMA UpToApart ==
  ASSUME NEW q, NEW m \in Nat, Apart(q, m), NEW n \in Nat, n < m
  PROVE  /\ q[n + 1] \notin UpTo(q, n)
         /\ UpTo(q, n + 1) \ {q[n + 1]} = UpTo(q, n)
<1>1. q[n + 1] \notin UpTo(q, n)
  <2> SUFFICES ASSUME NEW j \in 1 .. n, q[j] = q[n + 1] PROVE FALSE
    BY DEF UpTo
  <2>1. j \in 1 .. m /\ n + 1 \in 1 .. m /\ j # n + 1
    OBVIOUS
  <2> QED
    BY <2>1 DEF Apart
<1> QED
  BY <1>1, UpToGrows

\* What they are about.
LEMMA Orders ==
  /\ Apart(TableOrder, 6) /\ UpTo(TableOrder, 6) = Six
  /\ \A k \in 1 .. 6 : TableOrder[k] \in Six
  /\ Six \subseteq Names /\ Names = Six \cup {"payment_record"}
<1>1. /\ TableOrder[1] = "event_host" /\ TableOrder[2] = "venue" /\ TableOrder[3] = "event"
      /\ TableOrder[4] = "ticket" /\ TableOrder[5] = "user" /\ TableOrder[6] = "booking"
  BY DEF TableOrder
<1>2. \A k : k \in 1 .. 6 <=> k \in {1, 2, 3, 4, 5, 6}
  OBVIOUS
<1>3. \A i \in {1, 2, 3, 4, 5, 6} : \A j \in {1, 2, 3, 4, 5, 6} : TableOrder[i] = TableOrder[j] => i = j
  BY <1>1
<1>4. {TableOrder[j] : j \in {1, 2, 3, 4, 5, 6}} = Six
  BY <1>1 DEF Six
<1>5. 1 .. 6 = {1, 2, 3, 4, 5, 6}
  BY <1>2
<1>6. Six \subseteq Names /\ Names = Six \cup {"payment_record"}
  BY DEF Six, Names
<1>7. \A k \in 1 .. 6 : TableOrder[k] \in Six
  BY <1>4, <1>5
<1> HIDE DEF Six
<1> QED
  BY <1>3, <1>4, <1>5, <1>6, <1>7, Zenon DEF Apart, UpTo

LEMMA FkOrders ==
  /\ Apart(FkOrder, 5) /\ UpTo(FkOrder, 5) = Five
  /\ \A k \in 1 .. 5 : FkOrder[k] = <<FkOrder[k][1], FkOrder[k][2]>>
                       /\ FkOrder[k][1] \in Six /\ FkOrder[k][2] \in Six
<1>1. /\ FkOrder[1] = <<"event", "event_host">> /\ FkOrder[2] = <<"event", "venue">>
      /\ FkOrder[3] = <<"ticket", "event">> /\ FkOrder[4] = <<"booking", "user">>
      /\ FkOrder[5] = <<"booking", "ticket">>
  BY DEF FkOrder
<1>2. 1 .. 5 = {1, 2, 3, 4, 5}
  OBVIOUS
<1>3. \A i \in {1, 2, 3, 4, 5} : \A j \in {1, 2, 3, 4, 5} : FkOrder[i] = FkOrder[j] => i = j
  BY <1>1
<1>4. {FkOrder[j] : j \in {1, 2, 3, 4, 5}} = Five
  BY <1>1 DEF Five
<1>5. \A k \in {1, 2, 3, 4, 5} : FkOrder[k] = <<FkOrder[k][1], FkOrder[k][2]>>
                       /\ FkOrder[k][1] \in Six /\ FkOrder[k][2] \in Six
  BY <1>1 DEF Six
<1> HIDE DEF Five
<1> QED
  BY <1>2, <1>3, <1>4, <1>5, Zenon DEF Apart, UpTo

LEMMA IndexOrders ==
  /\ Apart(IndexOrder, 4) /\ UpTo(IndexOrder, 4) = Indexes
  /\ \A k \in 1 .. 4 : /\ IndexOrder[k] = Index(IndexOrder[k][1], IndexOrder[k][3])
                       /\ IndexOrder[k][1] \in Names
  /\ Plain(Indexes) /\ Rowless(Indexes)
<1>1. /\ IndexOrder[1] = Index("ticket", "event_id") /\ IndexOrder[2] = Index("booking", "user_id")
      /\ IndexOrder[3] = Index("payment_record", "user_id")
      /\ IndexOrder[4] = Index("payment_record", "booking_id")
  BY DEF IndexOrder
<1>2. 1 .. 4 = {1, 2, 3, 4}
  OBVIOUS
<1>3. \A t, c : Index(t, c)[1] = t /\ Index(t, c)[2] = "index" /\ Index(t, c)[3] = c
  BY DEF Index
<1>4. \A i \in {1, 2, 3, 4} : \A j \in {1, 2, 3, 4} : IndexOrder[i] = IndexOrder[j] => i = j
  <2>1. /\ IndexOrder[1][1] = "ticket" /\ IndexOrder[2][1] = "booking"
        /\ IndexOrder[3][1] = "payment_record" /\ IndexOrder[4][1] = "payment_record"
        /\ IndexOrder[3][3] = "user_id" /\ IndexOrder[4][3] = "booking_id"
    BY <1>1, <1>3
  <2> QED
    BY <2>1
<1>5. {IndexOrder[j] : j \in {1, 2, 3, 4}} = Indexes
  BY <1>1 DEF Indexes
<1>6. \A k \in {1, 2, 3, 4} : /\ IndexOrder[k] = Index(IndexOrder[k][1], IndexOrder[k][3])
                             /\ IndexOrder[k][1] \in Names
  BY <1>1, <1>3 DEF Names
<1>7. Plain(Indexes) /\ Rowless(Indexes)
  BY <1>3 DEF Plain, Rowless, Indexes
<1> HIDE DEF Indexes
<1> QED
  BY <1>2, <1>4, <1>5, <1>6, <1>7, Zenon DEF Apart, UpTo

\* The Schema migration on a database without tables.
LEMMA SchemaUpLeads ==
  ASSUME NEW E, Plain(E), E \cap Status = {}
  PROVE  Leads(Db({}, {}, E), SchemaUp, Db(Six, Five, E \cup Status))
<1> DEFINE ups(k) == UpTo(TableOrder, IF k <= 6 THEN k ELSE 6)
           fks(k) == UpTo(FkOrder, IF k <= 6 THEN 0 ELSE k - 6)
           rest(k) == IF k < 6 THEN E ELSE E \cup Status
           st == [k \in 0 .. 11 |-> Db(ups(k), fks(k), rest(k))]
<1>1. Plain(Status) /\ Rowless(Status)
  BY DEF Plain, Rowless, Status, Column, Check
<1>2. ASSUME NEW k \in 1 .. 5 PROVE Fits(SchemaUp[k], st[k - 1], st[k])
  <2>1. SchemaUp[k] = CreateTable(TableOrder[k], {}, {})
    <3>1. k = 1 \/ k = 2 \/ k = 3 \/ k = 4 \/ k = 5
      OBVIOUS
    <3> QED
      BY <3>1 DEF SchemaUp, TableOrder
  <2> DEFINE T == UpTo(TableOrder, k - 1)
  <2>2. st[k - 1] = Db(T, {}, E)
    <3>1. k - 1 \in 0 .. 11 /\ k - 1 <= 6 /\ k - 1 < 6
      OBVIOUS
    <3> QED
      BY <3>1, UpToGrows
  <2>3. st[k] = Db(T \cup {TableOrder[k]}, {}, E)
    <3>1. k \in 0 .. 11 /\ k <= 6 /\ k < 6 /\ k - 1 \in Nat /\ (k - 1) + 1 = k
      OBVIOUS
    <3>2. UpTo(TableOrder, k) = T \cup {TableOrder[k]}
      BY <3>1, UpToGrows
    <3> HIDE DEF T
    <3> QED
      BY <3>1, <3>2, UpToGrows
  <2>4. TableOrder[k] \in Names \ T
    <3>1. k - 1 \in Nat /\ k - 1 < 6 /\ (k - 1) + 1 = k /\ k \in 1 .. 6
      OBVIOUS
    <3> QED
      BY <3>1, Orders, UpToApart
  <2>5. Shape(T, {}, E)
    <3>1. \A j \in 1 .. k - 1 : TableOrder[j] \in Names
      BY Orders
    <3> QED
      BY <3>1 DEF Shape, UpTo
  <2> HIDE DEF T, st
  <2>6. Plain({}) /\ Rowless({}) /\ {} \cap E = {} /\ {} \in SUBSET T
    BY DEF Plain, Rowless
  <2>7. Fits(CreateTable(TableOrder[k], {}, {}), Db(T, {}, E),
             Db(T \cup {TableOrder[k]}, {} \cup {<<TableOrder[k], r>> : r \in {}}, E \cup {}))
    BY <2>4, <2>5, <2>6, FitsCreate
  <2>8. {} \cup {<<TableOrder[k], r>> : r \in {}} = {} /\ E \cup {} = E
    OBVIOUS
  <2> QED
    BY <2>1, <2>2, <2>3, <2>7, <2>8
<1>3. Fits(SchemaUp[6], st[5], st[6])
  <2> DEFINE T == UpTo(TableOrder, 5)
  <2>1. SchemaUp[6] = CreateTable("booking", {}, Status) /\ TableOrder[6] = "booking"
    BY DEF SchemaUp, TableOrder, Status
  <2>2. st[5] = Db(T, {}, E)
    <3>1. st[5] = Db(T, UpTo(FkOrder, 0), E)
      OBVIOUS
    <3>2. UpTo(FkOrder, 0) = {}
      BY UpToGrows
    <3> QED
      BY <3>1, <3>2, Zenon
  <2>3. st[6] = Db(T \cup {"booking"}, {}, E \cup Status)
    <3>1. st[6] = Db(UpTo(TableOrder, 6), UpTo(FkOrder, 0), E \cup Status)
      OBVIOUS
    <3>2. UpTo(FkOrder, 0) = {}
      BY UpToGrows
    <3>3. UpTo(TableOrder, 5 + 1) = T \cup {TableOrder[5 + 1]} /\ 5 + 1 = 6
      BY UpToGrows
    <3> QED
      BY <2>1, <3>1, <3>2, <3>3, Zenon
  <2>4. "booking" \in Names \ T
    <3>1. TableOrder[5 + 1] \notin T
      BY Orders, UpToApart
    <3> HIDE DEF T
    <3> QED
      BY <2>1, <3>1 DEF Names
  <2>5. Shape(T, {}, E)
    <3>1. \A j \in 1 .. 5 : TableOrder[j] \in Names
      BY Orders
    <3> QED
      BY <3>1 DEF Shape, UpTo
  <2> HIDE DEF T, st
  <2>6. Status \cap E = {} /\ {} \in SUBSET T
    OBVIOUS
  <2>7. Fits(CreateTable("booking", {}, Status), Db(T, {}, E),
             Db(T \cup {"booking"}, {} \cup {<<"booking", r>> : r \in {}}, E \cup Status))
    BY <1>1, <2>4, <2>5, <2>6, FitsCreate
  <2>8. {} \cup {<<"booking", r>> : r \in {}} = {}
    OBVIOUS
  <2> QED
    BY <2>1, <2>2, <2>3, <2>7, <2>8
<1>4. ASSUME NEW k \in 1 .. 5 PROVE Fits(SchemaUp[6 + k], st[(6 + k) - 1], st[6 + k])
  <2> DEFINE F == UpTo(FkOrder, k - 1)
             t == FkOrder[k][1]
             r == FkOrder[k][2]
             R == E \cup Status
  <2>1. SchemaUp[6 + k] = AddFk(t, r)
    <3>1. k = 1 \/ k = 2 \/ k = 3 \/ k = 4 \/ k = 5
      OBVIOUS
    <3> QED
      BY <3>1 DEF SchemaUp, FkOrder
  <2>2. FkOrder[k] = <<t, r>> /\ t \in Six /\ r \in Six
    BY FkOrders
  <2>3. st[(6 + k) - 1] = Db(Six, F, R)
    <3> DEFINE j == (6 + k) - 1
    <3>1. /\ j \in 0 .. 11 /\ ~ (j < 6) /\ j - 6 = k - 1
          /\ j <= 6 => j = 6 /\ k - 1 = 0
      OBVIOUS
    <3>2. ups(j) = Six
      BY <3>1, Orders
    <3>3. fks(j) = F
      BY <3>1
    <3>4. rest(j) = R
      BY <3>1
    <3>5. st[j] = Db(ups(j), fks(j), rest(j))
      BY <3>1
    <3> HIDE DEF st, ups, fks, rest, F, R
    <3> QED
      BY <3>2, <3>3, <3>4, <3>5
  <2>4. st[6 + k] = Db(Six, F \cup {<<t, r>>}, R)
    <3> DEFINE j == 6 + k
    <3>1. j \in 0 .. 11 /\ ~ (j < 6) /\ ~ (j <= 6) /\ j - 6 = k /\ k - 1 \in Nat /\ (k - 1) + 1 = k
      OBVIOUS
    <3>2. ups(j) = Six
      BY <3>1, Orders
    <3>3. fks(j) = F \cup {FkOrder[k]}
      <4>1. UpTo(FkOrder, (k - 1) + 1) = F \cup {FkOrder[(k - 1) + 1]}
        BY <3>1, UpToGrows
      <4> QED
        BY <3>1, <4>1
    <3>4. rest(j) = R
      BY <3>1
    <3>5. st[j] = Db(ups(j), fks(j), rest(j))
      BY <3>1
    <3> HIDE DEF st, ups, fks, rest, F, R
    <3> QED
      BY <2>2, <3>2, <3>3, <3>4, <3>5
  <2>5. <<t, r>> \notin F
    <3>1. k - 1 \in Nat /\ k - 1 < 5 /\ (k - 1) + 1 = k
      OBVIOUS
    <3>2. FkOrder[k] \notin F
      BY <3>1, FkOrders, UpToApart
    <3> HIDE DEF F
    <3> QED
      BY <2>2, <3>2
  <2>6. Shape(Six, F, R)
    <3>1. \A j \in 1 .. k - 1 : FkOrder[j] \in Names \X Names
      <4> TAKE j \in 1 .. k - 1
      <4>1. j \in 1 .. 5
        OBVIOUS
      <4>2. /\ FkOrder[j] = <<FkOrder[j][1], FkOrder[j][2]>>
            /\ FkOrder[j][1] \in Names /\ FkOrder[j][2] \in Names
        BY <4>1, FkOrders, Orders
      <4> QED
        BY <4>2
    <3>2. F \subseteq Names \X Names
      BY <3>1 DEF UpTo
    <3>3. Plain(R)
      BY <1>1 DEF Plain
    <3> QED
      BY <3>2, <3>3, Orders DEF Shape
  <2> HIDE DEF F, t, r, R, st
  <2>7. Fits(AddFk(t, r), Db(Six, F, R), Db(Six, F \cup {<<t, r>>}, R))
    BY <2>2, <2>5, <2>6, FitsAddFk
  <2> QED
    BY <2>1, <2>3, <2>4, <2>7
<1>5. Len(SchemaUp) = 11
  BY UpPlans
<1>6. \A k \in 1 .. 11 : Fits(SchemaUp[k], st[k - 1], st[k])
  <2> TAKE k \in 1 .. 11
  <2> HIDE DEF st
  <2>1. k \in 1 .. 5 \/ k = 6 \/ \E j \in 1 .. 5 : k = 6 + j
    <3>1. k \in 1 .. 6 \/ (k - 6 \in 1 .. 5 /\ k = 6 + (k - 6))
      OBVIOUS
    <3> QED
      BY <3>1
  <2>2. CASE k \in 1 .. 5
    BY <1>2, <2>2
  <2>3. CASE k = 6
    <3>1. 6 - 1 = 5
      OBVIOUS
    <3> QED
      BY <1>3, <2>3, <3>1, Zenon
  <2>4. CASE \E j \in 1 .. 5 : k = 6 + j
    <3>1. PICK j \in 1 .. 5 : k = 6 + j
      BY <2>4
    <3>2. Fits(SchemaUp[6 + j], st[(6 + j) - 1], st[6 + j])
      BY <1>4
    <3> QED
      BY <3>1, <3>2, Zenon
  <2> QED
    BY <2>1, <2>2, <2>3, <2>4
<1>7. st[0] = Db({}, {}, E)
  BY UpToGrows
<1>8. st[11] = Db(Six, Five, E \cup Status)
  BY Orders, FkOrders
<1> HIDE DEF st
<1>9. Leads(st[0], SchemaUp, st[Len(SchemaUp)])
  BY <1>5, <1>6, LeadsEach
<1> QED
  BY <1>5, <1>7, <1>8, <1>9, Zenon

\* PaymentRecordSchema: the status of a booking goes, with its default if it has one.
LEMMA PaymentUpLeads ==
  ASSUME NEW E, Plain(E)
  PROVE  Leads(Db(Six, Five, E), PaymentUp, Db(Names, FivePaid, E \ (Status \cup {Preset})))
<1> DEFINE D1 == {Check("booking", "payment_status")}
           D2 == {Column("booking", "payment_status"), Default("booking", "payment_status")}
           R == E \ (Status \cup {Preset})
           st == << Db(Six, Five, E), Db(Six, Five, E \ D1), Db(Six, Five, R),
                    Db(Names, FivePaid, R) >>
<1>1. (E \ D1) \ D2 = R
  BY DEF Status, Preset
<1>2. Plain(D1) /\ Plain(D2)
  BY DEF Plain, Check, Column, Default
<1>3. /\ PaymentUp[1] = DropIfExists("booking", D1)
      /\ PaymentUp[2] = DropIfExists("booking", D2)
      /\ PaymentUp[3] = CreateTable("payment_record", {"booking"}, {})
  BY DEF PaymentUp
<1>4. Five \subseteq Names \X Names /\ Six \subseteq Names /\ "booking" \in Six
  BY DEF Five, Names, Six
<1>5. Plain(E \ D1) /\ Plain(R)
  BY DEF Plain
<1> HIDE DEF D1, D2, R
<1>6. Shape(Six, Five, E) /\ Shape(Six, Five, E \ D1) /\ Shape(Six, Five, R)
  BY <1>4, <1>5 DEF Shape
<1>7. Plain({}) /\ Rowless({})
  BY DEF Plain, Rowless
<1>8. ASSUME NEW X, Shape(Six, Five, X), NEW D, Plain(D)
      PROVE  Fits(DropIfExists("booking", D), Db(Six, Five, X), Db(Six, Five, X \ D))
  <2>1. Writes(DropIfExists("booking", D), {Table("booking")}, {}, D)
    BY StatementWrites, Zenon
  <2>2. {Table("booking")} \subseteq Db(Six, Five, X)
    BY <1>4, <1>8, DbItems
  <2>3. {} \cap X = {}
    OBVIOUS
  <2>4. Fits(DropIfExists("booking", D), Db(Six, Five, X), Db(Six, Five, (X \ D) \cup {}))
    BY <1>7, <1>8, <2>1, <2>2, <2>3, FitsExtras
  <2>5. (X \ D) \cup {} = X \ D
    OBVIOUS
  <2> QED
    BY <2>4, <2>5, Zenon
<1>9. Fits(PaymentUp[1], st[1], st[2])
  BY <1>2, <1>3, <1>6, <1>8
<1>10. Fits(PaymentUp[2], st[2], st[3])
  <2>1. Fits(DropIfExists("booking", D2), Db(Six, Five, E \ D1), Db(Six, Five, (E \ D1) \ D2))
    BY <1>2, <1>6, <1>8
  <2>2. st[2] = Db(Six, Five, E \ D1) /\ st[3] = Db(Six, Five, R)
    OBVIOUS
  <2> QED
    BY <1>1, <1>3, <2>1, <2>2, Zenon
<1>11. Fits(PaymentUp[3], st[3], st[4])
  <2> DEFINE t == "payment_record"
  <2>1. t \in Names \ Six /\ {"booking"} \in SUBSET Six /\ {} \cap R = {}
    BY <1>4 DEF Six, Names
  <2>2. \A r \in {"booking"} : <<t, r>> \notin Five
    BY DEF Five
  <2>3. Fits(CreateTable(t, {"booking"}, {}), Db(Six, Five, R),
             Db(Six \cup {t}, Five \cup {<<t, r>> : r \in {"booking"}}, R \cup {}))
    BY <1>6, <1>7, <2>1, <2>2, FitsCreate
  <2>4. Six \cup {t} = Names
    BY Orders
  <2>5. Five \cup {<<t, r>> : r \in {"booking"}} = FivePaid
    BY DEF FivePaid
  <2>6. R \cup {} = R
    OBVIOUS
  <2>7. st[3] = Db(Six, Five, R) /\ st[4] = Db(Names, FivePaid, R)
    OBVIOUS
  <2> QED
    BY <1>3, <2>3, <2>4, <2>5, <2>6, <2>7, Zenon
<1>12. \A k \in 1 .. 3 : Fits(PaymentUp[k], st[k], st[k + 1])
  <2>1. \A k \in 1 .. 3 : (k = 1 /\ k + 1 = 2) \/ (k = 2 /\ k + 1 = 3) \/ (k = 3 /\ k + 1 = 4)
    OBVIOUS
  <2> HIDE DEF st
  <2> QED
    BY <1>9, <1>10, <1>11, <2>1, Zenon
<1>13. st[1] = Db(Six, Five, E) /\ st[4] = Db(Names, FivePaid, R)
  OBVIOUS
<1> HIDE DEF st
<1>14. Leads(st[1], PaymentUp, st[3 + 1])
  BY <1>12, UpPlans, LeadsBy
<1>15. 3 + 1 = 4
  OBVIOUS
<1> QED
  BY <1>13, <1>14, <1>15, Zenon DEF R

\* PerformanceIndexes.
LEMMA IndexesUpLeads ==
  ASSUME NEW E, Plain(E), E \cap Indexes = {}
  PROVE  Leads(Db(Names, FivePaid, E), IndexesUp, Db(Names, FivePaid, E \cup Indexes))
<1> DEFINE st == [k \in 0 .. 4 |-> Db(Names, FivePaid, E \cup UpTo(IndexOrder, k))]
<1>1. FivePaid \subseteq Names \X Names
  BY DEF FivePaid, Five, Names
<1>2. ASSUME NEW k \in 1 .. 4 PROVE Fits(IndexesUp[k], st[k - 1], st[k])
  <2> DEFINE i == IndexOrder[k]
             R == E \cup UpTo(IndexOrder, k - 1)
  <2>1. i = Index(i[1], i[3]) /\ i[1] \in Names /\ i \in Indexes
    <3>1. i \in UpTo(IndexOrder, 4)
      BY DEF UpTo
    <3> HIDE DEF i
    <3> QED
      BY <3>1, IndexOrders DEF i
  <2>2. IndexesUp[k] = CreateIndex(i[1], i[3])
    <3>1. k = 1 \/ k = 2 \/ k = 3 \/ k = 4
      OBVIOUS
    <3> QED
      BY <3>1 DEF IndexesUp, IndexOrder, Index
  <2>3. k - 1 \in Nat /\ k - 1 < 4 /\ (k - 1) + 1 = k /\ k - 1 \in 0 .. 4 /\ k \in 0 .. 4
    OBVIOUS
  <2>4. UpTo(IndexOrder, k) = UpTo(IndexOrder, k - 1) \cup {i}
    BY <2>3, UpToGrows
  <2>5. i \notin UpTo(IndexOrder, k - 1)
    BY <2>3, IndexOrders, UpToApart
  <2>6. st[k - 1] = Db(Names, FivePaid, R) /\ st[k] = Db(Names, FivePaid, R \cup {i})
    BY <2>3, <2>4
  <2>7. i \notin R
    BY <2>1, <2>5
  <2>8. Plain(R)
    <3>1. \A j \in 1 .. k - 1 : IndexOrder[j] \in Indexes
      <4>1. \A j \in 1 .. k - 1 : j \in 1 .. 4
        OBVIOUS
      <4>2. \A j \in 1 .. 4 : IndexOrder[j] \in UpTo(IndexOrder, 4)
        BY DEF UpTo
      <4> QED
        BY <4>1, <4>2, IndexOrders
    <3> QED
      BY <3>1, IndexOrders DEF Plain, UpTo
  <2> HIDE DEF i, R, st
  <2>9. Shape(Names, FivePaid, R)
    BY <1>1, <2>8 DEF Shape
  <2>10. Writes(CreateIndex(i[1], i[3]), {Table(i[1])}, {i}, {})
    BY <2>1, StatementWrites, Zenon
  <2>11. {Table(i[1])} \subseteq Db(Names, FivePaid, R)
    BY <2>1, <2>9, DbItems
  <2>12. Plain({i}) /\ Rowless({i}) /\ {i} \cap R = {} /\ Plain({})
    BY <2>1, <2>7, IndexOrders DEF Plain, Rowless
  <2>13. Fits(CreateIndex(i[1], i[3]), Db(Names, FivePaid, R), Db(Names, FivePaid, (R \ {}) \cup {i}))
    BY <2>9, <2>10, <2>11, <2>12, FitsExtras
  <2>14. (R \ {}) \cup {i} = R \cup {i}
    OBVIOUS
  <2> QED
    BY <2>2, <2>6, <2>13, <2>14, Zenon
<1>3. st[0] = Db(Names, FivePaid, E)
  <2>1. E \cup UpTo(IndexOrder, 0) = E
    BY UpToGrows
  <2> QED
    BY <2>1
<1>4. st[4] = Db(Names, FivePaid, E \cup Indexes)
  BY IndexOrders
<1> HIDE DEF st
<1>5. Len(IndexesUp) = 4
  BY UpPlans
<1>6. Leads(st[0], IndexesUp, st[Len(IndexesUp)])
  BY <1>2, <1>5, LeadsEach
<1> QED
  BY <1>3, <1>4, <1>5, <1>6, Zenon

\* The revert of PerformanceIndexes.
LEMMA IndexesDownLeads ==
  ASSUME NEW E, Plain(E), E \cap Indexes = {}
  PROVE  Leads(Db(Names, FivePaid, E \cup Indexes), IndexesDown, Db(Names, FivePaid, E))
<1> DEFINE st == [k \in 0 .. 4 |-> Db(Names, FivePaid, E \cup UpTo(IndexOrder, 4 - k))]
<1>1. FivePaid \subseteq Names \X Names
  BY DEF FivePaid, Five, Names
<1>2. \A j \in 1 .. 4 : IndexOrder[j] \in Indexes
  <2>1. \A j \in 1 .. 4 : IndexOrder[j] \in UpTo(IndexOrder, 4)
    BY DEF UpTo
  <2> QED
    BY <2>1, IndexOrders
<1>3. ASSUME NEW k \in 1 .. 4 PROVE Fits(IndexesDown[k], st[k - 1], st[k])
  <2> DEFINE n == 4 - k
             i == IndexOrder[n + 1]
             R == E \cup UpTo(IndexOrder, n)
             B == E \cup UpTo(IndexOrder, n + 1)
  <2>1. /\ n \in Nat /\ n < 4 /\ n + 1 = 5 - k /\ n + 1 = 4 - (k - 1) /\ n + 1 \in 1 .. 4
        /\ k - 1 \in 0 .. 4 /\ k \in 0 .. 4
    OBVIOUS
  <2>2. i = Index(i[1], i[3]) /\ i \in Indexes
    BY <1>2, <2>1, IndexOrders
  <2>3. IndexesDown[k] = DropIndex(i[1], i[3])
    <3>1. k = 1 \/ k = 2 \/ k = 3 \/ k = 4
      OBVIOUS
    <3> QED
      BY <3>1 DEF IndexesDown, IndexOrder, Index
  <2>4. st[k - 1] = Db(Names, FivePaid, B) /\ st[k] = Db(Names, FivePaid, R)
    <3>1. st[k - 1] = Db(Names, FivePaid, E \cup UpTo(IndexOrder, 4 - (k - 1)))
      BY <2>1
    <3>2. st[k] = Db(Names, FivePaid, R)
      BY <2>1
    <3> QED
      BY <2>1, <3>1, <3>2, Zenon
  <2>5. B = R \cup {i} /\ i \notin R
    <3>1. UpTo(IndexOrder, n + 1) = UpTo(IndexOrder, n) \cup {i}
      BY <2>1, UpToGrows
    <3>2. i \notin UpTo(IndexOrder, n)
      BY <2>1, IndexOrders, UpToApart
    <3> QED
      BY <2>2, <3>1, <3>2
  <2>6. Plain(B)
    <3>1. \A j \in 1 .. n + 1 : j \in 1 .. 4
      BY <2>1
    <3>2. \A x \in UpTo(IndexOrder, n + 1) : x \in Indexes
      BY <1>2, <3>1 DEF UpTo
    <3> QED
      BY <3>2, IndexOrders DEF Plain
  <2> HIDE DEF i, R, B, st
  <2>7. Shape(Names, FivePaid, B)
    BY <1>1, <2>6 DEF Shape
  <2>8. Writes(DropIndex(i[1], i[3]), {i}, {}, {i})
    BY <2>2, StatementWrites, Zenon
  <2>9. {i} \subseteq Db(Names, FivePaid, B)
    BY <2>5 DEF Db
  <2>10. Plain({}) /\ Rowless({}) /\ {} \cap B = {} /\ Plain({i})
    BY <2>2, IndexOrders DEF Plain, Rowless
  <2>11. Fits(DropIndex(i[1], i[3]), Db(Names, FivePaid, B), Db(Names, FivePaid, (B \ {i}) \cup {}))
    BY <2>7, <2>8, <2>9, <2>10, FitsExtras
  <2>12. (B \ {i}) \cup {} = R
    BY <2>5
  <2> QED
    BY <2>3, <2>4, <2>11, <2>12, Zenon
<1>4. st[0] = Db(Names, FivePaid, E \cup Indexes)
  BY IndexOrders
<1>5. st[4] = Db(Names, FivePaid, E)
  <2>1. E \cup UpTo(IndexOrder, 0) = E
    BY UpToGrows
  <2> QED
    BY <2>1
<1> HIDE DEF st
<1>6. Len(IndexesDown) = 4
  BY DownScripts
<1>7. Leads(st[0], IndexesDown, st[Len(IndexesDown)])
  BY <1>3, <1>6, LeadsEach
<1> QED
  BY <1>4, <1>5, <1>6, <1>7, Zenon

\* Without the rows of the tables in A.
Emptied(E, A) == {i \in E : ~ (i[2] = "row" /\ i[1] \in A)}

LEMMA DeleteOrders ==
  /\ UpTo(DeleteOrder, 7) = Names
  /\ \A k \in 1 .. 7 : DeleteOrder[k] \in Names
  /\ \A k \in 1 .. 7 : \A c : <<c, DeleteOrder[k]>> \in FivePaid => c \in UpTo(DeleteOrder, k - 1)
<1>1. /\ DeleteOrder[1] = "payment_record" /\ DeleteOrder[2] = "booking"
      /\ DeleteOrder[3] = "ticket" /\ DeleteOrder[4] = "event" /\ DeleteOrder[5] = "event_host"
      /\ DeleteOrder[6] = "venue" /\ DeleteOrder[7] = "user"
  BY DEF DeleteOrder
<1>2. 1 .. 7 = {1, 2, 3, 4, 5, 6, 7}
  OBVIOUS
<1>3. {DeleteOrder[j] : j \in {1, 2, 3, 4, 5, 6, 7}} = Names
  BY <1>1 DEF Names
<1>4. \A k \in 1 .. 7 : DeleteOrder[k] \in Names
  BY <1>2, <1>3
<1>5. UpTo(DeleteOrder, 7) = Names
  BY <1>2, <1>3, Zenon DEF UpTo
<1>6. ASSUME NEW k \in 1 .. 7, NEW c, <<c, DeleteOrder[k]>> \in FivePaid
      PROVE  c \in UpTo(DeleteOrder, k - 1)
  <2>1. \E j \in 1 .. k - 1 : DeleteOrder[j] = c
    <3>1. \/ c = "event" /\ DeleteOrder[k] \in {"event_host", "venue"}
          \/ c = "ticket" /\ DeleteOrder[k] = "event"
          \/ c = "booking" /\ DeleteOrder[k] \in {"user", "ticket"}
          \/ c = "payment_record" /\ DeleteOrder[k] = "booking"
      BY <1>6 DEF FivePaid, Five
    <3>2. \/ c = "event" /\ k \in {5, 6}
          \/ c = "ticket" /\ k = 4
          \/ c = "booking" /\ k \in {7, 3}
          \/ c = "payment_record" /\ k = 2
      <4>1. k \in {1, 2, 3, 4, 5, 6, 7}
        BY <1>2
      <4> QED
        BY <1>1, <3>1, <4>1
    <3>3. \/ c = DeleteOrder[4] /\ 4 \in 1 .. k - 1
          \/ c = DeleteOrder[3] /\ 3 \in 1 .. k - 1
          \/ c = DeleteOrder[2] /\ 2 \in 1 .. k - 1
          \/ c = DeleteOrder[1] /\ 1 \in 1 .. k - 1
      BY <1>1, <3>2
    <3> QED
      BY <3>3
  <2> QED
    BY <2>1 DEF UpTo
<1> QED
  BY <1>4, <1>5, <1>6

\* The revert of the seed: children before their parents.
LEMMA SeedDownLeads ==
  ASSUME NEW E, Plain(E)
  PROVE  Leads(Db(Names, FivePaid, E), SeedDown, Db(Names, FivePaid, Emptied(E, Names)))
<1> DEFINE st == [k \in 0 .. 7 |-> Db(Names, FivePaid, Emptied(E, UpTo(DeleteOrder, k)))]
<1>1. FivePaid \subseteq Names \X Names
  BY DEF FivePaid, Five, Names
<1>2. ASSUME NEW k \in 1 .. 7 PROVE Fits(SeedDown[k], st[k - 1], st[k])
  <2> DEFINE t == DeleteOrder[k]
             A == UpTo(DeleteOrder, k - 1)
             R == Emptied(E, A)
  <2>1. SeedDown[k] = DeleteFrom(t)
    <3>1. k = 1 \/ k = 2 \/ k = 3 \/ k = 4 \/ k = 5 \/ k = 6 \/ k = 7
      OBVIOUS
    <3> QED
      BY <3>1 DEF SeedDown, DeleteOrder
  <2>2. t \in Names /\ \A c : <<c, t>> \in FivePaid => c \in A
    BY DeleteOrders
  <2>3. st[k - 1] = Db(Names, FivePaid, R)
    <3>1. k - 1 \in 0 .. 7
      OBVIOUS
    <3> QED
      BY <3>1
  <2>4. UpTo(DeleteOrder, k) = A \cup {t}
    <3>1. k - 1 \in Nat /\ (k - 1) + 1 = k
      OBVIOUS
    <3> QED
      BY <3>1, UpToGrows
  <2>5. st[k] = Db(Names, FivePaid, Emptied(E, A \cup {t}))
    <3>1. k \in 0 .. 7
      OBVIOUS
    <3>2. st[k] = Db(Names, FivePaid, Emptied(E, UpTo(DeleteOrder, k)))
      BY <3>1
    <3> QED
      BY <2>4, <3>2, Zenon
  <2> HIDE DEF t, A, st
  <2>6. \A c : <<c, t>> \in FivePaid => RowsOf(c, R) = {}
    BY <2>2 DEF RowsOf, Emptied
  <2>7. R \ RowsOf(t, R) = Emptied(E, A \cup {t})
    BY DEF RowsOf, Emptied
  <2>8. Shape(Names, FivePaid, R)
    BY <1>1 DEF Shape, Plain, Emptied
  <2> HIDE DEF R
  <2>9. Fits(DeleteFrom(t), Db(Names, FivePaid, R), Db(Names, FivePaid, R \ RowsOf(t, R)))
    BY <2>2, <2>6, <2>8, FitsDeleteFrom
  <2> QED
    BY <2>1, <2>3, <2>5, <2>7, <2>9, Zenon
<1>3. st[0] = Db(Names, FivePaid, E)
  <2>1. Emptied(E, UpTo(DeleteOrder, 0)) = E
    BY UpToGrows DEF Emptied
  <2> QED
    BY <2>1
<1>4. st[7] = Db(Names, FivePaid, Emptied(E, Names))
  BY DeleteOrders
<1> HIDE DEF st
<1>5. Len(SeedDown) = 7
  BY DownScripts
<1>6. Leads(st[0], SeedDown, st[Len(SeedDown)])
  BY <1>2, <1>5, LeadsEach
<1> QED
  BY <1>3, <1>4, <1>5, <1>6, Zenon

\* The revert of PaymentRecordSchema: the status of a booking is back, with a default.
LEMMA PaymentDownLeads ==
  ASSUME NEW E, Plain(E), E \cap (Status \cup {Preset}) = {}, Dropped(E, {"payment_record"}) = E
  PROVE  Leads(Db(Names, FivePaid, E), PaymentDown, Db(Six, Five, E \cup Status \cup {Preset}))
<1> DEFINE A1 == {Column("booking", "payment_status"), Default("booking", "payment_status")}
           A2 == {Check("booking", "payment_status")}
           st == << Db(Names, FivePaid, E), Db(Six, Five, E), Db(Six, Five, E \cup A1),
                    Db(Six, Five, (E \cup A1) \cup A2) >>
<1>1. (E \cup A1) \cup A2 = E \cup Status \cup {Preset} /\ A1 \cap E = {} /\ A2 \cap E = {}
  BY DEF Status, Preset
<1>2. Plain(A1) /\ Plain(A2) /\ Rowless(A1) /\ Rowless(A2) /\ A2 \cap A1 = {}
  <2>1. \A t, c : Check(t, c)[2] = "check" /\ Column(t, c)[2] = "column" /\ Default(t, c)[2] = "default"
    BY DEF Check, Column, Default
  <2> QED
    BY <2>1 DEF Plain, Rowless
<1>3. /\ PaymentDown[1] = DropTable("payment_record", {"booking"})
      /\ PaymentDown[2] = Add("booking", A1)
      /\ PaymentDown[3] = Add("booking", A2)
  BY DEF PaymentDown
<1>4. /\ Five \subseteq Names \X Names /\ FivePaid \subseteq Names \X Names
      /\ Six \subseteq Names /\ "booking" \in Six /\ "payment_record" \in Names
  BY DEF Five, FivePaid, Names, Six
<1>5. Plain(E \cup A1)
  BY <1>2 DEF Plain
<1> HIDE DEF A1, A2
<1>6. Shape(Names, FivePaid, E) /\ Shape(Six, Five, E) /\ Shape(Six, Five, E \cup A1)
  BY <1>4, <1>5 DEF Shape
<1>7. Fits(PaymentDown[1], st[1], st[2])
  <2> DEFINE t == "payment_record"
  <2>1. Unreferenced(t, FivePaid)
    BY DEF FivePaid, Five, Unreferenced
  <2>2. Fits(DropTable(t, {"booking"}), Db(Names, FivePaid, E),
             Db(Names \ {t}, Dropped(FivePaid, {t}), Dropped(E, {t})))
    BY <1>4, <1>6, <2>1, FitsDropTable
  <2>3. Names \ {t} = Six
    BY DEF Names, Six
  <2>4. Dropped(FivePaid, {t}) = Five
    BY DEF FivePaid, Five, Dropped
  <2>5. Dropped(E, {t}) = E
    OBVIOUS
  <2>6. st[1] = Db(Names, FivePaid, E) /\ st[2] = Db(Six, Five, E)
    OBVIOUS
  <2> QED
    BY <1>3, <2>2, <2>3, <2>4, <2>5, <2>6, Zenon
<1>8. ASSUME NEW X, Shape(Six, Five, X), NEW A, Plain(A), Rowless(A), A \cap X = {}
      PROVE  Fits(Add("booking", A), Db(Six, Five, X), Db(Six, Five, X \cup A))
  <2>1. Writes(Add("booking", A), {Table("booking")}, A, {})
    BY StatementWrites, Zenon
  <2>2. {Table("booking")} \subseteq Db(Six, Five, X)
    BY <1>4, <1>8, DbItems
  <2>3. Plain({})
    BY DEF Plain
  <2>4. Fits(Add("booking", A), Db(Six, Five, X), Db(Six, Five, (X \ {}) \cup A))
    BY <1>8, <2>1, <2>2, <2>3, FitsExtras
  <2>5. (X \ {}) \cup A = X \cup A
    OBVIOUS
  <2> QED
    BY <2>4, <2>5, Zenon
<1>9. Fits(PaymentDown[2], st[2], st[3])
  BY <1>1, <1>2, <1>3, <1>6, <1>8
<1>10. Fits(PaymentDown[3], st[3], st[4])
  <2>1. A2 \cap (E \cup A1) = {}
    BY <1>1, <1>2
  <2>2. Fits(Add("booking", A2), Db(Six, Five, E \cup A1), Db(Six, Five, (E \cup A1) \cup A2))
    BY <1>2, <1>6, <1>8, <2>1
  <2>3. st[3] = Db(Six, Five, E \cup A1) /\ st[4] = Db(Six, Five, (E \cup A1) \cup A2)
    OBVIOUS
  <2> QED
    BY <1>3, <2>2, <2>3, Zenon
<1>11. \A k \in 1 .. 3 : Fits(PaymentDown[k], st[k], st[k + 1])
  <2>1. \A k \in 1 .. 3 : (k = 1 /\ k + 1 = 2) \/ (k = 2 /\ k + 1 = 3) \/ (k = 3 /\ k + 1 = 4)
    OBVIOUS
  <2> HIDE DEF st
  <2> QED
    BY <1>7, <1>9, <1>10, <2>1, Zenon
<1>12. st[1] = Db(Names, FivePaid, E) /\ st[4] = Db(Six, Five, (E \cup A1) \cup A2)
  OBVIOUS
<1> HIDE DEF st
<1>13. Len(PaymentDown) = 3
  BY DownScripts
<1>14. Leads(st[1], PaymentDown, st[3 + 1])
  BY <1>11, <1>13, LeadsBy
<1>15. 3 + 1 = 4
  OBVIOUS
<1> QED
  BY <1>1, <1>12, <1>14, <1>15, Zenon

\* The revert of Schema: the foreign keys, then the tables.
LEMMA SchemaDownLeads ==
  ASSUME NEW E, Plain(E)
  PROVE  Leads(Db(Six, Five, E), SchemaDown, Db({}, {}, Dropped(E, Six)))
<1> DEFINE ups(k) == UpTo(TableOrder, IF k <= 5 THEN 6 ELSE 11 - k)
           fks(k) == UpTo(FkOrder, IF k <= 5 THEN 5 - k ELSE 0)
           st == [k \in 0 .. 11 |-> Db(ups(k), fks(k), Dropped(E, Six \ ups(k)))]
<1>1. Five \subseteq Names \X Names /\ UpTo(FkOrder, 0) = {}
  BY UpToGrows DEF Five, Names
<1>2. Dropped(E, Six \ Six) = E
  BY DEF Dropped
<1>3. ASSUME NEW k \in 1 .. 5 PROVE Fits(SchemaDown[k], st[k - 1], st[k])
  <2> DEFINE n == 5 - k
             f == FkOrder[n + 1]
             F == UpTo(FkOrder, n)
             B == UpTo(FkOrder, n + 1)
  <2>1. /\ n \in Nat /\ n < 5 /\ n + 1 \in 1 .. 5 /\ n + 1 = 5 - (k - 1)
        /\ k - 1 \in 0 .. 11 /\ k \in 0 .. 11 /\ k - 1 <= 5 /\ k <= 5
    OBVIOUS
  <2>2. SchemaDown[k] = DropFk(f[1], f[2])
    <3>1. k = 1 \/ k = 2 \/ k = 3 \/ k = 4 \/ k = 5
      OBVIOUS
    <3> QED
      BY <3>1 DEF SchemaDown, FkOrder
  <2>3. f = <<f[1], f[2]>>
    BY <2>1, FkOrders
  <2>4. st[k - 1] = Db(Six, B, E)
    <3>1. ups(k - 1) = Six
      BY <2>1, Orders
    <3>2. fks(k - 1) = B
      BY <2>1
    <3>3. st[k - 1] = Db(ups(k - 1), fks(k - 1), Dropped(E, Six \ ups(k - 1)))
      BY <2>1
    <3> HIDE DEF st, ups, fks, B
    <3> QED
      BY <1>2, <3>1, <3>2, <3>3, Zenon
  <2>5. st[k] = Db(Six, F, E)
    <3>1. ups(k) = Six
      BY <2>1, Orders
    <3>2. fks(k) = F
      BY <2>1
    <3>3. st[k] = Db(ups(k), fks(k), Dropped(E, Six \ ups(k)))
      BY <2>1
    <3> HIDE DEF st, ups, fks, F
    <3> QED
      BY <1>2, <3>1, <3>2, <3>3, Zenon
  <2>6. B = F \cup {f} /\ B \ {f} = F
    BY <2>1, UpToGrows, FkOrders, UpToApart
  <2>7. Shape(Six, B, E)
    <3>1. \A j \in 1 .. n + 1 : j \in 1 .. 5
      BY <2>1
    <3>2. \A x \in B : x \in UpTo(FkOrder, 5)
      BY <3>1 DEF UpTo
    <3>3. B \subseteq Five
      BY <3>2, FkOrders
    <3> HIDE DEF B
    <3> QED
      BY <1>1, <3>3, Orders DEF Shape
  <2> HIDE DEF n, f, F, B, st
  <2>8. <<f[1], f[2]>> \in B
    BY <2>3, <2>6
  <2>9. Fits(DropFk(f[1], f[2]), Db(Six, B, E), Db(Six, B \ {<<f[1], f[2]>>}, E))
    BY <2>7, <2>8, FitsDropFk
  <2>10. B \ {<<f[1], f[2]>>} = F
    BY <2>3, <2>6, Zenon
  <2> QED
    BY <2>2, <2>4, <2>5, <2>9, <2>10, Zenon
<1>4. ASSUME NEW k \in 6 .. 11 PROVE Fits(SchemaDown[k], st[k - 1], st[k])
  <2> DEFINE n == 11 - k
             t == TableOrder[n + 1]
             T == UpTo(TableOrder, n)
             B == UpTo(TableOrder, n + 1)
             R == Dropped(E, Six \ B)
  <2>1. /\ n \in Nat /\ n < 6 /\ n + 1 \in 1 .. 6 /\ n + 1 = 11 - (k - 1)
        /\ k - 1 \in 0 .. 11 /\ k \in 0 .. 11 /\ ~ (k <= 5) /\ (k - 1 <= 5 => n + 1 = 6 /\ 5 - (k - 1) = 0)
    OBVIOUS
  <2>2. SchemaDown[k] = DropTable(t, {})
    <3>1. k = 6 \/ k = 7 \/ k = 8 \/ k = 9 \/ k = 10 \/ k = 11
      OBVIOUS
    <3> QED
      BY <3>1 DEF SchemaDown, TableOrder
  <2>3. st[k - 1] = Db(B, {}, R)
    <3>1. ups(k - 1) = B
      BY <2>1
    <3>2. fks(k - 1) = {}
      BY <1>1, <2>1
    <3>3. st[k - 1] = Db(ups(k - 1), fks(k - 1), Dropped(E, Six \ ups(k - 1)))
      BY <2>1
    <3> HIDE DEF st, ups, fks, B
    <3> QED
      BY <3>1, <3>2, <3>3, Zenon
  <2>4. st[k] = Db(T, {}, Dropped(E, Six \ T))
    <3>1. ups(k) = T
      BY <2>1
    <3>2. fks(k) = {}
      BY <1>1, <2>1
    <3>3. st[k] = Db(ups(k), fks(k), Dropped(E, Six \ ups(k)))
      BY <2>1
    <3> HIDE DEF st, ups, fks, T
    <3> QED
      BY <3>1, <3>2, <3>3, Zenon
  <2>5. B = T \cup {t} /\ B \ {t} = T /\ t \in Six
    BY <2>1, UpToGrows, Orders, UpToApart
  <2>6. Shape(B, {}, R)
    <3>1. \A j \in 1 .. n + 1 : TableOrder[j] \in Names
      <4>1. \A j \in 1 .. n + 1 : j \in 1 .. 6
        BY <2>1
      <4> QED
        BY <4>1, Orders
    <3> QED
      BY <3>1 DEF Shape, UpTo, Plain, Dropped
  <2> HIDE DEF n, t, T, B, st
  <2>7. Dropped(R, {t}) = Dropped(E, Six \ T)
    BY <2>5 DEF Dropped
  <2> HIDE DEF R
  <2>8. Unreferenced(t, {})
    BY DEF Unreferenced
  <2>9. Fits(DropTable(t, {}), Db(B, {}, R), Db(B \ {t}, Dropped({}, {t}), Dropped(R, {t})))
    BY <2>5, <2>6, <2>8, FitsDropTable
  <2>10. Dropped({}, {t}) = {}
    BY DEF Dropped
  <2> QED
    BY <2>2, <2>3, <2>4, <2>5, <2>7, <2>9, <2>10, Zenon
<1>5. Len(SchemaDown) = 11
  BY DownScripts
<1>6. \A k \in 1 .. 11 : Fits(SchemaDown[k], st[k - 1], st[k])
  <2>1. \A k \in 1 .. 11 : k \in 1 .. 5 \/ k \in 6 .. 11
    OBVIOUS
  <2> QED
    BY <1>3, <1>4, <2>1
<1>7. st[0] = Db(Six, Five, E)
  <2>1. st[0] = Db(ups(0), fks(0), Dropped(E, Six \ ups(0)))
    OBVIOUS
  <2>2. ups(0) = Six /\ fks(0) = Five
    BY Orders, FkOrders
  <2> HIDE DEF st, ups, fks
  <2> QED
    BY <1>2, <2>1, <2>2, Zenon
<1>8. st[11] = Db({}, {}, Dropped(E, Six))
  <2>1. st[11] = Db(ups(11), fks(11), Dropped(E, Six \ ups(11)))
    OBVIOUS
  <2>2. ups(11) = {} /\ fks(11) = {}
    BY UpToGrows
  <2>3. Six \ {} = Six
    OBVIOUS
  <2> HIDE DEF st, ups, fks
  <2> QED
    BY <2>1, <2>2, <2>3, Zenon
<1> HIDE DEF st
<1>9. Leads(st[0], SchemaDown, st[Len(SchemaDown)])
  BY <1>5, <1>6, LeadsEach
<1> QED
  BY <1>5, <1>7, <1>8, <1>9, Zenon

-----------------------------------------------------------------------------
(* The rows of the seed                                                    *)

\* The tickets of an event are listed, each once.
LEMMA TicketsListed ==
  ASSUME NEW e \in DOMAIN EventSeeds
  PROVE  /\ BuildTickets(e) \in Seq(SeatIds(e))
         /\ Apart(BuildTickets(e), Len(BuildTickets(e)))
         /\ UpTo(BuildTickets(e), Len(BuildTickets(e))) = SeatIds(e)
<1> DEFINE n(sec) == EventSeeds[e][sec]
           s(sec) == [seat \in 1 .. n(sec) |-> <<e, sec, seat>>]
           ss == [sec \in 1 .. 3 |-> s(sec)]
           q == BuildTickets(e)
           A == SeatIds(e)
<1>1. n(1) \in Nat /\ n(2) \in Nat /\ n(3) \in Nat
  BY SeedsAssumption
<1>2. \A sec \in 1 .. 3 : \A seat \in 1 .. n(sec) : <<e, sec, seat>> \in A
  BY DEF SeatIds
<1>3. q = FlattenSeq(ss)
  BY DEF BuildTickets
<1> HIDE DEF A, q
<1>4. ASSUME NEW sec \in 1 .. 3
      PROVE  s(sec) \in Seq(A) /\ Len(s(sec)) = n(sec) /\ n(sec) \in Nat
  <2>1. n(sec) \in Nat
    BY SeedsAssumption
  <2> HIDE DEF n
  <2> QED
    BY <1>2, <2>1
<1>5. ss \in Seq(Seq(A)) /\ Len(ss) = 3
  <2> HIDE DEF s
  <2> QED
    BY <1>4
<1>6. ss[1] = s(1) /\ ss[2] = s(2) /\ ss[3] = s(3)
  OBVIOUS
<1>7. q = (s(1) \o s(2)) \o s(3)
  <2> HIDE DEF s, ss
  <2>1. Len(ss) # 0
    BY <1>5
  <2>2. PICK g : /\ FlattenSeq(ss) = g[Len(ss)]
                 /\ \A i \in 1 .. Len(ss) : g[i] = FlatStep(ss, g, i)
    BY <1>5, <2>1, FlattenUnfolds
  <2>3. g[1] = FlatStep(ss, g, 1) /\ g[2] = FlatStep(ss, g, 2) /\ g[3] = FlatStep(ss, g, 3)
    BY <1>5, <2>2
  <2>4. 2 # 1 /\ 3 # 1 /\ 2 - 1 = 1 /\ 3 - 1 = 2
    OBVIOUS
  <2>5. g[1] = ss[1] /\ g[2] = g[1] \o ss[2] /\ g[3] = g[2] \o ss[3]
    BY <2>3, <2>4, Zenon DEF FlatStep
  <2> QED
    BY <1>3, <1>5, <1>6, <2>2, <2>5, Zenon
<1> DEFINE p == s(1) \o s(2)
           l1 == n(1)
           l2 == n(2)
           l3 == n(3)
<1>8. s(1) \in Seq(A) /\ s(2) \in Seq(A) /\ s(3) \in Seq(A)
      /\ Len(s(1)) = l1 /\ Len(s(2)) = l2 /\ Len(s(3)) = l3
  BY <1>4
<1>9. /\ \A j \in 1 .. l1 : s(1)[j] = <<e, 1, j>>
      /\ \A j \in 1 .. l2 : s(2)[j] = <<e, 2, j>>
      /\ \A j \in 1 .. l3 : s(3)[j] = <<e, 3, j>>
  OBVIOUS
<1> HIDE DEF s, n, ss
<1>10. /\ p \in Seq(A) /\ Len(p) = l1 + l2
       /\ \A j \in 1 .. l1 + l2 : p[j] = IF j <= l1 THEN s(1)[j] ELSE s(2)[j - l1]
  <2> HIDE DEF l1, l2, l3
  <2>1. /\ p \in Seq(A) /\ Len(p) = Len(s(1)) + Len(s(2))
        /\ \A j \in 1 .. Len(s(1)) + Len(s(2)) :
             p[j] = IF j <= Len(s(1)) THEN s(1)[j] ELSE s(2)[j - Len(s(1))]
    BY <1>8, ConcatProperties
  <2> HIDE DEF p
  <2> QED
    BY <1>8, <2>1, Zenon
<1>11. /\ q \in Seq(A) /\ Len(q) = l1 + l2 + l3
       /\ \A j \in 1 .. l1 + l2 + l3 : q[j] = IF j <= l1 + l2 THEN p[j] ELSE s(3)[j - (l1 + l2)]
  <2> HIDE DEF l1, l2, l3
  <2>1. q = p \o s(3)
    BY <1>7
  <2> HIDE DEF p
  <2>2. p \in Seq(A) /\ s(3) \in Seq(A)
    BY <1>8, <1>10
  <2>3. /\ q \in Seq(A) /\ Len(q) = Len(p) + Len(s(3))
        /\ \A j \in 1 .. Len(p) + Len(s(3)) : q[j] = IF j <= Len(p) THEN p[j] ELSE s(3)[j - Len(p)]
    BY <2>1, <2>2, ConcatProperties
  <2> QED
    BY <1>8, <1>10, <2>3, Zenon
<1> HIDE DEF p
<1>12. l1 \in Nat /\ l2 \in Nat /\ l3 \in Nat
  BY <1>1
<1>13. SeatIds(e) = {<<e, 1, j>> : j \in 1 .. l1} \cup {<<e, 2, j>> : j \in 1 .. l2}
                    \cup {<<e, 3, j>> : j \in 1 .. l3}
  <2>1. \A sec : sec \in 1 .. 3 <=> sec = 1 \/ sec = 2 \/ sec = 3
    OBVIOUS
  <2> QED
    BY <2>1 DEF SeatIds, n
<1> HIDE DEF l1, l2, l3
<1>14. /\ \A j \in 1 .. l1 : q[j] = <<e, 1, j>>
       /\ \A j \in 1 .. l2 : q[l1 + j] = <<e, 2, j>>
       /\ \A j \in 1 .. l3 : q[(l1 + l2) + j] = <<e, 3, j>>
  <2>1. \A j \in 1 .. l1 : q[j] = <<e, 1, j>>
    <3> TAKE j \in 1 .. l1
    <3>1. j \in 1 .. l1 + l2 + l3 /\ j <= l1 + l2 /\ j \in 1 .. l1 + l2 /\ j <= l1
      BY <1>12
    <3>2. q[j] = p[j] /\ p[j] = s(1)[j]
      BY <1>10, <1>11, <3>1
    <3> QED
      BY <1>9, <3>2
  <2>2. \A j \in 1 .. l2 : q[l1 + j] = <<e, 2, j>>
    <3> TAKE j \in 1 .. l2
    <3>1. /\ l1 + j \in 1 .. l1 + l2 + l3 /\ l1 + j <= l1 + l2 /\ l1 + j \in 1 .. l1 + l2
          /\ ~ (l1 + j <= l1) /\ (l1 + j) - l1 = j
      BY <1>12
    <3>2. q[l1 + j] = p[l1 + j] /\ p[l1 + j] = s(2)[(l1 + j) - l1]
      BY <1>10, <1>11, <3>1
    <3> QED
      BY <1>9, <3>1, <3>2
  <2>3. \A j \in 1 .. l3 : q[(l1 + l2) + j] = <<e, 3, j>>
    <3> TAKE j \in 1 .. l3
    <3>1. /\ (l1 + l2) + j \in 1 .. l1 + l2 + l3 /\ ~ ((l1 + l2) + j <= l1 + l2)
          /\ ((l1 + l2) + j) - (l1 + l2) = j
      BY <1>12
    <3>2. q[(l1 + l2) + j] = s(3)[((l1 + l2) + j) - (l1 + l2)]
      BY <1>11, <3>1
    <3> QED
      BY <1>9, <3>1, <3>2
  <2> QED
    BY <2>1, <2>2, <2>3
<1>15. \A k \in 1 .. Len(q) : \/ k \in 1 .. l1
                              \/ \E j \in 1 .. l2 : k = l1 + j
                              \/ \E j \in 1 .. l3 : k = (l1 + l2) + j
  <2> TAKE k \in 1 .. Len(q)
  <2>1. \/ k \in 1 .. l1
        \/ k - l1 \in 1 .. l2 /\ k = l1 + (k - l1)
        \/ k - (l1 + l2) \in 1 .. l3 /\ k = (l1 + l2) + (k - (l1 + l2))
    BY <1>11, <1>12
  <2> QED
    BY <2>1
<1>16. UpTo(q, Len(q)) = SeatIds(e)
  <2>1. /\ \A j \in 1 .. l1 : j \in 1 .. Len(q)
        /\ \A j \in 1 .. l2 : l1 + j \in 1 .. Len(q)
        /\ \A j \in 1 .. l3 : (l1 + l2) + j \in 1 .. Len(q)
    BY <1>11, <1>12
  <2>2. SeatIds(e) \subseteq UpTo(q, Len(q))
    <3>1. \A k \in 1 .. Len(q) : q[k] \in UpTo(q, Len(q))
      BY DEF UpTo
    <3>2. \A j \in 1 .. l1 : <<e, 1, j>> \in UpTo(q, Len(q))
      BY <1>14, <2>1, <3>1
    <3>3. \A j \in 1 .. l2 : <<e, 2, j>> \in UpTo(q, Len(q))
      BY <1>14, <2>1, <3>1
    <3>4. \A j \in 1 .. l3 : <<e, 3, j>> \in UpTo(q, Len(q))
      BY <1>14, <2>1, <3>1
    <3> QED
      BY <1>13, <3>2, <3>3, <3>4
  <2>3. UpTo(q, Len(q)) \subseteq A
    BY <1>11 DEF UpTo
  <2> QED
    BY <2>2, <2>3 DEF A
<1>17. Apart(q, Len(q))
  <2> SUFFICES ASSUME NEW i \in 1 .. Len(q), NEW k \in 1 .. Len(q), q[i] = q[k] PROVE i = k
    BY DEF Apart
  <2> DEFINE at(x) == IF q[x][2] = 1 THEN q[x][3] ELSE IF q[x][2] = 2 THEN l1 + q[x][3]
                                                  ELSE (l1 + l2) + q[x][3]
  <2>2. \A x \in 1 .. Len(q) : at(x) = x
    <3> TAKE x \in 1 .. Len(q)
    <3>1. CASE x \in 1 .. l1
      <4>1. q[x] = <<e, 1, x>>
        BY <1>14, <3>1
      <4> QED
        BY <4>1
    <3>2. CASE \E j \in 1 .. l2 : x = l1 + j
      <4>1. PICK j \in 1 .. l2 : x = l1 + j
        BY <3>2
      <4>2. q[x] = <<e, 2, j>>
        BY <1>14, <4>1
      <4>3. q[x][2] = 2 /\ q[x][3] = j
        BY <4>2
      <4> QED
        BY <4>1, <4>3
    <3>3. CASE \E j \in 1 .. l3 : x = (l1 + l2) + j
      <4>1. PICK j \in 1 .. l3 : x = (l1 + l2) + j
        BY <3>3
      <4>2. q[x] = <<e, 3, j>>
        BY <1>14, <4>1
      <4>3. q[x][2] = 3 /\ q[x][3] = j
        BY <4>2
      <4> QED
        BY <4>1, <4>3
    <3> QED
      BY <1>15, <3>1, <3>2, <3>3
  <2> QED
    BY <2>2
<1> QED
  BY <1>11, <1>16, <1>17 DEF q, A

\* What k chunks of q hold.
Cap(q, k) == IF k * ChunkSize < Len(q) THEN k * ChunkSize ELSE Len(q)
ChunkCount(q) == (Len(q) + ChunkSize - 1) \div ChunkSize

LEMMA ChunkCover ==
  ASSUME NEW A, NEW q \in Seq(A)
  PROVE  /\ ChunkCount(q) \in Nat /\ Cap(q, ChunkCount(q)) = Len(q) /\ Cap(q, 0) = 0
         /\ \A k \in Nat : Cap(q, k) \in 0 .. Len(q)
<1>1. Len(q) \in Nat /\ ChunkSize \in Nat \ {0}
  BY ChunkSizeAssumption
<1>2. ChunkCount(q) \in Nat /\ ChunkCount(q) * ChunkSize >= Len(q)
  BY <1>1 DEF ChunkCount
<1>3. ChunkCount(q) * ChunkSize \in Nat
  BY <1>1, <1>2
<1>4. Cap(q, ChunkCount(q)) = Len(q)
  BY <1>1, <1>2, <1>3 DEF Cap
<1>5. Cap(q, 0) = 0
  BY <1>1 DEF Cap
<1>6. \A k \in Nat : Cap(q, k) \in 0 .. Len(q)
  <2> TAKE k \in Nat
  <2>1. k * ChunkSize \in Nat
    BY <1>1
  <2> QED
    BY <1>1, <2>1 DEF Cap
<1> QED
  BY <1>2, <1>4, <1>5, <1>6

\* The next chunk is what it holds next.
LEMMA ChunkNext ==
  ASSUME NEW A, NEW q \in Seq(A), Apart(q, Len(q)), NEW k \in 1 .. ChunkCount(q)
  PROVE  /\ UpTo(q, Cap(q, k)) = UpTo(q, Cap(q, k - 1)) \cup ToSet(Chunks(q)[k])
         /\ ToSet(Chunks(q)[k]) \cap UpTo(q, Cap(q, k - 1)) = {}
<1> DEFINE a == (k - 1) * ChunkSize
           b == k * ChunkSize
           n == Len(q)
           hi == Cap(q, k)
           lo == Cap(q, k - 1)
           c == SubSeq(q, a + 1, hi)
<1>1. n \in Nat /\ ChunkSize \in Nat \ {0} /\ k \in Nat /\ k - 1 \in Nat
  <2>1. ChunkCount(q) \in Nat
    BY ChunkCover
  <2> QED
    BY <2>1, ChunkSizeAssumption
<1>2. a \in Nat /\ b \in Nat /\ b = a + ChunkSize
  BY <1>1
<1>3. Chunks(q)[k] = c
  BY DEF Chunks, Cap, ChunkCount
<1>4. hi = (IF b < n THEN b ELSE n) /\ lo = (IF a < n THEN a ELSE n)
  BY DEF Cap
<1> HIDE DEF a, b, n, hi, lo
<1>5. hi \in 0 .. n /\ lo \in 0 .. hi /\ \A j \in Int : j \in a + 1 .. hi <=> j \in 1 .. hi /\ ~ (j \in 1 .. lo)
  BY <1>1, <1>2, <1>4
<1>6. ToSet(c) = {q[j] : j \in a + 1 .. hi}
  <2>1. CASE a + 1 <= hi
    <3>1. a + 1 \in 1 .. n /\ hi \in 1 .. n
      BY <1>1, <1>2, <1>5, <2>1
    <3>2. /\ c \in Seq(A) /\ Len(c) = hi - (a + 1) + 1
          /\ \A j \in 1 .. hi - (a + 1) + 1 : c[j] = q[(a + 1) + j - 1]
      BY <1>2, <1>5, <2>1, <3>1, SubSeqProperties DEF n
    <3>3. DOMAIN c = 1 .. hi - a /\ \A j \in 1 .. hi - a : c[j] = q[a + j]
      <4>1. hi - (a + 1) + 1 = hi - a /\ \A j \in 1 .. hi - a : (a + 1) + j - 1 = a + j
        BY <1>2, <1>5
      <4> HIDE DEF c
      <4>2. \A j \in 1 .. hi - a : c[j] = q[a + j]
        BY <3>2, <4>1
      <4> QED
        BY <3>2, <4>1, <4>2
    <3>4. \A x : (\E j \in 1 .. hi - a : x = q[a + j]) <=> (\E j \in a + 1 .. hi : x = q[j])
      <4> TAKE x
      <4>1. ASSUME NEW j \in 1 .. hi - a PROVE a + j \in a + 1 .. hi
        BY <1>2, <1>5
      <4>2. ASSUME NEW j \in a + 1 .. hi PROVE \E i \in 1 .. hi - a : a + i = j
        <5>1. j - a \in 1 .. hi - a /\ a + (j - a) = j
          BY <1>2, <1>5
        <5> QED
          BY <5>1
      <4> QED
        BY <4>1, <4>2
    <3> HIDE DEF c
    <3>5. ToSet(c) = {q[a + j] : j \in 1 .. hi - a}
      BY <3>3 DEF ToSet
    <3> QED
      BY <3>4, <3>5
  <2>2. CASE ~ (a + 1 <= hi)
    <3>1. c = <<>>
      BY <1>2, <1>5, <2>2, SubSeqProperties DEF n
    <3>2. a + 1 .. hi = {}
      BY <1>2, <1>5, <2>2
    <3> HIDE DEF c
    <3> QED
      BY <3>1, <3>2 DEF ToSet
  <2> QED
    BY <2>1, <2>2
<1> HIDE DEF c
<1>7. UpTo(q, hi) = UpTo(q, lo) \cup ToSet(c)
  <2>1. \A j : j \in 1 .. hi <=> j \in 1 .. lo \/ j \in a + 1 .. hi
    BY <1>2, <1>5
  <2> QED
    BY <1>6, <2>1 DEF UpTo
<1>8. ToSet(c) \cap UpTo(q, lo) = {}
  <2> SUFFICES ASSUME NEW i \in a + 1 .. hi, NEW j \in 1 .. lo, q[i] = q[j] PROVE FALSE
    BY <1>6 DEF UpTo
  <2>1. i \in 1 .. n /\ j \in 1 .. n /\ i # j
    BY <1>1, <1>2, <1>5
  <2> QED
    BY <2>1 DEF Apart, n
<1> QED
  BY <1>3, <1>7, <1>8 DEF hi, lo

\* All seven tables, holding E.
Filled(E) == Db(Names, FivePaid, E)

RowsIn(t, ids) == {Row(t, id) : id \in ids}

\* Every table that t refers to has a row in E.
HasParents(t, E) == \A p : <<t, p>> \in FivePaid => RowsOf(p, E) # {}

LEMMA FitsSave ==
  ASSUME NEW E, Plain(E), NEW t \in SeedTables, NEW ids, RowsIn(t, ids) \cap E = {}, HasParents(t, E)
  PROVE  Fits(Save(t, ids), Filled(E), Filled(E \cup RowsIn(t, ids)))
<1> DEFINE A == RowsIn(t, ids)
<1>1. Shape(Names, FivePaid, E)
  BY DEF Shape, FivePaid, Five, Names
<1>2. t \in Names /\ t \notin SaleTables
  BY DEF SeedTables, Names, SaleTables
<1>3. Writes(Save(t, ids), {Table(t)}, A, {})
  BY StatementWrites, Zenon DEF RowsIn
<1>4. {Table(t)} \subseteq Filled(E)
  BY <1>1, <1>2, DbItems DEF Filled
<1>5. \A i \in A : i[1] = t /\ i[2] = "row"
  BY DEF RowsIn, Row
<1> HIDE DEF A
<1>6. NoSale(A)
  BY <1>2, <1>5 DEF NoSale
<1>7. \A i \in A : \A p : <<i[1], p>> \in FivePaid => RowsOf(p, E) # {}
  BY <1>5 DEF HasParents
<1>8. \A i \in A : i[2] = "row"
  BY <1>5
<1>9. Fits(Save(t, ids), Db(Names, FivePaid, E), Db(Names, FivePaid, E \cup A))
  <2>1. {Table(t)} \subseteq Db(Names, FivePaid, E) /\ A \cap E = {}
    BY <1>4 DEF Filled, A
  <2> QED
    BY <1>1, <1>3, <1>6, <1>7, <1>8, <2>1, FitsRows
<1> QED
  BY <1>9 DEF Filled, A

\* The chunks of an event.
LEMMA TicketsLead ==
  ASSUME NEW e \in DOMAIN EventSeeds, NEW E, Plain(E), HasParents("ticket", E), Seats(e) \cap E = {}
  PROVE  LET q == BuildTickets(e)
             saves == [k \in DOMAIN Chunks(q) |-> Save("ticket", ToSet(Chunks(q)[k]))]
         IN  /\ Leads(Filled(E), saves, Filled(E \cup Seats(e)))
             /\ \E A : saves \in Seq(A)
<1> DEFINE q == BuildTickets(e)
           n == ChunkCount(q)
           save(k) == Save("ticket", ToSet(Chunks(q)[k]))
           saves == [k \in DOMAIN Chunks(q) |-> save(k)]
           held(k) == UpTo(q, Cap(q, k))
           st == [k \in 0 .. n |-> Filled(E \cup RowsIn("ticket", held(k)))]
<1>1. q \in Seq(SeatIds(e)) /\ Apart(q, Len(q)) /\ UpTo(q, Len(q)) = SeatIds(e)
  BY TicketsListed
<1>2. DOMAIN Chunks(q) = 1 .. n
  BY DEF Chunks, ChunkCount
<1> HIDE DEF q
<1>3. n \in Nat /\ Cap(q, n) = Len(q) /\ Cap(q, 0) = 0 /\ \A k \in Nat : Cap(q, k) \in 0 .. Len(q)
  BY <1>1, ChunkCover
<1>4. Len(q) \in Nat
  BY <1>1
<1> HIDE DEF n
<1>5. \A k \in Nat : held(k) \subseteq SeatIds(e)
  <2> TAKE k \in Nat
  <2>1. Cap(q, k) \in 0 .. Len(q)
    BY <1>3
  <2>2. \A j \in 1 .. Cap(q, k) : j \in 1 .. Len(q)
    BY <1>4, <2>1
  <2>3. held(k) \subseteq UpTo(q, Len(q))
    BY <2>2 DEF UpTo
  <2> QED
    BY <1>1, <2>3
<1>6. \A ids : ids \subseteq SeatIds(e) => RowsIn("ticket", ids) \subseteq Seats(e)
  BY DEF RowsIn, Seats
<1>7. \A i \in Seats(e) : i[2] \notin {"table", "fk"}
  BY DEF Seats, Row
<1>8. \A x, y : Row("ticket", x) = Row("ticket", y) => x = y
  BY DEF Row
<1>9. ASSUME NEW k \in 1 .. n PROVE Fits(save(k), st[k - 1], st[k])
  <2> DEFINE ids == ToSet(Chunks(q)[k])
             R == E \cup RowsIn("ticket", held(k - 1))
  <2>1. k - 1 \in 0 .. n /\ k \in 0 .. n /\ k \in Nat /\ k - 1 \in Nat
    BY <1>3
  <2>2. held(k) = held(k - 1) \cup ids /\ ids \cap held(k - 1) = {}
    BY <1>1, ChunkNext DEF n
  <2>3. held(k) \subseteq SeatIds(e) /\ held(k - 1) \subseteq SeatIds(e)
    BY <1>5, <2>1
  <2>4. st[k - 1] = Filled(R) /\ st[k] = Filled(E \cup RowsIn("ticket", held(k)))
    BY <2>1
  <2> HIDE DEF ids, held, st
  <2>5. RowsIn("ticket", ids) \cap R = {}
    <3>1. ids \subseteq SeatIds(e)
      BY <2>2, <2>3
    <3>2. RowsIn("ticket", ids) \cap E = {}
      BY <1>6, <3>1
    <3>3. RowsIn("ticket", ids) \cap RowsIn("ticket", held(k - 1)) = {}
      BY <1>8, <2>2 DEF RowsIn
    <3> QED
      BY <3>2, <3>3
  <2>6. Plain(R)
    <3>1. \A i \in RowsIn("ticket", held(k - 1)) : i[2] \notin {"table", "fk"}
      BY <1>6, <1>7, <2>3
    <3> QED
      BY <3>1 DEF Plain
  <2>7. HasParents("ticket", R)
    BY DEF HasParents, RowsOf
  <2>8. R \cup RowsIn("ticket", ids) = E \cup RowsIn("ticket", held(k))
    BY <2>2 DEF RowsIn
  <2> HIDE DEF R
  <2>9. Fits(Save("ticket", ids), Filled(R), Filled(R \cup RowsIn("ticket", ids)))
    <3>1. "ticket" \in SeedTables
      BY DEF SeedTables
    <3> QED
      BY <2>5, <2>6, <2>7, <3>1, FitsSave
  <2> QED
    BY <2>4, <2>8, <2>9 DEF ids
<1>10. st[0] = Filled(E)
  <2>1. RowsIn("ticket", held(0)) = {}
    BY <1>3 DEF UpTo, RowsIn
  <2>2. st[0] = Filled(E \cup RowsIn("ticket", held(0)))
    BY <1>3
  <2>3. E \cup {} = E
    OBVIOUS
  <2> HIDE DEF st, held
  <2> QED
    BY <2>1, <2>2, <2>3, Zenon
<1>11. st[n] = Filled(E \cup Seats(e))
  <2>1. held(n) = SeatIds(e)
    BY <1>1, <1>3
  <2>2. RowsIn("ticket", held(n)) = Seats(e)
    BY <2>1 DEF RowsIn, Seats
  <2>3. n \in 0 .. n
    BY <1>3
  <2> HIDE DEF held
  <2>4. st[n] = Filled(E \cup RowsIn("ticket", held(n)))
    BY <2>3
  <2> HIDE DEF st
  <2> QED
    BY <2>2, <2>4, Zenon
<1>12. /\ Len(saves) = n /\ \A k \in 1 .. n : saves[k] = save(k)
       /\ saves \in Seq({save(k) : k \in 1 .. n})
  <2> DEFINE A == {save(k) : k \in 1 .. n}
  <2>1. \A k \in 1 .. n : save(k) \in A
    OBVIOUS
  <2> HIDE DEF save, A
  <2>2. saves = [k \in 1 .. n |-> save(k)]
    BY <1>2
  <2> HIDE DEF saves
  <2>3. \A k \in 1 .. n : saves[k] = save(k)
    BY <2>2
  <2>4. saves \in Seq(A) /\ Len(saves) = n
    BY <1>3, <2>1, <2>2
  <2> QED
    BY <2>3, <2>4 DEF A
<1> HIDE DEF st, saves, save
<1>13. \A k \in 1 .. Len(saves) : Fits(saves[k], st[k - 1], st[k])
  BY <1>9, <1>12
<1>14. Leads(st[0], saves, st[Len(saves)])
  BY <1>13, LeadsEach
<1>15. Leads(Filled(E), saves, Filled(E \cup Seats(e)))
  BY <1>10, <1>11, <1>12, <1>14, Zenon
<1>16. \E A : saves \in Seq(A)
  BY <1>12
<1> QED
  BY <1>15, <1>16 DEF saves, save, q

LEMMA SeedEventLeads ==
  ASSUME NEW e \in DOMAIN EventSeeds, NEW E, Plain(E), Row("event", e) \notin E, Seats(e) \cap E = {},
         HasParents("event", E)
  PROVE  Leads(Filled(E), SeedEvent(e), Filled((E \cup {Row("event", e)}) \cup Seats(e)))
<1> DEFINE s == Save("event", {e})
           ids == RowsIn("event", {e})
           q == BuildTickets(e)
           saves == [k \in DOMAIN Chunks(q) |-> Save("ticket", ToSet(Chunks(q)[k]))]
           R == E \cup ids
<1>1. ids = {Row("event", e)}
  BY DEF RowsIn
<1>2. Fits(s, Filled(E), Filled(R))
  <2>1. "event" \in SeedTables /\ ids \cap E = {}
    BY <1>1 DEF SeedTables
  <2> QED
    BY <2>1, FitsSave
<1>3. SeedEvent(e) = <<s>> \o saves
  BY DEF SeedEvent
<1>4. Plain(R)
  BY <1>1 DEF Plain, Row
<1>5. HasParents("ticket", R)
  <2>1. \A p : <<"ticket", p>> \in FivePaid => p = "event"
    BY DEF FivePaid, Five
  <2>2. Row("event", e) \in RowsOf("event", R)
    BY <1>1 DEF RowsOf, Row
  <2> QED
    BY <2>1, <2>2 DEF HasParents
<1>6. Seats(e) \cap R = {}
  <2>1. \A i \in Seats(e) : i[1] = "ticket"
    BY DEF Seats, Row
  <2>2. Row("event", e)[1] = "event"
    BY DEF Row
  <2> QED
    BY <1>1, <2>1, <2>2
<1> HIDE DEF ids, R, s
<1>7. Leads(Filled(R), saves, Filled(R \cup Seats(e))) /\ \E A : saves \in Seq(A)
  BY <1>4, <1>5, <1>6, TicketsLead
<1> HIDE DEF saves
<1>8. PICK A : saves \in Seq(A)
  BY <1>7
<1> DEFINE B == A \cup {s}
<1>9. saves \in Seq(B) /\ <<s>> \in Seq(B) /\ Len(<<s>>) = 1 /\ <<s>>[1] = s
  BY <1>8
<1>10. Leads(Filled(E), <<s>>, Filled(R))
  <2> DEFINE st == << Filled(E), Filled(R) >>
             p == <<s>>
  <2>1. st[1] = Filled(E) /\ st[2] = Filled(R) /\ 1 + 1 = 2 /\ 1 \in Nat
    OBVIOUS
  <2>2. Len(p) = 1 /\ p[1] = s
    BY <1>9
  <2> HIDE DEF st, p
  <2>3. \A k \in 1 .. 1 : k = 1
    OBVIOUS
  <2>4. \A k \in 1 .. 1 : Fits(p[k], st[k], st[k + 1])
    BY <1>2, <2>1, <2>2, <2>3
  <2>5. Leads(st[1], p, st[1 + 1])
    BY <2>1, <2>2, <2>4, LeadsBy
  <2> QED
    BY <2>1, <2>5, Zenon DEF p
<1>11. Leads(Filled(E), <<s>> \o saves, Filled(R \cup Seats(e)))
  <2> DEFINE p == <<s>>
  <2>1. p \in Seq(B)
    BY <1>9
  <2> HIDE DEF p, B
  <2>2. Leads(Filled(E), p, Filled(R))
    BY <1>10 DEF p
  <2>3. Leads(Filled(E), p \o saves, Filled(R \cup Seats(e)))
    BY <1>7, <1>9, <2>1, <2>2, LeadsOn
  <2> QED
    BY <2>3 DEF p
<1> QED
  BY <1>1, <1>3, <1>11, Zenon DEF R

\* The events of the seed up to the n-th.
SeedUntil(n) == Parents \cup {Row("event", d) : d \in 1 .. n} \cup UNION {Seats(d) : d \in 1 .. n}

\* No table of the seed has a row.
Unseeded(E) == \A t \in SeedTables : RowsOf(t, E) = {}

LEMMA UnseededRows ==
  ASSUME NEW E, Unseeded(E)
  PROVE  \A t \in SeedTables : \A id : Row(t, id) \notin E
<1> SUFFICES ASSUME NEW t \in SeedTables, NEW id, Row(t, id) \in E PROVE FALSE
  OBVIOUS
<1>1. Row(t, id) \in RowsOf(t, E)
  BY DEF RowsOf, Row
<1> QED
  BY <1>1 DEF Unseeded

\* The users, venues and hosts come first.
LEMMA ParentsLead ==
  ASSUME NEW E, Plain(E), Unseeded(E)
  PROVE  LET p == << Save("user", {"seed"}), Save("venue", {"seed"}), Save("event_host", {"seed"}) >>
         IN  Leads(Filled(E), p, Filled(E \cup Parents))
<1> DEFINE p == << Save("user", {"seed"}), Save("venue", {"seed"}), Save("event_host", {"seed"}) >>
           u == RowsIn("user", {"seed"})
           v == RowsIn("venue", {"seed"})
           h == RowsIn("event_host", {"seed"})
           R == E \cup u
           X == R \cup v
           Y == X \cup h
           st == << Filled(E), Filled(R), Filled(X), Filled(Y) >>
<1>1. /\ p[1] = Save("user", {"seed"}) /\ p[2] = Save("venue", {"seed"})
      /\ p[3] = Save("event_host", {"seed"}) /\ Len(p) = 3
  OBVIOUS
<1>2. st[1] = Filled(E) /\ st[2] = Filled(R) /\ st[3] = Filled(X) /\ st[4] = Filled(Y)
  OBVIOUS
<1>3. u = {Row("user", "seed")} /\ v = {Row("venue", "seed")} /\ h = {Row("event_host", "seed")}
  BY DEF RowsIn
<1>4. \A x : Row("user", x)[1] = "user" /\ Row("venue", x)[1] = "venue"
             /\ Row("event_host", x)[1] = "event_host"
  BY DEF Row
<1>5. "user" \in SeedTables /\ "venue" \in SeedTables /\ "event_host" \in SeedTables
  BY DEF SeedTables
<1>6. Row("user", "seed") \notin E /\ Row("venue", "seed") \notin E /\ Row("event_host", "seed") \notin E
  BY <1>5, UnseededRows
<1>7. u \cap E = {} /\ v \cap R = {} /\ h \cap X = {}
  BY <1>3, <1>4, <1>6
<1>8. \A S : HasParents("user", S) /\ HasParents("venue", S) /\ HasParents("event_host", S)
  BY DEF HasParents, FivePaid, Five
<1>9. Plain(R) /\ Plain(X)
  BY <1>3 DEF Plain, Row
<1>10. Y = E \cup Parents
  BY <1>3 DEF Parents
<1> HIDE DEF p, u, v, h, R, X, Y, st
<1>11. Fits(p[1], st[1], st[2])
  <2>1. Fits(Save("user", {"seed"}), Filled(E), Filled(E \cup RowsIn("user", {"seed"})))
    BY <1>5, <1>7, <1>8, FitsSave DEF u
  <2> QED
    BY <1>1, <1>2, <2>1, Zenon DEF R, u
<1>12. Fits(p[2], st[2], st[3])
  <2>1. Fits(Save("venue", {"seed"}), Filled(R), Filled(R \cup RowsIn("venue", {"seed"})))
    BY <1>5, <1>7, <1>8, <1>9, FitsSave DEF v
  <2> QED
    BY <1>1, <1>2, <2>1, Zenon DEF X, v
<1>13. Fits(p[3], st[3], st[4])
  <2>1. Fits(Save("event_host", {"seed"}), Filled(X), Filled(X \cup RowsIn("event_host", {"seed"})))
    BY <1>5, <1>7, <1>8, <1>9, FitsSave DEF h
  <2> QED
    BY <1>1, <1>2, <2>1, Zenon DEF Y, h
<1>14. \A k \in 1 .. 3 : Fits(p[k], st[k], st[k + 1])
  <2>1. \A k \in 1 .. 3 : (k = 1 /\ k + 1 = 2) \/ (k = 2 /\ k + 1 = 3) \/ (k = 3 /\ k + 1 = 4)
    OBVIOUS
  <2> QED
    BY <1>11, <1>12, <1>13, <2>1, Zenon
<1>15. Leads(st[1], p, st[3 + 1])
  BY <1>1, <1>14, LeadsBy
<1>16. 3 + 1 = 4
  OBVIOUS
<1> QED
  BY <1>2, <1>10, <1>15, <1>16, Zenon DEF p

\* What the events before leave for the next one.
LEMMA SeedUntilNext ==
  ASSUME NEW E, Plain(E), Unseeded(E), NEW n \in Nat
  PROVE  LET R == E \cup SeedUntil(n)
         IN  /\ Plain(R) /\ Row("event", n + 1) \notin R /\ Seats(n + 1) \cap R = {}
             /\ HasParents("event", R)
             /\ (R \cup {Row("event", n + 1)}) \cup Seats(n + 1) = E \cup SeedUntil(n + 1)
<1> DEFINE R == E \cup SeedUntil(n)
<1>1. \A d : d \in 1 .. n + 1 <=> d \in 1 .. n \/ d = n + 1
  OBVIOUS
<1>2. n + 1 \notin 1 .. n
  OBVIOUS
<1>3. \A i \in Parents : i[1] \in {"user", "venue", "event_host"} /\ i[2] = "row"
  BY DEF Parents, Row
<1>4. \A d : Row("event", d)[1] = "event" /\ Row("event", d)[2] = "row" /\ Row("event", d)[3] = d
  BY DEF Row
<1>5. \A d : \A i \in Seats(d) : i[1] = "ticket" /\ i[2] = "row" /\ i[3][1] = d /\ i = Row("ticket", i[3])
  <2> TAKE d
  <2>1. \A x \in SeatIds(d) : x[1] = d
    BY DEF SeatIds
  <2> QED
    BY <2>1 DEF Seats, Row
<1>6. "event" \in SeedTables /\ "ticket" \in SeedTables
  BY DEF SeedTables
<1>7. \A id : Row("event", id) \notin E /\ Row("ticket", id) \notin E
  BY <1>6, UnseededRows
<1>8. \A i : i \in R <=> \/ i \in E \/ i \in Parents
                         \/ \E d \in 1 .. n : i = Row("event", d)
                         \/ \E d \in 1 .. n : i \in Seats(d)
  BY DEF SeedUntil
<1> HIDE DEF R
<1>9. Plain(R)
  <2> SUFFICES ASSUME NEW i \in R PROVE i[2] \notin {"table", "fk"}
    BY DEF Plain
  <2>1. CASE i \in E
    BY <2>1 DEF Plain
  <2>2. CASE i \notin E
    <3>1. i[2] = "row"
      BY <1>3, <1>4, <1>5, <1>8, <2>2
    <3> QED
      BY <3>1
  <2> QED
    BY <2>1, <2>2
<1>10. Row("event", n + 1) \notin R
  <2> SUFFICES ASSUME Row("event", n + 1) \in R PROVE FALSE
    OBVIOUS
  <2> DEFINE i == Row("event", n + 1)
  <2>1. i[1] = "event" /\ i[3] = n + 1 /\ i \notin E
    BY <1>4, <1>7
  <2> HIDE DEF i
  <2>2. i \notin Parents /\ \A d : i \notin Seats(d)
    BY <1>3, <1>5, <2>1
  <2>3. PICK d \in 1 .. n : i = Row("event", d)
    BY <1>8, <2>1, <2>2 DEF i
  <2> QED
    BY <1>2, <1>4, <2>1, <2>3
<1>11. Seats(n + 1) \cap R = {}
  <2> SUFFICES ASSUME NEW i \in Seats(n + 1), i \in R PROVE FALSE
    OBVIOUS
  <2>1. i[1] = "ticket" /\ i[3][1] = n + 1 /\ i \notin E
    BY <1>5, <1>7
  <2>2. i \notin Parents /\ \A d : i # Row("event", d)
    BY <1>3, <1>4, <2>1
  <2>3. PICK d \in 1 .. n : i \in Seats(d)
    BY <1>8, <2>1, <2>2
  <2> QED
    BY <1>2, <1>5, <2>1, <2>3
<1>12. HasParents("event", R)
  <2>1. \A p : <<"event", p>> \in FivePaid => p \in {"event_host", "venue"}
    BY DEF FivePaid, Five
  <2>2. \A p \in {"event_host", "venue"} : Row(p, "seed") \in RowsOf(p, R)
    <3>1. \A p \in {"event_host", "venue"} : Row(p, "seed") \in R
      BY <1>8 DEF Parents
    <3> QED
      BY <3>1 DEF RowsOf, Row
  <2> QED
    BY <2>1, <2>2 DEF HasParents
<1>13. (R \cup {Row("event", n + 1)}) \cup Seats(n + 1) = E \cup SeedUntil(n + 1)
  BY <1>1 DEF R, SeedUntil
<1> QED
  BY <1>9, <1>10, <1>11, <1>12, <1>13 DEF R

\* The seed, from an empty catalog.
LEMMA SeedUpLeads ==
  ASSUME NEW E, Plain(E), Unseeded(E)
  PROVE  Leads(Filled(E), SeedUp, Filled(E \cup SeedRows))
<1> DEFINE p == << Save("user", {"seed"}), Save("venue", {"seed"}), Save("event_host", {"seed"}) >>
           ss == [e \in DOMAIN EventSeeds |-> SeedEvent(e)]
           n == Len(EventSeeds)
           st == [k \in 0 .. n |-> Filled(E \cup SeedUntil(k))]
<1>1. DOMAIN EventSeeds = 1 .. n /\ n \in Nat
  BY SeedsAssumption
<1>2. ss \in Seq(Seq(Saves)) /\ Len(ss) = n /\ \A k \in 1 .. n : ss[k] = SeedEvent(k)
  <2>1. \A e \in DOMAIN EventSeeds : SeedEvent(e) \in Seq(Saves)
    BY SeedEventSaves
  <2> HIDE DEF n
  <2> QED
    BY <1>1, <2>1
<1>3. SeedUp = p \o FlattenSeq(ss)
  BY DEF SeedUp
<1>4. p \in Seq(Saves)
  <2>1. \A t \in {"user", "venue", "event_host"} : Save(t, {"seed"}) \in Saves
    BY DEF Saves, SeedTables, SeedIds
  <2> QED
    BY <2>1
<1>5. Leads(Filled(E), p, Filled(E \cup Parents))
  BY ParentsLead
<1> HIDE DEF p, ss, n
<1>6. st[0] = Filled(E \cup Parents)
  <2>1. SeedUntil(0) = Parents
    BY DEF SeedUntil
  <2>2. st[0] = Filled(E \cup SeedUntil(0))
    BY <1>1
  <2> QED
    BY <2>1, <2>2, Zenon
<1>7. st[n] = Filled(E \cup SeedRows)
  <2>1. SeedUntil(n) = SeedRows
    BY <1>1 DEF SeedUntil, SeedRows
  <2>2. st[n] = Filled(E \cup SeedUntil(n))
    BY <1>1
  <2> QED
    BY <2>1, <2>2, Zenon
<1>8. ASSUME NEW k \in 1 .. Len(ss) PROVE Leads(st[k - 1], ss[k], st[k])
  <2> DEFINE m == k - 1
             R == E \cup SeedUntil(m)
  <2>1. m \in Nat /\ m \in 0 .. n /\ k \in 0 .. n /\ m + 1 = k /\ k \in DOMAIN EventSeeds
    BY <1>1, <1>2
  <2>2. st[m] = Filled(R) /\ st[k] = Filled(E \cup SeedUntil(k))
    BY <2>1
  <2> HIDE DEF m, st
  <2>3. /\ Plain(R) /\ Row("event", m + 1) \notin R /\ Seats(m + 1) \cap R = {} /\ HasParents("event", R)
        /\ (R \cup {Row("event", m + 1)}) \cup Seats(m + 1) = E \cup SeedUntil(m + 1)
    BY <2>1, SeedUntilNext
  <2> HIDE DEF R
  <2>4. Leads(Filled(R), SeedEvent(k), Filled((R \cup {Row("event", k)}) \cup Seats(k)))
    <3>1. Plain(R) /\ Row("event", k) \notin R /\ Seats(k) \cap R = {} /\ HasParents("event", R)
      BY <2>1, <2>3, Zenon
    <3> QED
      BY <2>1, <3>1, SeedEventLeads
  <2>5. (R \cup {Row("event", k)}) \cup Seats(k) = E \cup SeedUntil(k)
    BY <2>1, <2>3, Zenon
  <2>6. ss[k] = SeedEvent(k)
    BY <1>2
  <2> QED
    BY <2>2, <2>4, <2>5, <2>6, Zenon DEF m
<1> HIDE DEF st
<1>9. Stages(ss, st)
  BY <1>8 DEF Stages
<1>10. Leads(st[0], FlattenSeq(ss), st[Len(ss)])
  BY <1>2, <1>9, LeadsFlat
<1>11. Leads(Filled(E \cup Parents), FlattenSeq(ss), Filled(E \cup SeedRows))
  BY <1>2, <1>6, <1>7, <1>10, Zenon
<1>12. FlattenSeq(ss) \in Seq(Saves)
  BY <1>2, FlattenElements
<1>13. Leads(Filled(E), p \o FlattenSeq(ss), Filled(E \cup SeedRows))
  BY <1>4, <1>5, <1>11, <1>12, LeadsOn
<1> QED
  BY <1>3, <1>13, Zenon

-----------------------------------------------------------------------------
(* From what one migration leaves to what the next one leaves               *)

Dones(a) == {Done(m) : m \in 1 .. a}

LEMMA LeftItems ==
  /\ \A i \in Status \cup {Preset} : i[1] = "booking" /\ i[2] \in {"column", "check", "default"}
  /\ Preset \notin Status
  /\ \A i \in Indexes : i[1] \in Names /\ i[2] = "index"
  /\ \A i \in SeedRows : i[1] \in SeedTables /\ i[2] = "row"
  /\ \A a : \A i \in Dones(a) : i[1] = "typeorm_migrations" /\ i[2] = "row"
  /\ "typeorm_migrations" \notin Names /\ SeedTables \subseteq Names
<1>1. \A i \in Status \cup {Preset} : i[1] = "booking" /\ i[2] \in {"column", "check", "default"}
  BY DEF Status, Preset, Column, Check, Default
<1>2. Preset \notin Status
  <2>1. Preset[2] = "default" /\ \A i \in Status : i[2] # "default"
    BY DEF Status, Preset, Column, Check, Default
  <2> QED
    BY <2>1
<1>3. \A i \in Indexes : i[1] \in Names /\ i[2] = "index"
  BY DEF Indexes, Index, Names
<1>4. \A i \in SeedRows : i[1] \in SeedTables /\ i[2] = "row"
  BY DEF SeedRows, Parents, Seats, Row, SeedTables
<1>5. \A a : \A i \in Dones(a) : i[1] = "typeorm_migrations" /\ i[2] = "row"
  BY DEF Dones, Done, Row
<1>6. "typeorm_migrations" \notin Names /\ SeedTables \subseteq Names
  BY DEF Names, SeedTables
<1> QED
  BY <1>1, <1>2, <1>3, <1>4, <1>5, <1>6

LEMMA DonesGrow ==
  /\ Dones(0) = {}
  /\ \A m \in 1 .. 4 : /\ Dones(m) = Dones(m - 1) \cup {Done(m)} /\ Dones(m) \ {Done(m)} = Dones(m - 1)
                       /\ Done(m) \notin Dones(m - 1)
<1>1. \A m, n : Done(m) = Done(n) => m = n
  BY DEF Done, Row
<1>2. Dones(0) = {}
  BY DEF Dones
<1>3. ASSUME NEW m \in 1 .. 4
      PROVE  /\ Dones(m) = Dones(m - 1) \cup {Done(m)} /\ Dones(m) \ {Done(m)} = Dones(m - 1)
             /\ Done(m) \notin Dones(m - 1)
  <2>1. \A n : n \in 1 .. m <=> n = m \/ n \in 1 .. m - 1
    OBVIOUS
  <2>2. m \notin 1 .. m - 1
    OBVIOUS
  <2>3. Dones(m) = Dones(m - 1) \cup {Done(m)}
    BY <2>1 DEF Dones
  <2>4. Done(m) \notin Dones(m - 1)
    BY <1>1, <2>2 DEF Dones
  <2> QED
    BY <2>3, <2>4
<1> QED
  BY <1>2, <1>3

\* What is there after each of the migrations.
LEMMA AsAppliedItems ==
  /\ AsApplied(0) = Db({}, {}, {})
  /\ AsApplied(1) = Db(Six, Five, Status \cup Dones(1))
  /\ AsApplied(2) = Filled(Dones(2))
  /\ AsApplied(3) = Filled(SeedRows \cup Dones(3))
  /\ AsApplied(4) = Filled((SeedRows \cup Indexes) \cup Dones(4))
<1>1. Besides(0) = {} /\ Besides(1) = Status \cup Dones(1) /\ Besides(2) = Dones(2)
  <2>1. Besides(0) = {}
    BY DEF Besides
  <2>2. Besides(1) = Status \cup Dones(1)
    BY DEF Besides, Dones
  <2>3. Besides(2) = Dones(2)
    BY DEF Besides, Dones
  <2> QED
    BY <2>1, <2>2, <2>3
<1>2. Besides(3) = SeedRows \cup Dones(3) /\ Besides(4) = (SeedRows \cup Indexes) \cup Dones(4)
  <2>1. Besides(3) = SeedRows \cup Dones(3)
    BY DEF Besides, Dones
  <2>2. Besides(4) = (SeedRows \cup Indexes) \cup Dones(4)
    BY DEF Besides, Dones
  <2> QED
    BY <2>1, <2>2
<1>3. 1 # 0 /\ 2 # 0 /\ 2 # 1 /\ 3 # 0 /\ 3 # 1 /\ 4 # 0 /\ 4 # 1
  OBVIOUS
<1> QED
  BY <1>1, <1>2, <1>3, Zenon DEF AsApplied, Filled

LEMMA LeftPlain ==
  /\ \A a : Plain(Dones(a))
  /\ Plain(Status) /\ Plain(Indexes) /\ Plain(SeedRows) /\ Plain({Preset}) /\ Plain({})
  /\ \A E, X : Plain(E) /\ Plain(X) => Plain(E \cup X) /\ Plain(E \ X)
<1>1. \A a : Plain(Dones(a))
  BY LeftItems DEF Plain
<1>2. Plain(Status) /\ Plain(Indexes) /\ Plain(SeedRows) /\ Plain({Preset}) /\ Plain({})
  BY LeftItems DEF Plain
<1>3. \A E, X : Plain(E) /\ Plain(X) => Plain(E \cup X) /\ Plain(E \ X)
  BY DEF Plain
<1> QED
  BY <1>1, <1>2, <1>3

LEMMA LeftShapes ==
  ASSUME NEW E, Plain(E)
  PROVE  Shape({}, {}, E) /\ Shape(Six, Five, E) /\ Shape(Names, FivePaid, E)
  BY DEF Shape, Six, Five, FivePaid, Names

\* TypeORM's record of a migration.
LEMMA UpThen ==
  ASSUME NEW m \in Migration, NEW S, NEW T, NEW F, NEW E, Shape(T, F, E), Done(m) \notin E,
         Leads(S, Up[m], Db(T, F, E))
  PROVE  Leads(S, Append(Up[m], DoneUp(m)), Db(T, F, E \cup {Done(m)}))
<1>1. Up[m] \in Seq(UpStatements) /\ DoneUp(m) \in UpStatements
  BY UpPlans DEF UpStatements
<1> DEFINE A == {Done(m)}
<1>2. Writes(DoneUp(m), {}, A, {})
  BY StatementWrites, Zenon
<1>3. \A i \in A : i[1] = "typeorm_migrations" /\ i[2] = "row"
  BY DEF Done, Row
<1>4. A \cap E = {} /\ {} \subseteq Db(T, F, E)
  OBVIOUS
<1> HIDE DEF A
<1>5. NoSale(A)
  BY <1>3 DEF NoSale, SaleTables
<1>6. \A i \in A : \A p : <<i[1], p>> \in F => RowsOf(p, E) # {}
  <2>1. \A p : <<"typeorm_migrations", p>> \notin F
    BY DEF Shape, Names
  <2> QED
    BY <1>3, <2>1
<1>7. \A i \in A : i[2] = "row"
  BY <1>3
<1>8. Fits(DoneUp(m), Db(T, F, E), Db(T, F, E \cup A))
  BY <1>2, <1>4, <1>5, <1>6, <1>7, FitsRows
<1>9. Leads(S, Append(Up[m], DoneUp(m)), Db(T, F, E \cup A))
  BY <1>1, <1>8, LeadsThen
<1> QED
  BY <1>9 DEF A

LEMMA DownThen ==
  ASSUME NEW m \in Migration, NEW S, NEW T, NEW F, NEW E, Shape(T, F, E),
         Leads(S, Down[m], Db(T, F, E))
  PROVE  Leads(S, DownPlan(m), Db(T, F, E \ {Done(m)}))
<1>1. Down[m] \in Seq(DownStatements) /\ DoneDown(m) \in DownStatements
  BY DownScripts DEF DownStatements
<1> DEFINE D == {Done(m)}
<1>2. Writes(DoneDown(m), {}, {}, D)
  BY StatementWrites, Zenon
<1>3. Plain(D) /\ Plain({}) /\ Rowless({}) /\ {} \cap E = {} /\ {} \subseteq Db(T, F, E)
  BY DEF Plain, Rowless, Done, Row
<1> HIDE DEF D
<1>4. Fits(DoneDown(m), Db(T, F, E), Db(T, F, (E \ D) \cup {}))
  BY <1>2, <1>3, FitsExtras
<1>5. Leads(S, Append(Down[m], DoneDown(m)), Db(T, F, (E \ D) \cup {}))
  BY <1>1, <1>4, LeadsThen
<1>6. (E \ D) \cup {} = E \ D
  OBVIOUS
<1> QED
  BY <1>5, <1>6, Zenon DEF D, DownPlan

\* A database that carries the default which the second down leaves behind.
LEMMA WithPreset ==
  /\ AsApplied(1) \cup {Preset} = Db(Six, Five, (Status \cup {Preset}) \cup Dones(1))
  /\ \A S : AsLeft(S, 1) => \E E : /\ S = Db(Six, Five, E) /\ Plain(E)
                                   /\ E \ (Status \cup {Preset}) = Dones(1)
                                   /\ Dropped(E, Six) = Dones(1)
<1>1. AsApplied(1) = Db(Six, Five, Status \cup Dones(1))
  BY AsAppliedItems
<1>2. Db(Six, Five, Status \cup Dones(1)) \cup {Preset}
      = Db(Six, Five, (Status \cup Dones(1)) \cup {Preset})
  BY DEF Db
<1>3. (Status \cup Dones(1)) \cup {Preset} = (Status \cup {Preset}) \cup Dones(1)
  OBVIOUS
<1>4. AsApplied(1) \cup {Preset} = Db(Six, Five, (Status \cup {Preset}) \cup Dones(1))
  BY <1>1, <1>2, <1>3, Zenon
<1>5. ASSUME NEW X, Status \subseteq X, X \subseteq Status \cup {Preset}
      PROVE  LET E == X \cup Dones(1)
             IN  Plain(E) /\ E \ (Status \cup {Preset}) = Dones(1) /\ Dropped(E, Six) = Dones(1)
  <2>1. \A i \in X : i[1] = "booking" /\ i[2] \notin {"table", "fk"}
    BY <1>5, LeftItems
  <2>2. \A i \in Dones(1) : i[1] = "typeorm_migrations" /\ i[2] = "row"
    BY LeftItems
  <2>3. "booking" \in Six /\ "typeorm_migrations" \notin Six
    BY DEF Six
  <2>4. Dones(1) \cap (Status \cup {Preset}) = {}
    BY <2>2, LeftItems
  <2>5. Plain(X \cup Dones(1))
    BY <2>1, <2>2 DEF Plain
  <2>6. (X \cup Dones(1)) \ (Status \cup {Preset}) = Dones(1)
    BY <1>5, <2>4
  <2>7. Dropped(X \cup Dones(1), Six) = Dones(1)
    BY <2>1, <2>2, <2>3 DEF Dropped
  <2> QED
    BY <2>5, <2>6, <2>7
<1>6. ASSUME NEW S, AsLeft(S, 1)
      PROVE  \E E : /\ S = Db(Six, Five, E) /\ Plain(E)
                    /\ E \ (Status \cup {Preset}) = Dones(1) /\ Dropped(E, Six) = Dones(1)
  <2>1. \/ S = Db(Six, Five, Status \cup Dones(1))
        \/ S = Db(Six, Five, (Status \cup {Preset}) \cup Dones(1))
    BY <1>1, <1>4, <1>6 DEF AsLeft
  <2> DEFINE X == Status \cup {Preset}
  <2>2. CASE S = Db(Six, Five, Status \cup Dones(1))
    BY <1>5, <2>2
  <2>3. CASE S = Db(Six, Five, X \cup Dones(1))
    <3>1. Status \subseteq X /\ X \subseteq Status \cup {Preset}
      OBVIOUS
    <3>2. /\ Plain(X \cup Dones(1)) /\ (X \cup Dones(1)) \ (Status \cup {Preset}) = Dones(1)
          /\ Dropped(X \cup Dones(1), Six) = Dones(1)
      <4> HIDE DEF X
      <4> QED
        BY <1>5, <3>1
    <3> QED
      BY <2>3, <3>2
  <2> QED
    BY <2>1, <2>2, <2>3
<1> QED
  BY <1>4, <1>6

\* The up script of a migration makes of what the one before has left what the
\* migration stands for.
LEMMA UpLeads ==
  ASSUME NEW m \in Migration, NEW S, AsLeft(S, m - 1)
  PROVE  Leads(S, Append(Up[m], DoneUp(m)), AsApplied(m))
<1>1. Up[1] = SchemaUp /\ Up[2] = PaymentUp /\ Up[3] = SeedUp /\ Up[4] = IndexesUp
  BY DEF Up
<1>2. /\ Dones(0) = {} /\ Done(1) \notin Dones(0) /\ Done(2) \notin Dones(1)
      /\ Done(3) \notin Dones(2) /\ Done(4) \notin Dones(3)
      /\ Dones(1) = Dones(0) \cup {Done(1)} /\ Dones(2) = Dones(1) \cup {Done(2)}
      /\ Dones(3) = Dones(2) \cup {Done(3)} /\ Dones(4) = Dones(3) \cup {Done(4)}
  <2>1. 1 - 1 = 0 /\ 2 - 1 = 1 /\ 3 - 1 = 2 /\ 4 - 1 = 3
    OBVIOUS
  <2>2. 1 \in 1 .. 4 /\ 2 \in 1 .. 4 /\ 3 \in 1 .. 4 /\ 4 \in 1 .. 4
    OBVIOUS
  <2> QED
    BY <2>1, <2>2, DonesGrow
<1>3. \A n \in Migration : Done(n)[1] = "typeorm_migrations" /\ Done(n)[2] = "row"
  BY DEF Done, Row
<1>4. \A n \in Migration : Done(n) \notin Status /\ Done(n) \notin SeedRows /\ Done(n) \notin Indexes
  BY <1>3, LeftItems
<1>5. CASE m = 1
  <2>1. S = Db({}, {}, {})
    BY <1>5, AsAppliedItems DEF AsLeft
  <2>2. Leads(S, SchemaUp, Db(Six, Five, {} \cup Status))
    <3>1. {} \cap Status = {} /\ Plain({})
      BY LeftPlain
    <3> QED
      BY <2>1, <3>1, SchemaUpLeads
  <2>3. {} \cup Status = Status /\ Shape(Six, Five, Status)
    BY LeftPlain, LeftShapes
  <2>4. Leads(S, Up[m], Db(Six, Five, Status))
    BY <1>1, <1>5, <2>2, <2>3, Zenon
  <2>5. Leads(S, Append(Up[m], DoneUp(m)), Db(Six, Five, Status \cup {Done(m)}))
    BY <1>4, <2>3, <2>4, UpThen
  <2>6. Status \cup {Done(m)} = Status \cup Dones(1)
    BY <1>2, <1>5
  <2> QED
    BY <1>5, <2>5, <2>6, AsAppliedItems, Zenon
<1>6. CASE m = 2
  <2>1. AsLeft(S, 1)
    BY <1>6
  <2>2. PICK E : S = Db(Six, Five, E) /\ Plain(E) /\ E \ (Status \cup {Preset}) = Dones(1)
    BY <2>1, WithPreset
  <2>3. Leads(S, PaymentUp, Db(Names, FivePaid, E \ (Status \cup {Preset})))
    BY <2>2, PaymentUpLeads
  <2>4. Leads(S, Up[m], Db(Names, FivePaid, Dones(1)))
    BY <1>1, <1>6, <2>2, <2>3, Zenon
  <2>5. Shape(Names, FivePaid, Dones(1)) /\ Done(m) \notin Dones(1)
    BY <1>2, <1>6, LeftPlain, LeftShapes
  <2>6. Leads(S, Append(Up[m], DoneUp(m)), Db(Names, FivePaid, Dones(1) \cup {Done(m)}))
    BY <2>4, <2>5, UpThen
  <2> QED
    BY <1>2, <1>6, <2>6, AsAppliedItems, Zenon DEF Filled
<1>7. CASE m = 3
  <2>1. S = Filled(Dones(2))
    <3>1. S = AsApplied(2)
      BY <1>7 DEF AsLeft
    <3> QED
      BY <3>1, AsAppliedItems
  <2>2. Plain(Dones(2)) /\ Unseeded(Dones(2))
    <3>1. \A i \in Dones(2) : i[1] \notin SeedTables
      BY LeftItems
    <3> QED
      BY <3>1, LeftPlain DEF Unseeded, RowsOf
  <2>3. Leads(S, SeedUp, Filled(Dones(2) \cup SeedRows))
    BY <2>1, <2>2, SeedUpLeads
  <2> DEFINE E == Dones(2) \cup SeedRows
  <2>4. Done(m) \notin E
    BY <1>2, <1>4, <1>7
  <2>5. Plain(E)
    BY LeftPlain
  <2>6. E \cup {Done(m)} = SeedRows \cup Dones(3)
    BY <1>2, <1>7
  <2> HIDE DEF E
  <2>7. Leads(S, Up[m], Db(Names, FivePaid, E))
    BY <1>1, <1>7, <2>3, Zenon DEF E, Filled
  <2>8. Leads(S, Append(Up[m], DoneUp(m)), Db(Names, FivePaid, E \cup {Done(m)}))
    BY <2>4, <2>5, <2>7, LeftShapes, UpThen
  <2> QED
    BY <1>7, <2>6, <2>8, AsAppliedItems, Zenon DEF Filled
<1>8. CASE m = 4
  <2> DEFINE E == SeedRows \cup Dones(3)
             R == E \cup Indexes
  <2>1. S = Filled(E)
    <3>1. S = AsApplied(3)
      BY <1>8 DEF AsLeft
    <3> QED
      BY <3>1, AsAppliedItems
  <2>2. Plain(E) /\ E \cap Indexes = {}
    <3>1. \A i \in E : i[2] = "row"
      BY LeftItems
    <3>2. \A i \in Indexes : i[2] # "row"
      BY LeftItems
    <3> QED
      BY <3>1, <3>2, LeftPlain
  <2>3. Done(m) \notin R
    BY <1>2, <1>4, <1>8
  <2>4. R \cup {Done(m)} = (SeedRows \cup Indexes) \cup Dones(4)
    BY <1>2, <1>8
  <2>5. Plain(R)
    BY <2>2, LeftPlain
  <2> HIDE DEF E
  <2>6. Leads(S, IndexesUp, Db(Names, FivePaid, R))
    BY <2>1, <2>2, IndexesUpLeads DEF Filled
  <2> HIDE DEF R
  <2>7. Leads(S, Up[m], Db(Names, FivePaid, R))
    BY <1>1, <1>8, <2>6, Zenon
  <2>8. Leads(S, Append(Up[m], DoneUp(m)), Db(Names, FivePaid, R \cup {Done(m)}))
    BY <2>3, <2>5, <2>7, LeftShapes, UpThen
  <2> QED
    BY <1>8, <2>4, <2>8, AsAppliedItems, Zenon DEF Filled
<1> QED
  BY <1>5, <1>6, <1>7, <1>8 DEF Migration

\* The down script of a migration makes of what it has left, or of what the next
\* one's down script has left, what the one before leaves.
LEMMA DownLeads ==
  ASSUME NEW m \in Migration, NEW S, AsLeft(S, m)
  PROVE  \E T : AsLeft(T, m - 1) /\ Leads(S, DownPlan(m), T)
<1>1. Down[1] = SchemaDown /\ Down[2] = PaymentDown /\ Down[3] = SeedDown /\ Down[4] = IndexesDown
  BY DownScripts
<1>2. /\ Dones(0) = {} /\ Dones(1) \ {Done(1)} = Dones(0) /\ Dones(2) \ {Done(2)} = Dones(1)
      /\ Dones(3) \ {Done(3)} = Dones(2) /\ Dones(4) \ {Done(4)} = Dones(3)
  <2>1. 1 - 1 = 0 /\ 2 - 1 = 1 /\ 3 - 1 = 2 /\ 4 - 1 = 3
    OBVIOUS
  <2>2. 1 \in 1 .. 4 /\ 2 \in 1 .. 4 /\ 3 \in 1 .. 4 /\ 4 \in 1 .. 4
    OBVIOUS
  <2> QED
    BY <2>1, <2>2, DonesGrow
<1>3. \A n \in Migration : Done(n)[1] = "typeorm_migrations" /\ Done(n)[2] = "row"
  BY DEF Done, Row
<1>4. /\ \A n \in Migration : Done(n) \notin SeedRows /\ Done(n) \notin Status \cup {Preset}
      /\ \A i \in SeedRows : i[1] \in Names /\ i[2] = "row"
      /\ \A a : \A i \in Dones(a) : i[1] \notin Names /\ i[2] = "row"
  BY <1>3, LeftItems
<1>5. CASE m = 1
  <2>1. PICK E : S = Db(Six, Five, E) /\ Plain(E) /\ Dropped(E, Six) = Dones(1)
    BY <1>5, WithPreset
  <2>2. Leads(S, SchemaDown, Db({}, {}, Dropped(E, Six)))
    BY <2>1, SchemaDownLeads
  <2>3. Leads(S, Down[m], Db({}, {}, Dones(1)))
    BY <1>1, <1>5, <2>1, <2>2, Zenon
  <2>4. Shape({}, {}, Dones(1))
    BY LeftPlain, LeftShapes
  <2>5. Leads(S, DownPlan(m), Db({}, {}, Dones(1) \ {Done(m)}))
    BY <2>3, <2>4, DownThen
  <2>6. Leads(S, DownPlan(m), AsApplied(0))
    BY <1>2, <1>5, <2>5, AsAppliedItems, Zenon
  <2>7. AsLeft(AsApplied(0), m - 1)
    BY <1>5 DEF AsLeft
  <2> QED
    BY <2>6, <2>7
<1>6. CASE m = 2
  <2> DEFINE E == Dones(2)
             R == E \cup Status \cup {Preset}
  <2>1. S = Db(Names, FivePaid, E)
    <3>1. S = AsApplied(2)
      BY <1>6 DEF AsLeft
    <3> QED
      BY <3>1, AsAppliedItems, Zenon DEF Filled
  <2>2. Plain(E) /\ Plain(R)
    BY LeftPlain
  <2>3. E \cap (Status \cup {Preset}) = {}
    <3>1. \A i \in Status \cup {Preset} : i[2] # "row"
      BY LeftItems
    <3> QED
      BY <1>4, <3>1
  <2>4. Dropped(E, {"payment_record"}) = E
    <3>1. "payment_record" \in Names
      BY DEF Names
    <3>2. \A i \in E : i[1] \notin {"payment_record"}
      BY <1>4, <3>1
    <3> QED
      BY <3>2 DEF Dropped
  <2>5. R \ {Done(m)} = (Status \cup {Preset}) \cup Dones(1)
    BY <1>2, <1>4, <1>6 DEF Migration
  <2> HIDE DEF E
  <2>6. Leads(S, PaymentDown, Db(Six, Five, R))
    BY <2>1, <2>2, <2>3, <2>4, PaymentDownLeads
  <2> HIDE DEF R
  <2>7. Leads(S, Down[m], Db(Six, Five, R))
    BY <1>1, <1>6, <2>6, Zenon
  <2>8. Leads(S, DownPlan(m), Db(Six, Five, R \ {Done(m)}))
    BY <2>2, <2>7, LeftShapes, DownThen
  <2>9. Leads(S, DownPlan(m), AsApplied(1) \cup {Preset})
    BY <2>5, <2>8, WithPreset, Zenon
  <2>10. AsLeft(AsApplied(1) \cup {Preset}, m - 1)
    BY <1>6 DEF AsLeft
  <2> QED
    BY <2>9, <2>10
<1>7. CASE m = 3
  <2> DEFINE E == SeedRows \cup Dones(3)
  <2>1. S = Db(Names, FivePaid, E)
    <3>1. S = AsApplied(3)
      BY <1>7 DEF AsLeft
    <3> QED
      BY <3>1, AsAppliedItems, Zenon DEF Filled
  <2>2. Plain(E)
    BY LeftPlain
  <2>3. Emptied(E, Names) = Dones(3)
    BY <1>4 DEF Emptied
  <2> HIDE DEF E
  <2>4. Leads(S, SeedDown, Db(Names, FivePaid, Emptied(E, Names)))
    BY <2>1, <2>2, SeedDownLeads
  <2>5. Leads(S, Down[m], Db(Names, FivePaid, Dones(3)))
    BY <1>1, <1>7, <2>3, <2>4, Zenon
  <2>6. Leads(S, DownPlan(m), Db(Names, FivePaid, Dones(3) \ {Done(m)}))
    BY <2>5, LeftPlain, LeftShapes, DownThen
  <2>7. Leads(S, DownPlan(m), AsApplied(2))
    BY <1>2, <1>7, <2>6, AsAppliedItems, Zenon DEF Filled
  <2>8. AsLeft(AsApplied(2), m - 1)
    BY <1>7 DEF AsLeft
  <2> QED
    BY <2>7, <2>8
<1>8. CASE m = 4
  <2> DEFINE E == SeedRows \cup Dones(4)
  <2>1. S = Db(Names, FivePaid, E \cup Indexes)
    <3>1. S = AsApplied(4)
      BY <1>8 DEF AsLeft
    <3>2. E \cup Indexes = (SeedRows \cup Indexes) \cup Dones(4)
      OBVIOUS
    <3> HIDE DEF E
    <3> QED
      BY <3>1, <3>2, AsAppliedItems, Zenon DEF Filled
  <2>2. Plain(E)
    BY LeftPlain
  <2>3. E \cap Indexes = {}
    <3>1. \A i \in Indexes : i[2] # "row"
      BY LeftItems
    <3> QED
      BY <1>4, <3>1
  <2>4. E \ {Done(m)} = SeedRows \cup Dones(3)
    BY <1>2, <1>4, <1>8 DEF Migration
  <2> HIDE DEF E
  <2>5. Leads(S, IndexesDown, Db(Names, FivePaid, E))
    BY <2>1, <2>2, <2>3, IndexesDownLeads
  <2>6. Leads(S, Down[m], Db(Names, FivePaid, E))
    BY <1>1, <1>8, <2>5, Zenon
  <2>7. Leads(S, DownPlan(m), Db(Names, FivePaid, E \ {Done(m)}))
    BY <2>2, <2>6, LeftShapes, DownThen
  <2>8. Leads(S, DownPlan(m), AsApplied(3))
    BY <2>4, <2>7, AsAppliedItems, Zenon DEF Filled
  <2>9. AsLeft(AsApplied(3), m - 1)
    BY <1>8 DEF AsLeft
  <2> QED
    BY <2>8, <2>9
<1> QED
  BY <1>5, <1>6, <1>7, <1>8 DEF Migration

\* migration:run, the first a migrations being applied.
LEMMA UpPlanLeads ==
  ASSUME NEW a \in 0 .. 3, Applied = 1 .. a, NEW S, AsLeft(S, a)
  PROVE  Leads(S, UpPlan, AsApplied(4))
<1> DEFINE st == [m \in 0 .. 4 |-> IF m <= a THEN S ELSE AsApplied(m)]
<1>1. /\ Pending \in Seq(Seq(UpStatements)) /\ Len(Pending) = 4
      /\ \A m \in Migration : Pending[m] = IF m \in Applied THEN <<>> ELSE Append(Up[m], DoneUp(m))
  BY PendingScripts
<1>2. ASSUME NEW m \in 1 .. 4 PROVE Leads(st[m - 1], Pending[m], st[m])
  <2>1. m \in Migration /\ m - 1 \in 0 .. 4 /\ m \in 0 .. 4
    BY DEF Migration
  <2>2. st[m - 1] = (IF m - 1 <= a THEN S ELSE AsApplied(m - 1))
    BY <2>1
  <2>3. st[m] = (IF m <= a THEN S ELSE AsApplied(m))
    BY <2>1
  <2> HIDE DEF st
  <2>4. CASE m <= a
    <3>1. m - 1 <= a /\ m \in Applied
      BY <2>4
    <3>2. st[m - 1] = S /\ st[m] = S /\ Pending[m] = <<>>
      BY <1>1, <2>1, <2>2, <2>3, <2>4, <3>1
    <3> QED
      BY <3>2, LeadsNowhere, Zenon
  <2>5. CASE ~ (m <= a)
    <3>1. m \notin Applied
      BY <2>5
    <3>2. st[m] = AsApplied(m) /\ Pending[m] = Append(Up[m], DoneUp(m))
      BY <1>1, <2>1, <2>3, <2>5, <3>1
    <3>3. AsLeft(st[m - 1], m - 1)
      <4>1. m - 1 <= a => m - 1 = a
        BY <2>5
      <4>2. CASE m - 1 <= a
        BY <2>2, <4>1, <4>2
      <4>3. CASE ~ (m - 1 <= a)
        BY <2>2, <4>3 DEF AsLeft
      <4> QED
        BY <4>2, <4>3
    <3>4. Leads(st[m - 1], Append(Up[m], DoneUp(m)), AsApplied(m))
      BY <2>1, <3>3, UpLeads
    <3> QED
      BY <3>2, <3>4, Zenon
  <2> QED
    BY <2>4, <2>5
<1>3. st[0] = S /\ st[4] = AsApplied(4)
  OBVIOUS
<1> HIDE DEF st
<1>4. Stages(Pending, st)
  BY <1>1, <1>2 DEF Stages
<1>5. Leads(st[0], FlattenSeq(Pending), st[Len(Pending)])
  BY <1>1, <1>4, LeadsFlat
<1> QED
  BY <1>1, <1>3, <1>5, Zenon DEF UpPlan

-----------------------------------------------------------------------------
(* The invariant of the scripts                                            *)

Unsold(S) == S \ SaleRows

\* V is what a transaction sees, sales apart, when n statements of p are done, on
\* the way to what some migrations leave behind.
OnRoad(p, V, n) ==
  \E r, S, T : \E b \in 0 .. 4 : Road(r, p, S, T) /\ AsLeft(T, b) /\ Unsold(V) = r[n]

\* Sales apart, the database is what the first migrations have left, and a
\* transaction is on the road of its script.
ScriptInv == /\ \E a \in 0 .. 4 : AsLeft(Unsold(db), a)
             /\ run # None => OnRoad(run.plan, View, run.done)

\* The migrations listed as applied are those that left the database.
LEMMA LeftApplied ==
  ASSUME NEW a \in 0 .. 4, AsLeft(Unsold(db), a)
  PROVE  Applied = 1 .. a /\ (a # 0 => Latest = a)
<1>1. \A m \in Migration : Done(m)[1] = "typeorm_migrations" /\ Done(m)[2] = "row"
  BY DEF Done, Row
<1>2. \A m \in Migration : Done(m) \notin SaleRows
  <2>1. \A i \in SaleRows : i[1] \in SaleTables
    BY DEF SaleRows, SaleTables, Row
  <2>2. "typeorm_migrations" \notin SaleTables
    BY DEF SaleTables
  <2> QED
    BY <1>1, <2>1, <2>2
<1> DEFINE Holding(T, F, E) == /\ AsApplied(a) = Db(T, F, E \cup Dones(a)) /\ Shape(T, F, E \cup Dones(a))
                               /\ \A i \in E : i[1] # "typeorm_migrations"
<1>3. PICK T, F, E : Holding(T, F, E)
  <2>1. /\ \A i \in Status : i[1] # "typeorm_migrations"
        /\ \A i \in SeedRows : i[1] # "typeorm_migrations"
        /\ \A i \in SeedRows \cup Indexes : i[1] # "typeorm_migrations"
    BY LeftItems
  <2>2. CASE a = 0
    <3>1. AsApplied(a) = Db({}, {}, {} \cup Dones(a)) /\ Shape({}, {}, {} \cup Dones(a))
      <4>1. {} \cup Dones(a) = {}
        BY <2>2, DonesGrow
      <4>2. AsApplied(a) = Db({}, {}, {}) /\ Shape({}, {}, {})
        BY <2>2, AsAppliedItems, LeftPlain, LeftShapes
      <4> QED
        BY <4>1, <4>2, Zenon
    <3>2. Holding({}, {}, {})
      BY <3>1
    <3> HIDE DEF Holding
    <3> QED
      BY <3>2, Zenon
  <2>3. CASE a = 1
    <3>1. AsApplied(a) = Db(Six, Five, Status \cup Dones(a)) /\ Shape(Six, Five, Status \cup Dones(a))
      BY <2>3, AsAppliedItems, LeftPlain, LeftShapes
    <3> QED
      BY <2>1, <3>1
  <2>4. CASE a = 2
    <3>1. {} \cup Dones(a) = Dones(a)
      OBVIOUS
    <3>2. AsApplied(a) = Db(Names, FivePaid, {} \cup Dones(a))
          /\ Shape(Names, FivePaid, {} \cup Dones(a))
      BY <2>4, <3>1, AsAppliedItems, LeftPlain, LeftShapes DEF Filled
    <3>3. Holding(Names, FivePaid, {})
      BY <3>2
    <3> HIDE DEF Holding
    <3> QED
      BY <3>3, Zenon
  <2>5. CASE a = 3
    <3>1. AsApplied(a) = Db(Names, FivePaid, SeedRows \cup Dones(a))
          /\ Shape(Names, FivePaid, SeedRows \cup Dones(a))
      BY <2>5, AsAppliedItems, LeftPlain, LeftShapes DEF Filled
    <3> QED
      BY <2>1, <3>1
  <2>6. CASE a = 4
    <3> DEFINE X == SeedRows \cup Indexes
    <3>1. AsApplied(a) = Db(Names, FivePaid, X \cup Dones(a))
          /\ Shape(Names, FivePaid, X \cup Dones(a))
      BY <2>6, AsAppliedItems, LeftPlain, LeftShapes DEF Filled
    <3>2. \A i \in X : i[1] # "typeorm_migrations"
      BY <2>1
    <3> HIDE DEF X
    <3>3. Holding(Names, FivePaid, X)
      BY <3>1, <3>2
    <3> HIDE DEF Holding
    <3> QED
      BY <3>3, Zenon
  <2>7. a = 0 \/ a = 1 \/ a = 2 \/ a = 3 \/ a = 4
    OBVIOUS
  <2> HIDE DEF Holding
  <2> QED
    BY <2>2, <2>3, <2>4, <2>5, <2>6, <2>7, Zenon
<1>4. \A m \in Migration : Done(m) \in AsApplied(a) <=> m \in 1 .. a
  <2> TAKE m \in Migration
  <2>1. Done(m) \in Db(T, F, E \cup Dones(a)) <=> Done(m) \in E \cup Dones(a)
    BY <1>1, <1>3, DbItems
  <2>2. Done(m) \notin E
    BY <1>1, <1>3
  <2>3. Done(m) \in Dones(a) <=> m \in 1 .. a
    BY DEF Dones, Done, Row
  <2> QED
    BY <1>3, <2>1, <2>2, <2>3
<1>5. \A m \in Migration : Done(m) \in Unsold(db) <=> m \in 1 .. a
  <2>1. \A m : Done(m) # Preset
    BY DEF Done, Row, Preset, Default
  <2> QED
    BY <1>4, <2>1 DEF AsLeft
<1>6. Applied = 1 .. a
  <2>1. 1 .. a \subseteq Migration
    BY DEF Migration
  <2>2. Applied = {m \in Migration : Done(m) \in Unsold(db)}
    BY <1>2 DEF Applied, Unsold
  <2> QED
    BY <1>5, <2>1, <2>2
<1>7. a # 0 => Latest = a
  <2> SUFFICES ASSUME a # 0 PROVE Latest = a
    OBVIOUS
  <2>1. a \in Applied
    BY <1>6
  <2>2. Latest \in Applied /\ \A n \in Applied : n <= Latest
    BY <2>1, LatestIsLast
  <2> QED
    BY <1>6, <2>1, <2>2
<1> QED
  BY <1>6, <1>7

\* What a statement does, sales apart.
LEMMA ResultUnsold ==
  ASSUME NEW S, NEW s, s.adds \cap SaleRows = {}
  PROVE  Unsold(Result(S, s)) = Result(Unsold(S), s)
<1>1. Gone(S, s) \ SaleRows = Gone(Unsold(S), s) \ SaleRows
  BY DEF Gone, Unsold, RowsOf
<1> HIDE DEF Gone
<1> QED
  BY <1>1 DEF Unsold, Result

LEMMA BeginOnRoad ==
  ASSUME NEW p, NEW V, NEW b \in 0 .. 4, NEW T, AsLeft(T, b), Leads(Unsold(V), p, T)
  PROVE  OnRoad(p, V, 0)
<1>1. PICK r : Road(r, p, Unsold(V), T)
  BY DEF Leads
<1>2. Unsold(V) = r[0]
  BY <1>1 DEF Road
<1> QED
  BY <1>1, <1>2 DEF OnRoad

LEMMA ScriptInit == Init => ScriptInv
<1> SUFFICES ASSUME Init PROVE ScriptInv
  OBVIOUS
<1>1. Unsold(db) = {} /\ run = None
  BY DEF Init, Unsold
<1>2. AsApplied(0) = {}
  BY AsAppliedItems DEF Db
<1>3. AsLeft(Unsold(db), 0)
  BY <1>1, <1>2 DEF AsLeft
<1> QED
  BY <1>1, <1>3 DEF ScriptInv

LEMMA ScriptRun == ScriptInv /\ Run => ScriptInv'
<1> SUFFICES ASSUME ScriptInv, Run PROVE ScriptInv'
  OBVIOUS
<1>1. /\ db' = db /\ Applied # Migration
      /\ run' = [plan |-> UpPlan, done |-> 0, adds |-> {}, dels |-> {}]
  BY DEF Run, Begin, UpPlan, Pending, DoneUp
<1>2. PICK a \in 0 .. 4 : AsLeft(Unsold(db), a)
  BY DEF ScriptInv
<1>3. Applied = 1 .. a
  BY <1>2, LeftApplied
<1>4. a \in 0 .. 3
  BY <1>1, <1>3 DEF Migration
<1>5. Leads(Unsold(db), UpPlan, AsApplied(4))
  BY <1>2, <1>3, <1>4, UpPlanLeads
<1>6. AsLeft(AsApplied(4), 4) /\ 4 \in 0 .. 4
  BY DEF AsLeft
<1>7. OnRoad(UpPlan, db, 0)
  BY <1>5, <1>6, BeginOnRoad
<1>8. run'.plan = UpPlan /\ run'.done = 0 /\ View' = db
  BY <1>1 DEF View
<1> QED
  BY <1>1, <1>2, <1>7, <1>8 DEF ScriptInv

LEMMA ScriptRevert == ScriptInv /\ Revert => ScriptInv'
<1> SUFFICES ASSUME ScriptInv, Revert PROVE ScriptInv'
  OBVIOUS
<1>1. /\ db' = db /\ Applied # {}
      /\ run' = [plan |-> DownPlan(Latest), done |-> 0, adds |-> {}, dels |-> {}]
  BY DEF Revert, Begin, DownPlan, DoneDown
<1>2. PICK a \in 0 .. 4 : AsLeft(Unsold(db), a)
  BY DEF ScriptInv
<1>3. Applied = 1 .. a /\ (a # 0 => Latest = a)
  BY <1>2, LeftApplied
<1>4. a \in Migration /\ Latest = a /\ a - 1 \in 0 .. 4
  BY <1>1, <1>3 DEF Migration
<1>5. PICK T : AsLeft(T, a - 1) /\ Leads(Unsold(db), DownPlan(a), T)
  BY <1>2, <1>4, DownLeads
<1>6. OnRoad(DownPlan(a), db, 0)
  BY <1>4, <1>5, BeginOnRoad
<1>7. run'.plan = DownPlan(a) /\ run'.done = 0 /\ View' = db
  BY <1>1, <1>4 DEF View
<1> QED
  BY <1>1, <1>2, <1>6, <1>7 DEF ScriptInv

LEMMA ScriptStep == Inv /\ ScriptInv /\ Step => ScriptInv'
<1> SUFFICES ASSUME Inv, ScriptInv, Step PROVE ScriptInv'
  OBVIOUS
<1> DEFINE s == Statement
           k == run.done + 1
<1>1. /\ run.done \in Nat /\ k \in 1 .. Len(run.plan) /\ s = run.plan[k]
  BY PlanStatements DEF Step
<1>2. db' = db /\ run'.plan = run.plan /\ run'.done = k /\ View' = Result(View, s)
  BY StepEffect
<1>3. run # None
  BY DEF Step, Unfinished
<1>4. PICK r, S, T : \E b \in 0 .. 4 :
        Road(r, run.plan, S, T) /\ AsLeft(T, b) /\ Unsold(View) = r[run.done]
  BY <1>3 DEF ScriptInv, OnRoad
<1> HIDE DEF s
<1>5. Fits(s, r[run.done], r[k])
  <2>1. k - 1 = run.done
    BY <1>1
  <2>2. Fits(run.plan[k], r[k - 1], r[k])
    BY <1>1, <1>4 DEF Road
  <2> QED
    BY <1>1, <2>1, <2>2, Zenon
<1>6. Unsold(View') = r[k]
  <2>1. s.adds \cap SaleRows = {} /\ r[k] = Result(r[run.done], s)
    BY <1>5 DEF Fits
  <2>2. Unsold(Result(View, s)) = Result(Unsold(View), s)
    BY <2>1, ResultUnsold
  <2> QED
    BY <1>2, <1>4, <2>1, <2>2
<1> HIDE DEF k
<1>7. OnRoad(run'.plan, View', run'.done)
  BY <1>2, <1>4, <1>6 DEF OnRoad
<1> QED
  BY <1>2, <1>7 DEF ScriptInv

LEMMA ScriptCommit == ScriptInv /\ Commit => ScriptInv'
<1> SUFFICES ASSUME ScriptInv, Commit PROVE ScriptInv'
  OBVIOUS
<1>1. run # None /\ run.done = Len(run.plan) /\ db' = View /\ run' = None
  BY DEF Commit
<1>2. PICK r, S, T : \E b \in 0 .. 4 :
        Road(r, run.plan, S, T) /\ AsLeft(T, b) /\ Unsold(View) = r[run.done]
  BY <1>1 DEF ScriptInv, OnRoad
<1>3. Unsold(db') = T
  BY <1>1, <1>2 DEF Road
<1> QED
  BY <1>1, <1>2, <1>3 DEF ScriptInv

\* A sale, and whatever changes nothing but the state of a sale.
LEMMA ScriptSale ==
  ASSUME ScriptInv, NEW X, X \subseteq SaleRows, db' = db \cup X, run' = run
  PROVE  ScriptInv'
<1>1. Unsold(db') = Unsold(db) /\ Unsold(View') = Unsold(View)
  BY DEF Unsold, View
<1>2. OnRoad(run.plan, View, run.done) => OnRoad(run.plan, View', run.done)
  BY <1>1 DEF OnRoad
<1> QED
  BY <1>1, <1>2 DEF ScriptInv

LEMMA ScriptRollback == ScriptInv /\ Rollback => ScriptInv'
  BY DEF ScriptInv, Rollback

LEMMA ScriptNext == Inv /\ ScriptInv /\ [Next]_vars => ScriptInv'
<1> SUFFICES ASSUME Inv, ScriptInv, [Next]_vars PROVE ScriptInv'
  OBVIOUS
<1>1. ASSUME db' = db, run' = run PROVE ScriptInv'
  <2> DEFINE X == {}
  <2>1. db' = db \cup X /\ X \subseteq SaleRows
    BY <1>1
  <2> HIDE DEF X
  <2> QED
    BY <1>1, <2>1, ScriptSale
<1>2. CASE UNCHANGED vars
  BY <1>1, <1>2 DEF vars
<1>3. CASE Run \/ Revert
  BY <1>3, ScriptRun, ScriptRevert
<1>4. CASE Step \/ Commit
  BY <1>4, ScriptStep, ScriptCommit
<1>5. CASE Fail \/ Interrupt
  BY <1>5, ScriptRollback DEF Fail, Interrupt
<1>6. ASSUME NEW s \in Sales, SaleInsert(s) \/ SaleCharge(s) \/ SaleRecord(s) PROVE ScriptInv'
  BY <1>1, <1>6 DEF SaleInsert, SaleCharge, SaleRecord
<1>7. ASSUME NEW s \in Sales, SaleCommit(s) PROVE ScriptInv'
  <2> DEFINE X == {Row("booking", s), Row("payment_record", s)}
  <2>1. X \subseteq SaleRows
    BY DEF SaleRows
  <2>2. db' = db \cup X /\ run' = run
    BY <1>7 DEF SaleCommit
  <2> HIDE DEF X
  <2> QED
    BY <2>1, <2>2, ScriptSale
<1>8. ASSUME NEW s \in Sales, Deadlock(s) PROVE ScriptInv'
  BY <1>1, <1>8, ScriptRollback DEF Deadlock
<1> QED
  BY <1>2, <1>3, <1>4, <1>5, <1>6, <1>7, <1>8 DEF Next, SaleStep

LEMMA ScriptAlways == Spec => []ScriptInv
  BY ScriptInit, ScriptNext, InvAlways, PTL DEF Spec

\* No script of the migrations stands in its own way: in every state they can have
\* left behind, after however many runs, reverts and interruptions, the next
\* statement of the script under way works, unless a sale that was committed since
\* is in its way.
THEOREM ScriptsWorkAlways == Spec => []ScriptsWork
<1>1. Inv /\ ScriptInv => ScriptsWork
  <2> SUFFICES ASSUME Inv, ScriptInv, Unfinished, View \cap SaleRows = {} PROVE Works(Statement, View)
    BY DEF ScriptsWork
  <2> DEFINE k == run.done + 1
  <2>1. run.done \in Nat /\ k \in 1 .. Len(run.plan) /\ Statement = run.plan[k] /\ k - 1 = run.done
    BY PlanStatements
  <2>2. PICK r, S, T : \E b \in 0 .. 4 :
          Road(r, run.plan, S, T) /\ AsLeft(T, b) /\ Unsold(View) = r[run.done]
    BY DEF ScriptInv, OnRoad, Unfinished
  <2>3. Fits(run.plan[k], r[k - 1], r[k])
    BY <2>1, <2>2 DEF Road
  <2>4. Unsold(View) = View
    BY DEF Unsold
  <2>5. Works(run.plan[k], r[k - 1])
    BY <2>3 DEF Fits
  <2> QED
    BY <2>1, <2>2, <2>4, <2>5, Zenon
<1> QED
  BY <1>1, InvAlways, ScriptAlways, PTL

-----------------------------------------------------------------------------
(* Folding the statements of a script                                      *)

\* One step of FoldLeft, given what it made of the smaller sets of places.
FoldStep(p, g, s) == IF s = {} THEN {} ELSE Result(g[s \ {Max(s)}], p[Max(s)])
FoldsTo(p, g, n) == g = [s \in SUBSET (1 .. n) |-> FoldStep(p, g, s)]

LEMMA FoldLeftUnfolds ==
  ASSUME NEW p
  PROVE  LET g == CHOOSE h : h = [s \in SUBSET DOMAIN p |-> FoldStep(p, h, s)]
         IN  FoldLeft(Result, {}, p) = g[DOMAIN p]
  BY Zenon DEF FoldLeft, MapThenFoldSet, FoldStep

LEMMA MaxOf ==
  ASSUME NEW n \in Nat, NEW s \in SUBSET (1 .. n), n \in s
  PROVE  Max(s) = n
<1>1. \A y \in s : n >= y
  OBVIOUS
<1>2. \A x \in s : (\A y \in s : x >= y) => x = n
  OBVIOUS
<1> QED
  BY <1>1, <1>2 DEF Max

\* The recursion of FoldLeft ends.
LEMMA FoldExists ==
  ASSUME NEW p
  PROVE  \A n \in Nat : \E g : FoldsTo(p, g, n)
<1> DEFINE bad == {n \in Nat : ~ \E g : FoldsTo(p, g, n)}
<1>1. SUFFICES ASSUME bad # {} PROVE FALSE
  OBVIOUS
<1>2. PICK n \in bad : \A j \in bad : n <= j
  <2>1. bad \in SUBSET Nat
    OBVIOUS
  <2> HIDE DEF bad
  <2> QED
    BY <1>1, <2>1, Least
<1>3. n \in Nat /\ ~ \E g : FoldsTo(p, g, n)
  BY <1>2
<1>4. CASE n = 0
  <2> DEFINE g == [s \in SUBSET (1 .. 0) |-> {}]
  <2>1. \A s \in SUBSET (1 .. 0) : s = {}
    <3>1. 1 .. 0 = {}
      OBVIOUS
    <3> QED
      BY <3>1
  <2>2. \A s \in SUBSET (1 .. 0) : FoldStep(p, g, s) = {}
    <3> HIDE DEF g
    <3> QED
      BY <2>1 DEF FoldStep
  <2>3. g = [s \in SUBSET (1 .. 0) |-> FoldStep(p, g, s)]
    <3>1. \A h : (\A s \in SUBSET (1 .. 0) : FoldStep(p, h, s) = {}) =>
                   [s \in SUBSET (1 .. 0) |-> FoldStep(p, h, s)] = [s \in SUBSET (1 .. 0) |-> {}]
      OBVIOUS
    <3> QED
      BY <2>2, <3>1
  <2> HIDE DEF g
  <2>4. FoldsTo(p, g, n)
    BY <1>4, <2>3 DEF FoldsTo
  <2> QED
    BY <1>3, <2>4
<1>5. CASE n # 0
  <2>1. n - 1 \in Nat /\ n - 1 \notin bad
    BY <1>2, <1>3, <1>5
  <2>2. PICK g : FoldsTo(p, g, n - 1)
    BY <2>1
  <2> DEFINE P == SUBSET (1 .. n)
             Q == SUBSET (1 .. n - 1)
             h == [s \in P |-> IF n \in s THEN Result(g[s \ {n}], p[n]) ELSE g[s]]
  <2>3. \A s : s \in Q <=> s \in P /\ n \notin s
    <3>1. \A i : i \in 1 .. n - 1 <=> i \in 1 .. n /\ i # n
      BY <1>3, <1>5
    <3> QED
      BY <3>1
  <2>4. \A s \in P : h[s] = IF n \in s THEN Result(g[s \ {n}], p[n]) ELSE g[s]
    OBVIOUS
  <2>5. h = [s \in P |-> h[s]]
    OBVIOUS
  <2>6. \A s \in Q : g[s] = FoldStep(p, g, s)
    BY <2>2 DEF FoldsTo
  <2>7. \A s \in P : n \in s => Max(s) = n
    BY <1>3, MaxOf
  <2>8. \A s \in P : \A i : s \ {i} \in P /\ (n \notin s => n \notin s \ {i})
    OBVIOUS
  <2>9. \A s \in P : s \ {n} \in Q
    BY <2>3, <2>8
  <2> HIDE DEF P, Q, h
  <2>10. \A s \in Q : h[s] = g[s]
    BY <2>3, <2>4
  <2>11. \A s \in P : h[s] = FoldStep(p, h, s)
    <3> TAKE s \in P
    <3>1. CASE n \in s
      <4>1. h[s] = Result(g[s \ {n}], p[n]) /\ h[s \ {n}] = g[s \ {n}] /\ Max(s) = n
        BY <2>4, <2>7, <2>9, <2>10, <3>1
      <4>2. s # {}
        BY <3>1
      <4> QED
        BY <4>1, <4>2 DEF FoldStep
    <3>2. CASE n \notin s
      <4>1. s \in Q /\ s \ {Max(s)} \in Q
        BY <2>3, <2>8, <3>2
      <4>2. h[s] = FoldStep(p, g, s) /\ h[s \ {Max(s)}] = g[s \ {Max(s)}]
        BY <2>6, <2>10, <4>1
      <4> QED
        BY <4>2 DEF FoldStep
    <3> QED
      BY <3>1, <3>2
  <2>12. FoldsTo(p, h, n)
    BY <2>5, <2>11 DEF FoldsTo, P
  <2> QED
    BY <1>3, <2>12
<1> QED
  BY <1>4, <1>5

\* The statements that lead somewhere fold to it.
LEMMA FoldLeads ==
  ASSUME NEW A, NEW p \in Seq(A), NEW T, Leads({}, p, T)
  PROVE  FoldLeft(Result, {}, p) = T
<1> DEFINE n == Len(p)
           g == CHOOSE h : FoldsTo(p, h, n)
<1>1. n \in Nat /\ DOMAIN p = 1 .. n
  OBVIOUS
<1>2. FoldLeft(Result, {}, p) = g[1 .. n]
  <2> HIDE DEF n
  <2>1. FoldLeft(Result, {}, p) = (CHOOSE h : h = [s \in SUBSET DOMAIN p |-> FoldStep(p, h, s)])[DOMAIN p]
    BY FoldLeftUnfolds
  <2> QED
    BY <1>1, <2>1 DEF FoldsTo
<1>3. FoldsTo(p, g, n)
  BY <1>1, FoldExists
<1> HIDE DEF g
<1>4. \A s \in SUBSET (1 .. n) : g[s] = FoldStep(p, g, s)
  BY <1>3 DEF FoldsTo
<1>5. PICK r : Road(r, p, {}, T)
  BY DEF Leads
<1> HIDE DEF n
<1> DEFINE bad == {k \in 0 .. n : g[1 .. k] # r[k]}
<1>6. bad = {}
  <2> SUFFICES ASSUME bad # {} PROVE FALSE
    OBVIOUS
  <2>1. bad \in SUBSET Nat
    BY <1>1
  <2>2. PICK k \in bad : \A j \in bad : k <= j
    <3> HIDE DEF bad
    <3> QED
      BY <2>1, Least
  <2>3. k \in 0 .. n /\ g[1 .. k] # r[k]
    BY <2>2
  <2>4. 1 .. k \in SUBSET (1 .. n)
    BY <1>1, <2>3
  <2>5. g[1 .. k] = FoldStep(p, g, 1 .. k)
    BY <1>4, <2>4
  <2>6. CASE k = 0
    <3>1. 1 .. k = {}
      BY <2>6
    <3> QED
      BY <1>5, <2>3, <2>5, <2>6, <3>1 DEF Road, FoldStep
  <2>7. CASE k # 0
    <3>1. k \in Nat /\ k - 1 \in 0 .. n /\ k - 1 \notin bad /\ k \in 1 .. n
      BY <1>1, <2>2, <2>3, <2>7
    <3>2. Max(1 .. k) = k
      <4>1. 1 .. k \in SUBSET (1 .. k) /\ k \in 1 .. k
        BY <3>1
      <4> QED
        BY <3>1, <4>1, MaxOf
    <3>3. (1 .. k) \ {k} = 1 .. k - 1
      <4>1. \A i : i \in 1 .. k - 1 <=> i \in 1 .. k /\ i # k
        BY <3>1
      <4> QED
        BY <4>1
    <3>4. 1 .. k # {}
      BY <3>1
    <3>5. g[1 .. k] = Result(g[1 .. k - 1], p[k])
      BY <2>5, <3>2, <3>3, <3>4 DEF FoldStep
    <3>6. g[1 .. k - 1] = r[k - 1]
      BY <3>1
    <3>7. Fits(p[k], r[k - 1], r[k])
      BY <1>5, <3>1 DEF Road, n
    <3>8. r[k] = Result(r[k - 1], p[k])
      BY <3>7 DEF Fits
    <3> QED
      BY <2>3, <3>5, <3>6, <3>8, Zenon
  <2> QED
    BY <2>6, <2>7
<1>7. g[1 .. n] = r[n]
  BY <1>1, <1>6
<1> QED
  BY <1>2, <1>5, <1>7 DEF Road, n

-----------------------------------------------------------------------------
(* What the scripts of the applied migrations produce                      *)

\* Tables, keys, columns and indexes after the first a migrations.
Structure(a) == IF a = 0 THEN Db({}, {}, {})
                ELSE IF a = 1 THEN Db(Six, Five, Status)
                ELSE IF a = 4 THEN Filled(Indexes) ELSE Filled({})

Scripts(a) == [m \in Migration |-> IF m \in 1 .. a /\ m # Seeded THEN Up[m] ELSE <<>>]

LEMMA StructureNext ==
  ASSUME NEW m \in Migration, m # Seeded
  PROVE  Leads(Structure(m - 1), Up[m], Structure(m))
<1>1. Up[1] = SchemaUp /\ Up[2] = PaymentUp /\ Up[4] = IndexesUp
  BY DEF Up
<1>2. CASE m = 1
  <2>1. {} \cup Status = Status /\ {} \cap Status = {} /\ Plain({})
    BY LeftPlain
  <2>2. Leads(Db({}, {}, {}), SchemaUp, Db(Six, Five, {} \cup Status))
    BY <2>1, SchemaUpLeads
  <2>3. Structure(m - 1) = Db({}, {}, {}) /\ Structure(m) = Db(Six, Five, Status)
    BY <1>2 DEF Structure
  <2> QED
    BY <1>1, <1>2, <2>1, <2>2, <2>3, Zenon
<1>3. CASE m = 2
  <2>1. Plain(Status) /\ Status \ (Status \cup {Preset}) = {}
    BY LeftPlain
  <2>2. Leads(Db(Six, Five, Status), PaymentUp, Db(Names, FivePaid, Status \ (Status \cup {Preset})))
    BY <2>1, PaymentUpLeads
  <2>3. Structure(m - 1) = Db(Six, Five, Status) /\ Structure(m) = Filled({})
    BY <1>3 DEF Structure
  <2> QED
    BY <1>1, <1>3, <2>1, <2>2, <2>3, Zenon DEF Filled
<1>4. CASE m = 4
  <2>1. {} \cup Indexes = Indexes /\ {} \cap Indexes = {} /\ Plain({})
    BY LeftPlain
  <2>2. Leads(Db(Names, FivePaid, {}), IndexesUp, Db(Names, FivePaid, {} \cup Indexes))
    BY <2>1, IndexesUpLeads
  <2>3. Structure(m - 1) = Filled({}) /\ Structure(m) = Filled(Indexes)
    BY <1>4 DEF Structure
  <2> QED
    BY <1>1, <1>4, <2>1, <2>2, <2>3, Zenon DEF Filled
<1> QED
  BY <1>2, <1>3, <1>4 DEF Migration, Seeded

LEMMA StructureFolds ==
  ASSUME NEW a \in 0 .. 4
  PROVE  FoldLeft(Result, {}, FlattenSeq(Scripts(a))) = Structure(a)
<1> DEFINE st == [m \in 0 .. 4 |-> Structure(IF m <= a THEN m ELSE a)]
           ss == Scripts(a)
<1>1. ss \in Seq(Seq(UpStatements)) /\ Len(ss) = 4
  <2>1. \A m \in Migration : ss[m] \in Seq(UpStatements)
    BY UpPlans, EmptySeq DEF Scripts
  <2>2. ss = [m \in 1 .. 4 |-> ss[m]]
    BY DEF Scripts, Migration
  <2> HIDE DEF ss
  <2> QED
    BY <2>1, <2>2 DEF Migration
<1>2. \A m \in Migration : ss[m] = IF m \in 1 .. a /\ m # Seeded THEN Up[m] ELSE <<>>
  BY DEF Scripts
<1> HIDE DEF ss
<1>3. ASSUME NEW m \in 1 .. 4 PROVE Leads(st[m - 1], ss[m], st[m])
  <2>1. m \in Migration /\ m - 1 \in 0 .. 4 /\ m \in 0 .. 4
    BY DEF Migration
  <2>2. st[m - 1] = Structure(IF m - 1 <= a THEN m - 1 ELSE a)
    BY <2>1
  <2>3. st[m] = Structure(IF m <= a THEN m ELSE a)
    BY <2>1
  <2> HIDE DEF st
  <2>4. CASE ~ (m <= a)
    <3>1. m - 1 <= a => m - 1 = a
      BY <2>4
    <3>2. st[m - 1] = Structure(a) /\ st[m] = Structure(a)
      BY <2>2, <2>3, <2>4, <3>1
    <3>3. ss[m] = <<>>
      BY <1>2, <2>1, <2>4
    <3> QED
      BY <3>2, <3>3, LeadsNowhere, Zenon
  <2>5. CASE m <= a
    <3>1. m - 1 <= a /\ m \in 1 .. a
      BY <2>5
    <3>2. st[m - 1] = Structure(m - 1) /\ st[m] = Structure(m)
      BY <2>2, <2>3, <2>5, <3>1
    <3>3. CASE m # Seeded
      <4>1. ss[m] = Up[m]
        BY <1>2, <2>1, <3>1, <3>3
      <4>2. Leads(Structure(m - 1), Up[m], Structure(m))
        BY <2>1, <3>3, StructureNext
      <4> QED
        BY <3>2, <4>1, <4>2, Zenon
    <3>4. CASE m = Seeded
      <4>1. ss[m] = <<>>
        BY <1>2, <2>1, <3>4
      <4>2. Structure(m - 1) = Structure(m)
        BY <3>4 DEF Seeded, Structure
      <4> QED
        BY <3>2, <4>1, <4>2, LeadsNowhere, Zenon
    <3> QED
      BY <3>3, <3>4
  <2> QED
    BY <2>4, <2>5
<1>4. st[0] = {} /\ st[4] = Structure(a)
  <2>1. st[0] = Structure(0) /\ st[4] = Structure(a)
    <3>1. st[0] = Structure(IF 0 <= a THEN 0 ELSE a) /\ st[4] = Structure(IF 4 <= a THEN 4 ELSE a)
      OBVIOUS
    <3>2. 0 <= a /\ (4 <= a => a = 4)
      OBVIOUS
    <3> HIDE DEF st
    <3> QED
      BY <3>1, <3>2
  <2>2. Structure(0) = {}
    BY DEF Structure, Db
  <2> HIDE DEF st
  <2> QED
    BY <2>1, <2>2
<1> HIDE DEF st
<1>5. Stages(ss, st)
  BY <1>1, <1>3 DEF Stages
<1>6. Leads(st[0], FlattenSeq(ss), st[Len(ss)])
  BY <1>1, <1>5, LeadsFlat
<1>7. Leads({}, FlattenSeq(ss), Structure(a))
  BY <1>1, <1>4, <1>6, Zenon
<1>8. FlattenSeq(ss) \in Seq(UpStatements)
  BY <1>1, FlattenElements
<1>9. FoldLeft(Result, {}, FlattenSeq(ss)) = Structure(a)
  BY <1>7, <1>8, FoldLeads
<1> QED
  BY <1>9 DEF ss

LEMMA AppliedParts ==
  ASSUME NEW a \in 0 .. 4
  PROVE  /\ AsApplied(a) = Structure(a) \cup Dones(a) \cup (IF a >= 3 THEN SeedRows ELSE {})
         /\ Preset \notin AsApplied(a)
<1>1. \A T, F, X, Y : Db(T, F, X \cup Y) = Db(T, F, X) \cup Y
  BY DEF Db
<1>2. \A T, F, X, Y, Z : Db(T, F, X \cup Y \cup Z) = Db(T, F, Y) \cup Z \cup X
  BY DEF Db
<1>3. AsApplied(a) = Structure(a) \cup Dones(a) \cup (IF a >= 3 THEN SeedRows ELSE {})
  <2>1. CASE a = 0
    BY <2>1, AsAppliedItems, DonesGrow DEF Structure
  <2>2. CASE a = 1
    BY <1>1, <2>2, AsAppliedItems DEF Structure
  <2>3. CASE a = 2
    <3>1. Filled({} \cup Dones(2)) = Filled({}) \cup Dones(2) /\ {} \cup Dones(2) = Dones(2)
      BY <1>1 DEF Filled
    <3>2. Structure(2) = Filled({}) /\ ~ (2 >= 3)
      BY DEF Structure
    <3> QED
      BY <2>3, <3>1, <3>2, AsAppliedItems
  <2>4. CASE a = 3
    <3>1. Filled(SeedRows \cup {} \cup Dones(3)) = Filled({}) \cup Dones(3) \cup SeedRows
          /\ SeedRows \cup {} \cup Dones(3) = SeedRows \cup Dones(3)
      BY <1>2 DEF Filled
    <3>2. Structure(3) = Filled({}) /\ 3 >= 3
      BY DEF Structure
    <3> QED
      BY <2>4, <3>1, <3>2, AsAppliedItems
  <2>5. CASE a = 4
    <3>1. Filled((SeedRows \cup Indexes) \cup Dones(4)) = Filled(Indexes) \cup Dones(4) \cup SeedRows
      BY <1>2 DEF Filled
    <3>2. Structure(4) = Filled(Indexes) /\ 4 >= 3
      BY DEF Structure
    <3> QED
      BY <2>5, <3>1, <3>2, AsAppliedItems
  <2> QED
    BY <2>1, <2>2, <2>3, <2>4, <2>5
<1>4. Preset \notin AsApplied(a)
  <2>1. Preset[2] = "default" /\ Preset \notin Status
    BY LeftItems DEF Preset, Default
  <2>2. Preset \notin Indexes /\ Preset \notin SeedRows /\ Preset \notin Dones(a)
    BY <2>1, LeftItems
  <2>3. \A T, F, E : Preset \notin E => Preset \notin Db(T, F, E)
    BY <2>1 DEF Db, Table, Fk
  <2>4. Preset \notin Structure(a)
    BY <2>1, <2>2, <2>3 DEF Structure, Filled
  <2> QED
    BY <1>3, <2>2, <2>4
<1> QED
  BY <1>3, <1>4

LEMMA ScriptsProduce ==
  ASSUME NEW a \in 0 .. 4, Applied = 1 .. a
  PROVE  ByTheScripts = AsApplied(a)
<1> DEFINE ups == FlattenSeq([m \in Migration |-> IF m \in Applied /\ m # Seeded THEN Up[m] ELSE <<>>])
           seeds == {Row(t, "seed") : t \in {"user", "venue", "event_host"}}
                    \cup {Row("event", e) : e \in DOMAIN EventSeeds}
                    \cup UNION {{Row("ticket", <<e, sec, seat>>) : seat \in 1 .. EventSeeds[e][sec]} :
                                  e \in DOMAIN EventSeeds, sec \in 1 .. 3}
<1>1. ByTheScripts = FoldLeft(Result, {}, ups) \cup {Done(m) : m \in Applied}
                     \cup (IF Seeded \in Applied THEN seeds ELSE {})
  BY DEF ByTheScripts
<1>2. ups = FlattenSeq(Scripts(a))
  BY DEF Scripts
<1>3. seeds = SeedRows
  <2> DEFINE rows(e, sec) == {Row("ticket", <<e, sec, seat>>) : seat \in 1 .. EventSeeds[e][sec]}
             tickets == UNION {rows(e, sec) : e \in DOMAIN EventSeeds, sec \in 1 .. 3}
  <2>1. seeds = Parents \cup {Row("event", e) : e \in DOMAIN EventSeeds} \cup tickets
    BY DEF Parents
  <2>2. \A e : Seats(e) = UNION {rows(e, sec) : sec \in 1 .. 3}
    <3> TAKE e
    <3> DEFINE ids(sec) == {<<e, sec, seat>> : seat \in 1 .. EventSeeds[e][sec]}
    <3>1. \A sec : rows(e, sec) = {Row("ticket", id) : id \in ids(sec)}
      OBVIOUS
    <3>2. SeatIds(e) = UNION {ids(sec) : sec \in 1 .. 3}
      BY DEF SeatIds
    <3> HIDE DEF rows, ids
    <3> QED
      BY <3>1, <3>2 DEF Seats
  <2> HIDE DEF rows
  <2>3. tickets = UNION {Seats(e) : e \in DOMAIN EventSeeds}
    BY <2>2
  <2> HIDE DEF tickets, seeds
  <2> QED
    BY <2>1, <2>3 DEF SeedRows
<1>4. FoldLeft(Result, {}, ups) = Structure(a)
  BY <1>2, StructureFolds
<1>5. {Done(m) : m \in Applied} = Dones(a) /\ (Seeded \in Applied <=> a >= 3)
  BY DEF Dones, Seeded
<1> HIDE DEF ups, seeds
<1>6. ByTheScripts = Structure(a) \cup Dones(a) \cup (IF a >= 3 THEN SeedRows ELSE {})
  BY <1>1, <1>3, <1>4, <1>5
<1> QED
  BY <1>6, AppliedParts

\* The database is always what the migrations listed as applied describe, sales
\* and one default apart: no interruption, failure, revert or run on top of a
\* revert leaves half a migration behind, and every seat of every event of the
\* seed is there once, for every catalog and every size of the chunks it is saved
\* in.
THEOREM DbIsAppliedAlways == Spec => []DbIsApplied
<1>1. ScriptInv => DbIsApplied
  <2> SUFFICES ASSUME ScriptInv PROVE DbIsApplied
    OBVIOUS
  <2>1. PICK a \in 0 .. 4 : AsLeft(Unsold(db), a)
    BY DEF ScriptInv
  <2>2. Applied = 1 .. a
    BY <2>1, LeftApplied
  <2>3. ByTheScripts = AsApplied(a)
    BY <2>2, ScriptsProduce
  <2>4. Unsold(db) \ {Preset} = AsApplied(a)
    BY <2>1, AppliedParts DEF AsLeft
  <2> QED
    BY <2>3, <2>4 DEF DbIsApplied, Unsold, Preset
<1> QED
  BY <1>1, ScriptAlways, PTL
=============================================================================
