----------------------------- MODULE Migrations -----------------------------
(***************************************************************************)
(* The four migrations of the backend, run and reverted by TypeORM while   *)
(* an instance of the service goes on selling. The database is a set of    *)
(* items: tables, the columns and constraints that migrations differ in,   *)
(* indexes, rows. TypeORM runs all pending migrations, or reverts the last *)
(* one, in one transaction, statement by statement.                        *)
(***************************************************************************)
EXTENDS Integers, SequencesExt

CONSTANTS
  EventSeeds,  \* per event its tickets in the sections VIP, Front Row, GA
  ChunkSize,   \* tickets saved with one statement
  Sales,       \* orders of one ticket each, each tried at most once
  None         \* no transaction of TypeORM

ASSUME SeedsAssumption == EventSeeds \in Seq([1 .. 3 -> Nat])
ASSUME ChunkSizeAssumption == ChunkSize \in Nat \ {0}

VARIABLES
  db,     \* committed items
  run,    \* TypeORM's transaction: its statements, those done, its changes; or None
  sale    \* per sale: where its confirm stands

vars == <<db, run, sale>>

Table(t) == <<t, "table">>
Column(t, c) == <<t, "column", c>>
Default(t, c) == <<t, "default", c>>
Check(t, c) == <<t, "check", c>>
Fk(t, r) == <<t, "fk", r>>
Index(t, c) == <<t, "index", c>>
Row(t, id) == <<t, "row", id>>
Done(m) == Row("typeorm_migrations", m)

RowsOf(t, S) == {i \in S : i[1] = t /\ i[2] = "row"}
Children(t, S) == {i[1] : i \in {j \in S : j[2] = "fk" /\ j[3] = t}}

-----------------------------------------------------------------------------
(* Statements: the items they need, add and drop, the tables they drop and *)
(* those they empty, and the tables they lock against everyone (alone) or  *)
(* against writers (still).                                                *)

Sql == [needs |-> {}, adds |-> {}, dels |-> {}, wipes |-> {}, clears |-> {},
        alone |-> {}, still |-> {}]

CreateTable(t, refs, extras) ==
  [Sql EXCEPT !.needs = {Table(r) : r \in refs}, !.still = refs,
              !.adds = {Table(t)} \cup {Fk(t, r) : r \in refs} \cup extras]
DropTable(t, refs) == [Sql EXCEPT !.needs = {Table(t)}, !.wipes = {t}, !.alone = {t} \cup refs]
AddFk(t, r) == [Sql EXCEPT !.needs = {Table(t), Table(r)}, !.adds = {Fk(t, r)}, !.still = {t, r}]
DropFk(t, r) == [Sql EXCEPT !.needs = {Fk(t, r)}, !.dels = {Fk(t, r)}, !.alone = {t, r}]
Add(t, items) == [Sql EXCEPT !.needs = {Table(t)}, !.adds = items, !.alone = {t}]
DropIfExists(t, items) == [Sql EXCEPT !.needs = {Table(t)}, !.dels = items, !.alone = {t}]
CreateIndex(t, c) == [Sql EXCEPT !.needs = {Table(t)}, !.adds = {Index(t, c)}, !.still = {t}]
DropIndex(t, c) == [Sql EXCEPT !.needs = {Index(t, c)}, !.dels = {Index(t, c)}, !.alone = {t}]
Save(t, ids) == [Sql EXCEPT !.needs = {Table(t)}, !.adds = {Row(t, id) : id \in ids}]
DeleteFrom(t) == [Sql EXCEPT !.needs = {Table(t)}, !.clears = {t}]

Gone(S, s) == s.dels \cup {i \in S : i[1] \in s.wipes} \cup UNION {RowsOf(t, S) : t \in s.clears}
Result(S, s) == (S \ Gone(S, s)) \cup s.adds

\* The statement succeeds on items S: what it needs is there, what it adds is
\* not, no constraint refers to a table it drops, no row to one it deletes, and
\* a row it adds finds its parents (all foreign keys are NOT NULL).
Works(s, S) ==
  /\ s.needs \subseteq S
  /\ s.adds \cap S = {}
  /\ \A t \in s.wipes : Children(t, S) \subseteq {t}
  /\ \A t \in s.clears : \A c \in Children(t, S) : RowsOf(c, S) = {}
  /\ \A i \in s.adds : i[2] = "row" =>
       \A j \in S : j[1] = i[1] /\ j[2] = "fk" => RowsOf(j[3], S) # {}

-----------------------------------------------------------------------------
(* The migrations                                                          *)

SchemaUp ==
  << CreateTable("event_host", {}, {}), CreateTable("venue", {}, {}),
     CreateTable("event", {}, {}), CreateTable("ticket", {}, {}),
     CreateTable("user", {}, {}),
     CreateTable("booking", {}, {Column("booking", "payment_status"),
                                 Check("booking", "payment_status")}),
     AddFk("event", "event_host"), AddFk("event", "venue"), AddFk("ticket", "event"),
     AddFk("booking", "user"), AddFk("booking", "ticket") >>

SchemaDown ==
  << DropFk("booking", "ticket"), DropFk("booking", "user"), DropFk("ticket", "event"),
     DropFk("event", "venue"), DropFk("event", "event_host"),
     DropTable("booking", {}), DropTable("user", {}), DropTable("ticket", {}),
     DropTable("event", {}), DropTable("venue", {}), DropTable("event_host", {}) >>

\* Mutant: the constraint of payment_record is forgotten.
PaymentUpWithoutFk ==
  << DropIfExists("booking", {Check("booking", "payment_status")}),
     DropIfExists("booking", {Column("booking", "payment_status"),
                              Default("booking", "payment_status")}),
     CreateTable("payment_record", {}, {}) >>

\* A column is dropped with its default.
PaymentUp ==
  << DropIfExists("booking", {Check("booking", "payment_status")}),
     DropIfExists("booking", {Column("booking", "payment_status"),
                              Default("booking", "payment_status")}),
     CreateTable("payment_record", {"booking"}, {}) >>

PaymentDown ==
  << DropTable("payment_record", {"booking"}),
     Add("booking", {Column("booking", "payment_status"), Default("booking", "payment_status")}),
     Add("booking", {Check("booking", "payment_status")}) >>

\* Section by section, seat by seat.
BuildTickets(e) ==
  FlattenSeq([sec \in 1 .. 3 |-> [seat \in 1 .. EventSeeds[e][sec] |-> <<e, sec, seat>>]])

\* slice(i, i + chunkSize), as long as i is less than the length.
Chunks(q) ==
  [k \in 1 .. (Len(q) + ChunkSize - 1) \div ChunkSize |->
     SubSeq(q, (k - 1) * ChunkSize + 1, IF k * ChunkSize < Len(q) THEN k * ChunkSize ELSE Len(q))]

SeedEvent(e) ==
  << Save("event", {e}) >>
  \o [k \in DOMAIN Chunks(BuildTickets(e)) |-> Save("ticket", ToSet(Chunks(BuildTickets(e))[k]))]

SeedUp ==
  << Save("user", {"seed"}), Save("venue", {"seed"}), Save("event_host", {"seed"}) >>
  \o FlattenSeq([e \in DOMAIN EventSeeds |-> SeedEvent(e)])

\* Mutant: parents before their children.
SeedDownParentsFirst ==
  << DeleteFrom("payment_record"), DeleteFrom("booking"), DeleteFrom("event"),
     DeleteFrom("ticket"), DeleteFrom("event_host"), DeleteFrom("venue"), DeleteFrom("user") >>

SeedDown ==
  << DeleteFrom("payment_record"), DeleteFrom("booking"), DeleteFrom("ticket"),
     DeleteFrom("event"), DeleteFrom("event_host"), DeleteFrom("venue"), DeleteFrom("user") >>

\* Mutant: the indexes of payment_record first.
IndexesUpReversed ==
  << CreateIndex("payment_record", "booking_id"), CreateIndex("payment_record", "user_id"),
     CreateIndex("booking", "user_id"), CreateIndex("ticket", "event_id") >>

IndexesUp ==
  << CreateIndex("ticket", "event_id"), CreateIndex("booking", "user_id"),
     CreateIndex("payment_record", "user_id"), CreateIndex("payment_record", "booking_id") >>

IndexesDown ==
  << DropIndex("payment_record", "booking_id"), DropIndex("payment_record", "user_id"),
     DropIndex("booking", "user_id"), DropIndex("ticket", "event_id") >>

\* In the order of their timestamps; both directories are read.
Up == << SchemaUp, PaymentUp, SeedUp, IndexesUp >>
Down == << SchemaDown, PaymentDown, SeedDown, IndexesDown >>
Migration == 1 .. 4
Seeded == 3
Indexed == 4

-----------------------------------------------------------------------------
(* TypeORM                                                                 *)

Applied == {m \in Migration : Done(m) \in db}
Latest == CHOOSE m \in Applied : \A n \in Applied : n <= m

\* What the transaction sees: each of its statements reads what is committed by
\* then, and its own changes.
View == (db \ run.dels) \cup run.adds
Statement == run.plan[run.done + 1]
Unfinished == run # None /\ run.done < Len(run.plan)

Init == /\ db = {}
        /\ run = None
        /\ sale = [s \in Sales |-> "idle"]

Begin(plan) ==
  /\ run = None
  /\ run' = [plan |-> plan, done |-> 0, adds |-> {}, dels |-> {}]
  /\ UNCHANGED <<db, sale>>

\* migration:run, at the start of a container or of a test suite.
Run ==
  LET pending == [m \in Migration |->
                    IF m \in Applied THEN <<>>
                    ELSE Append(Up[m], [Sql EXCEPT !.adds = {Done(m)}])]
  IN  Applied # Migration /\ Begin(FlattenSeq(pending))

\* migration:revert, and twice after a test suite.
Revert ==
  /\ Applied # {}
  /\ Begin(Append(Down[Latest], [Sql EXCEPT !.dels = {Done(Latest)}]))

Selling == {s \in Sales : sale[s] \in {"inserted", "charged", "recorded"}}
Recorded == {s \in Sales : sale[s] = "recorded"}

\* A sale has written booking, and payment_record in the end, and has locked its
\* user and ticket rows, in whose tables nothing may be dropped.
Writing == (IF Selling # {} THEN {"booking"} ELSE {})
           \cup (IF Recorded # {} THEN {"payment_record"} ELSE {})
Reading == IF Selling # {} THEN {"ticket", "user"} ELSE {}

\* The statement waits for a sale to end.
Waits(s) == \/ s.alone \cap (Writing \cup Reading) # {}
            \/ s.still \cap Writing # {}
            \/ s.clears \cap Reading # {}

\* Mutant: each statement for itself, transaction: "none".
StepAutocommit ==
  /\ Unfinished /\ ~ Waits(Statement)
  /\ Works(Statement, View)
  /\ run' = [run EXCEPT !.done = @ + 1]
  /\ db' = Result(View, Statement)
  /\ UNCHANGED sale

Step ==
  /\ Unfinished /\ ~ Waits(Statement)
  /\ Works(Statement, View)
  /\ run' = [run EXCEPT !.done = @ + 1,
                        !.adds = (@ \ Gone(View, Statement)) \cup Statement.adds,
                        !.dels = (@ \cup Gone(View, Statement)) \ Statement.adds]
  /\ UNCHANGED <<db, sale>>

Rollback == run' = None /\ UNCHANGED <<db, sale>>

Fail == Unfinished /\ ~ Waits(Statement) /\ ~ Works(Statement, View) /\ Rollback

Commit == /\ run # None /\ run.done = Len(run.plan)
          /\ db' = View
          /\ run' = None
          /\ UNCHANGED sale

\* The container is stopped, the command interrupted.
Interrupt == run # None /\ Rollback

-----------------------------------------------------------------------------
(* A sale: confirmBooking's statements in its transaction                  *)

\* Tables TypeORM's transaction keeps locked.
Locked(kind) ==
  IF run = None THEN {} ELSE UNION {run.plan[i][kind] : i \in 1 .. run.done}

Deleted == IF run = None THEN {} ELSE run.dels

To(s, state) == sale' = [sale EXCEPT ![s] = state]

\* The tickets are read and the bookings inserted, which locks the ticket and the
\* user; the insert waits for a deletion of them to be committed or undone.
SaleInsert(s) ==
  /\ sale[s] = "idle"
  /\ {"booking", "ticket", "user"} \cap Locked("alone") = {}
  /\ "booking" \notin Locked("still")
  /\ \/ RowsOf("ticket", db) = {} /\ To(s, "refused")
     \/ /\ RowsOf("ticket", db) # {}
        /\ (RowsOf("ticket", db) \cup RowsOf("user", db)) \cap Deleted = {}
        /\ To(s, "inserted")
  /\ UNCHANGED <<db, run>>

SaleCharge(s) == /\ sale[s] = "inserted"
                 /\ To(s, "charged") \/ To(s, "refused")
                 /\ UNCHANGED <<db, run>>

PaymentLocked == "payment_record" \in Locked("alone") \cup Locked("still")

SaleRecord(s) ==
  /\ sale[s] = "charged"
  /\ ~ PaymentLocked
  /\ IF Table("payment_record") \in db THEN To(s, "recorded") ELSE To(s, "lost")
  /\ UNCHANGED <<db, run>>

SaleCommit(s) == /\ sale[s] = "recorded"
                 /\ db' = db \cup {Row("booking", s), Row("payment_record", s)}
                 /\ To(s, "booked")
                 /\ UNCHANGED run

\* Mutant: nobody is chosen.
DeadlockUnresolved(s) == FALSE /\ UNCHANGED vars

\* The sale waits for payment_record and TypeORM for the sale: Postgres fails the
\* one or the other.
Deadlock(s) == /\ sale[s] = "charged" /\ PaymentLocked
               /\ Unfinished /\ Waits(Statement)
               /\ \/ To(s, "lost") /\ UNCHANGED <<db, run>>
                  \/ Rollback

SaleStep(s) == SaleCharge(s) \/ SaleRecord(s) \/ SaleCommit(s)

Next == \/ Run \/ Revert \/ Step \/ Fail \/ Commit \/ Interrupt
        \/ \E s \in Sales : SaleInsert(s) \/ SaleStep(s) \/ Deadlock(s)

\* Statements return. One that waits for a lock is next when it is released: a
\* sale is not overtaken by one revert after another.
Fairness == /\ WF_vars(Step \/ Fail \/ Commit)
            /\ \A s \in Sales : SF_vars(SaleStep(s)) /\ WF_vars(Deadlock(s))

Spec == Init /\ [][Next]_vars /\ Fairness

-----------------------------------------------------------------------------
Sold(t) == {i[3] : i \in RowsOf(t, db)}
SaleRows == {Row(t, s) : t \in {"booking", "payment_record"}, s \in Sales}

\* What the scripts of the applied migrations produce on an empty database, the
\* tickets of an event being every seat of its three sections.
ByTheScripts ==
  LET ups == FlattenSeq([m \in Migration |-> IF m \in Applied /\ m # Seeded THEN Up[m] ELSE <<>>])
      seeds == {Row(t, "seed") : t \in {"user", "venue", "event_host"}}
               \cup {Row("event", e) : e \in DOMAIN EventSeeds}
               \cup UNION {{Row("ticket", <<e, sec, seat>>) : seat \in 1 .. EventSeeds[e][sec]} :
                             e \in DOMAIN EventSeeds, sec \in 1 .. 3}
  IN  FoldLeft(Result, {}, ups) \cup {Done(m) : m \in Applied}
      \cup (IF Seeded \in Applied THEN seeds ELSE {})

\* The database is always what the migrations listed as applied describe, sales
\* apart: whatever is interrupted, reverted and run again, no half of a migration
\* stays, and every seat is seeded once. One trace may stay: the default that the
\* down of PaymentRecordSchema gives a column which had none.
DbIsApplied ==
  (db \ SaleRows) \ {Default("booking", "payment_status")} = ByTheScripts

\* A payment has its booking and a booking its ticket, also when the seed is
\* reverted statement by statement while sales commit in between.
NoOrphans == /\ Sold("payment_record") = Sold("booking")
             /\ Sold("booking") # {} => Seeded \in Applied

\* No script stands in its own way: in every state the migrations can have left
\* behind, its next statement works, unless a sale that was committed since the
\* script passed its tables is in the way.
ScriptsWork == Unfinished => Works(Statement, View) \/ View \cap SaleRows # {}

\* A customer is charged and left without a booking by no migration but one: the
\* DROP INDEX statements of PerformanceIndexes, which lock payment_record before
\* booking while a confirm locks booking before payment_record.
LostToIndexesOnly ==
  [][\A s \in Sales : sale[s] # "lost" /\ sale'[s] = "lost" =>
       Latest = Indexed /\ run # None /\ Statement \in ToSet(IndexesDown)]_vars

\* TypeORM and the sales never wait for each other for ever.
AllEnd == /\ run # None ~> run = None
          /\ \A s \in Sales : sale[s] = "charged" ~> sale[s] # "charged"
=============================================================================
