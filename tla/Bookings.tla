------------------------------ MODULE Bookings ------------------------------
(***************************************************************************)
(* Reserving, cancelling and confirming tickets: BookingsService over its  *)
(* three stores - the Redis holds, the Postgres tables booking and         *)
(* payment_record, and the payment processor. The service is stateless, so *)
(* any number of requests on any number of servers interleave at the calls *)
(* the handlers await; one action here is the code between two such calls. *)
(***************************************************************************)
EXTENDS Integers, FiniteSets

CONSTANTS
  Users,       \* rows of the user table
  Ids,         \* ticket ids a request may name
  Tickets,     \* the ids that are rows of the ticket table
  Reservers,   \* slots for concurrent reserve requests; a slot is reused
  Cancellers,  \* slots for concurrent cancel requests; a slot is reused
  Confirms,    \* confirm requests, each made at most once
  MaxToken,    \* bound on the reservation tokens issued in a behaviour
  PoolSize,    \* connections in the Postgres pool
  AnyClient,   \* TRUE: requests carry any user, token and ids;
               \* FALSE: they repeat a reply of the service
  Repeats,     \* the values of dup (below) requests may have
  Faults,      \* TRUE: statements, replies and processes may fail
  None         \* no hold, no request

ASSUME TicketsAssumption == Tickets \subseteq Ids
ASSUME MaxTokenAssumption == MaxToken \in Nat
ASSUME FlagAssumption == /\ AnyClient \in BOOLEAN /\ Faults \in BOOLEAN
                         /\ Repeats \subseteq BOOLEAN
ASSUME NoneAssumption == /\ None \notin [user: Users, token: Nat]
                         /\ None \notin Users
                         /\ None \notin Ids

VARIABLES
  hold,       \* Redis: ticket:reserved:{id} -> value, or None
  lastToken,  \* tokens issued so far; randomUUID never repeats one
  granted,    \* 201 replies of createReservation
  checked,    \* per reserver: the request past its booking count, or None
  doomed,     \* per canceller: the keys it is about to DEL, and its token
  booking,    \* Postgres: committed booking rows
  payment,    \* Postgres: committed payment_record rows
  charges,    \* confirms the processor has charged
  pc,         \* per confirm: where confirmBooking stands
  req,        \* per confirm: its token, user and ids
  owner,      \* per confirm: userId read from the first hold
  at,         \* per confirm: the ticket whose row its INSERT is writing
  rows,       \* per confirm: tickets with an uncommitted booking row
  recs,       \* per confirm: tickets with an uncommitted payment record
  status      \* per confirm: HTTP status its body ended with, 0 before that

redis == <<hold, lastToken>>
reserving == <<granted, checked>>
db == <<booking, payment>>
txn == <<owner, at, rows, recs>>
confirming == <<pc, req, txn, status>>
vars == <<redis, reserving, doomed, db, charges, confirming>>

HoldValue == [user: Users, token: Nat]
Row == [order: Confirms, ticket: Tickets, user: Users]
IdLists == (SUBSET Ids) \ {{}}
Grant == [user: Users, token: Nat, ids: IdLists]

\* dup: the id list of the request names some id twice; no DTO forbids it, neither
\* here nor in the reserve whose reply repeats the list.
Request == [user: Users, token: Nat, ids: IdLists, dup: BOOLEAN]
Busy == {"begun", "inserting", "charging", "recording", "cleanup", "ending"}
PC == {"idle", "queued", "done", "lost"} \cup Busy
Status == {0, 201, 403, 409, 410, 500, 502}

TypeOK ==
  /\ hold \in [Ids -> HoldValue \cup {None}]
  /\ lastToken \in Nat
  /\ granted \subseteq Grant
  /\ checked \in [Reservers -> [user: Users, ids: IdLists] \cup {None}]
  /\ doomed \in [Cancellers -> [token: Nat, keys: IdLists] \cup {None}]
  /\ booking \subseteq Row
  /\ payment \subseteq Row
  /\ charges \subseteq Confirms
  /\ pc \in [Confirms -> PC]
  /\ req \in [Confirms -> Request \cup {None}]
  /\ owner \in [Confirms -> Users \cup {None}]
  /\ at \in [Confirms -> Ids \cup {None}]
  /\ rows \in [Confirms -> SUBSET Ids]
  /\ recs \in [Confirms -> SUBSET Ids]
  /\ status \in [Confirms -> Status]

Init ==
  /\ hold = [k \in Ids |-> None]
  /\ lastToken = 0
  /\ granted = {}
  /\ checked = [r \in Reservers |-> None]
  /\ doomed = [x \in Cancellers |-> None]
  /\ booking = {}
  /\ payment = {}
  /\ charges = {}
  /\ pc = [c \in Confirms |-> "idle"]
  /\ req = [c \in Confirms |-> None]
  /\ owner = [c \in Confirms |-> None]
  /\ at = [c \in Confirms |-> None]
  /\ rows = [c \in Confirms |-> {}]
  /\ recs = [c \in Confirms |-> {}]
  /\ status = [c \in Confirms |-> 0]

-----------------------------------------------------------------------------
(* The stores                                                              *)

Booked == {b.ticket : b \in booking}

\* Redis DEL of a set of keys.
Released(keys) == [k \in Ids |-> IF k \in keys THEN None ELSE hold[k]]

\* Mutant: a conflict is reported only when every key is set.
ConflictsAll(S) == IF \A k \in S : hold[k] # None THEN S ELSE {}

\* The keys of S that setNxMany finds set.
Conflicts(S) == {k \in S : hold[k] # None}

\* Mutant: the token is not compared.
HeldByUserOnly(q, k) == hold[k] # None /\ hold[k].user = q.user

\* The stored value of k carries the token and the user of request q.
HeldBy(q, k) == /\ hold[k] # None
                /\ hold[k].token = q.token
                /\ hold[k].user = q.user

\* A confirm keeps one pooled connection from BEGIN to COMMIT or ROLLBACK.
InTxn == {c \in Confirms : pc[c] \in Busy}
ConnectionFree == Cardinality(InTxn) < PoolSize

\* Mutant: no UNIQUE constraint.
UniqueFreeAlways(c, t) == TRUE

\* Mutant: the constraint is deferred, or checked by a query of committed rows.
UniqueFreeCommitted(c, t) == t \notin Booked

\* booking_ticket_id_uq admits a row of c for t: none is committed, and no
\* other open transaction has written one (Postgres waits for that one's end).
UniqueFree(c, t) == /\ t \notin Booked
                    /\ \A d \in Confirms \ {c} : t \notin rows[d]

WaitsFor(c, d) == c # d /\ pc[c] = "inserting" /\ at[c] \in rows[d]

\* c is on a cycle of waits, which Postgres breaks by failing a member.
Deadlocked(c) ==
  \E D \in SUBSET Confirms :
    /\ c \in D
    /\ \A d \in D : /\ \E e \in D : WaitsFor(d, e)
                    /\ \E e \in D : WaitsFor(e, d)

\* Mutant: SET without EX.
ExpireNever == FALSE /\ UNCHANGED vars

\* SET ... EX with one TTL for all: the keys of a reservation expire together,
\* and reservations expire in the order of their SETs.
Expire ==
  \E k \in Ids :
    /\ hold[k] # None
    /\ \A j \in Conflicts(Ids) : hold[k].token <= hold[j].token
    /\ hold' = Released({j \in Conflicts(Ids) : hold[j].token = hold[k].token})
    /\ UNCHANGED <<lastToken, reserving, doomed, db, charges, confirming>>

-----------------------------------------------------------------------------
(* createReservation                                                       *)

\* The count of committed bookings: refused with 409 when it is not zero.
ReserveCheck(r) ==
  /\ checked[r] = None
  /\ ConnectionFree
  /\ \E u \in Users, S \in IdLists :
       checked' = [checked EXCEPT ![r] =
                     IF S \cap Booked = {} THEN [user |-> u, ids |-> S] ELSE None]
  /\ UNCHANGED <<redis, granted, doomed, db, charges, confirming>>

\* setNxMany finds no key: all are set under a fresh token (Lua, atomic).
ReserveFresh(r) ==
  /\ checked[r] # None
  /\ Conflicts(checked[r].ids) = {}
  /\ lastToken < MaxToken
  /\ lastToken' = lastToken + 1
  /\ hold' = [k \in Ids |->
                IF k \in checked[r].ids
                THEN [user |-> checked[r].user, token |-> lastToken + 1]
                ELSE hold[k]]
  /\ granted' = granted \cup {[user  |-> checked[r].user,
                               token |-> lastToken + 1,
                               ids   |-> checked[r].ids]}
  /\ checked' = [checked EXCEPT ![r] = None]
  /\ UNCHANGED <<doomed, db, charges, confirming>>

\* Mutant: conflicts.some for conflicts.every.
SomeOwnedBy(u, S) == \E k \in Conflicts(S) : hold[k].user = u

\* allOwnedByUser: every conflict among the keys of S is u's.
AllOwnedBy(u, S) == \A k \in Conflicts(S) : hold[k].user = u

\* Every conflict is the caller's own: the first one's token is returned, with
\* the ids of the request.
ReserveAgain(r) ==
  /\ checked[r] # None
  /\ AllOwnedBy(checked[r].user, checked[r].ids)
  /\ \E k \in Conflicts(checked[r].ids) :
       granted' = granted \cup {[user  |-> checked[r].user,
                                 token |-> hold[k].token,
                                 ids   |-> checked[r].ids]}
  /\ checked' = [checked EXCEPT ![r] = None]
  /\ UNCHANGED <<redis, doomed, db, charges, confirming>>

\* Somebody else holds one of them: 409.
ReserveConflict(r) ==
  /\ checked[r] # None
  /\ ~ AllOwnedBy(checked[r].user, checked[r].ids)
  /\ checked' = [checked EXCEPT ![r] = None]
  /\ UNCHANGED <<redis, granted, doomed, db, charges, confirming>>

-----------------------------------------------------------------------------
(* What a client sends to cancel or confirm                                *)

Requests ==
  IF AnyClient
  THEN [user: Users, token: 0 .. lastToken, ids: IdLists, dup: Repeats]
  ELSE {[user |-> g.user, token |-> g.token, ids |-> g.ids, dup |-> d] :
          g \in granted, d \in Repeats}

-----------------------------------------------------------------------------
(* cancelReservation                                                       *)

\* MGET and the filter of the caller's own keys; 204 at once when none is left.
CancelRead(x) ==
  /\ doomed[x] = None
  /\ \E q \in Requests :
       LET keys == {k \in q.ids : HeldBy(q, k)}
       IN  doomed' = [doomed EXCEPT ![x] =
                        IF keys = {} THEN None
                        ELSE [token |-> q.token, keys |-> keys]]
  /\ UNCHANGED <<redis, reserving, db, charges, confirming>>

\* The DEL, a second round trip.
CancelDelete(x) ==
  /\ doomed[x] # None
  /\ hold' = Released(doomed[x].keys)
  /\ doomed' = [doomed EXCEPT ![x] = None]
  /\ UNCHANGED <<lastToken, reserving, db, charges, confirming>>

-----------------------------------------------------------------------------
(* confirmBooking, inside @Transactional()                                 *)

ConfirmArrive(c) ==
  /\ pc[c] = "idle"
  /\ pc' = [pc EXCEPT ![c] = "queued"]
  /\ \E q \in Requests : req' = [req EXCEPT ![c] = q]
  /\ UNCHANGED <<redis, reserving, doomed, db, charges, txn, status>>

\* BEGIN, on a connection of the pool.
ConfirmBegin(c) ==
  /\ pc[c] = "queued"
  /\ ConnectionFree
  /\ pc' = [pc EXCEPT ![c] = "begun"]
  /\ UNCHANGED <<redis, reserving, doomed, db, charges, req, txn, status>>

\* Thrown before the try block: straight to ROLLBACK, the hold is not touched.
Refuse(c, code) ==
  /\ pc' = [pc EXCEPT ![c] = "ending"]
  /\ status' = [status EXCEPT ![c] = code]
  /\ UNCHANGED <<redis, reserving, doomed, db, charges, req, txn>>

\* MGET answers null for some key.
ConfirmGone(c) == /\ pc[c] = "begun"
                  /\ \E k \in req[c].ids : hold[k] = None
                  /\ Refuse(c, 410)

\* All keys are held, one of them not under this token and user.
ConfirmForbidden(c) == /\ pc[c] = "begun"
                       /\ \A k \in req[c].ids : hold[k] # None
                       /\ \E k \in req[c].ids : ~ HeldBy(req[c], k)
                       /\ Refuse(c, 403)

\* SELECT ... IN (ids) returns one row per known ticket: fewer than the list is
\* long when an id is unknown or repeated.
AllCounted(q) == q.ids \subseteq Tickets /\ ~ q.dup

ConfirmMiscounted(c) == /\ pc[c] = "begun"
                        /\ \A k \in req[c].ids : HeldBy(req[c], k)
                        /\ ~ AllCounted(req[c])
                        /\ Refuse(c, 409)

\* The holds are this user's: the rows to insert are known. Their order is that
\* of an unordered SELECT, so the first one is any of them.
ConfirmValid(c) ==
  /\ pc[c] = "begun"
  /\ \A k \in req[c].ids : HeldBy(req[c], k)
  /\ AllCounted(req[c])
  /\ \E k \in req[c].ids : owner' = [owner EXCEPT ![c] = hold[k].user]
  /\ \E t \in req[c].ids : at' = [at EXCEPT ![c] = t]
  /\ pc' = [pc EXCEPT ![c] = "inserting"]
  /\ UNCHANGED <<redis, reserving, doomed, db, charges, req, rows, recs, status>>

\* One row of the INSERT; it waits while UniqueFree fails on an open transaction.
ConfirmInsert(c) ==
  LET rest == req[c].ids \ (rows[c] \cup {at[c]})
  IN  /\ pc[c] = "inserting"
      /\ UniqueFree(c, at[c])
      /\ rows' = [rows EXCEPT ![c] = @ \cup {at[c]}]
      /\ \/ \E t \in rest : at' = [at EXCEPT ![c] = t] /\ UNCHANGED pc
         \/ /\ rest = {}
            /\ at' = [at EXCEPT ![c] = None]
            /\ pc' = [pc EXCEPT ![c] = "charging"]
      /\ UNCHANGED <<redis, reserving, doomed, db, charges, req, owner, recs, status>>

\* A failed statement aborts the transaction: its rows are gone and its waiters
\* go on, while the handler still has its finally block to run.
Abort(c, code) ==
  /\ rows' = [rows EXCEPT ![c] = {}]
  /\ recs' = [recs EXCEPT ![c] = {}]
  /\ at' = [at EXCEPT ![c] = None]
  /\ status' = [status EXCEPT ![c] = code]
  /\ pc' = [pc EXCEPT ![c] = "cleanup"]
  /\ UNCHANGED <<redis, reserving, doomed, db, charges, req, owner>>

\* Mutant: INSERT ... ON CONFLICT DO NOTHING.
ConfirmDuplicateIgnored(c) ==
  /\ pc[c] = "inserting"
  /\ at[c] \in Booked
  /\ at' = [at EXCEPT ![c] = None]
  /\ pc' = [pc EXCEPT ![c] = "charging"]
  /\ UNCHANGED <<redis, reserving, doomed, db, charges, req, owner, rows, recs, status>>

\* 23505 against a committed row, translated to 409 by saveBookings.
ConfirmDuplicate(c) == /\ pc[c] = "inserting"
                       /\ at[c] \in Booked
                       /\ Abort(c, 409)

\* Mutant: the victim tries the same statement again, its rows still locked.
ConfirmDeadlockRetried(c) == pc[c] = "inserting" /\ Deadlocked(c) /\ UNCHANGED vars

\* 40P01 is no unique violation, so saveBookings rethrows it: 500.
ConfirmDeadlock(c) == /\ pc[c] = "inserting"
                      /\ Deadlocked(c)
                      /\ Abort(c, 500)

\* stripePaymentRequest returns: the money is taken.
ChargeOk(c) ==
  /\ pc[c] = "charging"
  /\ charges' = charges \cup {c}
  /\ pc' = [pc EXCEPT ![c] = "recording"]
  /\ UNCHANGED <<redis, reserving, doomed, db, req, txn, status>>

\* stripePaymentRequest throws 502; the transaction stays open, rows and all.
ChargeDeclined(c) ==
  /\ pc[c] = "charging"
  /\ status' = [status EXCEPT ![c] = 502]
  /\ pc' = [pc EXCEPT ![c] = "cleanup"]
  /\ UNCHANGED <<redis, reserving, doomed, db, charges, req, txn>>

\* Mutant: the record violates a constraint, say a unique transaction_id.
ConfirmRecordRejected(c) == pc[c] = "recording" /\ Abort(c, 409)

\* Mutant: the records are saved outside the transaction.
ConfirmRecordAutocommit(c) ==
  /\ pc[c] = "recording"
  /\ payment' = payment \cup {[order |-> c, ticket |-> t, user |-> owner[c]] : t \in rows[c]}
  /\ status' = [status EXCEPT ![c] = 201]
  /\ pc' = [pc EXCEPT ![c] = "cleanup"]
  /\ UNCHANGED <<redis, reserving, doomed, booking, charges, req, txn>>

\* One payment_record per booking row, in the same transaction.
ConfirmRecord(c) ==
  /\ pc[c] = "recording"
  /\ recs' = [recs EXCEPT ![c] = rows[c]]
  /\ status' = [status EXCEPT ![c] = 201]
  /\ pc' = [pc EXCEPT ![c] = "cleanup"]
  /\ UNCHANGED <<redis, reserving, doomed, db, charges, req, owner, at, rows>>

\* Mutant: DEL at the end of the try block, not in finally.
ConfirmCleanupOnSuccess(c) ==
  /\ pc[c] = "cleanup"
  /\ hold' = IF status[c] = 201 THEN Released(req[c].ids) ELSE hold
  /\ pc' = [pc EXCEPT ![c] = "ending"]
  /\ UNCHANGED <<lastToken, reserving, doomed, db, charges, req, txn, status>>

\* finally: DEL of the request's keys, whoever holds them by now.
ConfirmCleanup(c) ==
  /\ pc[c] = "cleanup"
  /\ hold' = Released(req[c].ids)
  /\ pc' = [pc EXCEPT ![c] = "ending"]
  /\ UNCHANGED <<lastToken, reserving, doomed, db, charges, req, txn, status>>

\* The transaction is over: the connection goes back to the pool.
Finish(c, code) ==
  /\ rows' = [rows EXCEPT ![c] = {}]
  /\ recs' = [recs EXCEPT ![c] = {}]
  /\ status' = [status EXCEPT ![c] = code]
  /\ pc' = [pc EXCEPT ![c] = "done"]
  /\ UNCHANGED <<redis, reserving, doomed, charges, req, owner, at>>

\* Mutant: bookings are created without a user.
RowsOfNobody(c, S) == {[order |-> c, ticket |-> t, user |-> None] : t \in S}

RowsOf(c, S) == {[order |-> c, ticket |-> t, user |-> owner[c]] : t \in S}

\* Mutant: the payment records are not part of the transaction's writes.
WriteBookingsOnly(c) == /\ booking' = booking \cup RowsOf(c, rows[c])
                        /\ UNCHANGED payment

WriteRows(c) == /\ booking' = booking \cup RowsOf(c, rows[c])
                /\ payment' = payment \cup RowsOf(c, recs[c])

\* The body returned: COMMIT, then the 201 goes out.
ConfirmCommit(c) == /\ pc[c] = "ending"
                    /\ status[c] = 201
                    /\ WriteRows(c)
                    /\ Finish(c, 201)

\* The body threw: ROLLBACK, then the error goes out.
ConfirmRollback(c) == /\ pc[c] = "ending"
                      /\ status[c] # 201
                      /\ Finish(c, status[c])
                      /\ UNCHANGED db

ConfirmStep(c) ==
  \/ ConfirmBegin(c)
  \/ ConfirmGone(c) \/ ConfirmForbidden(c) \/ ConfirmMiscounted(c)
  \/ ConfirmValid(c)
  \/ ConfirmInsert(c) \/ ConfirmDuplicate(c) \/ ConfirmDeadlock(c)
  \/ ChargeOk(c) \/ ChargeDeclined(c)
  \/ ConfirmRecord(c)
  \/ ConfirmCleanup(c)
  \/ ConfirmCommit(c) \/ ConfirmRollback(c)

-----------------------------------------------------------------------------
(* Faults                                                                  *)

\* A read before the try block or a statement inside it fails for a reason of
\* its own: 500.
StatementError(c) ==
  /\ Faults
  /\ \/ pc[c] = "begun" /\ Refuse(c, 500)
     \/ pc[c] \in {"inserting", "recording"} /\ Abort(c, 500)

\* The DEL in the finally block throws, executed or not: its error replaces the
\* result of the body, so a charged booking is rolled back.
CleanupError(c) ==
  /\ Faults
  /\ pc[c] = "cleanup"
  /\ hold' \in {hold, Released(req[c].ids)}
  /\ status' = [status EXCEPT ![c] = 500]
  /\ pc' = [pc EXCEPT ![c] = "ending"]
  /\ UNCHANGED <<lastToken, reserving, doomed, db, charges, req, txn>>

\* Mutant: COMMIT is not awaited, the 201 goes out whatever becomes of it.
CommitErrorNotAwaited(c) == /\ Faults
                            /\ pc[c] = "ending"
                            /\ status[c] = 201
                            /\ WriteRows(c) \/ UNCHANGED db
                            /\ Finish(c, 201)

\* The connection breaks during COMMIT: done or not, the reply is a 500.
CommitError(c) == /\ Faults
                  /\ pc[c] = "ending"
                  /\ status[c] = 201
                  /\ WriteRows(c) \/ UNCHANGED db
                  /\ Finish(c, 500)

\* The server process dies: requests in flight are lost, Postgres drops their
\* rows, holds and charges stay; a charge under way went through or not.
Crash ==
  /\ Faults
  /\ checked' = [r \in Reservers |-> None]
  /\ doomed' = [x \in Cancellers |-> None]
  /\ pc' = [c \in Confirms |-> IF pc[c] \in {"idle", "done"} THEN pc[c] ELSE "lost"]
  /\ at' = [c \in Confirms |-> None]
  /\ rows' = [c \in Confirms |-> {}]
  /\ recs' = [c \in Confirms |-> {}]
  /\ \E S \in SUBSET {c \in Confirms : pc[c] = "charging"} : charges' = charges \cup S
  /\ UNCHANGED <<redis, granted, db, req, owner, status>>

Fault == Crash \/ \E c \in Confirms : StatementError(c) \/ CleanupError(c) \/ CommitError(c)

-----------------------------------------------------------------------------
ReserveNext == \E r \in Reservers : \/ ReserveCheck(r) \/ ReserveFresh(r)
                                    \/ ReserveAgain(r) \/ ReserveConflict(r)
CancelNext == \E x \in Cancellers : CancelRead(x) \/ CancelDelete(x)
ConfirmNext == \E c \in Confirms : ConfirmArrive(c) \/ ConfirmStep(c)

Next == Expire \/ ReserveNext \/ CancelNext \/ ConfirmNext \/ Fault

Spec == Init /\ [][Next]_vars

\* Awaited calls return: the event loop resumes a handler, the mock processor
\* answers within MAX_DELAY_MS, Redis drops a key when its TTL is over.
Fairness == /\ WF_vars(Expire)
            /\ \A c \in Confirms : WF_vars(ConfirmStep(c))

LiveSpec == Spec /\ Fairness

-----------------------------------------------------------------------------
(* Safety                                                                  *)

Sold(c) == {b.ticket : b \in {r \in booking : r.order = c}}

\* A ticket has at most one committed booking, however confirms of it race
\* (booking_ticket_id_uq, the hard floor of confirmBooking).
NoDoubleBooking == \A a, b \in booking : a.ticket = b.ticket => a = b

\* All or nothing: a confirm that left one booking left one for every ticket of
\* its request, all for the user who asked, with one payment record each and
\* the card charged; no payment record is without its booking.
SoldWhole ==
  /\ payment = booking
  /\ \A b \in booking : /\ b.order \in charges
                        /\ b.user = req[b.order].user
                        /\ Sold(b.order) = req[b.order].ids

\* A ticket is booked only by a user to whom the service granted a reservation
\* of that ticket, under the token of that reservation - whatever users, tokens
\* and ids confirm requests carry (the check before the insert).
BookedByGrantee ==
  \A b \in booking : \E g \in granted : /\ g.user = b.user
                                        /\ g.token = req[b.order].token
                                        /\ b.ticket \in g.ids

\* A token is never handed to a second user: an idempotent reserve answers with
\* the token of holds that are all the caller's.
TokenOfOneUser == \A g, h \in granted : g.token = h.token => g.user = h.user

\* The reply of a confirm is true: 201 means booked, whatever faults there were.
SuccessIsBooked ==
  \A c \in Confirms : pc[c] = "done" /\ status[c] = 201 => Sold(c) = req[c].ids

\* Without faults an error reply means that nothing was booked and nothing was
\* charged: the insert comes before the charge, the rollback undoes the insert.
FailureIsFree ==
  \A c \in Confirms :
    pc[c] = "done" /\ status[c] # 201 => Sold(c) = {} /\ c \notin charges

\* Without faults two confirms of one ticket are never both charged, not even
\* while both run: the loser waits at its INSERT and never reaches the processor.
LoserNotCharged ==
  \A c, d \in charges : c # d => req[c].ids \cap req[d].ids = {}

\* Without faults a confirm that got past its ownership check leaves none of its
\* tickets on hold under its token, whatever it answered (the finally block).
HoldGivenBack ==
  \A c \in Confirms :
    pc[c] \in {"ending", "done"} /\ owner[c] # None =>
      \A k \in req[c].ids : ~ HeldBy(req[c], k)

\* A hold never changes hands or token in place: a key that is set stays as it is
\* until it is deleted or expires (SETNX; the TTL is never renewed).
HoldImmutable == [][\A k \in Ids : hold[k] # None => hold'[k] \in {hold[k], None}]_vars

-----------------------------------------------------------------------------
(* Liveness                                                                *)

\* Every confirm request is answered unless its server dies: neither the pool, nor
\* the waits at the unique index, nor failing statements stop it for ever.
ConfirmAnswered == \A c \in Confirms : pc[c] = "queued" ~> pc[c] \in {"done", "lost"}

\* Every hold ends, confirmed, cancelled or not.
HoldEnds == \A k \in Ids, n \in 1 .. MaxToken :
              (hold[k] # None /\ hold[k].token = n) ~>
              (hold[k] = None \/ hold[k].token # n)

-----------------------------------------------------------------------------
Sale == INSTANCE TicketSale WITH Orders <- Confirms, Buyers <- Users, Seats <- Tickets,
                                 sold <- booking, paid <- payment, charged <- charges

\* Every behaviour, faults included, is one the abstract sale allows.
SaleSafe == Sale!SaleSpec
=============================================================================
