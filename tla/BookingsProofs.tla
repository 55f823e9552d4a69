--------------------------- MODULE BookingsProofs ---------------------------
(***************************************************************************)
(* Theorems about Bookings for all users, tickets, requests, pool sizes    *)
(* and bounds, with and without faults, whatever clients send.             *)
(***************************************************************************)
EXTENDS Bookings, TLAPS

USE DEF HoldValue, Row, IdLists, Grant, Request, Busy, PC, Status

-----------------------------------------------------------------------------
(* What holds of each confirm, whatever the others do                      *)

\* The ownership check and the ticket count are behind c.
Validated(c) == owner[c] = req[c].user /\ req[c].ids \subseteq Tickets

\* c is between BEGIN and the end of its body, nothing decided yet.
Early == {"idle", "queued", "begun"}
Inside == {"inserting", "charging", "recording"}

TxnInv(c) ==
  /\ pc[c] # "idle" => req[c] \in Request
  /\ pc[c] \in Inside \cup {"cleanup"} => Validated(c)
  /\ pc[c] = "inserting" => at[c] \in req[c].ids /\ at[c] \notin rows[c]
  /\ pc[c] \in {"charging", "recording"} => rows[c] = req[c].ids
  /\ rows[c] # {} => /\ pc[c] \in Inside \cup {"cleanup", "ending"}
                     /\ Validated(c)
                     /\ rows[c] \subseteq req[c].ids
  /\ recs[c] \subseteq rows[c]
  /\ pc[c] \in Early \cup Inside => status[c] = 0
  /\ pc[c] = "recording" => c \in charges
  /\ pc[c] \in {"cleanup", "ending"} /\ status[c] = 201 =>
       /\ Validated(c)
       /\ rows[c] = req[c].ids
       /\ recs[c] = req[c].ids
       /\ c \in charges

Base == TypeOK /\ \A c \in Confirms : TxnInv(c)

USE DEF Early, Inside, Validated, redis, reserving, db, txn, confirming

-----------------------------------------------------------------------------
(* Types                                                                   *)

\* No request has come in yet.
LEMMA BaseInit == Init => Base
  BY SMT DEF Init, Base, TxnInv, TypeOK

\* What a client sends has the shape of its DTO, whether it repeats a reply or not.
LEMMA RequestsTyped == TypeOK => Requests \subseteq Request
<1> SUFFICES ASSUME TypeOK, NEW q \in Requests PROVE q \in Request
  OBVIOUS
<1>0. Repeats \subseteq BOOLEAN
  BY FlagAssumption
<1>1. CASE AnyClient
  <2>1. q \in [user: Users, token: 0 .. lastToken, ids: IdLists, dup: Repeats]
    BY <1>1 DEF Requests
  <2>2. /\ q = [user |-> q.user, token |-> q.token, ids |-> q.ids, dup |-> q.dup]
        /\ q.user \in Users /\ q.token \in 0 .. lastToken /\ q.ids \in IdLists
        /\ q.dup \in Repeats
    BY <2>1
  <2>3. q.token \in Nat
    BY <2>2, SMT DEF TypeOK
  <2>4. q.dup \in BOOLEAN
    BY <1>0, <2>2
  <2> QED
    BY <2>2, <2>3, <2>4 DEF Request
<1>2. CASE ~ AnyClient
  <2>1. PICK g \in granted, d \in Repeats :
          q = [user |-> g.user, token |-> g.token, ids |-> g.ids, dup |-> d]
    BY <1>2 DEF Requests
  <2>2. g.user \in Users /\ g.token \in Nat /\ g.ids \in IdLists
    BY SMT DEF TypeOK, Grant
  <2>3. d \in BOOLEAN
    BY <1>0
  <2> QED
    BY <2>1, <2>2, <2>3 DEF Request
<1> QED
  BY <1>1, <1>2

\* Reserve, cancel and expiry leave every confirm alone.
LEMMA BaseHolds ==
  ASSUME Base, Expire \/ ReserveNext \/ CancelNext
  PROVE  Base'
<1> USE DEF Base, TxnInv, TypeOK
<1>1. CASE Expire
  BY <1>1, SMT DEF Expire, Released
<1>2. ASSUME NEW r \in Reservers, ReserveCheck(r) PROVE Base'
  BY <1>2, SMT DEF ReserveCheck
<1>3. ASSUME NEW r \in Reservers, ReserveFresh(r) PROVE Base'
  BY <1>3, NoneAssumption, SMT DEF ReserveFresh
<1>4. ASSUME NEW r \in Reservers, ReserveAgain(r) PROVE Base'
  BY <1>4, SMT DEF ReserveAgain, Conflicts
<1>5. ASSUME NEW r \in Reservers, ReserveConflict(r) PROVE Base'
  BY <1>5, SMT DEF ReserveConflict
<1>6. ASSUME NEW x \in Cancellers, CancelRead(x) PROVE Base'
  BY <1>6, RequestsTyped, SMT DEF CancelRead
<1>7. ASSUME NEW x \in Cancellers, CancelDelete(x) PROVE Base'
  BY <1>7, SMT DEF CancelDelete, Released
<1> QED
  BY <1>1, <1>2, <1>3, <1>4, <1>5, <1>6, <1>7 DEF ReserveNext, CancelNext

-----------------------------------------------------------------------------
(* A step of one confirm                                                   *)

\* Nothing of d changes, except that it may get charged.
SameCall(d) ==
  /\ pc'[d] = pc[d] /\ req'[d] = req[d] /\ owner'[d] = owner[d] /\ at'[d] = at[d]
  /\ rows'[d] = rows[d] /\ recs'[d] = recs[d] /\ status'[d] = status[d]
  /\ d \in charges => d \in charges'

\* A confirm that nothing happens to keeps its invariant; charges only grow.
LEMMA Frame ==
  ASSUME NEW d \in Confirms, TxnInv(d), SameCall(d)
  PROVE  TxnInv(d)'
  BY SMT DEF TxnInv, SameCall

\* A step keeps Base when it keeps the types and the invariant of its confirm,
\* and leaves the other confirms alone.
LEMMA OneCall ==
  ASSUME Base, NEW c \in Confirms, TypeOK', TxnInv(c)',
         \A d \in Confirms \ {c} : SameCall(d)
  PROVE  Base'
<1>1. ASSUME NEW d \in Confirms PROVE TxnInv(d)'
  BY Frame DEF Base
<1> QED
  BY <1>1 DEF Base

\* The request comes in and gets its connection.
LEMMA BaseArrive ==
  ASSUME Base, NEW c \in Confirms, ConfirmArrive(c) \/ ConfirmBegin(c)
  PROVE  Base'
<1> USE DEF Base
<1>1. TypeOK'
  BY RequestsTyped, SMT DEF ConfirmArrive, ConfirmBegin, TypeOK
<1>2. TxnInv(c)'
  BY RequestsTyped, SMT DEF ConfirmArrive, ConfirmBegin, TypeOK, TxnInv
<1>3. ASSUME NEW d \in Confirms \ {c} PROVE SameCall(d)
  BY RequestsTyped, SMT DEF ConfirmArrive, ConfirmBegin, TypeOK, SameCall
<1> QED
  BY <1>1, <1>2, <1>3, OneCall

\* A refusal before the try block.
LEMMA BaseRefuse ==
  ASSUME Base, NEW c \in Confirms, pc[c] = "begun",
         NEW code \in {403, 409, 410, 500}, Refuse(c, code)
  PROVE  Base'
<1> USE DEF Base
<1>1. TypeOK'
  BY SMT DEF Refuse, TypeOK
<1>2. TxnInv(c)'
  BY SMT DEF Refuse, TypeOK, TxnInv
<1>3. ASSUME NEW d \in Confirms \ {c} PROVE SameCall(d)
  BY SMT DEF Refuse, TypeOK, SameCall
<1> QED
  BY <1>1, <1>2, <1>3, OneCall

\* The holds are the caller's: the insert begins.
LEMMA BaseValid ==
  ASSUME Base, NEW c \in Confirms, ConfirmValid(c)
  PROVE  Base'
<1> USE DEF Base
<1>1. req[c] \in Request /\ req[c].ids \subseteq Tickets
  BY SMT DEF ConfirmValid, AllCounted, TypeOK, TxnInv
<1>2. PICK k \in req[c].ids : owner' = [owner EXCEPT ![c] = hold[k].user]
  BY DEF ConfirmValid
<1>3. PICK t \in req[c].ids : at' = [at EXCEPT ![c] = t]
  BY DEF ConfirmValid
<1>4. hold[k].user = req[c].user /\ req[c].user \in Users
  BY <1>1, <1>2, SMT DEF ConfirmValid, HeldBy
<1>5. owner' = [owner EXCEPT ![c] = req[c].user]
  BY <1>2, <1>4
<1>6. TypeOK'
  BY <1>1, <1>3, <1>4, <1>5, SMT DEF ConfirmValid, TypeOK
<1>7. TxnInv(c)'
  BY <1>1, <1>3, <1>4, <1>5, SMT DEF ConfirmValid, TypeOK, TxnInv
<1>8. ASSUME NEW d \in Confirms \ {c} PROVE SameCall(d)
  BY <1>3, <1>5, SMT DEF ConfirmValid, TypeOK, SameCall
<1> QED
  BY <1>6, <1>7, <1>8, OneCall

\* A row is written.
LEMMA BaseInsert ==
  ASSUME Base, NEW c \in Confirms, ConfirmInsert(c)
  PROVE  Base'
<1> USE DEF Base
<1>1. TypeOK'
  BY SMT DEF ConfirmInsert, TypeOK, TxnInv
<1>2. TxnInv(c)'
  BY SMT DEF ConfirmInsert, TypeOK, TxnInv
<1>3. ASSUME NEW d \in Confirms \ {c} PROVE SameCall(d)
  BY SMT DEF ConfirmInsert, TypeOK, SameCall
<1> QED
  BY <1>1, <1>2, <1>3, OneCall

\* A failed statement aborts the transaction.
LEMMA BaseAbort ==
  ASSUME Base, NEW c \in Confirms, pc[c] \in {"inserting", "recording"},
         NEW code \in {409, 500}, Abort(c, code)
  PROVE  Base'
<1> USE DEF Base
<1>1. TypeOK'
  BY SMT DEF Abort, TypeOK
<1>2. TxnInv(c)'
  BY SMT DEF Abort, TypeOK, TxnInv
<1>3. ASSUME NEW d \in Confirms \ {c} PROVE SameCall(d)
  BY SMT DEF Abort, TypeOK, SameCall
<1> QED
  BY <1>1, <1>2, <1>3, OneCall

\* The processor answers.
LEMMA BaseCharge ==
  ASSUME Base, NEW c \in Confirms, ChargeOk(c) \/ ChargeDeclined(c)
  PROVE  Base'
<1> USE DEF Base
<1>1. TypeOK'
  BY SMT DEF ChargeOk, ChargeDeclined, TypeOK
<1>2. TxnInv(c)'
  BY SMT DEF ChargeOk, ChargeDeclined, TypeOK, TxnInv
<1>3. ASSUME NEW d \in Confirms \ {c} PROVE SameCall(d)
  BY SMT DEF ChargeOk, ChargeDeclined, TypeOK, SameCall
<1> QED
  BY <1>1, <1>2, <1>3, OneCall

\* The payment records are written.
LEMMA BaseRecord ==
  ASSUME Base, NEW c \in Confirms, ConfirmRecord(c)
  PROVE  Base'
<1> USE DEF Base
<1>1. TypeOK'
  BY SMT DEF ConfirmRecord, TypeOK
<1>2. TxnInv(c)'
  BY SMT DEF ConfirmRecord, TypeOK, TxnInv
<1>3. ASSUME NEW d \in Confirms \ {c} PROVE SameCall(d)
  BY SMT DEF ConfirmRecord, TypeOK, SameCall
<1> QED
  BY <1>1, <1>2, <1>3, OneCall

\* The finally block ends, with or without an error of its own.
LEMMA BaseCleanup ==
  ASSUME Base, NEW c \in Confirms, ConfirmCleanup(c) \/ CleanupError(c)
  PROVE  Base'
<1> USE DEF Base
<1>1. TypeOK'
  BY SMT DEF ConfirmCleanup, CleanupError, Released, TypeOK
<1>2. TxnInv(c)'
  BY SMT DEF ConfirmCleanup, CleanupError, Released, TypeOK, TxnInv
<1>3. ASSUME NEW d \in Confirms \ {c} PROVE SameCall(d)
  BY SMT DEF ConfirmCleanup, CleanupError, Released, TypeOK, SameCall
<1> QED
  BY <1>1, <1>2, <1>3, OneCall

\* The transaction ends.
LEMMA BaseEnd ==
  ASSUME Base, NEW c \in Confirms,
         ConfirmCommit(c) \/ ConfirmRollback(c) \/ CommitError(c)
  PROVE  Base'
<1> USE DEF Base
<1>1. RowsOf(c, rows[c]) \subseteq Row /\ RowsOf(c, recs[c]) \subseteq Row
  <2>1. recs[c] \subseteq rows[c] /\ recs[c] \subseteq Tickets /\ rows[c] \subseteq Tickets
    BY SMT DEF TxnInv
  <2>2. rows[c] # {} => owner[c] \in Users
    BY SMT DEF TxnInv, TypeOK
  <2> QED
    BY <2>1, <2>2, SMT DEF RowsOf
<1>2. booking' \subseteq Row /\ payment' \subseteq Row
  BY <1>1, SMT DEF ConfirmCommit, ConfirmRollback, CommitError, WriteRows, TypeOK
<1>3. TypeOK'
  BY <1>2, SMT DEF ConfirmCommit, ConfirmRollback, CommitError, Finish, TypeOK
<1>4. TxnInv(c)'
  BY SMT DEF ConfirmCommit, ConfirmRollback, CommitError, Finish, TypeOK, TxnInv
<1>5. ASSUME NEW d \in Confirms \ {c} PROVE SameCall(d)
  BY SMT DEF ConfirmCommit, ConfirmRollback, CommitError, Finish, TypeOK, SameCall
<1> QED
  BY <1>3, <1>4, <1>5, OneCall

\* The server dies: every confirm in flight is lost at once.
LEMMA BaseCrash ==
  ASSUME Base, Crash
  PROVE  Base'
  BY SMT DEF Base, TxnInv, TypeOK, Crash

\* Base is inductive: no handler, fault or expiry breaks the types or TxnInv.
LEMMA BaseNext ==
  ASSUME Base, [Next]_vars
  PROVE  Base'
<1>1. CASE Expire \/ ReserveNext \/ CancelNext
  BY <1>1, BaseHolds
<1>2. ASSUME NEW c \in Confirms, ConfirmArrive(c) \/ ConfirmStep(c) PROVE Base'
  <2>1. CASE ConfirmArrive(c) \/ ConfirmBegin(c)
    BY <2>1, BaseArrive
  <2>2. CASE ConfirmGone(c) \/ ConfirmForbidden(c) \/ ConfirmMiscounted(c)
    BY <2>2, BaseRefuse, SMT DEF ConfirmGone, ConfirmForbidden, ConfirmMiscounted
  <2>3. CASE ConfirmValid(c) \/ ConfirmInsert(c)
    BY <2>3, BaseValid, BaseInsert
  <2>4. CASE ConfirmDuplicate(c) \/ ConfirmDeadlock(c)
    BY <2>4, BaseAbort, SMT DEF ConfirmDuplicate, ConfirmDeadlock
  <2>5. CASE ChargeOk(c) \/ ChargeDeclined(c) \/ ConfirmRecord(c)
    BY <2>5, BaseCharge, BaseRecord
  <2>6. CASE ConfirmCleanup(c) \/ ConfirmCommit(c) \/ ConfirmRollback(c)
    BY <2>6, BaseCleanup, BaseEnd
  <2> QED
    BY <1>2, <2>1, <2>2, <2>3, <2>4, <2>5, <2>6 DEF ConfirmStep
<1>3. ASSUME NEW c \in Confirms, StatementError(c) PROVE Base'
  BY <1>3, BaseRefuse, BaseAbort, SMT DEF StatementError
<1>4. ASSUME NEW c \in Confirms, CleanupError(c) \/ CommitError(c) PROVE Base'
  BY <1>4, BaseCleanup, BaseEnd
<1>5. CASE UNCHANGED vars
  BY <1>5 DEF Base, TypeOK, TxnInv, vars
<1> QED
  BY <1>1, <1>2, <1>3, <1>4, <1>5, BaseCrash DEF Next, ConfirmNext, Fault

\* Every variable keeps its type in every behaviour: a booking names a ticket of the
\* table and a user, though the ids of a request may name anything.
THEOREM TypeCorrect == Spec => []TypeOK
<1>1. Base => TypeOK
  BY DEF Base
<1> QED
  BY <1>1, BaseInit, BaseNext, PTL DEF Spec

-----------------------------------------------------------------------------
(* Sales                                                                   *)

\* A row written by an open transaction keeps its ticket from everybody else.
RowsExclusive ==
  \A c \in Confirms : \A t \in rows[c] :
    /\ t \notin Booked
    /\ \A d \in Confirms : t \in rows[d] => d = c

\* A booking's order is over, so no order sells twice.
OrdersOver == \A b \in booking : pc[b.order] = "done"

SaleInv == /\ RowsExclusive
           /\ OrdersOver
           /\ NoDoubleBooking
           /\ SoldWhole
           /\ SuccessIsBooked

\* Nothing is sold at first.
LEMMA SaleInvInit == Init => SaleInv
  BY SMT DEF Init, SaleInv, RowsExclusive, OrdersOver, NoDoubleBooking, SoldWhole, SuccessIsBooked

\* What every step but an insert and a commit does to sales: nothing.
Quiet ==
  /\ booking' = booking /\ payment' = payment
  /\ charges \subseteq charges'
  /\ \A d \in Confirms :
       /\ rows'[d] \subseteq rows[d]
       /\ pc[d] = "done" => pc'[d] = "done" /\ req'[d] = req[d]
       /\ pc'[d] = "done" /\ status'[d] = 201 => pc[d] = "done" /\ status[d] = 201

\* A step that is quiet about sales keeps what holds of them.
LEMMA QuietKeepsSales ==
  ASSUME Base, SaleInv, Quiet
  PROVE  SaleInv'
<1> USE DEF SaleInv, Quiet
<1>1. Booked' = Booked /\ \A c \in Confirms : Sold(c)' = Sold(c)
  BY SMT DEF Booked, Sold
<1>2. RowsExclusive'
  BY <1>1, SMT DEF RowsExclusive
<1>3. OrdersOver'
  BY SMT DEF OrdersOver, Base, TypeOK
<1>4. NoDoubleBooking'
  BY SMT DEF NoDoubleBooking
<1>5. SoldWhole'
  BY <1>1, SMT DEF SoldWhole, OrdersOver, Base, TypeOK
<1>6. SuccessIsBooked'
  BY <1>1, SMT DEF SuccessIsBooked
<1> QED
  BY <1>2, <1>3, <1>4, <1>5, <1>6

\* An insert adds a row to a ticket no committed or open row names.
LEMMA InsertKeepsSales ==
  ASSUME Base, SaleInv, NEW c \in Confirms, ConfirmInsert(c)
  PROVE  SaleInv'
<1> USE DEF SaleInv
<1>1. /\ booking' = booking /\ payment' = payment /\ charges' = charges /\ req' = req
      /\ status' = status
      /\ rows' = [rows EXCEPT ![c] = @ \cup {at[c]}]
      /\ UniqueFree(c, at[c])
      /\ \A d \in Confirms : pc[d] = "done" <=> pc'[d] = "done"
  BY SMT DEF ConfirmInsert, Base, TypeOK
<1>2. Booked' = Booked /\ \A d \in Confirms : Sold(d)' = Sold(d)
  BY <1>1, SMT DEF Booked, Sold
<1>3. RowsExclusive'
  BY <1>1, <1>2, SMT DEF RowsExclusive, UniqueFree, Base, TypeOK
<1>4. OrdersOver'
  BY <1>1, SMT DEF OrdersOver, Base, TypeOK
<1>5. NoDoubleBooking'
  BY <1>1, SMT DEF NoDoubleBooking
<1>6. SoldWhole'
  BY <1>1, <1>2, SMT DEF SoldWhole, Base, TypeOK
<1>7. SuccessIsBooked'
  BY <1>1, <1>2, SMT DEF SuccessIsBooked
<1> QED
  BY <1>3, <1>4, <1>5, <1>6, <1>7

\* What a commit finds and does.
LEMMA CommitFacts ==
  ASSUME Base, SaleInv, NEW c \in Confirms, pc[c] = "ending", status[c] = 201, WriteRows(c)
  PROVE  LET lines == {[order |-> c, ticket |-> t, user |-> req[c].user] : t \in req[c].ids}
         IN  /\ booking' = booking \cup lines
             /\ payment' = payment \cup lines
             /\ req[c].ids # {} /\ req[c].ids \subseteq Tickets
             /\ owner[c] = req[c].user /\ req[c].user \in Users
             /\ c \in charges
             /\ \A b \in booking : b.order # c /\ b.ticket \notin req[c].ids
<1>1. /\ owner[c] = req[c].user /\ rows[c] = req[c].ids /\ recs[c] = req[c].ids
      /\ c \in charges /\ req[c] \in Request /\ req[c].ids \subseteq Tickets
  BY SMT DEF Base, TxnInv
<1>2. \A b \in booking : b.order # c
  BY SMT DEF SaleInv, OrdersOver
<1>3. \A b \in booking : b.ticket \notin req[c].ids
  BY <1>1, SMT DEF SaleInv, RowsExclusive, Booked
<1>4. RowsOf(c, req[c].ids) =
        {[order |-> c, ticket |-> t, user |-> req[c].user] : t \in req[c].ids}
  BY <1>1 DEF RowsOf
<1> QED
  BY <1>1, <1>2, <1>3, <1>4, SMT DEF WriteRows

\* A commit keeps sales whole.
LEMMA CommitKeepsSales ==
  ASSUME Base, SaleInv, NEW c \in Confirms, pc[c] = "ending", status[c] = 201, WriteRows(c),
         NEW code \in {201, 500}, Finish(c, code)
  PROVE  SaleInv'
<1> USE DEF SaleInv
<1> DEFINE lines == {[order |-> c, ticket |-> t, user |-> req[c].user] : t \in req[c].ids}
<1>1. /\ booking' = booking \cup lines
      /\ payment' = payment \cup lines
      /\ c \in charges
      /\ \A b \in booking : b.order # c /\ b.ticket \notin req[c].ids
  BY CommitFacts
<1>2. /\ rows' = [rows EXCEPT ![c] = {}] /\ charges' = charges /\ req' = req
      /\ pc' = [pc EXCEPT ![c] = "done"] /\ status' = [status EXCEPT ![c] = code]
      /\ rows[c] = req[c].ids
  BY SMT DEF Finish, Base, TxnInv
<1>3. /\ \A b \in lines : b.order = c /\ b.ticket \in req[c].ids /\ b.user = req[c].user
      /\ \A t \in req[c].ids : \E b \in lines : b.order = c /\ b.ticket = t
  <2>1. ASSUME NEW b \in lines
        PROVE  b.order = c /\ b.ticket \in req[c].ids /\ b.user = req[c].user
    <3>1. PICK t \in req[c].ids : b = [order |-> c, ticket |-> t, user |-> req[c].user]
      BY <2>1
    <3> QED
      BY <3>1, SMT
  <2>2. ASSUME NEW t \in req[c].ids
        PROVE  \E b \in lines : b.order = c /\ b.ticket = t
    <3>1. [order |-> c, ticket |-> t, user |-> req[c].user] \in lines
      OBVIOUS
    <3> QED
      BY <3>1, SMT
  <2> QED
    BY <2>1, <2>2
<1> HIDE DEF lines
<1>4. Booked' = Booked \cup req[c].ids /\ Sold(c)' = req[c].ids
  BY <1>1, <1>3, SMT DEF Booked, Sold
<1>5. \A d \in Confirms \ {c} : Sold(d)' = Sold(d)
  BY <1>1, <1>3, SMT DEF Sold
<1>6. RowsExclusive'
  BY <1>2, <1>4, SMT DEF RowsExclusive, Base, TypeOK
<1>7. OrdersOver'
  BY <1>1, <1>2, <1>3, SMT DEF OrdersOver, Base, TypeOK
<1>8. NoDoubleBooking'
  <2>1. \A a, b \in lines : a.ticket = b.ticket => a = b
    BY SMT DEF lines
  <2> QED
    BY <1>1, <1>3, <2>1, SMT DEF NoDoubleBooking
<1>9. SoldWhole'
  <2>1. payment' = booking'
    BY <1>1 DEF SoldWhole
  <2>2. ASSUME NEW b \in booking'
        PROVE  b.order \in charges /\ b.user = req[b.order].user /\ Sold(b.order)' = req[b.order].ids
    <3>1. CASE b \in booking
      BY <3>1, <1>1, <1>5, SMT DEF SoldWhole, Base, TypeOK
    <3>2. CASE b \in lines
      BY <3>2, <1>1, <1>3, <1>4, SMT
    <3> QED
      BY <3>1, <3>2, <1>1
  <2> QED
    BY <2>1, <2>2, <1>2 DEF SoldWhole
<1>10. SuccessIsBooked'
  BY <1>2, <1>4, <1>5, SMT DEF SuccessIsBooked, Base, TypeOK
<1> QED
  BY <1>6, <1>7, <1>8, <1>9, <1>10

\* Reserve, cancel and expiry touch neither the tables nor any confirm.
LEMMA Aside ==
  ASSUME Expire \/ ReserveNext \/ CancelNext \/ UNCHANGED vars
  PROVE  /\ booking' = booking /\ payment' = payment /\ charges' = charges
         /\ pc' = pc /\ req' = req /\ owner' = owner /\ at' = at
         /\ rows' = rows /\ recs' = recs /\ status' = status
<1>1. CASE ReserveNext
  BY <1>1 DEF ReserveNext, ReserveCheck, ReserveFresh, ReserveAgain, ReserveConflict
<1>2. CASE CancelNext
  BY <1>2 DEF CancelNext, CancelRead, CancelDelete
<1> QED
  BY <1>1, <1>2 DEF Expire, vars

\* c's transaction commits its rows; the reply is 201, or 500 if it got lost.
Commits(c) == /\ pc[c] = "ending" /\ status[c] = 201
              /\ WriteRows(c)
              /\ \E code \in {201, 500} : Finish(c, code)

\* The three kinds of steps: an insert, a commit, and all others.
LEMMA Steps ==
  ASSUME Base, [Next]_vars
  PROVE  Quiet \/ \E c \in Confirms : ConfirmInsert(c) \/ Commits(c)
<1> USE DEF Quiet
<1>1. CASE Expire \/ ReserveNext \/ CancelNext \/ UNCHANGED vars
  BY <1>1, Aside, SMT
<1>2. ASSUME NEW c \in Confirms, ConfirmArrive(c) PROVE Quiet
  BY <1>2, SMT DEF ConfirmArrive, Base, TypeOK
<1>3. ASSUME NEW c \in Confirms, ConfirmStep(c)
      PROVE  Quiet \/ ConfirmInsert(c) \/ Commits(c)
  <2>1. CASE ConfirmBegin(c)
    BY <2>1, SMT DEF ConfirmBegin, Base, TypeOK
  <2>2. CASE ConfirmGone(c) \/ ConfirmForbidden(c) \/ ConfirmMiscounted(c)
    BY <2>2, SMT DEF ConfirmGone, ConfirmForbidden, ConfirmMiscounted, Refuse, Base, TypeOK
  <2>3. CASE ConfirmValid(c)
    BY <2>3, SMT DEF ConfirmValid, Base, TypeOK
  <2>4. CASE ConfirmDuplicate(c) \/ ConfirmDeadlock(c)
    BY <2>4, SMT DEF ConfirmDuplicate, ConfirmDeadlock, Abort, Base, TypeOK
  <2>5. CASE ChargeOk(c) \/ ChargeDeclined(c)
    BY <2>5, SMT DEF ChargeOk, ChargeDeclined, Base, TypeOK
  <2>6. CASE ConfirmRecord(c) \/ ConfirmCleanup(c)
    BY <2>6, SMT DEF ConfirmRecord, ConfirmCleanup, Base, TypeOK
  <2>7. CASE ConfirmRollback(c)
    BY <2>7, SMT DEF ConfirmRollback, Finish, Base, TypeOK
  <2>8. CASE ConfirmCommit(c)
    BY <2>8 DEF ConfirmCommit, Commits
  <2> QED
    BY <1>3, <2>1, <2>2, <2>3, <2>4, <2>5, <2>6, <2>7, <2>8 DEF ConfirmStep
<1>4. ASSUME NEW c \in Confirms, StatementError(c) \/ CleanupError(c) PROVE Quiet
  BY <1>4, SMT DEF StatementError, Refuse, Abort, CleanupError, Base, TypeOK
<1>5. ASSUME NEW c \in Confirms, CommitError(c) PROVE Quiet \/ Commits(c)
  <2>1. CASE UNCHANGED db
    BY <1>5, <2>1, SMT DEF CommitError, Finish, Base, TypeOK
  <2>2. CASE WriteRows(c)
    BY <1>5, <2>2 DEF CommitError, Commits
  <2> QED
    BY <1>5, <2>1, <2>2 DEF CommitError
<1>6. CASE Crash
  BY <1>6, SMT DEF Crash, Base, TypeOK
<1>7. CASE ConfirmNext
  BY <1>2, <1>3, <1>7 DEF ConfirmNext
<1>8. CASE Fault
  BY <1>4, <1>5, <1>6, <1>8 DEF Fault
<1> HIDE DEF Quiet
<1> QED
  BY <1>1, <1>7, <1>8 DEF Next

\* Every step keeps what holds of sales.
LEMMA SaleInvNext ==
  ASSUME Base, SaleInv, [Next]_vars
  PROVE  SaleInv'
<1>1. ASSUME NEW c \in Confirms, Commits(c) PROVE SaleInv'
  BY <1>1, CommitKeepsSales DEF Commits
<1> QED
  BY <1>1, Steps, QuietKeepsSales, InsertKeepsSales

\* Base and SaleInv hold in every reachable state.
LEMMA SalesHold == Spec => [](Base /\ SaleInv)
<1>1. Init => Base /\ SaleInv
  BY BaseInit, SaleInvInit
<1>2. Base /\ SaleInv /\ [Next]_vars => (Base /\ SaleInv)'
  BY BaseNext, SaleInvNext
<1> QED
  BY <1>1, <1>2, PTL DEF Spec

\* However reserves, cancels, confirms, expiries and crashes interleave and
\* whatever clients send, no ticket gets a second booking.
THEOREM NoTicketSoldTwice == Spec => []NoDoubleBooking
<1>1. Base /\ SaleInv => NoDoubleBooking
  BY DEF SaleInv
<1> QED
  BY <1>1, SalesHold, PTL

\* A confirm's bookings and payment records appear together, for all its tickets
\* and after its charge, even when the server dies or a COMMIT's answer is lost.
THEOREM OrdersSoldWhole == Spec => []SoldWhole
<1>1. Base /\ SaleInv => SoldWhole
  BY DEF SaleInv
<1> QED
  BY <1>1, SalesHold, PTL

\* A 201 of confirmBooking is never a lie.
THEOREM SuccessTrue == Spec => []SuccessIsBooked
<1>1. Base /\ SaleInv => SuccessIsBooked
  BY DEF SaleInv
<1> QED
  BY <1>1, SalesHold, PTL

-----------------------------------------------------------------------------
(* The service implements the abstract sale                                *)

\* A commit is the sale of the request's tickets to the request's user.
LEMMA CommitSells ==
  ASSUME Base, SaleInv, NEW c \in Confirms, Commits(c)
  PROVE  Sale!Sell(c, req[c].user, req[c].ids)
<1>1. charges' = charges
  BY DEF Commits, Finish
<1> QED
  BY <1>1, CommitFacts DEF Commits, Sale!Sell

\* An insert is invisible to the abstract sale, a commit is a sale, any other step
\* charges some orders or none.
LEMMA StepIsSale ==
  ASSUME Base, SaleInv, [Next]_vars
  PROVE  [Sale!SaleNext]_<<booking, payment, charges>>
<1>1. CASE Quiet
  <2>1. charges' \in SUBSET Confirms
    BY BaseNext, SMT DEF Base, TypeOK
  <2>2. charges' = charges \cup charges'
    BY <1>1, SMT DEF Quiet
  <2> QED
    BY <1>1, <2>1, <2>2 DEF Quiet, Sale!SaleNext, Sale!Charge
<1>2. ASSUME NEW c \in Confirms, ConfirmInsert(c)
      PROVE  UNCHANGED <<booking, payment, charges>>
  BY <1>2 DEF ConfirmInsert
<1>3. ASSUME NEW c \in Confirms, Commits(c) PROVE Sale!SaleNext
  <2>1. req[c].user \in Users /\ req[c].ids \in SUBSET Tickets
    BY <1>3, CommitFacts DEF Commits
  <2> QED
    BY <1>3, <2>1, CommitSells DEF Sale!SaleNext
<1> QED
  BY <1>1, <1>2, <1>3, Steps

\* Every behaviour of the service is one of TicketSale: holds, connections,
\* waits, crashes and lost answers are invisible in what is sold.
THEOREM ImplementsSale == Spec => SaleSafe
<1>1. Init => Sale!SaleInit
  BY DEF Init, Sale!SaleInit
<1>2. Base /\ SaleInv /\ [Next]_vars => [Sale!SaleNext]_(Sale!saleVars)
  BY StepIsSale DEF Sale!saleVars
<1> QED
  BY <1>1, <1>2, SalesHold, PTL DEF Spec, SaleSafe, Sale!SaleSpec

-----------------------------------------------------------------------------
(* Money, when nothing fails                                               *)

\* A charged confirm is on its way to a 201 and nowhere else.
ChargeInv ==
  \A c \in charges : \/ pc[c] = "recording"
                     \/ pc[c] \in {"cleanup", "ending", "done"} /\ status[c] = 201

\* Without faults no statement after the charge fails, so no charged confirm turns
\* to an error.
LEMMA ChargeInvNext ==
  ASSUME ~ Faults, Base, ChargeInv, [Next]_vars
  PROVE  ChargeInv'
<1> USE DEF ChargeInv
<1>1. CASE Expire \/ ReserveNext \/ CancelNext \/ UNCHANGED vars
  BY <1>1, Aside, SMT
<1>2. ASSUME NEW c \in Confirms, ConfirmArrive(c) PROVE ChargeInv'
  BY <1>2, SMT DEF ConfirmArrive, Base, TypeOK
<1>3. ASSUME NEW c \in Confirms, ConfirmStep(c) PROVE ChargeInv'
  <2>1. CASE ConfirmBegin(c) \/ ConfirmValid(c)
    BY <2>1, SMT DEF ConfirmBegin, ConfirmValid, Base, TypeOK
  <2>2. CASE ConfirmGone(c) \/ ConfirmForbidden(c) \/ ConfirmMiscounted(c)
    BY <2>2, SMT DEF ConfirmGone, ConfirmForbidden, ConfirmMiscounted, Refuse, Base, TypeOK
  <2>3. CASE ConfirmInsert(c)
    BY <2>3, SMT DEF ConfirmInsert, Base, TypeOK
  <2>4. CASE ConfirmDuplicate(c) \/ ConfirmDeadlock(c)
    BY <2>4, SMT DEF ConfirmDuplicate, ConfirmDeadlock, Abort, Base, TypeOK
  <2>5. CASE ChargeOk(c) \/ ChargeDeclined(c)
    BY <2>5, SMT DEF ChargeOk, ChargeDeclined, Base, TypeOK
  <2>6. CASE ConfirmRecord(c) \/ ConfirmCleanup(c)
    BY <2>6, SMT DEF ConfirmRecord, ConfirmCleanup, Base, TypeOK
  <2>7. CASE ConfirmRollback(c) \/ ConfirmCommit(c)
    BY <2>7, SMT DEF ConfirmRollback, ConfirmCommit, Finish, Base, TypeOK
  <2> QED
    BY <1>3, <2>1, <2>2, <2>3, <2>4, <2>5, <2>6, <2>7 DEF ConfirmStep
<1>4. ~ Fault
  BY DEF Fault, Crash, StatementError, CleanupError, CommitError
<1> QED
  BY <1>1, <1>2, <1>3, <1>4 DEF Next, ConfirmNext

\* What a charged confirm has taken: rows of its own, or its bookings.
LEMMA ChargedOwns ==
  ASSUME Base, SaleInv, ChargeInv, NEW c \in charges
  PROVE  rows[c] = req[c].ids \/ Sold(c) = req[c].ids
<1>1. CASE pc[c] = "done"
  BY <1>1, SMT DEF ChargeInv, SaleInv, SuccessIsBooked, Base, TypeOK
<1>2. CASE pc[c] # "done"
  BY <1>2, SMT DEF ChargeInv, Base, TypeOK, TxnInv
<1> QED
  BY <1>1, <1>2

\* Both properties about money follow from the rows a charged confirm owns.
LEMMA MoneySafe ==
  ASSUME Base, SaleInv, ChargeInv
  PROVE  FailureIsFree /\ LoserNotCharged
<1> USE DEF SaleInv
<1>1. FailureIsFree
  BY SMT DEF FailureIsFree, ChargeInv, Sold, SoldWhole
<1>2. ASSUME NEW c \in charges, NEW d \in charges, c # d, NEW t \in req[c].ids \cap req[d].ids
      PROVE  FALSE
  <2>1. c \in Confirms /\ d \in Confirms
    BY DEF Base, TypeOK
  <2>2. t \in rows[c] \/ t \in Sold(c)
    BY ChargedOwns
  <2>3. t \in rows[d] \/ t \in Sold(d)
    BY ChargedOwns
  <2>4. ~ (t \in rows[c] /\ t \in rows[d])
    BY <1>2, <2>1 DEF RowsExclusive
  <2>5. (t \in Sold(c) \/ t \in Sold(d)) => t \in Booked
    BY DEF Sold, Booked
  <2>6. ~ (t \in Sold(c) /\ t \in Sold(d))
    BY <1>2 DEF Sold, NoDoubleBooking
  <2> QED
    BY <2>1, <2>2, <2>3, <2>4, <2>5, <2>6 DEF RowsExclusive
<1> QED
  BY <1>1, <1>2 DEF LoserNotCharged

\* The three invariants hold in every reachable state.
LEMMA MoneyHolds == ASSUME ~ Faults PROVE Spec => [](Base /\ SaleInv /\ ChargeInv)
<1>1. Init => ChargeInv
  BY DEF Init, ChargeInv
<1>2. Base /\ SaleInv /\ ChargeInv /\ [Next]_vars => ChargeInv'
  BY ChargeInvNext
<1> QED
  BY <1>1, <1>2, SalesHold, PTL DEF Spec

\* Of confirms that name one ticket at most one reaches the processor: the loser
\* waits at its INSERT until the winner's row is committed or gone.
THEOREM LoserNeverCharged == ASSUME ~ Faults PROVE Spec => []LoserNotCharged
<1>1. Base /\ SaleInv /\ ChargeInv => LoserNotCharged
  BY MoneySafe
<1> QED
  BY <1>1, MoneyHolds, PTL

\* A confirm answered with an error has sold nothing and charged nobody.
THEOREM FailureCostsNothing == ASSUME ~ Faults PROVE Spec => []FailureIsFree
<1>1. Base /\ SaleInv /\ ChargeInv => FailureIsFree
  BY MoneySafe
<1> QED
  BY <1>1, MoneyHolds, PTL
=============================================================================
