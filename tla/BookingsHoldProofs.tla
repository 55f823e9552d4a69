------------------------- MODULE BookingsHoldProofs -------------------------
(***************************************************************************)
(* Theorems about the Redis holds of Bookings and the grants they stand    *)
(* for: who may book, whose token it is, what a confirm leaves behind.     *)
(***************************************************************************)
EXTENDS BookingsProofs

USE DEF HoldValue, Row, IdLists, Grant, Request, Busy, PC, Status,
        Early, Inside, Validated, redis, reserving, db, txn, confirming

-----------------------------------------------------------------------------
(* What a step does to the holds                                           *)

\* Keys are deleted, none is set, and nothing is granted.
OnlyDeletes == /\ granted' = granted /\ lastToken' = lastToken
               /\ \A k \in Ids : hold'[k] \in {hold[k], None}

\* Only a reserve sets a key or grants anything; the rest deletes keys at most.
LEMMA StoreSteps ==
  ASSUME Base, [Next]_vars
  PROVE  OnlyDeletes \/ \E r \in Reservers : ReserveFresh(r) \/ ReserveAgain(r)
<1> USE DEF OnlyDeletes
<1>1. CASE Expire
  BY <1>1, SMT DEF Expire, Released, Base, TypeOK
<1>2. CASE ReserveNext
  BY <1>2 DEF ReserveNext, ReserveCheck, ReserveConflict
<1>3. ASSUME NEW x \in Cancellers, CancelRead(x) \/ CancelDelete(x) PROVE OnlyDeletes
  BY <1>3, SMT DEF CancelRead, CancelDelete, Released, Base, TypeOK
<1>4. ASSUME NEW c \in Confirms, ConfirmArrive(c) \/ ConfirmStep(c) PROVE OnlyDeletes
  <2>1. CASE ConfirmCleanup(c)
    BY <2>1, SMT DEF ConfirmCleanup, Released, Base, TypeOK
  <2>2. CASE ~ ConfirmCleanup(c)
    BY <1>4, <2>2 DEF ConfirmArrive, ConfirmStep, ConfirmBegin, ConfirmGone, ConfirmForbidden,
         ConfirmMiscounted, Refuse, ConfirmValid, ConfirmInsert, ConfirmDuplicate,
         ConfirmDeadlock, Abort, ChargeOk, ChargeDeclined, ConfirmRecord, ConfirmCommit,
         ConfirmRollback, Finish
  <2> QED
    BY <2>1, <2>2
<1>5. ASSUME NEW c \in Confirms, CleanupError(c) PROVE OnlyDeletes
  BY <1>5, SMT DEF CleanupError, Released, Base, TypeOK
<1>6. CASE Fault
  BY <1>5, <1>6 DEF Fault, Crash, StatementError, Refuse, Abort, CommitError, Finish
<1> QED
  BY <1>1, <1>2, <1>3, <1>4, <1>6 DEF Next, CancelNext, ConfirmNext, vars

\* A key that is set is never overwritten: it keeps its user and token until a
\* DEL or its expiry (setNxMany sets only keys it found absent).
THEOREM HoldsImmutable == Spec => HoldImmutable
<1>1. ASSUME Base, [Next]_vars, NEW k \in Ids, hold[k] # None
      PROVE  hold'[k] \in {hold[k], None}
  <2>1. ASSUME NEW r \in Reservers, ReserveFresh(r) PROVE hold'[k] = hold[k]
    BY <1>1, <2>1, SMT DEF ReserveFresh, Conflicts, Base, TypeOK
  <2>2. ASSUME NEW r \in Reservers, ReserveAgain(r) PROVE hold'[k] = hold[k]
    BY <2>2 DEF ReserveAgain
  <2> QED
    BY <1>1, <2>1, <2>2, StoreSteps DEF OnlyDeletes
<1>2. Base /\ [Next]_vars => [\A k \in Ids : hold[k] # None => hold'[k] \in {hold[k], None}]_vars
  BY <1>1
<1> QED
  BY <1>2, SalesHold, PTL DEF Spec, HoldImmutable

-----------------------------------------------------------------------------
(* Grants                                                                  *)

\* A reservation of ticket k was granted to user u under token n.
Covered(u, n, k) == \E g \in granted : g.user = u /\ g.token = n /\ k \in g.ids

HoldsGranted ==
  /\ \A g \in granted : g.token <= lastToken
  /\ TokenOfOneUser
  /\ \A k \in Ids : hold[k] # None => Covered(hold[k].user, hold[k].token, k)

\* A fresh reserve grants what it sets, under a token nobody has.
LEMMA FreshKeepsGrants ==
  ASSUME Base, HoldsGranted, NEW r \in Reservers, ReserveFresh(r)
  PROVE  HoldsGranted'
<1> DEFINE g0 == [user |-> checked[r].user, token |-> lastToken + 1, ids |-> checked[r].ids]
<1>1. /\ granted' = granted \cup {g0} /\ lastToken' = lastToken + 1
      /\ hold' = [k \in Ids |-> IF k \in checked[r].ids
                                THEN [user |-> checked[r].user, token |-> lastToken + 1]
                                ELSE hold[k]]
  BY DEF ReserveFresh
<1>2. lastToken \in Nat /\ granted \subseteq Grant
  BY DEF Base, TypeOK
<1>3. g0.user = checked[r].user /\ g0.token = lastToken + 1 /\ g0.ids = checked[r].ids
  OBVIOUS
<1> HIDE DEF g0
<1>4. \A g \in granted' : g.token <= lastToken'
  BY <1>1, <1>2, <1>3, SMT DEF HoldsGranted
<1>5. TokenOfOneUser'
  <2>1. \A g \in granted : g.token # g0.token
    BY <1>2, <1>3, SMT DEF HoldsGranted
  <2> QED
    BY <1>1, <2>1, SMT DEF HoldsGranted, TokenOfOneUser
<1>6. ASSUME NEW k \in Ids, hold'[k] # None
      PROVE  Covered(hold[k].user, hold[k].token, k)'
  <2>1. CASE k \in checked[r].ids
    BY <1>1, <1>3, <2>1, SMT DEF Covered
  <2>2. CASE k \notin checked[r].ids
    BY <1>1, <1>6, <2>2, SMT DEF HoldsGranted, Covered
  <2> QED
    BY <2>1, <2>2
<1> QED
  BY <1>4, <1>5, <1>6 DEF HoldsGranted

\* The token handed out again comes with a hold of the same user.
LEMMA AgainKeepsGrants ==
  ASSUME Base, HoldsGranted, NEW r \in Reservers, ReserveAgain(r)
  PROVE  HoldsGranted'
<1>1. PICK k \in Conflicts(checked[r].ids) :
        granted' = granted \cup {[user  |-> checked[r].user,
                                  token |-> hold[k].token,
                                  ids   |-> checked[r].ids]}
  BY DEF ReserveAgain
<1>2. k \in Ids /\ hold[k] # None /\ hold[k].user = checked[r].user
  BY SMT DEF ReserveAgain, AllOwnedBy, Conflicts, Base, TypeOK
<1>3. PICK h \in granted : h.user = hold[k].user /\ h.token = hold[k].token
  BY <1>2 DEF HoldsGranted, Covered
<1>4. hold' = hold /\ lastToken' = lastToken
  BY DEF ReserveAgain
<1>5. \A g \in granted' : g.token <= lastToken'
  BY <1>1, <1>3, <1>4, SMT DEF HoldsGranted
<1>6. TokenOfOneUser'
  BY <1>1, <1>2, <1>3, SMT DEF HoldsGranted, TokenOfOneUser
<1>7. \A j \in Ids : hold'[j] # None => Covered(hold[j].user, hold[j].token, j)'
  BY <1>1, <1>4, SMT DEF HoldsGranted, Covered
<1> QED
  BY <1>5, <1>6, <1>7 DEF HoldsGranted

\* Every step keeps the holds granted.
LEMMA HoldsGrantedNext ==
  ASSUME Base, HoldsGranted, [Next]_vars
  PROVE  HoldsGranted'
<1>1. CASE OnlyDeletes
  BY <1>1, SMT DEF OnlyDeletes, HoldsGranted, Covered, TokenOfOneUser
<1> QED
  BY <1>1, StoreSteps, FreshKeepsGrants, AgainKeepsGrants

\* A grant and a token, once issued, stay so.
LEMMA GrantsGrow ==
  ASSUME Base, [Next]_vars
  PROVE  granted \subseteq granted' /\ lastToken' \in Nat /\ lastToken <= lastToken'
<1>1. ASSUME NEW r \in Reservers, ReserveFresh(r) \/ ReserveAgain(r)
      PROVE  granted \subseteq granted' /\ lastToken' \in {lastToken, lastToken + 1}
  BY <1>1 DEF ReserveFresh, ReserveAgain
<1> QED
  BY <1>1, StoreSteps, SMT DEF OnlyDeletes, Base, TypeOK

\* Every hold there ever is stands for a granted reservation.
LEMMA GrantsHold == Spec => [](Base /\ SaleInv /\ HoldsGranted)
<1>1. Init => HoldsGranted
  BY SMT DEF Init, HoldsGranted, TokenOfOneUser
<1>2. Base /\ SaleInv /\ HoldsGranted /\ [Next]_vars => HoldsGranted'
  BY HoldsGrantedNext
<1> QED
  BY <1>1, <1>2, SalesHold, PTL DEF Spec

\* Two users are never given one token, though a repeated reserve answers with
\* the token of an older one.
THEOREM TokensPersonal == Spec => []TokenOfOneUser
<1>1. Base /\ SaleInv /\ HoldsGranted => TokenOfOneUser
  BY DEF HoldsGranted
<1> QED
  BY <1>1, GrantsHold, PTL

-----------------------------------------------------------------------------
(* What a confirm knows of its holds                                       *)

\* The ownership check is the only place where owner is set; requests stay.
CallSteps(d) ==
  /\ req'[d] = req[d] \/ pc[d] = "idle"
  /\ pc'[d] \in Early => pc[d] \in Early /\ owner'[d] = owner[d]
  /\ \/ owner'[d] = owner[d]
     \/ /\ pc[d] = "begun" /\ pc'[d] = "inserting"
        /\ owner'[d] # None
        /\ \A k \in req[d].ids : HeldBy(req[d], k)

\* The steps of every action, seen from one confirm.
LEMMA OwnerSteps ==
  ASSUME Base, [Next]_vars, NEW d \in Confirms
  PROVE  CallSteps(d)
<1> USE DEF CallSteps
<1>1. CASE Expire \/ ReserveNext \/ CancelNext \/ UNCHANGED vars
  BY <1>1, Aside
<1>2. ASSUME NEW c \in Confirms, ConfirmArrive(c) \/ ConfirmStep(c) PROVE CallSteps(d)
  <2>1. CASE ConfirmArrive(c) \/ ConfirmBegin(c)
    BY <2>1, SMT DEF ConfirmArrive, ConfirmBegin, Base, TypeOK
  <2>2. CASE ConfirmGone(c) \/ ConfirmForbidden(c) \/ ConfirmMiscounted(c)
    BY <2>2, SMT DEF ConfirmGone, ConfirmForbidden, ConfirmMiscounted, Refuse, Base, TypeOK
  <2>3. CASE ConfirmValid(c)
    BY <2>3, NoneAssumption, SMT DEF ConfirmValid, HeldBy, Base, TypeOK, TxnInv
  <2>4. CASE ConfirmInsert(c) \/ ConfirmRecord(c) \/ ConfirmCleanup(c)
    BY <2>4, SMT DEF ConfirmInsert, ConfirmRecord, ConfirmCleanup, Base, TypeOK
  <2>5. CASE ConfirmDuplicate(c) \/ ConfirmDeadlock(c)
    BY <2>5, SMT DEF ConfirmDuplicate, ConfirmDeadlock, Abort, Base, TypeOK
  <2>6. CASE ChargeOk(c) \/ ChargeDeclined(c)
    BY <2>6, SMT DEF ChargeOk, ChargeDeclined, Base, TypeOK
  <2>7. CASE ConfirmCommit(c) \/ ConfirmRollback(c)
    BY <2>7, SMT DEF ConfirmCommit, ConfirmRollback, Finish, Base, TypeOK
  <2> QED
    BY <1>2, <2>1, <2>2, <2>3, <2>4, <2>5, <2>6, <2>7 DEF ConfirmStep
<1>3. ASSUME NEW c \in Confirms, StatementError(c) \/ CleanupError(c) \/ CommitError(c)
      PROVE  CallSteps(d)
  BY <1>3, SMT DEF StatementError, Refuse, Abort, CleanupError, CommitError, Finish, Base, TypeOK
<1>4. CASE Crash
  BY <1>4, SMT DEF Crash, Base, TypeOK
<1> QED
  BY <1>1, <1>2, <1>3, <1>4 DEF Next, ConfirmNext, Fault

\* A confirm past its check was granted every ticket it names, under the token it
\* sent; every booking comes from such a confirm.
OwnersGranted ==
  /\ \A c \in Confirms :
       /\ pc[c] \in Early => owner[c] = None
       /\ owner[c] # None => \A k \in req[c].ids : Covered(req[c].user, req[c].token, k)
  /\ \A b \in booking : owner[b.order] # None

\* A confirm gets past its check only on granted holds, and the grants stay.
LEMMA OwnersGrantedNext ==
  ASSUME Base, SaleInv, HoldsGranted, OwnersGranted, [Next]_vars
  PROVE  OwnersGranted'
<1>1. ASSUME NEW c \in Confirms, pc'[c] \in Early PROVE owner'[c] = None
  BY <1>1, OwnerSteps, SMT DEF CallSteps, OwnersGranted
<1>2. ASSUME NEW c \in Confirms, owner'[c] # None, NEW k \in req'[c].ids
      PROVE  Covered(req[c].user, req[c].token, k)'
  <2>1. CASE owner'[c] = owner[c]
    <3>1. req'[c] = req[c]
      BY <1>2, <2>1, OwnerSteps, SMT DEF CallSteps, OwnersGranted
    <3>2. Covered(req[c].user, req[c].token, k)
      BY <1>2, <2>1, <3>1 DEF OwnersGranted
    <3> QED
      BY <3>1, <3>2, GrantsGrow DEF Covered
  <2>2. CASE owner'[c] # owner[c]
    <3>1. req'[c] = req[c] /\ req[c] \in Request /\ HeldBy(req[c], k)
      BY <1>2, <2>2, OwnerSteps, SMT DEF CallSteps, Base, TxnInv
    <3>2. Covered(req[c].user, req[c].token, k)
      BY <1>2, <3>1, SMT DEF HoldsGranted, HeldBy
    <3> QED
      BY <3>1, <3>2, GrantsGrow DEF Covered
  <2> QED
    BY <2>1, <2>2
<1>3. ASSUME NEW b \in booking' PROVE owner'[b.order] # None
  <2>1. b.order \in Confirms
    BY BaseNext, SMT DEF Base, TypeOK
  <2>2. CASE b \in booking
    BY <2>1, <2>2, OwnerSteps DEF CallSteps, OwnersGranted
  <2>3. CASE b \notin booking
    <3>1. PICK c \in Confirms : Commits(c)
      BY <2>3, Steps DEF Quiet, ConfirmInsert
    <3>2. b.order = c
      BY <2>3, <3>1, SMT DEF Commits, WriteRows, RowsOf
    <3>3. owner'[c] = owner[c] /\ owner[c] \in Users
      BY <3>1, CommitFacts DEF Commits, Finish
    <3> QED
      BY <3>2, <3>3, NoneAssumption
  <2> QED
    BY <2>2, <2>3
<1> QED
  BY <1>1, <1>2, <1>3 DEF OwnersGranted

\* Nobody books a ticket that was not reserved for him under the token he sends,
\* whatever users, tokens and ids the requests of all clients carry.
THEOREM OnlyGranteesBook == Spec => []BookedByGrantee
<1>1. Init => OwnersGranted
  BY SMT DEF Init, OwnersGranted
<1>2. Base /\ SaleInv /\ HoldsGranted /\ OwnersGranted /\ [Next]_vars => OwnersGranted'
  BY OwnersGrantedNext
<1>3. ASSUME Base, SaleInv, OwnersGranted, NEW b \in booking
      PROVE  \E g \in granted : g.user = b.user /\ g.token = req[b.order].token /\ b.ticket \in g.ids
  <2>1. b.order \in Confirms /\ b.user = req[b.order].user /\ b.ticket \in req[b.order].ids
    BY <1>3, SMT DEF SaleInv, SoldWhole, Sold, Base, TypeOK
  <2> QED
    BY <1>3, <2>1, SMT DEF OwnersGranted, Covered
<1>4. Base /\ SaleInv /\ OwnersGranted => BookedByGrantee
  BY <1>3 DEF BookedByGrantee
<1> QED
  BY <1>1, <1>2, <1>4, GrantsHold, PTL DEF Spec

-----------------------------------------------------------------------------
(* What a confirm leaves on hold, when nothing fails                       *)

\* Every way to the end of the body.
EndSteps(d) ==
  pc'[d] \in {"ending", "done"} =>
    \/ pc[d] \in {"ending", "done"}
    \/ pc[d] = "begun" /\ owner'[d] = owner[d]
    \/ pc[d] = "cleanup" /\ \A k \in req[d].ids : hold'[k] = None

\* Without faults a body ends before its owner is known, or in the finally block.
LEMMA EndingSteps ==
  ASSUME ~ Faults, Base, [Next]_vars, NEW d \in Confirms
  PROVE  EndSteps(d)
<1> USE DEF EndSteps
<1>1. CASE Expire \/ ReserveNext \/ CancelNext \/ UNCHANGED vars
  BY <1>1, Aside
<1>2. ASSUME NEW c \in Confirms, ConfirmArrive(c) \/ ConfirmStep(c) PROVE EndSteps(d)
  <2>1. CASE ConfirmArrive(c) \/ ConfirmBegin(c)
    BY <2>1, SMT DEF ConfirmArrive, ConfirmBegin, Base, TypeOK
  <2>2. CASE ConfirmGone(c) \/ ConfirmForbidden(c) \/ ConfirmMiscounted(c)
    BY <2>2, SMT DEF ConfirmGone, ConfirmForbidden, ConfirmMiscounted, Refuse, Base, TypeOK
  <2>3. CASE ConfirmValid(c) \/ ConfirmInsert(c) \/ ConfirmRecord(c)
    BY <2>3, SMT DEF ConfirmValid, ConfirmInsert, ConfirmRecord, Base, TypeOK
  <2>4. CASE ConfirmCleanup(c)
    BY <2>4, SMT DEF ConfirmCleanup, Released, Base, TypeOK, TxnInv
  <2>5. CASE ConfirmDuplicate(c) \/ ConfirmDeadlock(c)
    BY <2>5, SMT DEF ConfirmDuplicate, ConfirmDeadlock, Abort, Base, TypeOK
  <2>6. CASE ChargeOk(c) \/ ChargeDeclined(c)
    BY <2>6, SMT DEF ChargeOk, ChargeDeclined, Base, TypeOK
  <2>7. CASE ConfirmCommit(c) \/ ConfirmRollback(c)
    BY <2>7, SMT DEF ConfirmCommit, ConfirmRollback, Finish, Base, TypeOK
  <2> QED
    BY <1>2, <2>1, <2>2, <2>3, <2>4, <2>5, <2>6, <2>7 DEF ConfirmStep
<1>3. ~ Fault
  BY DEF Fault, Crash, StatementError, CleanupError, CommitError
<1> QED
  BY <1>1, <1>2, <1>3 DEF Next, ConfirmNext

\* A key changes to absent or to a token never seen before.
LEMMA NewTokens ==
  ASSUME Base, [Next]_vars, NEW k \in Ids, hold'[k] # None
  PROVE  hold'[k] = hold[k] \/ hold'[k].token = lastToken + 1
<1>1. ASSUME NEW r \in Reservers, ReserveFresh(r)
      PROVE  hold'[k] = hold[k] \/ hold'[k].token = lastToken + 1
  BY <1>1, SMT DEF ReserveFresh
<1>2. ASSUME NEW r \in Reservers, ReserveAgain(r) PROVE hold' = hold
  BY <1>2 DEF ReserveAgain
<1> QED
  BY <1>1, <1>2, StoreSteps DEF OnlyDeletes

\* The tokens of requests are old, and the holds of a confirm past its cleanup
\* are gone.
GivenBack ==
  \A c \in Confirms :
    /\ pc[c] # "idle" => req[c].token <= lastToken
    /\ pc[c] \in {"ending", "done"} /\ owner[c] # None =>
         \A k \in req[c].ids : ~ HeldBy(req[c], k)

\* A step of c after its arrival moves c alone.
LEMMA StepsOne ==
  ASSUME Base, NEW c \in Confirms, ConfirmStep(c)
  PROVE  pc[c] # "idle" /\ \A e \in Confirms \ {c} : pc'[e] = pc[e]
<1> USE DEF Base, TypeOK
<1>1. CASE ConfirmBegin(c) \/ ConfirmValid(c) \/ ConfirmInsert(c)
  BY <1>1, SMT DEF ConfirmBegin, ConfirmValid, ConfirmInsert
<1>2. CASE ConfirmGone(c) \/ ConfirmForbidden(c) \/ ConfirmMiscounted(c)
  BY <1>2, SMT DEF ConfirmGone, ConfirmForbidden, ConfirmMiscounted, Refuse
<1>3. CASE ConfirmDuplicate(c) \/ ConfirmDeadlock(c)
  BY <1>3, SMT DEF ConfirmDuplicate, ConfirmDeadlock, Abort
<1>4. CASE ChargeOk(c) \/ ChargeDeclined(c) \/ ConfirmRecord(c) \/ ConfirmCleanup(c)
  BY <1>4, SMT DEF ChargeOk, ChargeDeclined, ConfirmRecord, ConfirmCleanup
<1>5. CASE ConfirmCommit(c) \/ ConfirmRollback(c)
  BY <1>5, SMT DEF ConfirmCommit, ConfirmRollback, Finish
<1> QED
  BY <1>1, <1>2, <1>3, <1>4, <1>5 DEF ConfirmStep

\* The token of a request was issued before the request came in.
LEMMA OldTokens ==
  ASSUME Base, HoldsGranted, GivenBack, [Next]_vars, NEW d \in Confirms, pc'[d] # "idle"
  PROVE  req'[d].token <= lastToken'
<1>1. CASE pc[d] # "idle"
  <2>1. req'[d] = req[d] /\ req[d].token \in Nat /\ req[d].token <= lastToken
    BY <1>1, OwnerSteps, SMT DEF CallSteps, GivenBack, Base, TxnInv
  <2> QED
    BY <2>1, GrantsGrow, SMT DEF Base, TypeOK
<1>2. CASE pc[d] = "idle"
  <2>1. ConfirmArrive(d)
    <3>1. CASE Fault
      BY <1>2, <3>1, SMT DEF Fault, Crash, StatementError, Refuse, Abort, CleanupError,
                             CommitError, Finish, Base, TypeOK
    <3>2. CASE ConfirmNext
      <4>1. PICK c \in Confirms : ConfirmArrive(c) \/ ConfirmStep(c)
        BY <3>2 DEF ConfirmNext
      <4>2. CASE ConfirmArrive(c)
        <5>1. d = c
          <6>1. pc' = [pc EXCEPT ![c] = "queued"]
            BY <4>2 DEF ConfirmArrive
          <6> QED
            BY <1>2, <6>1, SMT DEF Base, TypeOK
        <5> QED
          BY <4>2, <5>1
      <4>3. CASE ConfirmStep(c)
        <5>1. pc[c] # "idle" /\ \A e \in Confirms \ {c} : pc'[e] = pc[e]
          BY <4>3, StepsOne
        <5> QED
          BY <1>2, <5>1
      <4> QED
        BY <4>1, <4>2, <4>3
    <3> QED
      BY <1>2, <3>1, <3>2, Aside DEF Next
  <2>2. PICK q \in Requests : req' = [req EXCEPT ![d] = q]
    BY <2>1 DEF ConfirmArrive
  <2>3. q.token <= lastToken
    <3>1. CASE AnyClient
      BY <3>1, <2>2, SMT DEF Requests, Base, TypeOK
    <3>2. CASE ~ AnyClient
      <4>1. PICK g \in granted, b \in Repeats :
              q = [user |-> g.user, token |-> g.token, ids |-> g.ids, dup |-> b]
        BY <2>2, <3>2 DEF Requests
      <4> QED
        BY <4>1, SMT DEF HoldsGranted
    <3> QED
      BY <3>1, <3>2
  <2> QED
    BY <2>1, <2>2, <2>3, SMT DEF ConfirmArrive, Base, TypeOK
<1> QED
  BY <1>1, <1>2

\* A hold that the finally block deleted does not come back under its old token.
LEMMA GivenBackNext ==
  ASSUME ~ Faults, Base, SaleInv, HoldsGranted, OwnersGranted, GivenBack, [Next]_vars
  PROVE  GivenBack'
<1>1. ASSUME NEW c \in Confirms, pc'[c] \in {"ending", "done"}, owner'[c] # None,
             NEW k \in req'[c].ids, HeldBy(req[c], k)'
      PROVE  FALSE
  <2>1. pc[c] \notin {"idle", "begun"} \/ owner'[c] # owner[c]
    BY <1>1, EndingSteps, SMT DEF EndSteps, OwnersGranted
  <2>2. /\ req'[c] = req[c] /\ owner'[c] = owner[c] /\ req[c] \in Request
        /\ k \in Ids /\ req[c].token \in Nat
    BY <1>1, <2>1, OwnerSteps, SMT DEF CallSteps, Base, TxnInv
  <2>3. hold'[k] # None /\ hold'[k].token = req[c].token /\ hold'[k].user = req[c].user
    BY <1>1, <2>2 DEF HeldBy
  <2>4. req[c].token # lastToken + 1
    BY <2>1, <2>2, SMT DEF GivenBack, Base, TypeOK
  <2>5. HeldBy(req[c], k)
    BY <2>2, <2>3, <2>4, NewTokens DEF HeldBy
  <2>6. pc[c] \in {"ending", "done"}
    BY <1>1, <2>1, <2>2, <2>3, EndingSteps DEF EndSteps, OwnersGranted
  <2> QED
    BY <1>1, <2>2, <2>5, <2>6 DEF GivenBack
<1> QED
  BY <1>1, OldTokens DEF GivenBack

\* Whatever its outcome, a confirm past its ownership check leaves none of its
\* tickets on hold under its token, and no later reserve brings that token back.
THEOREM ConfirmGivesBack == ASSUME ~ Faults PROVE Spec => []HoldGivenBack
<1>1. Init => OwnersGranted /\ GivenBack
  BY SMT DEF Init, OwnersGranted, GivenBack
<1>2. Base /\ SaleInv /\ HoldsGranted /\ OwnersGranted /\ GivenBack /\ [Next]_vars
        => (OwnersGranted /\ GivenBack)'
  BY OwnersGrantedNext, GivenBackNext
<1>3. GivenBack => HoldGivenBack
  BY DEF GivenBack, HoldGivenBack
<1> QED
  BY <1>1, <1>2, <1>3, GrantsHold, PTL DEF Spec
=============================================================================
