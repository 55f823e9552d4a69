------------------------ MODULE TicketListingProofs ------------------------
(***************************************************************************)
(* Theorems about TicketListing: what a listing that reads the database    *)
(* and Redis in two round trips can be relied on for, for any number of    *)
(* listings, users and tickets, with and without faults.                   *)
(***************************************************************************)
EXTENDS TicketListing, BookingsHoldProofs

USE DEF HoldValue, Row, IdLists, Grant, Request, Busy, PC, Status,
        Early, Inside, Validated, redis, reserving, db, txn, confirming

-----------------------------------------------------------------------------
(* The booking flow under a listing                                        *)

\* A step of a listing writes nothing the booking flow reads.
LEMMA ListStepsRead ==
  ASSUME [ListNext]_listVars
  PROVE  [Next]_vars
<1>1. ASSUME NEW l \in Listers, ListArrive(l) \/ ListStep(l) PROVE UNCHANGED vars
  BY <1>1 DEF ListArrive, ListStep, ListRead, ListFilter
<1>2. CASE UNCHANGED listVars
  BY <1>2 DEF listVars
<1> QED
  BY <1>1, <1>2 DEF ListNext

\* Listings only read: next to them the booking flow behaves as it does alone, and
\* everything proved of it holds.
THEOREM ListingOnlyReads == ListSpec => Spec
<1>1. ListInit => Init
  BY DEF ListInit
<1>2. [ListNext]_listVars => [Next]_vars
  BY ListStepsRead
<1> QED
  BY <1>1, <1>2, PTL DEF ListSpec, Spec

\* What BookingsProofs and BookingsHoldProofs know of the booking flow.
FlowInv == Base /\ SaleInv /\ HoldsGranted

LEMMA FlowHolds == ListSpec => []FlowInv
<1>1. Base /\ SaleInv /\ HoldsGranted => FlowInv
  BY DEF FlowInv
<1> QED
  BY <1>1, ListingOnlyReads, GrantsHold, PTL

-----------------------------------------------------------------------------
(* Types                                                                   *)

\* A reply is built from the tickets read and the user who asked.
LEMMA ListTypeNext ==
  ASSUME FlowInv, ListTypeOK, [ListNext]_listVars
  PROVE  ListTypeOK'
<1> USE DEF ListTypeOK
<1>1. ASSUME NEW l \in Listers, ListArrive(l) PROVE ListTypeOK'
  <2>1. Announced \subseteq Ids
    BY SMT DEF Announced, FlowInv, Base, TypeOK, TxnInv
  <2> QED
    BY <1>1, <2>1, SMT DEF ListArrive
<1>2. ASSUME NEW l \in Listers, ListRead(l) PROVE ListTypeOK'
  BY <1>2, SMT DEF ListRead, Unbooked
<1>3. ASSUME NEW l \in Listers, ListFilter(l) PROVE ListTypeOK'
  <2>1. asker[l] \in Users /\ seen[l] \subseteq Tickets
    BY <1>3 DEF ListFilter
  <2>2. HeldByMe(asker[l], seen[l]) \subseteq Tickets
    BY <2>1 DEF HeldByMe
  <2> QED
    BY <1>3, <2>1, <2>2, SMT DEF ListFilter
<1>4. CASE UNCHANGED listing
  BY <1>4 DEF listing
<1> QED
  BY <1>1, <1>2, <1>3, <1>4 DEF ListNext, ListStep, listVars

\* Every variable of the listings keeps its type: a reply names tickets of the table,
\* and the user who asked is known until it is sent.
THEOREM ListTypeCorrect == ListSpec => []ListTypeOK
<1>1. ListInit => ListTypeOK
  BY DEF ListInit, ListTypeOK
<1> QED
  BY <1>1, ListTypeNext, FlowHolds, PTL DEF ListSpec

-----------------------------------------------------------------------------
(* heldByMe                                                                *)

\* A ticket is flagged as the asker's only if some reservation of it was granted to
\* him, though the flag is computed from a key read after the tickets were, and the
\* hold may be gone when the reply is read.
THEOREM HeldByMeGranted == ListSpec => []HeldByMeWasGranted
<1>1. ListInit => HeldByMeWasGranted
  BY DEF ListInit, HeldByMeWasGranted
<1>2. ASSUME FlowInv, ListTypeOK, HeldByMeWasGranted, [ListNext]_listVars
      PROVE  HeldByMeWasGranted'
  <2> SUFFICES ASSUME NEW l \in Listers, shown'[l] # None, NEW t \in shown'[l].mine
               PROVE  \E g \in granted' : g.user = shown'[l].user /\ t \in g.ids
    BY DEF HeldByMeWasGranted
  <2>1. granted \subseteq granted'
    BY <1>2, ListStepsRead, GrantsGrow DEF FlowInv
  <2>2. CASE shown'[l] = shown[l]
    BY <1>2, <2>1, <2>2 DEF HeldByMeWasGranted
  <2>3. CASE shown'[l] # shown[l]
    <3>1. ListFilter(l)
      BY <1>2, <2>3, SMT DEF ListNext, ListStep, ListArrive, ListRead, ListFilter, listing,
                             listVars, ListTypeOK
    <3>2. seen[l] \subseteq Tickets
      BY <1>2, <3>1 DEF ListFilter, ListTypeOK
    <3>3. shown'[l].user = asker[l] /\ shown'[l].mine = HeldByMe(asker[l], seen[l])
      BY <1>2, <3>1, SMT DEF ListFilter, ListTypeOK
    <3>4. t \in Ids /\ hold[t] # None /\ hold[t].user = asker[l]
      BY <3>2, <3>3, TicketsAssumption DEF HeldByMe
    <3>5. Covered(asker[l], hold[t].token, t)
      BY <1>2, <3>4 DEF FlowInv, HoldsGranted
    <3> QED
      BY <2>1, <3>3, <3>5 DEF Covered
  <2> QED
    BY <2>2, <2>3
<1>3. FlowInv /\ ListTypeOK /\ HeldByMeWasGranted /\ [ListNext]_listVars => HeldByMeWasGranted'
  BY <1>2
<1> QED
  BY <1>1, <1>3, FlowHolds, ListTypeCorrect, PTL DEF ListSpec

-----------------------------------------------------------------------------
(* Acknowledged purchases                                                  *)

\* A 201 goes out after the COMMIT, and rows are never deleted: what was announced
\* when a listing came in is booked, and the query saw it so.
SeenAfterAnnounced ==
  \A l \in Listers : /\ before[l] \subseteq Booked
                     /\ seen[l] # None => asker[l] # None /\ seen[l] \cap before[l] = {}

\* Bookings are only added.
LEMMA BookedGrows ==
  ASSUME FlowInv, [ListNext]_listVars
  PROVE  Booked \subseteq Booked'
<1>1. booking \subseteq booking'
  <2>1. CASE Quiet
    BY <2>1 DEF Quiet
  <2>2. ASSUME NEW c \in Confirms, ConfirmInsert(c) PROVE booking' = booking
    BY <2>2 DEF ConfirmInsert
  <2>3. ASSUME NEW c \in Confirms, Commits(c) PROVE booking \subseteq booking'
    BY <2>3 DEF Commits, WriteRows
  <2> QED
    BY <2>1, <2>2, <2>3, ListStepsRead, Steps DEF FlowInv
<1> QED
  BY <1>1 DEF Booked

\* What has been announced is booked.
LEMMA AnnouncedBooked ==
  ASSUME FlowInv
  PROVE  Announced \subseteq Booked
<1> SUFFICES ASSUME NEW c \in Confirms, pc[c] = "done", status[c] = 201, NEW t \in req[c].ids
             PROVE  t \in Booked
  BY DEF Announced
<1>1. Sold(c) = req[c].ids
  BY DEF FlowInv, SaleInv, SuccessIsBooked
<1> QED
  BY <1>1 DEF Sold, Booked

\* Every step keeps SeenAfterAnnounced: bookings grow, and the query reads them.
LEMMA SeenAfterAnnouncedNext ==
  ASSUME FlowInv, ListTypeOK, SeenAfterAnnounced, [ListNext]_listVars
  PROVE  SeenAfterAnnounced'
<1> USE DEF ListTypeOK, SeenAfterAnnounced
<1>1. ASSUME NEW l \in Listers, ListArrive(l) PROVE SeenAfterAnnounced'
  BY <1>1, AnnouncedBooked, BookedGrows, SMT DEF ListArrive
<1>2. ASSUME NEW l \in Listers, ListRead(l) PROVE SeenAfterAnnounced'
  BY <1>2, BookedGrows, SMT DEF ListRead, Unbooked
<1>3. ASSUME NEW l \in Listers, ListFilter(l) PROVE SeenAfterAnnounced'
  BY <1>3, BookedGrows, SMT DEF ListFilter
<1>4. CASE UNCHANGED listing
  BY <1>4, BookedGrows DEF listing
<1> QED
  BY <1>1, <1>2, <1>3, <1>4 DEF ListNext, ListStep, listVars

\* A purchase acknowledged before a listing was asked for is not in that listing,
\* however long its two reads take and whatever commits and expires between them.
THEOREM AcknowledgedStaysOut == ListSpec => AcknowledgedNotListed
<1> DEFINE Reply == \A l \in Listers : shown'[l] # None /\ shown'[l] # shown[l] =>
                                         shown'[l].tickets \cap before[l] = {}
<1>1. ListInit => SeenAfterAnnounced
  BY DEF ListInit, SeenAfterAnnounced
<1>2. FlowInv /\ ListTypeOK /\ SeenAfterAnnounced /\ [ListNext]_listVars => SeenAfterAnnounced'
  BY SeenAfterAnnouncedNext
<1>3. ASSUME ListTypeOK, SeenAfterAnnounced, ListNext PROVE Reply
  <2> SUFFICES ASSUME NEW l \in Listers, shown'[l] # None, shown'[l] # shown[l]
               PROVE  shown'[l].tickets \cap before[l] = {}
    OBVIOUS
  <2>1. ListFilter(l)
    BY <1>3, SMT DEF ListNext, ListStep, ListArrive, ListRead, ListFilter, listing, ListTypeOK
  <2>2. shown'[l].tickets \subseteq seen[l]
    BY <1>3, <2>1, SMT DEF ListFilter, HeldByMe, ListTypeOK
  <2> QED
    BY <1>3, <2>1, <2>2 DEF ListFilter, SeenAfterAnnounced
<1>4. ListTypeOK /\ SeenAfterAnnounced /\ [ListNext]_listVars => [Reply]_listVars
  BY <1>3
<1> HIDE DEF Reply
<1>5. ListSpec => [][Reply]_listVars
  BY <1>1, <1>2, <1>4, FlowHolds, ListTypeCorrect, PTL DEF ListSpec
<1> QED
  BY <1>5 DEF AcknowledgedNotListed, Reply

\* Listings do not weaken the check before a sale: BookedByGrantee next to them.
THEOREM OnlyGranteesBookListed == ListSpec => []BookedByGrantee
  BY ListingOnlyReads, OnlyGranteesBook, PTL
=============================================================================
