---------------------------- MODULE TicketListing ----------------------------
(***************************************************************************)
(* EventsService.findTickets next to the booking flow: the listing reads   *)
(* the database first and Redis afterwards, two round trips between which  *)
(* reserve, confirm and expiry go on. Sections, order, pages and groups    *)
(* are left to module SeatGroups: here a listing is the set of tickets of  *)
(* one event.                                                              *)
(***************************************************************************)
EXTENDS Bookings

CONSTANT Listers   \* slots for concurrent listing requests; a slot is reused

VARIABLES
  asker,   \* per lister: the user of the request under way, or None
  before,  \* per lister: tickets whose 201 was out when the request came in
  seen,    \* per lister: dbTickets, or None before the database read
  shown    \* per lister: the last reply: tickets, and which are heldByMe

listing == <<asker, before, seen, shown>>
listVars == <<vars, listing>>

\* Tickets a client has been told are booked.
Announced == UNION {req[c].ids : c \in {d \in Confirms : pc[d] = "done" /\ status[d] = 201}}

ListTypeOK ==
  /\ asker \in [Listers -> Users \cup {None}]
  /\ before \in [Listers -> SUBSET Ids]
  /\ seen \in [Listers -> (SUBSET Tickets) \cup {None}]
  /\ shown \in [Listers -> [user: Users, tickets: SUBSET Tickets, mine: SUBSET Tickets]
                            \cup {None}]

ListInit == /\ Init
            /\ asker = [l \in Listers |-> None]
            /\ before = [l \in Listers |-> {}]
            /\ seen = [l \in Listers |-> None]
            /\ shown = [l \in Listers |-> None]

\* GET /events/:id/tickets?userId=u comes in.
ListArrive(l) ==
  /\ asker[l] = None
  /\ \E u \in Users : asker' = [asker EXCEPT ![l] = u]
  /\ before' = [before EXCEPT ![l] = Announced]
  /\ shown' = [shown EXCEPT ![l] = None]
  /\ UNCHANGED <<vars, seen>>

\* Mutant: no NOT EXISTS in the query.
UnbookedAll == Ids

\* NOT EXISTS (SELECT 1 FROM booking ...): committed rows only.
Unbooked == Tickets \ Booked

ListRead(l) ==
  /\ asker[l] # None
  /\ seen[l] = None
  /\ ConnectionFree
  /\ seen' = [seen EXCEPT ![l] = Unbooked]
  /\ UNCHANGED <<vars, asker, before, shown>>

\* Mutant: every hold on a listed ticket is taken for the asker's.
HeldByAnyone(u, S) == {t \in S : hold[t] # None}

\* Mutant: the values found are returned, not the tickets they belong to.
HeldByMeValues(u, S) == {hold[t] : t \in {k \in S : hold[k] # None /\ hold[k].user = u}}

\* heldByMe: the stored value names the asker.
HeldByMe(u, S) == {t \in S : hold[t] # None /\ hold[t].user = u}

\* MGET, the filter of what others hold, and the reply.
ListFilter(l) ==
  LET mine == HeldByMe(asker[l], seen[l])
  IN  /\ asker[l] # None
      /\ seen[l] # None
      /\ shown' = [shown EXCEPT ![l] =
                     [user    |-> asker[l],
                      tickets |-> {t \in seen[l] : hold[t] = None} \cup mine,
                      mine    |-> mine]]
      /\ asker' = [asker EXCEPT ![l] = None]
      /\ before' = [before EXCEPT ![l] = {}]
      /\ seen' = [seen EXCEPT ![l] = None]
      /\ UNCHANGED vars

ListStep(l) == ListRead(l) \/ ListFilter(l)

ListNext == \/ Next /\ UNCHANGED listing
            \/ \E l \in Listers : (ListArrive(l) \/ ListStep(l))

ListSpec == ListInit /\ [][ListNext]_listVars

\* The same without expiry and faults: everything happens within one TTL.
ListWithinTtl ==
  ListInit /\ [][\/ (ReserveNext \/ ConfirmNext) /\ UNCHANGED listing
                 \/ \E l \in Listers : (ListArrive(l) \/ ListStep(l))]_listVars

-----------------------------------------------------------------------------
\* A ticket whose purchase was acknowledged before the listing was asked for is
\* never in it: the 201 goes out after the COMMIT the query then sees.
AcknowledgedNotListed ==
  [][\A l \in Listers : shown'[l] # None /\ shown'[l] # shown[l] =>
       shown'[l].tickets \cap before[l] = {}]_listVars

\* A ticket flagged heldByMe was granted to the asker in some reservation, so the
\* frontend that offers to resume it can ask for it again.
HeldByMeWasGranted ==
  \A l \in Listers : shown[l] # None =>
    \A t \in shown[l].mine : \E g \in granted : g.user = shown[l].user /\ t \in g.ids

\* bookings.e2e-spec.ts:6-8, README:202: the listing never shows a ticket that
\* is being confirmed or is booked at the moment of the reply, the asker's own
\* holds apart (refuted: the DEL comes before the COMMIT).
ListedIsAvailable ==
  [][\A l \in Listers : shown'[l] # None /\ shown'[l] # shown[l] =>
       \A t \in shown'[l].tickets \ shown'[l].mine :
         t \notin Booked /\ \A c \in Confirms : t \notin rows[c]]_listVars
=============================================================================
