------------------------------ MODULE BookingUI ------------------------------
(***************************************************************************)
(* The event page of the frontend: the ticket list, the booking dialog and *)
(* the mutations behind it, over requests that are answered late, out of   *)
(* order or never. The backend is reduced to what a page can tell of it:   *)
(* a request is one step of the server, a confirm three (module Bookings   *)
(* has the rest). One user, one tab; other users take and leave tickets.   *)
(***************************************************************************)
EXTENDS Integers, FiniteSets

CONSTANTS
  Tickets,    \* tickets of the event
  Groups,     \* the sets of tickets the list may offer as one item
  MaxToken,   \* bound on the reservation tokens issued in a behaviour
  MaxOpen,    \* bound on the requests under way
  Other,      \* a hold or a booking of another user
  None        \* no hold, no data

ASSUME GroupsAssumption == Groups \subseteq (SUBSET Tickets) \ {{}}
ASSUME BoundsAssumption == MaxToken \in Nat /\ MaxOpen \in Nat
ASSUME NoneAssumption == None \notin Nat /\ Other \notin Nat /\ None # Other

VARIABLES
  hold,       \* per ticket: None, Other, or the token of this user's hold
  lastToken,  \* tokens issued to this user so far
  lapsed,     \* tokens up to this one are past expiresAt on the client's clock
  bought,     \* tickets booked for this user
  asks,       \* POST /reservations under way
  pays,       \* POST /confirm under way
  cancels,    \* DELETE /reservations under way
  dialog,     \* bookingTickets: what the modal is open for, {} when closed
  resv,       \* createReservation: status, ids asked for, token
  conf,       \* confirmBooking: status, ids sent
  sent,       \* confirms sent since the page was opened
  timer,      \* the setTimeout of the reservation is armed
  list,       \* ticketsData: tickets shown, those marked heldByMe; or None
  fetching    \* a GET of the list is under way

server == <<hold, lastToken, bought>>
requests == <<asks, pays, cancels>>
page == <<dialog, resv, conf, sent, timer>>
query == <<list, fetching>>
vars == <<server, lapsed, requests, page, query>>

Tokens == 1 .. MaxToken
Refused == 0

\* live: a mutation of the open page still observes the request.
Ask == [ids: Groups, live: BOOLEAN, reply: {None, Refused} \cup Tokens]
Pay == [ids: Groups, token: Tokens, live: BOOLEAN,
        phase: {"sent", "paying", "ending", "won", "failed"}]
Cancel == [ids: Groups, token: Tokens]
Idle == [status |-> "idle", ids |-> {}, token |-> None]
MutationStatus == {"idle", "pending", "success", "error"}

TypeOK ==
  /\ hold \in [Tickets -> Tokens \cup {None, Other}]
  /\ lastToken \in 0 .. MaxToken
  /\ lapsed \in 0 .. lastToken
  /\ bought \subseteq Tickets
  /\ asks \subseteq Ask /\ pays \subseteq Pay /\ cancels \subseteq Cancel
  /\ dialog \in Groups \cup {{}}
  /\ resv \in [status: MutationStatus, ids: Groups \cup {{}}, token: Tokens \cup {None}]
  /\ conf \in [status: MutationStatus, ids: Groups \cup {{}}]
  /\ sent \in Nat
  /\ timer \in BOOLEAN
  /\ list \in [shown: SUBSET Tickets, mine: SUBSET Tickets] \cup {None}
  /\ fetching \in BOOLEAN

NoConfirm == [status |-> "idle", ids |-> {}]

Init ==
  /\ hold = [t \in Tickets |-> None]
  /\ lastToken = 0 /\ lapsed = 0
  /\ bought = {}
  /\ asks = {} /\ pays = {} /\ cancels = {}
  /\ dialog = {} /\ resv = Idle /\ conf = NoConfirm /\ sent = 0 /\ timer = FALSE
  /\ list = None /\ fetching = TRUE

-----------------------------------------------------------------------------
(* The backend, as far as a page can tell                                  *)

Released(S) == [t \in Tickets |-> IF t \in S THEN None ELSE hold[t]]
Taken(S) == {t \in S : hold[t] # None}

\* The answer to an ask goes to the mutation that observes it, if one does.
Answer(a, r) == asks' = (asks \ {a}) \cup
                        (IF a.live THEN {[a EXCEPT !.reply = r]} ELSE {})

\* createReservation: no ticket is booked or held: all are set, a new token.
ReserveFresh(a) ==
  /\ a.reply = None
  /\ a.ids \cap bought = {}
  /\ Taken(a.ids) = {}
  /\ lastToken < MaxToken
  /\ lastToken' = lastToken + 1
  /\ hold' = [t \in Tickets |-> IF t \in a.ids THEN lastToken + 1 ELSE hold[t]]
  /\ Answer(a, lastToken + 1)
  /\ UNCHANGED <<lapsed, bought, pays, cancels, page, query>>

\* Every key found is the caller's: the token of one of them.
ReserveAgain(a) ==
  /\ a.reply = None
  /\ a.ids \cap bought = {}
  /\ \A t \in Taken(a.ids) : hold[t] # Other
  /\ \E t \in Taken(a.ids) : Answer(a, hold[t])
  /\ UNCHANGED <<server, lapsed, pays, cancels, page, query>>

\* 409: a ticket is booked or somebody else's.
ReserveRefused(a) ==
  /\ a.reply = None
  /\ \/ a.ids \cap bought # {}
     \/ \E t \in a.ids : hold[t] = Other
  /\ Answer(a, Refused)
  /\ UNCHANGED <<server, lapsed, pays, cancels, page, query>>

\* cancelReservation: the caller's keys under this token.
CancelHandled(x) ==
  /\ hold' = Released({t \in x.ids : hold[t] = x.token})
  /\ cancels' = cancels \ {x}
  /\ UNCHANGED <<lastToken, bought, lapsed, asks, pays, page, query>>

Phase(p, phase) == pays' = (pays \ {p}) \cup {[p EXCEPT !.phase = phase]}

\* A confirm that nobody waits for is forgotten when it is over.
Over(p, phase) == IF p.live THEN Phase(p, phase) ELSE pays' = pays \ {p}

\* The ValidationPipe refuses what the form let through, such as the card number
\* with spaces of the placeholder: 400.
ConfirmInvalid(p) ==
  /\ p.phase = "sent"
  /\ Over(p, "failed")
  /\ UNCHANGED <<server, lapsed, asks, cancels, page, query>>

\* A hold is gone or under another token; the others stay.
ConfirmRefused(p) ==
  /\ p.phase = "sent"
  /\ \E t \in p.ids : hold[t] # p.token
  /\ Over(p, "failed")
  /\ UNCHANGED <<server, lapsed, asks, cancels, page, query>>

\* All ids are held under the token: on to the insert and the payment.
ConfirmAccepted(p) ==
  /\ p.phase = "sent"
  /\ \A t \in p.ids : hold[t] = p.token
  /\ Phase(p, "paying")
  /\ UNCHANGED <<server, lapsed, asks, cancels, page, query>>

\* The finally block, paid or declined: the keys of the request are deleted before
\* the COMMIT or ROLLBACK.
ConfirmCleanup(p) ==
  /\ p.phase = "paying"
  /\ hold' = Released(p.ids)
  /\ Phase(p, "ending")
  /\ UNCHANGED <<lastToken, bought, lapsed, asks, cancels, page, query>>

\* Booked and paid.
ConfirmWon(p) ==
  /\ p.phase = "ending"
  /\ p.ids \cap bought = {}
  /\ bought' = bought \cup p.ids
  /\ Over(p, "won")
  /\ UNCHANGED <<hold, lastToken, lapsed, asks, cancels, page, query>>

\* Declined, or a ticket was booked already.
ConfirmLost(p) ==
  /\ p.phase = "ending"
  /\ Over(p, "failed")
  /\ UNCHANGED <<server, lapsed, asks, cancels, page, query>>

\* The keys of this user's oldest reservation reach their TTL.
Expire ==
  \E t \in Tickets :
    /\ hold[t] \in Tokens
    /\ \A u \in Tickets : hold[u] \in Tokens => hold[t] <= hold[u]
    /\ hold' = Released({u \in Tickets : hold[u] = hold[t]})
    /\ UNCHANGED <<lastToken, bought, lapsed, requests, page, query>>

\* Another user takes a free ticket, or gives one back.
Others ==
  \E t \in Tickets :
    /\ \/ hold[t] = None /\ t \notin bought /\ hold' = [hold EXCEPT ![t] = Other]
       \/ hold[t] = Other /\ hold' = [hold EXCEPT ![t] = None]
    /\ UNCHANGED <<lastToken, bought, lapsed, requests, page, query>>

-----------------------------------------------------------------------------
(* The page                                                                *)

HeldIds == IF resv.status = "success" THEN resv.ids ELSE {}
AnyHeld == HeldIds # {} \/ list.mine # {}
IsHeld(g) == g \cap (list.mine \cup HeldIds) # {}

\* Mutant: isBlocked is not passed to the button.
BlockedNever(g) == FALSE

\* Another group is held: the button of g is disabled.
IsBlocked(g) == AnyHeld /\ ~ IsHeld(g)

Expired == /\ resv.status = "success"
           /\ resv.token <= lapsed
           /\ conf.status # "success"

\* What the open dialog shows.
Screen == CASE conf.status = "success" -> "confirmed"
            [] conf.status = "error"   -> "failed"
            [] resv.status = "pending" -> "holding"
            [] OTHER                   -> "form"

\* Mutant: a replaced or reset mutation keeps its observer.
UnobservedNever(S) == S

\* Mutations that are replaced, reset or unmounted lose their observer; the
\* request itself goes on, an answer already under way is thrown away.
Unobserved(S) == {[a EXCEPT !.live = FALSE] : a \in {b \in S : b.reply = None}}

\* The bound on requests under way, where one more is sent.
RoomFor == Cardinality(asks) + Cardinality(pays) + Cardinality(cancels) < MaxOpen

\* handleBook for a group that is not in the page's reservation: reset, mutate.
BookNew(g) ==
  /\ dialog = {} /\ list # None
  /\ g \subseteq list.shown /\ ~ IsBlocked(g)
  /\ g \cap HeldIds = {}
  /\ RoomFor
  /\ lastToken + Cardinality({a \in asks : a.reply = None}) < MaxToken
  /\ dialog' = g
  /\ resv' = [status |-> "pending", ids |-> g, token |-> None]
  /\ timer' = FALSE
  /\ asks' = Unobserved(asks) \cup {[ids |-> g, live |-> TRUE, reply |-> None]}
  /\ UNCHANGED <<server, lapsed, pays, cancels, conf, sent, query>>

\* handleBook for a group with a ticket of the reservation: the dialog reopens.
BookResume(g) ==
  /\ dialog = {} /\ list # None
  /\ g \subseteq list.shown
  /\ g \cap HeldIds # {}
  /\ dialog' = g
  /\ UNCHANGED <<server, lapsed, requests, resv, conf, sent, timer, query>>

\* The X (hidden while a confirm is pending or answered), Escape or the mask.
Close ==
  /\ dialog # {}
  /\ dialog' = {}
  /\ UNCHANGED <<server, lapsed, requests, resv, conf, sent, timer, query>>

\* The answer comes to the mutation; a 201 arms the timer, unless expiresAt is
\* past already, and has the list refetched.
ReserveReply(a) ==
  /\ a.reply # None
  /\ asks' = asks \ {a}
  /\ \/ /\ a.reply = Refused
        /\ resv' = [status |-> "error", ids |-> a.ids, token |-> None]
        /\ UNCHANGED <<timer, fetching>>
     \/ /\ a.reply # Refused
        /\ resv' = [status |-> "success", ids |-> a.ids, token |-> a.reply]
        /\ timer' = (a.reply > lapsed)
        /\ fetching' = TRUE
  /\ UNCHANGED <<server, lapsed, pays, cancels, dialog, conf, sent, list>>

\* Mutant: apiFetch swallows the rejection, the mutation never settles.
ReserveBrokenSwallowed(a) ==
  /\ a.live
  /\ asks' \in {asks \ {a}, (asks \ {a}) \cup Unobserved({a})}
  /\ UNCHANGED <<server, lapsed, pays, cancels, dialog, resv, conf, sent, timer, query>>

\* fetch rejects: the answer, or the request itself, is lost.
ReserveBroken(a) ==
  /\ a.live
  /\ asks' \in {asks \ {a}, (asks \ {a}) \cup Unobserved({a})}
  /\ resv' = [status |-> "error", ids |-> a.ids, token |-> None]
  /\ UNCHANGED <<server, lapsed, pays, cancels, dialog, conf, sent, timer, query>>

\* The countdown of a reservation reaches zero on the client's clock.
Lapse ==
  /\ lapsed < lastToken
  /\ lapsed' = lapsed + 1
  /\ UNCHANGED <<server, requests, page, query>>

\* The timeout: the dialog closes, the reservation is reset, the list refetched.
TimerFires ==
  /\ timer /\ resv.token <= lapsed
  /\ dialog' = {}
  /\ resv' = Idle
  /\ timer' = FALSE
  /\ fetching' = TRUE
  /\ UNCHANGED <<server, lapsed, requests, conf, sent, list>>

\* Mutant: the submit button is not loading while a confirm is pending.
CanSubmitAgain == Screen = "form" /\ resv.status = "success" /\ ~ Expired

\* Mutant: onSubmit and the button do not ask for a reservation.
CanSubmitUnreserved == Screen = "form" /\ ~ Expired /\ conf.status # "pending"

CanSubmit == /\ Screen = "form"
             /\ resv.status = "success"
             /\ ~ Expired
             /\ conf.status # "pending"

\* onSubmit: the tickets of the dialog, under the token of the reservation.
Submit ==
  /\ dialog # {} /\ CanSubmit /\ RoomFor
  /\ pays' = pays \cup {[ids |-> dialog, token |-> resv.token,
                         live |-> TRUE, phase |-> "sent"]}
  /\ conf' = [status |-> "pending", ids |-> dialog]
  /\ sent' = sent + 1
  /\ UNCHANGED <<server, lapsed, asks, cancels, dialog, resv, timer, query>>

\* Mutant: apiFetch does not look at res.ok.
ConfirmReplyUnchecked(p) ==
  /\ p.live /\ p.phase \in {"won", "failed"}
  /\ conf' = [conf EXCEPT !.status = "success"]
  /\ pays' = pays \ {p}
  /\ UNCHANGED <<server, lapsed, asks, cancels, dialog, resv, sent, timer, query>>

\* The answer of the confirm, wherever the dialog is by now.
ConfirmReply(p) ==
  /\ p.live /\ p.phase \in {"won", "failed"}
  /\ conf' = [conf EXCEPT !.status = IF p.phase = "won" THEN "success" ELSE "error"]
  /\ pays' = pays \ {p}
  /\ UNCHANGED <<server, lapsed, asks, cancels, dialog, resv, sent, timer, query>>

UnobservedPays ==
  {[p EXCEPT !.live = FALSE] : p \in {q \in pays : q.phase \in {"sent", "paying", "ending"}}}

\* fetch rejects: the confirm goes on without the page, or never arrived.
ConfirmBroken(p) ==
  /\ p.live
  /\ \/ pays' = UnobservedPays
     \/ p.phase = "sent" /\ pays' = pays \ {p}
  /\ conf' = [conf EXCEPT !.status = "error"]
  /\ UNCHANGED <<server, lapsed, asks, cancels, dialog, resv, sent, timer, query>>

\* The state of hooks and mutations goes with the page.
Fresh == /\ dialog' = {} /\ resv' = Idle /\ conf' = NoConfirm /\ sent' = 0
         /\ timer' = FALSE /\ fetching' = TRUE

\* window.location.reload: requests under way go on or never leave the browser.
Reload ==
  /\ Fresh
  /\ list' = None
  /\ asks' \in SUBSET Unobserved(asks)
  /\ pays' \in {S \in SUBSET UnobservedPays :
                  \A p \in UnobservedPays \ S : p.phase = "sent"}
  /\ UNCHANGED <<server, lapsed>>

\* F5, or Done after a failed payment.
ReloadByUser == Reload /\ UNCHANGED cancels

\* handleCancel: the DELETE is sent or dropped by the reload that follows at once.
CancelReservation ==
  /\ dialog # {} /\ Screen = "form" /\ conf.status # "pending"
  /\ \/ UNCHANGED cancels
     \/ /\ resv.status = "success" /\ RoomFor
        /\ cancels' = cancels \cup {[ids |-> resv.ids, token |-> resv.token]}
  /\ Reload

\* Done after a purchase, All Events, or a link, and back again: the list is
\* still in the query cache.
LeaveAndReturn ==
  /\ Fresh
  /\ asks' = Unobserved(asks)
  /\ pays' = UnobservedPays
  /\ UNCHANGED <<server, lapsed, cancels, list>>

\* The tickets others do not hold or own, and which of them are this user's.
ListReply ==
  /\ fetching
  /\ list' = [shown |-> {t \in Tickets \ bought : hold[t] # Other},
              mine  |-> {t \in Tickets \ bought : hold[t] \in Tokens}]
  /\ fetching' = FALSE
  /\ UNCHANGED <<server, lapsed, requests, page>>

\* Another quantity or section, or the window gets the focus.
Refetch ==
  /\ ~ fetching
  /\ fetching' = TRUE
  /\ UNCHANGED <<server, lapsed, requests, page, list>>

BackendStep ==
  \/ \E a \in asks : ReserveFresh(a) \/ ReserveAgain(a) \/ ReserveRefused(a)
  \/ \E x \in cancels : CancelHandled(x)
  \/ \E p \in pays : \/ ConfirmInvalid(p) \/ ConfirmRefused(p) \/ ConfirmAccepted(p)
                     \/ ConfirmCleanup(p) \/ ConfirmWon(p) \/ ConfirmLost(p)
ReplyStep ==
  \/ \E a \in asks : ReserveReply(a)
  \/ \E p \in pays : ConfirmReply(p)
  \/ ListReply
Broken == \/ \E a \in asks : ReserveBroken(a)
          \/ \E p \in pays : ConfirmBroken(p)
UserStep ==
  \/ \E g \in Groups : BookNew(g) \/ BookResume(g)
  \/ Close \/ Submit \/ CancelReservation
  \/ ReloadByUser \/ LeaveAndReturn \/ Refetch

Next == BackendStep \/ ReplyStep \/ Broken \/ UserStep
        \/ Expire \/ Others \/ Lapse \/ TimerFires

Spec == Init /\ [][Next]_vars

\* The server answers or the browser gives up (fetch rejects), for the requests a
\* mutation observes; clocks go on, and keys and timers end with them.
Fairness ==
  /\ WF_vars(\E a \in asks : a.live /\ (\/ ReserveFresh(a) \/ ReserveAgain(a)
                                        \/ ReserveRefused(a) \/ ReserveReply(a)))
  /\ WF_vars(\E p \in pays : p.live /\ (\/ ConfirmInvalid(p) \/ ConfirmRefused(p)
                                        \/ ConfirmAccepted(p) \/ ConfirmCleanup(p)
                                        \/ ConfirmWon(p) \/ ConfirmLost(p)
                                        \/ ConfirmReply(p)))
  /\ WF_vars(Lapse) /\ WF_vars(TimerFires)

LiveSpec == Spec /\ Fairness

-----------------------------------------------------------------------------
\* An open dialog belongs to the reservation the page has or waits for: answers
\* of mutations the user has moved on from never reach it.
DialogOfReservation ==
  dialog # {} => /\ resv.status = "pending" => dialog = resv.ids
                 /\ resv.status = "success" => dialog \cap resv.ids # {}

\* While the dialog waits there is one request it waits for, and it is for the
\* tickets in the dialog; when it does not wait no request is observed.
WaitsForItsRequest ==
  /\ resv.status = "pending" => \E a \in asks : a.live
  /\ \A a \in asks : a.live => resv.status = "pending" /\ a.ids = resv.ids

\* One opening of the page sends at most one confirm, whatever is closed, timed
\* out, reopened or clicked twice: no second charge behind the user's back.
OneConfirmPerPage == sent <= 1

\* "Booking Confirmed!" is shown only when the tickets of the confirm are booked.
ConfirmedIsBought == conf.status = "success" => conf.ids \subseteq bought

\* The page gives up a reservation it knows of by a click on Book only for
\* tickets the list marks as held by the user too.
KnownHoldKept ==
  [][resv.status = "success" /\ resv'.status = "pending" =>
       resv'.ids \cap list.mine # {}]_vars

\* The page is never stuck: an open dialog does not wait for ever for its hold, a
\* confirm is answered, and a counted reservation ends - whatever was closed,
\* replaced or lost in between.
NeverStuck ==
  /\ dialog # {} /\ Screen = "holding" ~> dialog = {} \/ Screen # "holding"
  /\ conf.status = "pending" ~> conf.status # "pending"
  /\ timer ~> ~ timer
=============================================================================
