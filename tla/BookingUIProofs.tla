--------------------------- MODULE BookingUIProofs ---------------------------
(***************************************************************************)
(* Theorems about the event page, for any tickets, groups and bounds.      *)
(***************************************************************************)
EXTENDS BookingUI, TLAPS

\* What the reservation says of itself; the timer belongs to one that succeeded.
ReservationInv ==
  /\ resv.status = "success" => resv.ids \in Groups /\ resv.token \in Tokens
  /\ timer => resv.status = "success"

\* At most one request is observed; only an observed one is still to be answered.
AsksInv ==
  /\ \A a \in asks : a.reply # None => a.live
  /\ \A a, b \in asks : a.live /\ b.live => a = b

HoldInv == ReservationInv /\ AsksInv /\ WaitsForItsRequest /\ DialogOfReservation

\* At most one confirm is observed, by the mutation that waits for it; one that
\* was won has its tickets booked.
PaysInv ==
  /\ \A p, q \in pays : p.live /\ q.live => p = q
  /\ \A p \in pays : p.live => conf.status = "pending" /\ p.ids = conf.ids
  /\ \A p \in pays : p.phase = "won" => p.live /\ p.ids \subseteq bought

SentInv == sent = IF conf.status = "idle" THEN 0 ELSE 1

PayInv == PaysInv /\ SentInv /\ ConfirmedIsBought

IInv == TypeOK /\ HoldInv /\ PayInv

-----------------------------------------------------------------------------
\* An unobserved request keeps its tickets and has no answer.
LEMMA UnobservedAsks ==
  ASSUME asks \subseteq Ask, NEW S \in SUBSET asks
  PROVE  /\ Unobserved(S) \subseteq Ask
         /\ \A a \in Unobserved(S) : ~ a.live /\ a.reply = None
  BY DEF Unobserved, Ask

\* An unobserved confirm keeps its tickets and its place at the server.
LEMMA UnobservedPaysAre ==
  ASSUME pays \subseteq Pay
  PROVE  /\ UnobservedPays \subseteq Pay
         /\ \A p \in UnobservedPays : ~ p.live /\ p.phase # "won"
  BY DEF UnobservedPays, Pay

\* A request that is answered keeps its tickets and its observer.
LEMMA AnsweredAsk ==
  ASSUME NEW a \in Ask, NEW r \in {Refused} \cup Tokens
  PROVE  LET b == [a EXCEPT !.reply = r]
         IN  b \in Ask /\ b.live = a.live /\ b.ids = a.ids /\ b.reply = r
  BY DEF Ask

\* A confirm that goes on keeps its tickets and its observer.
LEMMA PhasedPay ==
  ASSUME NEW p \in Pay, NEW s \in {"sent", "paying", "ending", "won", "failed"}
  PROVE  LET q == [p EXCEPT !.phase = s]
         IN  q \in Pay /\ q.live = p.live /\ q.ids = p.ids /\ q.phase = s
  BY DEF Pay

\* Other fields of the confirm mutation stay when its status changes.
LEMMA SettledConf ==
  ASSUME TypeOK, NEW s \in MutationStatus
  PROVE  LET c == [conf EXCEPT !.status = s]
         IN  /\ c \in [status: MutationStatus, ids: Groups \cup {{}}]
             /\ c.status = s /\ c.ids = conf.ids
  BY DEF TypeOK

-----------------------------------------------------------------------------
(* Types                                                                   *)

\* The server's answers to a reserve.
LEMMA TypeAsks ==
  ASSUME TypeOK, NEW a \in asks, ReserveFresh(a) \/ ReserveAgain(a) \/ ReserveRefused(a)
  PROVE  TypeOK'
<1> USE NoneAssumption, BoundsAssumption
<1>1. a \in Ask
  BY DEF TypeOK
<1>2. ASSUME NEW r \in {Refused} \cup Tokens, Answer(a, r)
      PROVE  asks' \subseteq Ask
  BY <1>1, <1>2, AnsweredAsk DEF TypeOK, Answer
<1>3. CASE ReserveFresh(a)
  <2>1. lastToken + 1 \in Tokens
    BY <1>3 DEF ReserveFresh, TypeOK, Tokens
  <2>2. hold' \in [Tickets -> Tokens \cup {None, Other}]
    BY <1>3, <2>1 DEF ReserveFresh, TypeOK
  <2>3. asks' \subseteq Ask
    BY <1>3, <1>2, <2>1 DEF ReserveFresh
  <2>4. lastToken' \in 0 .. MaxToken /\ lapsed' \in 0 .. lastToken'
    BY <1>3 DEF ReserveFresh, TypeOK
  <2> QED
    BY <1>3, <2>2, <2>3, <2>4 DEF ReserveFresh, TypeOK, page, query, Tokens
<1>4. CASE ReserveAgain(a)
  <2>1. PICK t \in Taken(a.ids) : Answer(a, hold[t])
    BY <1>4 DEF ReserveAgain
  <2>2. t \in Tickets /\ hold[t] \in Tokens
    <3>1. a.ids \subseteq Tickets
      BY <1>1, GroupsAssumption DEF Ask
    <3>2. t \in a.ids /\ hold[t] # None /\ hold[t] # Other
      BY <1>4, <2>1 DEF ReserveAgain, Taken
    <3> QED
      BY <3>1, <3>2 DEF TypeOK
  <2>3. asks' \subseteq Ask
    BY <1>2, <2>1, <2>2
  <2> QED
    BY <1>4, <2>3 DEF ReserveAgain, TypeOK, server, page, query, Tokens
<1>5. CASE ReserveRefused(a)
  <2>1. asks' \subseteq Ask
    BY <1>2, <1>5 DEF ReserveRefused
  <2> QED
    BY <1>5, <2>1 DEF ReserveRefused, TypeOK, server, page, query, Tokens
<1> QED
  BY <1>3, <1>4, <1>5

\* The steps of a confirm at the server.
LEMMA TypePays ==
  ASSUME TypeOK, NEW p \in pays,
         \/ ConfirmInvalid(p) \/ ConfirmRefused(p) \/ ConfirmAccepted(p)
         \/ ConfirmCleanup(p) \/ ConfirmWon(p) \/ ConfirmLost(p)
  PROVE  TypeOK'
<1>1. p \in Pay
  BY DEF TypeOK
<1>2. ASSUME NEW s \in {"sent", "paying", "ending", "won", "failed"}, Phase(p, s) \/ Over(p, s)
      PROVE  pays' \subseteq Pay
  <2>1. pays \subseteq Pay /\ [p EXCEPT !.phase = s] \in Pay
    BY <1>1, PhasedPay DEF TypeOK
  <2> QED
    BY <1>2, <2>1 DEF Phase, Over
<1>3. pays' \subseteq Pay
  BY <1>2 DEF ConfirmInvalid, ConfirmRefused, ConfirmAccepted, ConfirmCleanup, ConfirmWon, ConfirmLost
<1>4. hold' \in [Tickets -> Tokens \cup {None, Other}]
  BY DEF ConfirmInvalid, ConfirmRefused, ConfirmAccepted, ConfirmCleanup, ConfirmWon, ConfirmLost,
         TypeOK, Released, server
<1>5. bought' \subseteq Tickets
  <2>1. p.ids \subseteq Tickets
    BY <1>1, GroupsAssumption DEF Pay
  <2> QED
    BY <2>1 DEF ConfirmInvalid, ConfirmRefused, ConfirmAccepted, ConfirmCleanup, ConfirmWon,
                ConfirmLost, TypeOK, server
<1> QED
  BY <1>3, <1>4, <1>5 DEF ConfirmInvalid, ConfirmRefused, ConfirmAccepted, ConfirmCleanup, ConfirmWon,
     ConfirmLost, TypeOK, server, page, query, Tokens

\* Steps of the page and of its user.
LEMMA TypePage ==
  ASSUME TypeOK, HoldInv, UserStep \/ ReplyStep \/ Broken \/ Lapse \/ TimerFires
  PROVE  TypeOK'
<1> USE NoneAssumption, BoundsAssumption DEF Tokens
<1> DEFINE ConfType == [status: MutationStatus, ids: Groups \cup {{}}]
<1> DEFINE ResvType == [status: MutationStatus, ids: Groups \cup {{}},
                        token: Tokens \cup {None}]
<1>1. /\ asks \subseteq Ask /\ pays \subseteq Pay /\ UnobservedPays \subseteq Pay
      /\ \A S \in SUBSET asks : Unobserved(S) \subseteq Ask
  BY UnobservedAsks, UnobservedPaysAre DEF TypeOK
<1>2. Idle \in ResvType /\ NoConfirm \in ConfType
  BY DEF Idle, NoConfirm, MutationStatus
<1>3. \A s \in MutationStatus : [conf EXCEPT !.status = s] \in ConfType
  BY SettledConf
<1>4. ASSUME NEW g \in Groups, BookNew(g)
      PROVE  TypeOK'
  <2>1. [ids |-> g, live |-> TRUE, reply |-> None] \in Ask
    BY DEF Ask
  <2>2. [status |-> "pending", ids |-> g, token |-> None] \in ResvType
    BY DEF MutationStatus
  <2> QED
    BY <1>1, <1>4, <2>1, <2>2 DEF BookNew, TypeOK, server, query
<1>5. ASSUME NEW g \in Groups, BookResume(g)
      PROVE  TypeOK'
  BY <1>5 DEF BookResume, TypeOK, server, requests, query
<1>6. CASE Close
  BY <1>6 DEF Close, TypeOK, server, requests, query
<1>7. CASE Submit
  <2>1. dialog \in Groups /\ resv.token \in Tokens
    BY <1>7 DEF Submit, CanSubmit, HoldInv, ReservationInv, TypeOK
  <2>2. [ids |-> dialog, token |-> resv.token, live |-> TRUE, phase |-> "sent"] \in Pay
    BY <2>1 DEF Pay
  <2>3. [status |-> "pending", ids |-> dialog] \in ConfType
    BY <2>1 DEF MutationStatus
  <2>4. pays' \subseteq Pay /\ conf' \in ConfType
    BY <1>1, <1>7, <2>2, <2>3 DEF Submit
  <2>5. sent' \in Nat
    BY <1>7 DEF Submit, TypeOK
  <2> QED
    BY <1>7, <2>4, <2>5 DEF Submit, TypeOK, server, query
<1>8. ASSUME Reload, cancels' \subseteq Cancel
      PROVE  TypeOK'
  BY <1>1, <1>2, <1>8 DEF Reload, Fresh, TypeOK, server
<1>9. CASE ReloadByUser
  BY <1>8, <1>9 DEF ReloadByUser, TypeOK
<1>10. CASE CancelReservation
  <2>1. resv.status = "success" =>
          [ids |-> resv.ids, token |-> resv.token] \in Cancel
    BY DEF HoldInv, ReservationInv, Cancel
  <2>2. cancels' \subseteq Cancel
    BY <1>10, <2>1 DEF CancelReservation, TypeOK
  <2> QED
    BY <1>8, <1>10, <2>2 DEF CancelReservation
<1>11. CASE LeaveAndReturn
  BY <1>1, <1>2, <1>11 DEF LeaveAndReturn, Fresh, TypeOK, server
<1>12. CASE Refetch
  BY <1>12 DEF Refetch, TypeOK, server, requests, page
<1>13. ASSUME NEW a \in asks, ReserveReply(a)
       PROVE  TypeOK'
  <2>1. a \in Ask /\ a.ids \in Groups
    BY <1>1 DEF Ask
  <2>2. resv' \in ResvType
    BY <1>13, <2>1 DEF ReserveReply, MutationStatus, Ask, Refused
  <2>3. timer' \in BOOLEAN /\ fetching' \in BOOLEAN
    <3>1. a.reply \in Int /\ lapsed \in Int /\ (a.reply > lapsed) \in BOOLEAN
      BY <1>13, <2>1 DEF ReserveReply, TypeOK, Ask, Refused
    <3> QED
      BY <1>13, <3>1 DEF ReserveReply, TypeOK
  <2> QED
    BY <1>1, <1>13, <2>2, <2>3 DEF ReserveReply, TypeOK, server
<1>14. ASSUME NEW p \in pays, ConfirmReply(p)
       PROVE  TypeOK'
  <2>1. conf' \in ConfType
    BY <1>3, <1>14 DEF ConfirmReply, MutationStatus
  <2> QED
    BY <1>1, <1>14, <2>1 DEF ConfirmReply, TypeOK, server, query
<1>15. CASE ListReply
  BY <1>15 DEF ListReply, TypeOK, server, requests, page
<1>16. ASSUME NEW a \in asks, ReserveBroken(a)
       PROVE  TypeOK'
  <2>1. a.ids \in Groups
    BY <1>1 DEF Ask
  <2>2. [status |-> "error", ids |-> a.ids, token |-> None] \in ResvType
    BY <2>1 DEF MutationStatus
  <2>3. asks' \subseteq Ask
    BY <1>1, <1>16 DEF ReserveBroken
  <2> QED
    BY <1>16, <2>2, <2>3 DEF ReserveBroken, TypeOK, server, query
<1>17. ASSUME NEW p \in pays, ConfirmBroken(p)
       PROVE  TypeOK'
  <2>1. conf' \in ConfType
    BY <1>3, <1>17 DEF ConfirmBroken, MutationStatus
  <2> QED
    BY <1>1, <1>17, <2>1 DEF ConfirmBroken, TypeOK, server, query
<1>18. CASE Lapse
  BY <1>18 DEF Lapse, TypeOK, server, requests, page, query
<1>19. CASE TimerFires
  BY <1>2, <1>19 DEF TimerFires, TypeOK, server, requests
<1> QED
  BY <1>4, <1>5, <1>6, <1>7, <1>9, <1>10, <1>11, <1>12, <1>13, <1>14, <1>15,
     <1>16, <1>17, <1>18, <1>19 DEF UserStep, ReplyStep, Broken

\* Steps of the environment at the server.
LEMMA TypeServer ==
  ASSUME TypeOK, (\E x \in cancels : CancelHandled(x)) \/ Expire \/ Others
  PROVE  TypeOK'
<1>1. hold' \in [Tickets -> Tokens \cup {None, Other}]
  BY DEF CancelHandled, Expire, Others, Released, TypeOK
<1>2. cancels' \subseteq Cancel
  BY DEF CancelHandled, Expire, Others, TypeOK, requests
<1> QED
  BY <1>1, <1>2 DEF CancelHandled, Expire, Others, TypeOK, requests, page, query, Tokens

\* Every step keeps the types.
LEMMA TypeStep ==
  ASSUME TypeOK, HoldInv, [Next]_vars
  PROVE  TypeOK'
<1>1. CASE UNCHANGED vars
  BY <1>1 DEF vars, server, requests, page, query, TypeOK, Tokens
<1>2. CASE BackendStep
  BY <1>2, TypeAsks, TypePays, TypeServer DEF BackendStep
<1> QED
  BY <1>1, <1>2, TypePage, TypeServer DEF Next
-----------------------------------------------------------------------------
(* The reservation, its requests and the dialog                            *)

\* Steps that leave them alone.
LEMMA HoldFrame ==
  ASSUME HoldInv, UNCHANGED <<asks, resv, dialog, timer>>
  PROVE  HoldInv'
  BY DEF HoldInv, ReservationInv, AsksInv, WaitsForItsRequest, DialogOfReservation, Tokens

\* The page starts anew: nothing is observed, the dialog is closed.
LEMMA HoldFresh ==
  ASSUME asks' \subseteq Ask, \A a \in asks' : ~ a.live /\ a.reply = None,
         resv' = Idle, dialog' = {}, timer' = FALSE
  PROVE  HoldInv'
  BY DEF HoldInv, ReservationInv, AsksInv, WaitsForItsRequest, DialogOfReservation, Idle

\* The server answers: the request keeps its place.
LEMMA HoldAnswer ==
  ASSUME TypeOK, HoldInv, NEW a \in asks, a.reply = None,
         NEW r \in {Refused} \cup Tokens, Answer(a, r),
         UNCHANGED <<resv, dialog, timer>>
  PROVE  HoldInv'
<1> DEFINE b == [a EXCEPT !.reply = r]
<1>1. b \in Ask /\ b.live = a.live /\ b.ids = a.ids /\ b.reply = r
  BY AnsweredAsk DEF TypeOK
<1>2. asks' = (asks \ {a}) \cup (IF a.live THEN {b} ELSE {})
  BY DEF Answer
<1> HIDE DEF b
<1>3. AsksInv'
  BY <1>1, <1>2 DEF HoldInv, AsksInv
<1>4. WaitsForItsRequest'
  BY <1>1, <1>2 DEF HoldInv, WaitsForItsRequest
<1> QED
  BY <1>3, <1>4 DEF HoldInv, ReservationInv, DialogOfReservation, Tokens

\* Every step keeps the reservation, its request and the dialog together.
LEMMA HoldStep ==
  ASSUME TypeOK, HoldInv, [Next]_vars
  PROVE  HoldInv'
<1> USE DEF HoldInv
<1>1. asks \subseteq Ask
  BY DEF TypeOK
<1>2. ASSUME NEW a \in asks, ReserveFresh(a) \/ ReserveAgain(a) \/ ReserveRefused(a)
      PROVE  HoldInv'
  <2>1. a.reply = None /\ UNCHANGED <<resv, dialog, timer>>
    BY <1>2 DEF ReserveFresh, ReserveAgain, ReserveRefused, page
  <2>2. \E r \in {Refused} \cup Tokens : Answer(a, r)
    <3>1. CASE ReserveFresh(a)
      <4>1. lastToken + 1 \in Tokens
        BY <3>1, BoundsAssumption DEF ReserveFresh, TypeOK, Tokens
      <4> QED
        BY <3>1, <4>1 DEF ReserveFresh
    <3>2. CASE ReserveAgain(a)
      <4>1. PICK t \in Taken(a.ids) : Answer(a, hold[t])
        BY <3>2 DEF ReserveAgain
      <4>2. t \in Tickets
        BY <1>1, <4>1, GroupsAssumption DEF Taken, Ask
      <4>3. hold[t] \in Tokens
        BY <3>2, <4>1, <4>2 DEF ReserveAgain, Taken, TypeOK
      <4> QED
        BY <4>1, <4>3
    <3>3. CASE ReserveRefused(a)
      BY <3>3 DEF ReserveRefused
    <3> QED
      BY <1>2, <3>1, <3>2, <3>3
  <2> QED
    BY <2>1, <2>2, HoldAnswer
<1>3. ASSUME NEW g \in Groups, BookNew(g)
      PROVE  HoldInv'
  <2> DEFINE n == [ids |-> g, live |-> TRUE, reply |-> None]
  <2>1. /\ asks' = Unobserved(asks) \cup {n}
        /\ \A a \in Unobserved(asks) : ~ a.live /\ a.reply = None
    BY <1>1, <1>3, UnobservedAsks DEF BookNew
  <2>2. n.ids = g /\ n.live /\ n.reply = None
    OBVIOUS
  <2>3. resv'.status = "pending" /\ resv'.ids = g /\ timer' = FALSE /\ dialog' = g
    BY <1>3 DEF BookNew
  <2> HIDE DEF n
  <2>4. AsksInv'
    BY <2>1, <2>2 DEF AsksInv
  <2>5. WaitsForItsRequest'
    BY <2>1, <2>2, <2>3 DEF WaitsForItsRequest
  <2> QED
    BY <2>3, <2>4, <2>5 DEF ReservationInv, DialogOfReservation
<1>4. ASSUME NEW g \in Groups, BookResume(g)
      PROVE  HoldInv'
  <2>1. DialogOfReservation'
    BY <1>4 DEF BookResume, HeldIds, DialogOfReservation
  <2> QED
    BY <1>4, <2>1 DEF BookResume, requests, ReservationInv, AsksInv,
                      WaitsForItsRequest, Tokens
<1>5. CASE Close
  BY <1>5 DEF Close, requests, ReservationInv, AsksInv, WaitsForItsRequest,
              DialogOfReservation, Tokens
<1>6. ASSUME NEW a \in asks, ReserveReply(a)
      PROVE  HoldInv'
  <2>1. /\ a.live /\ resv.status = "pending" /\ a.ids = resv.ids
        /\ \A b \in asks' : ~ b.live
        /\ \A b \in asks' : b.reply = None
    BY <1>6 DEF ReserveReply, AsksInv, WaitsForItsRequest
  <2>2. a.ids \in Groups /\ a.ids # {} /\ a.reply \in {Refused} \cup Tokens
    BY <1>1, <1>6, GroupsAssumption DEF ReserveReply, Ask
  <2>3. resv'.ids = a.ids /\ resv'.status \in {"error", "success"}
    BY <1>6 DEF ReserveReply
  <2>4. DialogOfReservation'
    BY <1>6, <2>1, <2>2, <2>3 DEF ReserveReply, DialogOfReservation
  <2>5. ReservationInv'
    <3>1. ~ timer
      BY <2>1 DEF ReservationInv
    <3> QED
      BY <1>6, <2>2, <3>1 DEF ReserveReply, ReservationInv, Tokens
  <2> QED
    BY <2>1, <2>3, <2>4, <2>5 DEF AsksInv, WaitsForItsRequest
<1>7. ASSUME NEW a \in asks, ReserveBroken(a)
      PROVE  HoldInv'
  <2>1. \A b \in asks' : ~ b.live /\ b.reply = None
    <3>1. \A b \in asks : b # a => ~ b.live /\ b.reply = None
      BY <1>7 DEF ReserveBroken, AsksInv
    <3>2. \A b \in Unobserved({a}) : ~ b.live /\ b.reply = None
      BY <1>1, UnobservedAsks
    <3> QED
      BY <1>7, <3>1, <3>2 DEF ReserveBroken
  <2>2. resv.status = "pending" /\ resv'.status = "error" /\ ~ timer'
    BY <1>7 DEF ReserveBroken, WaitsForItsRequest, ReservationInv
  <2> QED
    BY <1>7, <2>1, <2>2 DEF ReserveBroken, ReservationInv, AsksInv,
                            WaitsForItsRequest, DialogOfReservation
<1>8. CASE TimerFires
  <2>1. \A a \in asks' : ~ a.live /\ a.reply = None
    BY <1>8 DEF TimerFires, requests, ReservationInv, AsksInv, WaitsForItsRequest
  <2> QED
    BY <1>1, <1>8, <2>1, HoldFresh DEF TimerFires, requests
<1>9. ASSUME Fresh, asks' \subseteq Unobserved(asks)
      PROVE  HoldInv'
  BY <1>1, <1>9, UnobservedAsks, HoldFresh DEF Fresh
<1>10. CASE ReloadByUser \/ CancelReservation \/ LeaveAndReturn
  BY <1>9, <1>10 DEF ReloadByUser, CancelReservation, LeaveAndReturn, Reload
<1>11. ASSUME UNCHANGED <<asks, resv, dialog, timer>>
       PROVE  HoldInv'
  BY <1>11, HoldFrame
<1>12. CASE Submit \/ Refetch \/ ListReply \/ Expire \/ Others \/ Lapse \/ UNCHANGED vars
  BY <1>11, <1>12 DEF Submit, Refetch, ListReply, Expire, Others, Lapse, vars,
                      requests, page
<1>13. ASSUME NEW p \in pays,
              \/ ConfirmInvalid(p) \/ ConfirmRefused(p) \/ ConfirmAccepted(p)
              \/ ConfirmCleanup(p) \/ ConfirmWon(p) \/ ConfirmLost(p) \/ ConfirmReply(p) \/ ConfirmBroken(p)
       PROVE  HoldInv'
  BY <1>11, <1>13 DEF ConfirmInvalid, ConfirmRefused, ConfirmAccepted, ConfirmCleanup, ConfirmWon,
                      ConfirmLost, ConfirmReply, ConfirmBroken, page
<1>14. ASSUME NEW x \in cancels, CancelHandled(x)
       PROVE  HoldInv'
  BY <1>11, <1>14 DEF CancelHandled, page
<1> QED
  BY <1>2, <1>3, <1>4, <1>5, <1>6, <1>7, <1>8, <1>10, <1>12, <1>13, <1>14
  DEF Next, BackendStep, ReplyStep, Broken, UserStep
-----------------------------------------------------------------------------
(* The confirm and its requests                                            *)

\* Steps that leave them alone.
LEMMA PayFrame ==
  ASSUME PayInv, UNCHANGED <<pays, conf, sent, bought>>
  PROVE  PayInv'
  BY DEF PayInv, PaysInv, SentInv, ConfirmedIsBought

\* A confirm gets on at the server; when it is won, its tickets are booked and
\* somebody waits for the answer.
LEMMA PayGoesOn ==
  ASSUME TypeOK, PayInv, NEW p \in pays, NEW s \in {"sent", "paying", "ending", "won", "failed"},
         Phase(p, s), bought \subseteq bought',
         s = "won" => p.live /\ p.ids \subseteq bought',
         UNCHANGED <<conf, sent>>
  PROVE  PayInv'
<1> DEFINE q == [p EXCEPT !.phase = s]
<1>1. q \in Pay /\ q.live = p.live /\ q.ids = p.ids /\ q.phase = s
  <2>1. p \in Pay
    BY DEF TypeOK
  <2> QED
    BY <2>1, PhasedPay
<1>2. pays' = (pays \ {p}) \cup {q}
  BY DEF Phase
<1> HIDE DEF q
<1>3. \A r \in pays' : r = q \/ (r \in pays /\ r # p)
  BY <1>2
<1>4. PaysInv'
  <2>1. \A r, u \in pays' : r.live /\ u.live => r = u
    BY <1>1, <1>3 DEF PayInv, PaysInv
  <2>2. \A r \in pays' : r.live => conf'.status = "pending" /\ r.ids = conf'.ids
    BY <1>1, <1>3 DEF PayInv, PaysInv
  <2>3. \A r \in pays' : r.phase = "won" => r.live /\ r.ids \subseteq bought'
    BY <1>1, <1>3 DEF PayInv, PaysInv
  <2> QED
    BY <2>1, <2>2, <2>3 DEF PaysInv
<1> QED
  BY <1>4 DEF PayInv, SentInv, ConfirmedIsBought

\* Confirms that are dropped, or that nobody observes any more, do no harm.
LEMMA PayDropped ==
  ASSUME PayInv, pays' \subseteq pays, UNCHANGED <<conf, sent>>, bought \subseteq bought'
  PROVE  PayInv'
  BY DEF PayInv, PaysInv, SentInv, ConfirmedIsBought

\* When nothing is observed, only the confirm itself has to be right.
LEMMA PayUnobserved ==
  ASSUME \A p \in pays' : ~ p.live /\ p.phase # "won", SentInv', ConfirmedIsBought'
  PROVE  PayInv'
  BY DEF PayInv, PaysInv

\* Every step keeps the confirm and its request together.
LEMMA PayStep ==
  ASSUME TypeOK, HoldInv, PayInv, [Next]_vars
  PROVE  PayInv'
<1>1. pays \subseteq Pay
  BY DEF TypeOK
<1>2. \A p \in UnobservedPays : ~ p.live /\ p.phase # "won"
  BY <1>1, UnobservedPaysAre
<1>3. ASSUME NEW p \in pays,
             ConfirmInvalid(p) \/ ConfirmRefused(p) \/ ConfirmAccepted(p)
             \/ ConfirmCleanup(p) \/ ConfirmLost(p)
      PROVE  PayInv'
  <2>1. UNCHANGED <<conf, sent, bought>>
    BY <1>3 DEF ConfirmInvalid, ConfirmRefused, ConfirmAccepted, ConfirmCleanup, ConfirmLost, server, page
  <2>2. CASE Phase(p, "paying")
    BY <2>1, <2>2, PayGoesOn
  <2>5. CASE Phase(p, "ending")
    BY <2>1, <2>5, PayGoesOn
  <2>3. CASE Phase(p, "failed")
    BY <2>1, <2>3, PayGoesOn
  <2>4. CASE pays' = pays \ {p}
    BY <2>1, <2>4, PayDropped
  <2> QED
    BY <1>3, <2>2, <2>3, <2>4, <2>5
    DEF ConfirmInvalid, ConfirmRefused, ConfirmAccepted, ConfirmCleanup, ConfirmLost, Over
<1>4. ASSUME NEW p \in pays, ConfirmWon(p)
      PROVE  PayInv'
  <2>1. bought' = bought \cup p.ids /\ UNCHANGED <<conf, sent>>
    BY <1>4 DEF ConfirmWon, page
  <2>2. CASE p.live
    BY <1>4, <2>1, <2>2, PayGoesOn DEF ConfirmWon, Over
  <2>3. CASE ~ p.live
    BY <1>4, <2>1, <2>3, PayDropped DEF ConfirmWon, Over
  <2> QED
    BY <2>2, <2>3
<1>5. CASE Submit
  <2> DEFINE n == [ids |-> dialog, token |-> resv.token, live |-> TRUE, phase |-> "sent"]
  <2>1. conf.status = "idle"
    BY <1>5 DEF Submit, CanSubmit, Screen, TypeOK, MutationStatus
  <2>2. \A p \in pays : ~ p.live /\ p.phase # "won"
    BY <2>1 DEF PayInv, PaysInv
  <2>3. n.live /\ n.ids = dialog /\ n.phase = "sent"
    OBVIOUS
  <2>4. /\ pays' = pays \cup {n} /\ sent' = sent + 1 /\ bought' = bought
        /\ conf'.status = "pending" /\ conf'.ids = dialog
    BY <1>5 DEF Submit, server
  <2> HIDE DEF n
  <2>5. PaysInv'
    BY <2>2, <2>3, <2>4 DEF PaysInv
  <2>6. SentInv'
    BY <2>1, <2>4 DEF PayInv, SentInv
  <2> QED
    BY <2>4, <2>5, <2>6 DEF PayInv, ConfirmedIsBought
<1>6. ASSUME NEW p \in pays, ConfirmReply(p)
      PROVE  PayInv'
  <2>1. /\ p.live /\ conf.status = "pending" /\ p.ids = conf.ids
        /\ \A q \in pays' : ~ q.live /\ q.phase # "won"
    BY <1>6 DEF ConfirmReply, PayInv, PaysInv
  <2>2. CASE p.phase = "won"
    <3>1. conf' = [conf EXCEPT !.status = "success"]
      BY <1>6, <2>2 DEF ConfirmReply
    <3>2. conf'.status = "success" /\ conf'.ids = conf.ids
      BY <3>1, SettledConf DEF MutationStatus
    <3>3. conf.ids \subseteq bought
      BY <2>1, <2>2 DEF PayInv, PaysInv
    <3> QED
      BY <1>6, <2>1, <3>2, <3>3, PayUnobserved
      DEF ConfirmReply, PayInv, SentInv, ConfirmedIsBought, server
  <2>3. CASE p.phase # "won"
    <3>1. conf' = [conf EXCEPT !.status = "error"]
      BY <1>6, <2>3 DEF ConfirmReply
    <3>2. conf'.status = "error"
      BY <3>1, SettledConf DEF MutationStatus
    <3> QED
      BY <1>6, <2>1, <3>2, PayUnobserved
      DEF ConfirmReply, PayInv, SentInv, ConfirmedIsBought
  <2> QED
    BY <2>2, <2>3
<1>7. ASSUME NEW p \in pays, ConfirmBroken(p)
      PROVE  PayInv'
  <2>1. conf.status = "pending" /\ \A q \in pays \ {p} : ~ q.live /\ q.phase # "won"
    BY <1>7 DEF ConfirmBroken, PayInv, PaysInv
  <2>2. \A q \in pays' : ~ q.live /\ q.phase # "won"
    BY <1>2, <1>7, <2>1 DEF ConfirmBroken
  <2>3. conf'.status = "error"
    BY <1>7, SettledConf DEF ConfirmBroken, MutationStatus
  <2> QED
    BY <1>7, <2>1, <2>2, <2>3, PayUnobserved
    DEF ConfirmBroken, PayInv, SentInv, ConfirmedIsBought
<1>8. ASSUME Fresh, pays' \subseteq UnobservedPays
      PROVE  PayInv'
  BY <1>2, <1>8, PayUnobserved DEF Fresh, NoConfirm, SentInv, ConfirmedIsBought
<1>9. CASE ReloadByUser \/ CancelReservation \/ LeaveAndReturn
  BY <1>8, <1>9 DEF ReloadByUser, CancelReservation, LeaveAndReturn, Reload
<1>10. ASSUME UNCHANGED <<pays, conf, sent, bought>>
       PROVE  PayInv'
  BY <1>10, PayFrame
<1>11. ASSUME NEW a \in asks,
              \/ ReserveFresh(a) \/ ReserveAgain(a) \/ ReserveRefused(a)
              \/ ReserveReply(a) \/ ReserveBroken(a)
       PROVE  PayInv'
  BY <1>10, <1>11 DEF ReserveFresh, ReserveAgain, ReserveRefused, ReserveReply,
                      ReserveBroken, page, server
<1>12. ASSUME NEW g \in Groups, BookNew(g) \/ BookResume(g)
       PROVE  PayInv'
  BY <1>10, <1>12 DEF BookNew, BookResume, server, requests
<1>13. ASSUME NEW x \in cancels, CancelHandled(x)
       PROVE  PayInv'
  BY <1>10, <1>13 DEF CancelHandled, page
<1>14. CASE \/ Close \/ Refetch \/ ListReply \/ Expire \/ Others \/ Lapse
            \/ TimerFires \/ UNCHANGED vars
  BY <1>10, <1>14 DEF Close, Refetch, ListReply, Expire, Others, Lapse, TimerFires,
                      vars, server, requests, page
<1> QED
  BY <1>3, <1>4, <1>5, <1>6, <1>7, <1>9, <1>11, <1>12, <1>13, <1>14
  DEF Next, BackendStep, ReplyStep, Broken, UserStep

-----------------------------------------------------------------------------
(* The theorems                                                            *)

\* A page that has just been opened.
LEMMA InitIInv == Init => IInv
<1> SUFFICES ASSUME Init PROVE IInv
  OBVIOUS
<1>1. TypeOK
  <2>1. /\ Idle \in [status: MutationStatus, ids: Groups \cup {{}}, token: Tokens \cup {None}]
        /\ NoConfirm \in [status: MutationStatus, ids: Groups \cup {{}}]
    BY DEF Idle, NoConfirm, MutationStatus
  <2>2. 0 \in 0 .. MaxToken /\ 0 \in 0 .. 0
    BY BoundsAssumption
  <2>3. [t \in Tickets |-> None] \in [Tickets -> Tokens \cup {None, Other}]
    OBVIOUS
  <2> QED
    BY <2>1, <2>2, <2>3 DEF Init, TypeOK
<1>2. HoldInv
  BY DEF Init, HoldInv, ReservationInv, AsksInv, WaitsForItsRequest,
         DialogOfReservation, Idle
<1>3. PayInv
  BY DEF Init, PayInv, PaysInv, SentInv, ConfirmedIsBought, NoConfirm
<1> QED
  BY <1>1, <1>2, <1>3 DEF IInv

\* The inductive invariant.
LEMMA Invariance == Spec => []IInv
<1>1. IInv /\ [Next]_vars => IInv'
  BY TypeStep, HoldStep, PayStep DEF IInv
<1> QED
  BY <1>1, InitIInv, PTL DEF Spec

\* Every variable of the page and of what it knows of the server keeps its type.
THEOREM PageTypeCorrect == Spec => []TypeOK
  BY Invariance, PTL DEF IInv

\* handleBook and the mutation's observer: an open dialog belongs to the
\* reservation the page has or waits for, however late other answers come.
THEOREM DialogShowsItsReservation == Spec => []DialogOfReservation
  BY Invariance, PTL DEF IInv, HoldInv

\* useCreateReservation: a page that waits does so for exactly one request, the
\* one for the tickets of its dialog.
THEOREM PageWaitsForItsRequest == Spec => []WaitsForItsRequest
  BY Invariance, PTL DEF IInv, HoldInv

\* onSubmit: one opening of the page never sends a second confirm.
THEOREM ConfirmedOnce == Spec => []OneConfirmPerPage
<1>1. IInv => OneConfirmPerPage
  BY DEF IInv, PayInv, SentInv, OneConfirmPerPage
<1> QED
  BY <1>1, Invariance, PTL

\* BookingModal: "Booking Confirmed!" only when the tickets are booked.
THEOREM ConfirmationTrue == Spec => []ConfirmedIsBought
  BY Invariance, PTL DEF IInv, PayInv

\* isBlocked and handleBook: a reservation the page knows of is given up by a click
\* only for tickets the list shows as held by the user too.
THEOREM HoldsKept == Spec => KnownHoldKept
<1> DEFINE Kept == resv.status = "success" /\ resv'.status = "pending" =>
                     resv'.ids \cap list.mine # {}
<1>1. ASSUME IInv, [Next]_vars, resv.status = "success", resv'.status = "pending"
      PROVE  resv'.ids \cap list.mine # {}
  <2>1. PICK g \in Groups : BookNew(g)
    <3>1. resv' # resv
      BY <1>1
    <3>2. \A a \in asks : ~ ReserveReply(a) /\ ~ ReserveBroken(a)
      BY <1>1 DEF ReserveReply, ReserveBroken
    <3>3. ~ Fresh /\ ~ TimerFires
      BY <1>1 DEF Fresh, TimerFires, Idle
    <3>4. ~ BackendStep
      BY <3>1 DEF BackendStep, ReserveFresh, ReserveAgain, ReserveRefused, CancelHandled,
                  ConfirmInvalid, ConfirmRefused, ConfirmAccepted, ConfirmCleanup, ConfirmWon, ConfirmLost, page
    <3>5. ~ ReplyStep /\ ~ Broken
      BY <3>1, <3>2 DEF ReplyStep, Broken, ConfirmReply, ConfirmBroken, ListReply, page
    <3>6. ~ Expire /\ ~ Others /\ ~ Lapse /\ ~ UNCHANGED vars
      BY <3>1 DEF Expire, Others, Lapse, vars, page
    <3>7. UserStep
      BY <1>1, <3>3, <3>4, <3>5, <3>6 DEF Next
    <3> QED
      BY <3>1, <3>3, <3>7 DEF UserStep, BookResume, Close, Submit, CancelReservation,
         ReloadByUser, Reload, LeaveAndReturn, Refetch, page
  <2>2. HeldIds # {}
    BY <1>1, GroupsAssumption DEF IInv, HoldInv, ReservationInv, HeldIds
  <2>3. g \cap HeldIds = {} /\ resv'.ids = g /\ ~ IsBlocked(g)
    BY <2>1 DEF BookNew
  <2>4. g \cap (list.mine \cup HeldIds) # {}
    BY <2>2, <2>3 DEF IsBlocked, AnyHeld, IsHeld
  <2> QED
    BY <2>3, <2>4
<1>2. IInv /\ [Next]_vars => [Kept]_vars
  BY <1>1
<1> QED
  BY <1>2, Invariance, PTL DEF Spec, KnownHoldKept
=============================================================================
