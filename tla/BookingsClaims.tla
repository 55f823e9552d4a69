--------------------------- MODULE BookingsClaims ---------------------------
(***************************************************************************)
(* What the repository's documentation, comments and tests say of the      *)
(* booking flow and its code does not do. Each operator states one claim;  *)
(* a run of its own shows a behaviour of Bookings that refutes it.         *)
(***************************************************************************)
EXTENDS Bookings

\* bookings.service.ts:43-46, README:210: all tickets of a reservation share its
\* token, so the token a reserve answers with is the one its tickets are held under.
GrantIsHeld ==
  [][\A g \in granted' \ granted : \A k \in g.ids :
       hold'[k] # None /\ hold'[k].token = g.token]_vars

\* README:244: cancel and confirm verify token and user before taking any action.
\* So their DELs, each a round trip or more after the MGET that verified, take away
\* no hold but the request's own.
CleanupOwnHolds ==
  [][/\ \A c \in Confirms : pc[c] = "cleanup" /\ pc'[c] = "ending" =>
          \A k \in req[c].ids : hold[k] = None \/ HeldBy(req[c], k)
     /\ \A x \in Cancellers : doomed[x] # None /\ doomed'[x] = None =>
          \A k \in doomed[x].keys : hold[k] = None \/ hold[k].token = doomed[x].token]_vars
=============================================================================
