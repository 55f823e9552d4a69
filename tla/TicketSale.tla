----------------------------- MODULE TicketSale -----------------------------
(***************************************************************************)
(* What the booking service promises about sales, whatever happens to      *)
(* holds, connections and processes: a ticket is sold at most once, an     *)
(* order is sold whole or not at all, only an order whose card was charged *)
(* is sold, and every ticket of a sold order has its payment record.       *)
(* Module Bookings implements this one with Redis holds, a database        *)
(* transaction per confirm request and a payment processor.                *)
(***************************************************************************)
CONSTANTS Orders,   \* confirm requests: each sells at most once
          Buyers,   \* users
          Seats     \* tickets on sale

VARIABLES sold,     \* committed booking rows
          paid,     \* committed payment records
          charged   \* orders the payment processor has charged

saleVars == <<sold, paid, charged>>

SaleRow == [order: Orders, ticket: Seats, user: Buyers]

SaleTypeOK == /\ sold \subseteq SaleRow
              /\ paid \subseteq SaleRow
              /\ charged \subseteq Orders

SaleInit == sold = {} /\ paid = {} /\ charged = {}

\* The processor takes the money of some orders; it never gives it back.
Charge(O) == /\ charged' = charged \cup O
             /\ UNCHANGED <<sold, paid>>

\* A charged order o takes the seats S, all unsold, for buyer u: bookings and
\* payment records appear together.
Sell(o, u, S) ==
  LET lines == {[order |-> o, ticket |-> t, user |-> u] : t \in S}
  IN  /\ S # {}
      /\ o \in charged
      /\ \A row \in sold : row.order # o /\ row.ticket \notin S
      /\ sold' = sold \cup lines
      /\ paid' = paid \cup lines
      /\ UNCHANGED charged

SaleNext == \/ \E O \in SUBSET Orders : Charge(O)
            \/ \E o \in Orders, u \in Buyers, S \in SUBSET Seats : Sell(o, u, S)

SaleSpec == SaleInit /\ [][SaleNext]_saleVars
=============================================================================
