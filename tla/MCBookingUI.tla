---------------------------- MODULE MCBookingUI ----------------------------
(* Small instances of BookingUI for TLC.                                   *)
EXTENDS BookingUIClaims

\* Single seats.
Singles == {{t} : t \in Tickets}

\* Groups of one and of two adjacent seats.
AnyGroup == (SUBSET Tickets) \ {{}}
=============================================================================
