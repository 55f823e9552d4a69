----------------------------- MODULE MCBookings -----------------------------
(* Small instances of Bookings for TLC.                                    *)
EXTENDS BookingsClaims, TLC

Symmetry == Permutations(Users) \cup Permutations(Tickets) \cup Permutations(Confirms)
=============================================================================
