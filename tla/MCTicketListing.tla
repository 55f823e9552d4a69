--------------------------- MODULE MCTicketListing ---------------------------
(* Small instances of TicketListing for TLC.                               *)
EXTENDS TicketListing, TLC

Symmetry == Permutations(Users) \cup Permutations(Confirms)
=============================================================================
