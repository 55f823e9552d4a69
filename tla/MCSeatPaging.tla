---------------------------- MODULE MCSeatPaging ----------------------------
(* Small instances of SeatPaging for TLC.                                  *)
EXTENDS SeatPaging

\* Two sections whose seat numbers run on, so that only the section separates
\* seat 3 from seat 4.
TwoSections == {Seat(1, n) : n \in 1 .. 3} \cup {Seat(2, n) : n \in 4 .. 5}

\* One section longer than the window of a page of one single ticket.
OneSection == {Seat(1, n) : n \in 1 .. 5}
=============================================================================
