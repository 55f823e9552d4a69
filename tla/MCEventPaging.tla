--------------------------- MODULE MCEventPaging ---------------------------
(* Small instances of EventPaging for TLC.                                 *)
EXTENDS EventPaging

Event(start, type, name, id) == [start |-> start, type |-> type, name |-> name, id |-> id]

\* Neighbours that differ first in the start, the type, the name, or only in the
\* id, with the columns behind that one in the opposite order.
Ties == {Event(0, 2, 2, 4), Event(1, 1, 1, 3), Event(1, 1, 2, 1), Event(1, 1, 2, 2),
         Event(1, 2, 1, 0), Event(2, 1, 1, 0)}
=============================================================================
