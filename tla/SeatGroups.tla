----------------------------- MODULE SeatGroups -----------------------------
(***************************************************************************)
(* EventsService.findTickets as a function of what it read: the order of   *)
(* the tickets, the over-fetched window, the groups of adjacent seats and  *)
(* the cursor of the next page; with a definition of the groups that does  *)
(* not scan, to compare the scan with.                                     *)
(***************************************************************************)
EXTENDS Integers, SequencesExt, OrderBy

CONSTANTS NoCursor,    \* no cursor in the query, nextCursor null in the reply
          AllSections  \* no section in the query

\* ORDER BY section, seat_number; also the cursor comparison of the query.
Before(a, b) == \/ a.section < b.section
                \/ a.section = b.section /\ a.number < b.number

Ordered(S) == OrderBy(S, {p \in S \X S : Before(p[1], p[2])})

Prefix(s, n) == SubSeq(s, 1, Min({n, Len(s)}))

\* Mutant: the inner loop does not compare sections.
IsRunAcrossSections(s, i, q) ==
  /\ i + q - 1 <= Len(s)
  /\ \A j \in 1 .. q - 1 : s[i + j].number = s[i].number + j

\* The inner loop started at i gets to q tickets.
IsRun(s, i, q) ==
  /\ i + q - 1 <= Len(s)
  /\ \A j \in 1 .. q - 1 : /\ s[i + j].section = s[i].section
                           /\ s[i + j].number = s[i].number + j

\* The scan from each position on: a run is taken whole, a ticket that starts
\* none is skipped.
Scan(s, q) ==
  LET from[i \in 1 .. Len(s) + 1] ==
        IF i > Len(s) THEN <<>>
        ELSE IF IsRun(s, i, q) THEN <<SubSeq(s, i, i + q - 1)>> \o from[i + q]
        ELSE from[i + 1]
  IN  from

\* The scan from the first ticket on stops at maxGroups groups.
GroupConsecutive(s, q, maxGroups) == Prefix(Scan(s, q)[1], maxGroups)

\* Raw tickets fetched to form limit + 1 groups.
Take(limit, q) == (limit + 1) * q * 2

\* Mutant: the cursor's own ticket is fetched again (>= for >).
InRangeInclusive(S, section, cursor) ==
  {t \in S : /\ section \in {AllSections, t.section}
             /\ cursor # NoCursor => cursor = t \/ Before(cursor, t)}

\* The WHERE clauses on section and cursor.
InRange(S, section, cursor) ==
  {t \in S : /\ section \in {AllSections, t.section}
             /\ cursor # NoCursor => Before(cursor, t)}

\* The page and its cursor, from the tickets left after the MGET.
PageOf(available, q, limit) ==
  LET groups == GroupConsecutive(available, q, limit + 1)
      hasMore == Len(groups) > limit
      page == Prefix(groups, limit)
  IN  [groups  |-> page,
       hasMore |-> hasMore,
       next    |-> IF hasMore THEN Last(Last(page)) ELSE NoCursor]

\* The reply when the tickets of unbooked have no booking and those of held are
\* held by others: the filter after the MGET keeps the window's order.
FindTickets(unbooked, held, section, cursor, q, limit) ==
  LET window == Prefix(Ordered(InRange(unbooked, section, cursor)), Take(limit, q))
  IN  PageOf(Ordered(ToSet(window) \ held), q, limit)

-----------------------------------------------------------------------------
(* Reference: cut every maximal block of adjacent seats into groups of q   *)
(* from its first seat on.                                                 *)

Seat(section, number) == [section |-> section, number |-> number]

RunFrom(t, q) == {Seat(t.section, n) : n \in t.number .. t.number + q - 1}

BlockStart(t, S) ==
  Min({n \in 0 .. t.number : \A m \in n .. t.number : Seat(t.section, m) \in S})

BlockGroups(S, q) ==
  {RunFrom(t, q) : t \in {x \in S : /\ RunFrom(x, q) \subseteq S
                                    /\ (x.number - BlockStart(x, S)) % q = 0}}

SeatsOf(group) == {group[i] : i \in DOMAIN group}
GroupSets(groups) == {SeatsOf(groups[i]) : i \in DOMAIN groups}
=============================================================================
