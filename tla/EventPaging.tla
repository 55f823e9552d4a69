----------------------------- MODULE EventPaging -----------------------------
(***************************************************************************)
(* The event list: EventsPage walking with a cursor and a stack of cursors *)
(* through EventsService.findAll, a keyset pagination over four columns.   *)
(* Nothing changes an event while the service runs, so the catalog stays;  *)
(* its timestamps are whole milliseconds, as JavaScript dates are, and     *)
(* toISOString loses nothing of them.                                      *)
(***************************************************************************)
EXTENDS Integers, SequencesExt, OrderBy

CONSTANTS Events,     \* records of start, type, name and id
          PageLimit,  \* events per page
          NoCursor    \* no cursor in the query, nextCursor null in the reply

ASSUME EventsAssumption ==
  /\ IsFiniteSet(Events)
  /\ Events \subseteq [start: Int, type: Int, name: Int, id: Int]
ASSUME NoCursorAssumption == NoCursor \notin Events
ASSUME PageLimitAssumption == PageLimit \in Nat \ {0}

VARIABLES
  catalog,        \* rows of the event table
  cursor, stack,  \* the state hooks of EventsPage
  data,           \* the reply for the cursor, or NoCursor while it loads
  earlier         \* the replies of the pages under the stack, in the query cache

vars == <<catalog, cursor, stack, data, earlier>>
Loading == NoCursor

Init == /\ catalog \in SUBSET Events
        /\ cursor = NoCursor
        /\ stack = <<>>
        /\ data = Loading
        /\ earlier = <<>>

-----------------------------------------------------------------------------
(* findAll                                                                 *)

Columns(e) == <<e.start, e.type, e.name, e.id>>

\* ORDER BY start_datetime, event_type, name, id.
Sorted(a, b) ==
  \E i \in 1 .. 4 : /\ \A j \in 1 .. i - 1 : Columns(a)[j] = Columns(b)[j]
                    /\ Columns(a)[i] < Columns(b)[i]

\* Mutant: no tie-breaker, events that differ in nothing but the id are skipped.
AfterWithoutId(e, c) ==
  \/ e.start > c.start
  \/ e.start = c.start /\ e.type > c.type
  \/ e.start = c.start /\ e.type = c.type /\ e.name > c.name

\* The WHERE clause of a query with a cursor.
After(e, c) ==
  \/ e.start > c.start
  \/ e.start = c.start /\ e.type > c.type
  \/ e.start = c.start /\ e.type = c.type /\ e.name > c.name
  \/ e.start = c.start /\ e.type = c.type /\ e.name = c.name /\ e.id > c.id

\* Mutant: no row is fetched beyond the page, a full page promises a next one.
PageWithoutLookahead(rows) ==
  [events  |-> rows,
   hasMore |-> Len(rows) = PageLimit,
   next    |-> IF Len(rows) = PageLimit THEN Last(rows) ELSE NoCursor]

\* paginate: the last of take rows is no part of the page, it only tells that
\* there is more; the cursor is the last event of the page.
Page(rows) ==
  LET take == PageLimit + 1
      hasMore == Len(rows) = take
      page == IF hasMore THEN Front(rows) ELSE rows
  IN  [events  |-> page,
       hasMore |-> hasMore,
       next    |-> IF hasMore THEN Last(page) ELSE NoCursor]

SortedRows(S) == OrderBy(S, {p \in S \X S : Sorted(p[1], p[2])})

FirstRows(S, n) == LET s == SortedRows(S)
                   IN  IF Len(s) > n THEN SubSeq(s, 1, n) ELSE s

FindAll(c) ==
  Page(FirstRows({e \in catalog : c # NoCursor => After(e, c)}, PageLimit + 1))

-----------------------------------------------------------------------------
(* EventsPage                                                              *)

Load == /\ data = Loading
        /\ data' = FindAll(cursor)
        /\ UNCHANGED <<catalog, cursor, stack, earlier>>

NextPage == /\ data # Loading /\ data.next # NoCursor
            /\ stack' = Append(stack, cursor)
            /\ earlier' = Append(earlier, data)
            /\ cursor' = data.next
            /\ data' = Loading
            /\ UNCHANGED catalog

PrevPage == /\ stack # <<>>
            /\ cursor' = Last(stack)
            /\ data' = Last(earlier)
            /\ stack' = Front(stack)
            /\ earlier' = Front(earlier)
            /\ UNCHANGED catalog

Next == Load \/ NextPage \/ PrevPage

Spec == Init /\ [][Next]_vars

-----------------------------------------------------------------------------
Walk == IF data = Loading THEN earlier ELSE Append(earlier, data)
Seen == FlattenSeq([i \in DOMAIN Walk |-> Walk[i].events])

\* The pages up to the current one, one behind the other, are the beginning of
\* the sorted catalog: forwards and backwards, no event is skipped or repeated,
\* not even among events that are equal in all columns but the id.
WalkIsPrefix == IsPrefix(Seen, SortedRows(catalog))

\* A page without a next one completes the catalog, and a page announced by the
\* one before it is never empty: the row fetched beyond a page decides rightly
\* when the catalog ends with it.
EndsAtTheEnd ==
  data # Loading =>
    /\ data.hasMore <=> Len(Seen) < Cardinality(catalog)
    /\ data.events = <<>> => catalog = {}
=============================================================================
