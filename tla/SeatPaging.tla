----------------------------- MODULE SeatPaging -----------------------------
(***************************************************************************)
(* A user paging through the tickets of one event: TicketList's section,   *)
(* quantity, cursor and cursor stack and the query cache behind them, over *)
(* findTickets, while other users book, hold and give back seats.          *)
(***************************************************************************)
EXTENDS SeatGroups

CONSTANTS Seats,       \* the tickets of the event
          Quantities,  \* group sizes the user picks from
          Limit,       \* groups per page
          MaxChanges,  \* bound on what other users do in a behaviour
          MaxQueries   \* bound on the queries in the cache, those under way included

ASSUME SeatsAssumption == /\ IsFiniteSet(Seats)
                          /\ Seats \subseteq [section: Int, number: Nat]
ASSUME QuantitiesAssumption == 1 \in Quantities /\ Quantities \subseteq Nat \ {0}
ASSUME LimitAssumption == Limit \in Nat \ {0}
ASSUME NoCursorAssumption == NoCursor \notin Seats

VARIABLES
  booked,    \* seats with a booking
  held,      \* seats other users hold
  changes,   \* what other users did so far
  section, quantity, cursor, stack,  \* the state hooks of TicketList
  cache,     \* the query cache: the last reply to the queries it has
  asked,     \* queries whose request is under way
  visited    \* the replies the pages of the stack were left with

inventory == <<booked, held, changes>>
hooks == <<section, quantity, cursor, stack>>
vars == <<inventory, hooks, cache, asked, visited>>

Sections == {t.section : t \in Seats} \cup {AllSections}
Loading == NoCursor  \* no reply to show

\* Mutant: the query key of useTickets lacks the quantity.
QueryKeyAnyQuantity(s, q, c) == <<s, 1, c>>

QueryKey(s, q, c) == <<s, q, c>>
Queries == Sections \X Quantities \X (Seats \cup {NoCursor})

Shown == QueryKey(section, quantity, cursor)
page == IF Shown \in DOMAIN cache THEN cache[Shown] ELSE Loading

Init ==
  /\ booked \in SUBSET Seats
  /\ held \in SUBSET (Seats \ booked)
  /\ changes = 0
  /\ section = AllSections
  /\ quantity = 1
  /\ cursor = NoCursor
  /\ stack = <<>>
  /\ cache = <<>>
  /\ asked = {Shown}
  /\ visited = <<>>

-----------------------------------------------------------------------------
(* Other users                                                             *)

Others(b, h) == /\ changes < MaxChanges
                /\ booked' = b
                /\ held' = h
                /\ changes' = changes + 1
                /\ UNCHANGED <<hooks, cache, asked, visited>>

OthersHold == \E t \in Seats \ (booked \cup held) : Others(booked, held \cup {t})
OthersRelease == \E t \in held : Others(booked, held \ {t})
OthersBook == \E t \in held : Others(booked \cup {t}, held \ {t})

-----------------------------------------------------------------------------
(* The query cache                                                         *)

\* The reply of findTickets now, and when it was read.
Answer(k) == [data |-> FindTickets(Seats \ booked, held, k[1], k[3], k[2], Limit),
              at   |-> changes]

\* A reply arrives, be it of a query the list shows no more.
Fetch(k) ==
  /\ cache' = [j \in DOMAIN cache \cup {k} |-> IF j = k THEN Answer(k) ELSE cache[j]]
  /\ asked' = asked \ {k}
  /\ UNCHANGED <<inventory, hooks, visited>>

\* A request fails; there is no retry, and a reply in the cache stays.
FetchFails(k) ==
  /\ asked' = asked \ {k}
  /\ UNCHANGED <<inventory, hooks, cache, visited>>

\* The query on display is asked again: invalidateTickets, a return to the window.
Refetch ==
  /\ asked' = asked \cup {Shown}
  /\ UNCHANGED <<inventory, hooks, cache, visited>>

\* The cache drops a reply that was not on display for a while.
Collect(k) ==
  /\ k \notin asked \cup {Shown}
  /\ cache' = Restrict(cache, DOMAIN cache \ {k})
  /\ UNCHANGED <<inventory, hooks, asked, visited>>

-----------------------------------------------------------------------------
(* TicketList                                                              *)

\* The list shows another query: what the cache has of it at once, however old,
\* and it is asked in any case, as nothing in the cache counts as fresh.
Show(s, q, c) ==
  /\ section' = s
  /\ quantity' = q
  /\ cursor' = c
  /\ asked' = asked \cup {QueryKey(s, q, c)}
  /\ Cardinality(DOMAIN cache \cup asked') <= MaxQueries

NextPage ==
  /\ page # Loading
  /\ page.data.next # NoCursor
  /\ stack' = Append(stack, cursor)
  /\ visited' = Append(visited, page)
  /\ Show(section, quantity, page.data.next)
  /\ UNCHANGED <<inventory, cache>>

\* Mutant: setCursorStack is not called.
PrevPageKeepingStack ==
  /\ stack # <<>>
  /\ Show(section, quantity, stack[Len(stack)])
  /\ UNCHANGED <<inventory, cache, stack, visited>>

\* Back to the cursor on top of the stack.
PrevPage ==
  /\ stack # <<>>
  /\ stack' = SubSeq(stack, 1, Len(stack) - 1)
  /\ visited' = SubSeq(visited, 1, Len(stack) - 1)
  /\ Show(section, quantity, stack[Len(stack)])
  /\ UNCHANGED <<inventory, cache>>

FirstPage(s, q) ==
  /\ stack' = <<>>
  /\ visited' = <<>>
  /\ Show(s, q, NoCursor)
  /\ UNCHANGED <<inventory, cache>>

SectionChange == \E s \in Sections \ {section} : FirstPage(s, quantity)
QuantityChange == \E q \in Quantities \ {quantity} : FirstPage(section, q)

\* The user leaves the event page and comes back to it.
Reopen == FirstPage(AllSections, 1)

\* The page is loaded anew: no cache, and the answers under way reach nobody.
Reload ==
  /\ section' = AllSections
  /\ quantity' = 1
  /\ cursor' = NoCursor
  /\ stack' = <<>>
  /\ visited' = <<>>
  /\ cache' = <<>>
  /\ asked' = {QueryKey(AllSections, 1, NoCursor)}
  /\ UNCHANGED inventory

Next == \/ OthersHold \/ OthersRelease \/ OthersBook
        \/ \E k \in asked : Fetch(k) \/ FetchFails(k)
        \/ \E k \in DOMAIN cache : Collect(k)
        \/ Refetch \/ NextPage \/ PrevPage
        \/ SectionChange \/ QuantityChange \/ Reopen \/ Reload

Spec == Init /\ [][Next]_vars

-----------------------------------------------------------------------------
Pages == IF page = Loading THEN visited ELSE Append(visited, page)
Available == {t \in Seats \ (booked \cup held) : section \in {AllSections, t.section}}
Covered == \/ Cardinality(Seats \ booked) <= Take(Limit, quantity)
           \/ held = {} /\ quantity = 1

\* The user is on a page without a next one, and since the last thing others did
\* each page of the walk was read.
WalkEnded == /\ page # Loading
             /\ ~ page.data.hasMore
             /\ \A i \in DOMAIN Pages : Pages[i].at = changes
GroupsSeen == UNION {GroupSets(Pages[i].data.groups) : i \in DOMAIN Pages}

\* The scan finds in every inventory the groups of the reference definition: all
\* blocks of adjacent seats of a section, cut from their first seat on.
ScanFindsBlocks ==
  GroupSets(GroupConsecutive(Ordered(Available), quantity, Cardinality(Seats))) =
    BlockGroups(Available, quantity)

\* The pages walked through lie one behind the other, whatever was booked, held
\* and released between the clicks and whatever old replies the cache showed: the
\* stack's cursors ascend up to the current one.
CursorsAscend ==
  LET walk == Append(stack, cursor)
  IN  \A i, j \in DOMAIN walk :
        i < j => /\ walk[j] # NoCursor
                 /\ walk[i] = NoCursor \/ Before(walk[i], walk[j])

\* No seat is on two pages of a walk, even when the inventory moves under it and
\* some of its pages are from the cache.
NoSeatTwice ==
  \A i, j \in DOMAIN Pages : i # j =>
    (UNION GroupSets(Pages[i].data.groups)) \cap (UNION GroupSets(Pages[j].data.groups)) = {}

\* A walk to the last page shows every group there is and no other, when its pages
\* were all read since the last change and the window could hold all the tickets
\* that were left.
WalkComplete == WalkEnded /\ Covered => GroupsSeen = BlockGroups(Available, quantity)

\* events.service.ts:75-76: the over-fetch suffices to fill the page, so that a
\* page without a next one is the last (refuted: held tickets use up the window).
OverfetchSuffices == WalkEnded => GroupsSeen = BlockGroups(Available, quantity)
=============================================================================
