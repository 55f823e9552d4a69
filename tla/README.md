# The ticket booking system in TLA+

The system sells numbered seats of events. A user asks for a group of adjacent
seats, gets a hold of one minute on them, pays, and owns them. A NestJS backend
(`src/apps/backend`) keeps holds in Redis and bookings in Postgres; a Next.js
frontend (`src/apps/frontend`) lists seats and drives the dialog. This directory
specifies that behaviour, model-checks it with TLC and proves its main safety
properties with TLAPS.

## 1. Inventory

| Component | State | Operations |
|---|---|---|
| Booking flow (`bookings.service.ts`) | none of its own; per request the locals of a handler | `createReservation`, `cancelReservation`, `confirmBooking` |
| Hold store (`redis.service.ts`, `redis.keys.ts`) | `ticket:reserved:{id}` -> user, token, expiresAt, with a TTL of 60 s | `setNxMany` (Lua, atomic), `mget`, `del`, expiry |
| Tables `booking`, `payment_record` | committed rows, rows of open transactions; UNIQUE(ticket_id) | bulk INSERT, COMMIT, ROLLBACK |
| Payments (`payment.service.ts`) | what the processor charged | `stripePaymentRequest`, `executePayment` |
| Ticket listing (`events.service.ts`, `findTickets`) | none | database read, MGET, grouping, cursor |
| Ticket list (`TicketList.tsx`, `useTickets.ts`, `QueryProvider.tsx`) | section, quantity, cursor, cursor stack; the query cache and its requests under way | next, previous, change of section or quantity, reopen, reload, refetch |
| Event page and dialog (`EventDetailPage.tsx`, `BookingModal.tsx`, `TicketListItem.tsx`, hooks, `api-client.ts`) | tickets in the dialog, reservation and confirm mutations, TTL timer, the list in the query cache | book, resume, close, cancel, submit, timer, reload |
| Event list (`findAll`, `EventsPage.tsx`) | cursor, cursor stack | keyset pages over four columns |
| Migrations (`migrations/schema`, `migrations/data`, `data-source.ts`) | the tables, constraints, indexes and rows of the database; `typeorm_migrations` | run all pending, revert the last, statement by statement in one transaction |
| Users, venues, hosts, configuration | rows and settings that do not change while the service runs | reads |

How they interact. A reserve counts committed bookings, then runs the Lua script.
A confirm opens a transaction, reads the holds (MGET), reads the tickets, inserts
one booking row per ticket, charges the card, inserts the payment records, deletes
the holds in a `finally` block, and only then commits. A cancel reads the holds and
deletes its own in a second round trip. A listing reads the tickets without a
booking and filters what others hold. Every arrow between those calls is an
`await` where all other requests of all servers may run. The page sends its requests
through mutations: one that is replaced, reset or unmounted goes on at the server
while its answer is thrown away. Page and server share a deadline (`expiresAt`) but no
clock. A container runs the pending migrations before its service starts, and the e2e
suites run and revert them; nothing keeps another instance from selling meanwhile.

What is hard, and where the properties come from (`PROJECT.json`, "hazards"):

* holds that expire between a check and its use, and `DEL`s that do not look again;
* two confirms of one ticket, serialised by nothing but a unique index on which one
  transaction waits for the other, and on which two can deadlock;
* a connection kept for the seconds of a payment;
* a charge that no rollback undoes, an error in `finally` that replaces a success, a
  `COMMIT` whose reply is lost, a process that dies at any of those points;
* listings that read two stores one after the other;
* cursors into an inventory that moves, and pages drawn from a cache of older replies;
* a page that learns of its holds by answers that are late, lost or for somebody's
  earlier click, and by a list read before;
* a migration that is interrupted between two chunks of seats, or reverted while sales
  hold locks and commit.

What makes each component correct: the booking flow sells a ticket at most once,
whole orders only, to the user who was granted the hold, and its replies are true;
the hold store never overwrites a hold and every hold ends; the listing shows no
ticket whose purchase was acknowledged before; paging shows no seat twice, and all of
them to a user whose pages are no older than the last change; the dialog shows the reservation the page has or waits
for, says "confirmed" of booked seats only, charges the user once and never waits for ever;
the database is what the applied migrations describe, and no sale loses its ticket to one.

## 2. Modules

| Module | What it models |
|---|---|
| `TicketSale` | the promise: an abstract sale of seats to charged orders |
| `Bookings` | the booking flow over Redis, Postgres and the processor |
| `BookingsClaims` | statements of the docs, comments and tests that the code refutes |
| `BookingsProofs`, `BookingsHoldProofs` | theorems about `Bookings` |
| `TicketListing` | `findTickets`' two reads, composed with `Bookings` |
| `TicketListingProofs` | theorems about `TicketListing`, on top of those about `Bookings` |
| `OrderBy`, `OrderByProofs` | `ORDER BY` of the queries: the rows of a set as a sequence; lemmas about it, and `Least`, which stands in for induction |
| `SeatGroups` | `findTickets` as a function: order, window, groups, cursor; a reference definition of the groups |
| `SeatPaging` | a user walking through pages, over the query cache, while others book, hold and release |
| `SeatPagingProofs` | theorems about `SeatPaging` and the functions of `SeatGroups` |
| `BookingUI` | the event page and its dialog over requests under way and a reduced backend |
| `EventPaging`, `EventPagingProofs` | `findAll` and the walk of `EventsPage` through it; theorems about them |
| `BookingUIClaims` | what a comment of the page says and its code does not do |
| `BookingUIProofs` | theorems about `BookingUI` |
| `Migrations`, `MigrationsProofs` | the four migrations, run and reverted next to sales; theorems about them |
| `MCBookings`, `MCTicketListing`, `MCSeatPaging`, `MCBookingUI`, `MCEventPaging`, `MCMigrations` | instances for TLC: symmetry, seat maps, catalogs |

### Bookings and the code

The service keeps no state, so requests are slots: `Reservers` and `Cancellers` are
reused, a member of `Confirms` is used once. One action is the code between two
awaited calls.

| Variable | Code |
|---|---|
| `hold` | the Redis keys; a value is user and token |
| `lastToken`, `granted` | `randomUUID` (never repeats), the 201 replies of reserve |
| `checked[r]` | a reserve between its count and the Lua script |
| `doomed[x]` | `keysToDelete` of a cancel between MGET and DEL |
| `booking`, `payment` | committed rows |
| `charges` | confirms whose `stripePaymentRequest` took the money |
| `pc, req, owner, at, rows, recs, status` `[c]` | a confirm: where it stands, its request, `userId`, the row its INSERT is at, its uncommitted rows, the status its body ended with |

`ReserveCheck`, `ReserveFresh`, `ReserveAgain`, `ReserveConflict` are
`createReservation`; `CancelRead`, `CancelDelete` are `cancelReservation`;
`ConfirmArrive` to `ConfirmRollback` are `confirmBooking` under `@Transactional()`.
The three refusals before the `try` go straight to ROLLBACK; whatever happens inside
it goes through `ConfirmCleanup`, the `finally` block. The bulk INSERT writes row by
row, in any order, because the SELECT that yields the rows has no ORDER BY; a row
waits while another transaction has written the same ticket (`UniqueFree`,
`WaitsFor`), and a cycle of waits costs one of its members an error (`Deadlocked`).
`PoolSize` is the connection pool (left at the driver's default by `data-source.ts`).
`Expire` has no clock: one TTL for all means that the keys of a reservation go
together, and reservations in the order they were made.

Three constants choose the environment. `AnyClient` lets cancels and confirms carry any
user, token and ids; otherwise they repeat a reply of the service. `Repeats` are the
values of `dup` they may have. `Faults` lets statements and the `finally` block fail, COMMIT lose
its reply and the server die.

`IdLists` are non-empty sets of ids: the order of a list matters nowhere, and a
repeated id only to the count of tickets (`dup`). Prices, card data, e-mail and texts
are left out.

### TicketListing

Adds the slots `Listers` to all of `Bookings`. `ListArrive`, `ListRead` (NOT EXISTS on
committed rows) and `ListFilter` (MGET, `heldByMe`, reply) are `findTickets`; `before`
records which purchases had been acknowledged when the request came in.

### SeatGroups and SeatPaging

`FindTickets` is the rest of `findTickets`: cursor and section clauses, ORDER BY,
`take`, the filter of held tickets, `groupConsecutive`, the lookahead group and
`nextCursor`. `OrderBy` puts each row behind as many as precede it. `Scan` is the loop of
`groupConsecutive` as a function of the position it starts at. `BlockGroups` says without scanning what the groups should be.

| Variable of `SeatPaging` | Code |
|---|---|
| `booked`, `held`, `changes` | the inventory, and how often others have changed it |
| `section, quantity, cursor, stack` | the state hooks of `TicketList` |
| `cache` | the query cache of TanStack: by query key, the last reply (`data`) and the change it was read after (`at`) |
| `asked` | query keys whose request is under way |
| `visited` | the replies on display when the user left the pages of the stack; only properties read it |

What is on display is `page`, the cached reply of the key of the hooks (`Shown`), or
nothing, `Loading`. Each click that changes the key goes through `Show`: a key the cache
has is drawn at once, however old, and every key is asked again, as `useTickets` sets no
`staleTime`. A query that is not on display keeps its request (`Fetch`) and its reply until
`Collect`; a failed one is not retried (`FetchFails`) and leaves the old reply in place.
`Reopen` leaves the event page and comes back, with new hooks over the old cache;
`Reload` starts with an empty one. A reply is read and arrives in one step: one that is
read before a change and drawn after it is as well drawn before it, since what others do
and what the cache takes in do not look at each other.
The cache is kept per user and event, of which there is one here, and `Loading` is also
what an error shows: no groups and no next page.

### BookingUI

| Variable | Code |
|---|---|
| `hold`, `lastToken`, `bought` | the server: holds of this user by token, `Other` for a hold or booking of somebody else, tickets booked for this user |
| `lapsed` | reservations whose `expiresAt` is past on the client's clock |
| `asks`, `pays`, `cancels` | requests under way; `live`: a mutation of the open page still observes it |
| `dialog` | `bookingTickets` |
| `resv`, `conf` | status and variables of the mutations `createReservation`, `confirmBooking` |
| `sent` | confirms sent since the page was opened; only properties read it |
| `timer` | the `setTimeout` of `EventDetailPage` |
| `list`, `fetching` | `ticketsData`, a refetch under way |

A request is one step of the server, a confirm three: its check, the DEL of `finally`,
and its end, so that the page can read a list, and reserve again, between DEL and COMMIT.
`Bookings` has what happens inside them, with several users and faults. `BookNew` and `BookResume` are the two ways
through `handleBook`; `ReserveReply` is `onSuccess` together with the effect that arms
the timer, `TimerFires` what it does; `CancelReservation` is `handleCancel`, whose
reload may overtake the DELETE. `Expire` (Redis) and `Lapse` (the browser) are
independent of each other. One user and one tab; sections, pages and countdown texts
are in `SeatPaging` or left out.

Read from these steps, and not a claim of any text: after a purchase the dialog can be
closed by Escape or by the timer, and since `confirmBooking` is never reset, a dialog
opened for other seats then says "Booking Confirmed!" at once (`Screen`); the refetch of
the timer may find the key still in Redis, so that the page goes on offering "Resume".
Who cancels and books the same seats again before the DELETE is handled is given the
token of the old hold, which the DELETE then takes away.

### EventPaging

`FindAll` is the query of `findAll` with `paginate`; `catalog` never changes, as no
endpoint writes events. `earlier` is what the query cache keeps of the pages below.

### Migrations

The database is one set of items: tables, foreign keys, indexes, rows, and of columns,
defaults and checks those of `booking.payment_status`, in which migrations differ.

| Variable | Code |
|---|---|
| `db` | what is committed; `Done(m)` is the row of `m` in `typeorm_migrations` |
| `run` | TypeORM's open transaction: the statements to do, how many are done, what they added and removed |
| `sale[s]` | a confirm of one ticket: `idle`, `inserted`, `charged`, `recorded`, `booked`, `refused`, or `lost`: charged without a booking |

`SchemaUp` to `IndexesDown` are the `up` and `down` of the four files, statement by
statement; `Works` says what Postgres asks of a statement and `Result` what it does.
`Run` strings all pending migrations together in one transaction (TypeORM's default),
`Revert` takes the last. A statement sees what is committed when it starts (`View`), waits for
the locks of sales (`Waits`) and keeps its own until the end (`Locked`); a cycle of the
two costs the sale or the migration its transaction (`Deadlock`). `Interrupt` stops the
command anywhere.

Read from these steps: the comments of `teardownApp` (`create-app.ts:86-87`, "reverts
data migration", "reverts schema migration") are out of date since PerformanceIndexes was
added: the two reverts take the indexes and the seed, the schema stays, and the next
suite runs only those two again - which works (`ScriptsWork`, `DbIsApplied`).
`PaymentRecordSchema.down` leaves `payment_status` with a default it did not have.

## 3. Runs

| Run | Question | Answer |
|---|---|---|
| `confirm_races` | Two confirms and a reserver of two users over two tickets, id lists that repeat an id, holds expiring at any moment: can a ticket be sold twice, a reply lie, a loser be charged, a hold be left over or change in place, a token reach two users? | no |
| `confirm_faults` | Two confirms of one user with failing statements, errors in `finally`, lost COMMIT replies, crashes, and deadlocks at the unique index: are orders whole, is a 201 true, is the abstract sale implemented, is every confirm answered unless its server dies, does every hold end? | yes, the last two under the fairness below |
| `listing` | Next to cancels and confirms with any user, token and ids: does a listing show a purchase acknowledged before it or flag a hold the asker never got, does a ticket go to anybody but its grantee? | no |
| `paging` | In every inventory, does the scan find the blocks? With old replies on display and answers that are late or never come, do cursors ascend, is a seat shown twice, is a walk complete when its pages were read since the last change? | yes, yes, no, yes |
| `ui` | Under late, lost and reordered answers, expiry on either side and reloads: does an answer reach the wrong dialog, is a confirm sent twice, a confirmation shown that is none, a known hold given up by a click, does the page wait for ever? | no |
| `events` | Do the pages of the event list give the sorted catalog, and end where it ends, for every catalog of six events full of ties? | yes |
| `migrations` | Migrations run, reverted and run again, interrupted anywhere, next to two sales: is the database what the applied ones describe, has every row its parent, does every script work, does everything end? Which of them can cost a sale? | yes; the DROP INDEX statements of PerformanceIndexes only |
| `claim_partial_overlap` | "All tickets in this reservation share the same reservationToken" (`bookings.service.ts:43`) | refuted: an overlapping second reserve is answered with the old token for tickets nobody holds |
| `claim_cleanup_own` | token and user are verified before any action (`README.md:244`) | refuted: the DEL of a cancel takes away another user's newer hold; with `Cancellers = {}` the same run ends with the `finally` DEL of a confirm doing so |
| `claim_cancel_fresh` | after a cancel the page reloads "so we get the new fresh set of tickets" (`EventDetailPage.tsx:81`) | refuted: the list may be read before the DELETE is handled, and then shows the cancelled tickets as held by the user, which blocks all other groups |
| `claim_listed_available` | a listing never shows a ticket being confirmed (`bookings.e2e-spec.ts:6`) | refuted: between DEL and COMMIT it does |
| `claim_overfetch` | the over-fetch suffices for limit + 1 groups (`events.service.ts:75`) | refuted: held tickets use up the window |

Each property of a passing run has a mutant in `PROJECT.json`: a plausible bug of the
code it models, defined next to the correct definition, that makes the property fail.

### Bounds

The constants of the instances are in the `.cfg` files. Two tickets are what partial
overlap, subsets and the wait cycle of two bulk inserts need; two users and two
confirms what a race needs; `MaxToken = 2` lets a hold be followed by a newer one of
the same ticket. `confirm_faults` has one user and one token, because faults and waits,
not identities, are its question, and two connections so that confirms do overlap. In
`listing` there is one ticket, so that three tokens, an arbitrary client and a canceller
fit, and one connection, so that a listing also waits for a payment. `paging` has five
seats in two sections whose numbers run on, every initial inventory and a change by
others; its window (`Take`) holds four tickets for single seats with `Limit = 1`, so that
it both covers and misses the inventory. Two queries may be in the cache or under way
(`MaxQueries`), what is on display and one to come back to, of another section, quantity or
cursor: enough for an old reply on display, for answers in the other order, for one that
comes when the list shows something else already, and, as replies are collected, for walks
of any length and pages of one walk read before and after the change. In `ui`, two single
tickets, two reservations and two requests under way (`MaxOpen`) give the answer that comes after the
next question, and the confirm whose reservation is replaced; groups that overlap are in
the theorems, which hold for any. `events` takes every subset of six
events that first differ in each of the four columns, the columns behind in the opposite
order, with two events per page. `migrations` seeds two events, of which one has seats in
every section and needs two chunks; each of its two sales can hold locks while the other
commits. `MaxToken`, `MaxOpen`, `MaxChanges` and `MaxQueries` are the only
bounds in guards; the theorems hold for any value of them.

`CHECK_DEADLOCK FALSE` stands where the instance may really stop: confirms are used
once and tokens are bounded, so all requests can be over with nothing left to do; an
event list of one page has nowhere to go.

### Fairness

`Bookings!LiveSpec` assumes weak fairness of `Expire` (Redis drops a key whose TTL is over)
and of the steps of each confirm (`ConfirmStep`: an awaited call returns, because the mock
processor answers within `MAX_DELAY_MS` and the event loop resumes handlers in turn).
Nothing is assumed of clients: nobody need reserve, cancel or confirm. Under weak
fairness a queued confirm could be overtaken for ever at the pool; confirms being
finitely many, it is not. Faults are on and need not happen; a confirm whose server died
is answered by nobody.

`BookingUI!LiveSpec` assumes that the request a mutation observes gets on at the server and
is answered (or fails: `Broken` may always come first), that the client's clock passes each
deadline, and that a `setTimeout` which is due fires. Nothing is assumed of the user, of
requests nobody observes, or of a DELETE.

`Migrations!Spec` assumes that statements return (weak fairness of the migration's next step,
and of Postgres' breaking of a deadlock) and that a sale whose statement waits for a lock
gets on if the lock is released again and again: Postgres queues lock requests, so one
revert after another cannot overtake it (strong fairness of `SaleStep`). Nobody need run or
revert anything.

## 4. Proofs

The theorems hold for every value of the constants; `tlapm` checks them to the last leaf.
What is assumed of the constants, each as a named `ASSUME` that TLC evaluates in the runs:

| Module | Assumed | Because |
|---|---|---|
| `Bookings` | `Tickets \subseteq Ids`, `MaxToken \in Nat`, `None` outside the sets it is added to, flags Boolean | a request may name ids that exist no more |
| `BookingUI` | groups are non-empty sets of tickets, the bounds are numbers, `None` and `Other` are no tokens | a group of the list has at least one ticket |
| `SeatPaging` | finitely many seats, `section: Int`, `number: Nat`; `Limit` and `Quantities` positive, 1 among them; `NoCursor` is no seat | a ticket is unique by event, section and number, and the number is not negative (`ticket.entity.ts`); sections are numbered in the order the database sorts them in; the quantities are 1 to 8, and 1 is selected first |
| `EventPaging` | finitely many events with four sortable columns; `PageLimit` positive; `NoCursor` is no event | `findAll` sorts by start, type, name and id |
| `Migrations` | `EventSeeds` is a sequence of triples of numbers, `ChunkSize` positive | the seed gives each event a number of seats in three sections |

The arguments, module by module:

* `BookingsProofs!TypeCorrect`: `TypeOK` is not inductive by itself - that a booking
  row names a ticket of the table needs `TxnInv`, which says for each confirm what its
  place in `confirmBooking` implies for its request, rows, records, status and charge.
  `Base` is both.
* `NoTicketSoldTwice`, `OrdersSoldWhole`, `SuccessTrue`: `SaleInv` adds that a row in an
  open transaction excludes every other row of its ticket (`RowsExclusive`) and that an
  order with bookings is over (`OrdersOver`). `Steps` sorts all steps into inserts,
  commits and the quiet rest, so that preservation is shown three times and not twenty.
* `ImplementsSale`: the same three kinds map to a stutter, to `Sell`, and to `Charge`.
* `LoserNeverCharged`, `FailureCostsNothing` (without faults): a charged confirm is on
  its way to a 201 (`ChargeInv`) and owns rows or bookings of all its tickets.
* `BookingsHoldProofs`: `HoldsImmutable` from a look at who sets keys; `TokensPersonal`
  and `OnlyGranteesBook` from "every hold stands for a grant" and "every confirm past
  its check was granted its tickets"; `ConfirmGivesBack` (without faults) from the age
  of tokens: a new hold carries a token no request has.
* `TicketListingProofs`: `ListingOnlyReads` shows that `ListSpec` implies the `Spec` of
  `Bookings` - a step of a listing is a stutter of the booking flow - so every theorem
  about `Bookings` holds next to listings, `OnlyGranteesBookListed` among them, and
  `FlowInv` takes its invariants over. `AcknowledgedStaysOut` then needs only that what a
  listing has read is disjoint from what had been acknowledged when it was asked:
  bookings are never taken back.
* `SeatPagingProofs`, the walk: `WalkInv` says that each reply in the cache, and each page
  the user has been to, answered the query it stands under (`Answered`: all its tickets
  behind the cursor asked with, none behind the next one, whatever was booked when it was
  read, and if that was after the last change, it is what the query would answer now).
  An action can put a reply on display only from the cache, so a walk over old replies
  is as good as one over new ones. `CursorsAscendAlways` and
  `NoSeatTwiceInAWalk` follow from the order alone, so they hold while the inventory moves.
* `ScanFindsBlocksAlways`: the scan stays in step with the blocks of adjacent seats. Where
  it stands at a seat from which a run goes on, that seat is a whole number of groups
  behind the first seat of its block (`InStep`); so the groups it finds from any position
  on are those that start there by the reference definition (`ScanFindsGroups`).
* `WalkCompleteAlways`: `PageGroups` says which groups a page has, those up to its next
  cursor. `GroupsBehind` is why cutting at a cursor does no harm: behind the end of a
  group a block is cut as if the seats before were still there. `AnswerCovers` makes of
  it that a page leaves no group out between its cursor and the next, if the window
  holds all unbooked tickets, or seats are sold one by one and none is held. Where a walk has
  ended with pages all read since the last change, `Answered` makes each of them an answer
  to the inventory as it is, `Ascending` has the first one begin without a cursor, and
  `ChainCovers` puts the pages together.
* `EventPagingProofs`: page i of a walk starts at event (i - 1) * `PageLimit` of the full
  list, and its cursor is the event before (`WalkInv`). `RestLists` gives the step: what
  lies behind the k-th row of a sorted set, sorted, is the list from k + 1 on.
* `MigrationsProofs`: `Inv` says that the applied migrations are the first ones, that their
  foreign keys are there (`Constraints`), that booking and payment come in pairs of a sale
  that committed (`SalesInv`), that there is no ticket, booking or sale under way without
  the seed (`SeedInv`), and what an open run or revert has added and removed so far (`UpInv`,
  `DownInv`). The plans are flattened sequences of statements; `FlattenElements` says of
  which statements they consist, and in which order.
  `NoOrphansAlways` and `LostToIndexesOnlyAlways` follow.
* `MigrationsProofs`, the scripts: `Fits(s, S, T)` says that statement `s` works on the
  items `S`, makes `T` of them and writes no sale; a script `Leads` from `S` to `T` along a
  `Road` of what is there after each statement. Databases are written `Db(T, F, E)`:
  tables, foreign keys, and whatever else they hold. One lemma per kind of statement
  (`FitsCreate`, `FitsDropTable`, `FitsRows`, ...) gives one per script (`SchemaUpLeads` to
  `SchemaDownLeads`; `SeedUpLeads` goes through all chunks of all events, `ChunkNext`
  showing that no seat is in two of them and `ChunkCover` that the last one ends the list).
  `AsApplied(a)` is the database after the first `a` migrations, and `AsLeft` allows for the
  default that the down of PaymentRecordSchema adds; `UpLeads` and `DownLeads` take `AsLeft`
  from one `a` to the next. `ScriptInv` is then the invariant: sales apart, the committed
  database is `AsLeft`, and what an open transaction sees is the point of its road that its
  number of done statements names. The sales change neither. `ScriptsWorkAlways` reads it
  off the road; `DbIsAppliedAlways` also needs that folding the statements of a script that
  leads somewhere ends there (`FoldLeads`), as `ByTheScripts` is written with a fold.
* `BookingUIProofs`, for any tickets, groups and bounds: `IInv` adds to the types that at
  most one reserve and one confirm are observed (`AsksInv`, `PaysInv`), that the timer
  belongs to a reservation that succeeded, and that `sent` is 0 or 1 with the status of
  the confirm mutation. Without "at most one" an answer could arrive after its
  successor's and turn a dialog over. `HoldStep` and `PayStep` show the two halves apart:
  most steps leave one of them alone. `HoldsKept` follows from `IInv` and the one action
  that starts a reservation, `BookNew`.

The library's induction theorems take an operator as a parameter, which the provers cannot
instantiate. Where a recursion has to be followed (`Scan`, flattened and folded plans, the rank
of a row, a chain of pages), the proof takes the least position at which the claim fails
(`OrderByProofs!Least`) and shows that there is none.

Every invariant and every action property that a run checks is stated by a theorem. Model-checked
only:

* liveness: `ConfirmAnswered`, `HoldEnds`, `NeverStuck`, `AllEnd` (liveness and `ENABLED` are
  beyond `tlapm`'s backends);
* the refuted claims, whose answer is a behaviour.

## 5. Not modelled, and the plan

Done in this order because a wrong sale is the worst failure: the booking flow, its
abstract sale, its proofs, the listing, the pages, the event page, the migrations, and then
the proofs about these. Next:

1. Two tabs of one user, which share his holds but not `createReservation`.
2. The step from `BookingUI`'s server to `Bookings`: that each of its requests is what
   a whole handler of `Bookings` does, seen from outside.

Four texts of the repository that the model contradicts are without a run of their own.
`README.md:145` says that concurrent confirms of a ticket never queue: a second INSERT waits
for the transaction of the first, through its payment (`WaitsFor`), with a connection of its
own. `README.md:146` says that after a rollback there is "nothing to revert": that is so of
the tickets, but with a fault after the charge (`StatementError` at the records,
`CleanupError`, `CommitError`) the card stays charged.
`bookings.e2e-spec.ts:141` says that of two confirms one gets 409: one that reads Redis
after the other's DEL gets 410 (`ConfirmGone`).
`EventDetailPage.tsx:37` says that when the TTL expires the hold state is cleared and the
tickets refetched: a 201 that comes after its `expiresAt` - a slow reply, a client's clock
that is a minute ahead - arms no timer (`ReserveReply`), and the expired reservation stays,
blocking other groups, until a cancel or a reload.

Left out for good: users, venues and hosts (rows that only the seed writes; the user of a
session is any of five, drawn by `/users/me` and kept in the browser, a stub for
authentication), configuration, two migration commands at once (TypeORM has no lock against
that, and neither the compose file nor the tests do it), rendering, and the content of
payments.
