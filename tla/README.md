# HotelOS: a TLA+ model of the hotel's daily operations

This directory holds a verification development of the HotelOS API
(`src/apps/api`, a NestJS service over PostgreSQL and Redis): TLA+ modules
translated from its services, TLC configurations that check them on small
instances, and TLAPS proofs for every value of the constants.

Run a check with `tlc -config <run>.cfg <MC module>.tla`, a proof with
`tlapm <Module>Proofs.tla`. `PROJECT.json` maps each definition to the lines it
translates, lists the runs, a mutant for every property, the hazards and the
theorems.

## 1. The system

The repository is a monorepo. `apps/api` is the backend and holds all of the
domain logic; `apps/web` (tenant UI) and `apps/admin` (platform UI) are clients
of its HTTP API and of one websocket gateway. State lives in PostgreSQL
(`apps/api/prisma/schema.prisma`), in Redis (sessions, cache, presence, Bull
queues) and, for door locks, at an external provider.

How the services run decides what can go wrong in them:

- A request is one `async` handler. Every `await` on Prisma, Redis, a mailer or
  a lock provider lets other handlers run; several API processes may run too.
- Most handlers read, decide in JavaScript and write in later awaits. Some
  writes are grouped in `prisma.$transaction`, at PostgreSQL's default isolation
  (read committed), which does not re-validate what was read before or even
  inside it. There is no `SELECT ... FOR UPDATE`, no serializable transaction,
  no optimistic version column and no exclusion constraint.
- `Promise.all` of two writes is two statements in no particular order, with no
  transaction around them: the process may stop, or either may fail, in between.
- Calls to other parts (ledger, keycards, notifications, mail) come after the
  write that made them necessary, outside its transaction.

### Components

| Component | State it keeps | Operations | Talks to | What must hold |
|---|---|---|---|---|
| reservations (`modules/reservations`) | `Reservation`, `ReservationGuest`, `FolioItem`, room status | create, update, checkIn, checkOut, cancel, noShow, addFolioItem, recordPayment, group/company bookings; five daily scans | rooms, keycards, ledger, finance, housekeeping, notifications | a room is promised to one stay per night; a stay moves along its lifecycle; the room status follows the guest; the first night is charged once |
| rooms, floors, room types | `Room.status` | create, update, updateStatus, remove | reservations, housekeeping | OCCUPIED means a guest is in the house |
| keycards (`modules/keycards`) | `Keycard`, `KeycardAccessLog`; tokens at the lock provider | issue, revoke, reportLost, revokeAllForReservation, ingestAccessEvent | reservations, lock provider | row and lock agree; a departed stay has no live card; one live card per guest |
| housekeeping | `HousekeepingTask` | create, update, markDone, assign, bulkCreate | rooms, reservations (check-out scan) | a room is released when its last open task is done, and not before |
| billing (reservations.recordPayment, `modules/finance`) | `Payment`, `Invoice`, `Reservation.paidAmount` | ensure invoice, record payment, update invoice, requisition invoices | ledger, facilities | payments never exceed what is owed; paidAmount is the sum of the payments; one open invoice per stay |
| ledger (`modules/ledger`) | `JournalEntry`, `JournalLine`, `Account` | postEntry, postFolioCharge, postPayment, postPosSale, deposits, chart of accounts | called by reservations, finance, POS | entries balance; entry numbers are unique and never block; every charge and payment is posted once |
| POS orders (`modules/pos`) | `PosOrder`, `PosOrderItem`, product and ingredient stock | create, addItem, updateItem, updatePrepStatus, updateStatus, fulfill, pay, cancel | inventory, folio, finance, ledger | prep status of the order follows its items; an order is delivered, paid and charged once; stock never goes negative |
| POS products, tables, terminals, terminal auth | product, table and terminal rows | CRUD, terminal PIN sessions | POS orders | a terminal serves one signed-in member of staff |
| inventory, categories, suppliers | `InventoryItem.quantity`, `StockMovement` | create, update, recordMovement, low-stock alert | POS, facilities | the quantity is the sum of the movements; alert once per crossing |
| auth (`modules/auth`) | `RefreshToken`, session hashes and MFA challenges in Redis, reset tokens | login, verifyMfa, refresh, logout, logoutAll, revokeSession, password reset, impersonate | redis, mail | a revoked session stays dead; a refresh token, challenge or reset link works once |
| hotel entitlements, platform, hotel lifecycle | plans, subscriptions, feature overrides, hotel status | resolve entitlements, suspend, reactivate, soft delete, restore, onboarding | guards of every module | a suspended hotel's users cannot act |
| facilities | bookings, maintenance, requisitions, inspections | book, approve, invoice, pay, charge to room, escalate | finance, folio, inventory | a facility is not double booked; a booking is settled once |
| attendance, shifts, staff, HR contracts | `Attendance`, shift assignment, contracts and approvals | clock in/out, kiosk PIN, absence scan, submit/approve/reject/renew | notifications | one open attendance per person; approvals in route order |
| notifications, email, mailing | inbox rows, push subscriptions, mail | dispatch, preferences, inbox state | every module | an event reaches those entitled to it |
| realtime gateway, presence, diagnostics | sockets, Redis presence counters | connect, disconnect, publish | auth | presence returns to offline when the last socket closes |
| schedulers and processors | Bull jobs, `CronJobSetting.lastTriggeredAt` | hourly ticks, retries | reservations, attendance, facilities | a daily scan runs once a day and is not lost |
| redis cache, rate limit | Redis keys, in-memory windows | get/set/del, count | all | a stale entry is invalidated |
| reports, dashboard, exports, audit logs, users, permissions, departments, job titles, guests, support, monitoring, health, seed data | read models and plain CRUD | queries, CRUD | - | - |

What is hard about this code, line by line, is the list of hazards in
`PROJECT.json`, each with the properties that cover it, or with the reason why
none does. They are of four kinds: a check made in one await and relied upon
in a later one; two writes that belong together and are not in one transaction;
a call to another part (ledger, lock provider) after the write that made it
necessary; and rules that do not survive a legal sequence of calls.

## 2. The modules

| Module | What it is | Code |
|---|---|---|
| `ReservationRows` | vocabulary of the reservation table and the availability rule; no variable | `reservations.service.ts`: `getAvailableRoomForReservation`, the guards of each endpoint |
| `StayLifecycle` | abstract: what the reservation endpoints promise, each as one atomic step | the same endpoints, reads and writes merged |
| `FrontDesk` | the endpoints as the program runs them, one await per action | create, update, checkIn, checkOut, cancel, noShow; rooms `updateStatus` |
| `Keycards` | card rows, and the keys at the lock provider | `keycards.service.ts`; the calls into it from checkOut, cancel and update |
| `Journal` | numbering and amounts of the journal entries; no action of its own | `ledger.service.ts`: `postEntry`, `nextEntryNo` |
| `Billing` | payments, invoices, charges and their entries | recordPayment and addFolioItem of reservations, createInvoice and recordPayment of finance |
| `DailyScans` | the protocol of the daily jobs: heartbeats, due test, stamp, settings | the scans of reservations, facilities and attendance; scheduler and processor; `hotels.service.ts` |
| `Turnover` | housekeeping tasks and room status from check-out to AVAILABLE | `housekeeping.service.ts`; the check-out scan's tasks |
| `SaleLifecycle` | abstract: an order is billed once, paid once, never after it is void | - |
| `PosOrders` | orders of the till, prep boards, delivery, payment, stock | `pos-orders.service.ts`; `postPosSale` |
| `FacilityBookings` | bookings of facilities, approval, invoice, folio charge | `facilities.service.ts`; `createInvoice` of finance |
| `Inventory` | stock, stock movements and the low-stock alert | `inventory.service.ts`; the deduction of `fulfillOrder` |
| `<Module>Proofs` | theorems and proofs, one module for each of the eight components | - |
| `MC<Module>` | the small instances | - |

`FrontDesk` and `Keycards` extend `ReservationRows`. `Keycards` composes with
`StayLifecycle` by INSTANCE: it takes the reservation row's steps as atomic,
which is what `FrontDesk` shows them to be while requests do not overlap; the
races on that row are the subject of `FrontDesk` alone. `Billing` extends
`Journal` and takes reservations as given. `Turnover` takes check-in, room moves
and check-out as atomic for the same reason, lets a stay move to any room that is
not in maintenance (which nights are free is `FrontDesk`'s), and leaves the
timing of the scan to `DailyScans`. `PosOrders` keeps one stock of its own; what moves the stock of an
ingredient besides the till is `Inventory`. The payment of a facility booking's
invoice is the finance payment that `Billing` has.

Definitions headed *Faulty variant* are what a plausible bug would make of the
definition after them; no specification uses them. `PROJECT.json` names, for
every property, the variant that breaks it.

### How the code is represented

A *request slot* (`d \in Desks`, a clerk, a housekeeper, a worker) stands for one
handler in flight; the number of slots is how many requests may overlap. `req[d]`
holds what the JavaScript closure holds: the endpoint, the await reached (`at`),
the row that was read, the values computed from it. Each action is the stretch of
code from one await to the next, with the query it ends in. A guard that throws
before anything was written makes the request impossible or ends it (`Finish`);
an error after a write leaves what was written (`Abort`, `Throw`). The process
that stops is the same `Abort`: the slot is lost and nothing is undone.

- **FrontDesk.** `rsv`, `room` and `folio` are tables, the last reduced to the
  number of first-night charges. `checkIn`, `checkOut`, `cancel` and `noShow`
  write row and room in a `Promise.all`: `todo` holds the writes still to land,
  in either order. `update` writes in one transaction (`CommitUpdate`), from
  what it read before. The insert of the reservation's guests is merged with
  the insert of the reservation.
- **Keycards.** `card` is the table, `lock` the set of cards whose token the
  provider accepts. The provider is outside the repository: a call to it may
  succeed, fail, or succeed with its answer lost (`ProvisionAnswerLost`). The
  default in the code is a stub that accepts everything; the code around it is
  written for a real one, and so is the model. A room move is a loop over the
  cards it found before its transaction, each revoked and issued again.
- **Billing.** The two payment endpoints and the finance invoice are PostgreSQL
  transactions at READ COMMITTED. A request before its commit is an open
  transaction: what it wrote is in `req[d]` and becomes visible at `Commit`.
  An UPDATE takes the row's lock and waits for another holder
  (`HoldsInvoice`), and an INSERT of a unique number waits for the transaction
  that holds it (`HoldsNumber`). The ledger entry is posted after the commit, in
  two awaits (`PickEntryNo`, `PostEntry`). The finance endpoints refuse a payment
  only when it is more than 0.01 above the balance or total
  (`finance.service.ts:1027`, `:820`), so one payment may be a cent too much:
  `Tolerance` stands for that cent. `recordPayment` of reservations has no
  tolerance. (The comparison is in floating point, which decides case by case
  about a payment of exactly one cent too much; the model allows it.)
- **DailyScans.** A day has `Beats` heartbeats, and time moves in steps of one.
  A repeatable job waits in the queue once and is handed to a free worker
  (`Heartbeat`); a manager may run a job for one hotel at once (`RunNow`). A scan
  reads all rows of its job at the start, then handles hotel after hotel: the
  query and mail of a hotel (`Alert`, `NothingToReport`, `HotelFails`), then the
  stamp, which writes the whole row back (`Stamp`). All the jobs are this loop;
  what they look for and report is left out. One time zone.
- **Turnover.** `markDone()` runs its update and its count side by side and frees
  the room when the count comes back 0: `closed` and `look` are how far the two
  have come. The scan reads the stays checked in, each with its room, at its start
  (`ScanBegins`), then looks for an open task of a stay in that room (`Find`) and
  creates one there in a later await (`Ensure`). `Move` is `update()` of a
  reservation with another room: of a guest in the house it leaves the old room
  DIRTY and makes the new one OCCUPIED, of one to come it makes them AVAILABLE and
  RESERVED. A task names its stay in its notes; that somebody rewrites the notes,
  or types a reservation number into a task of their own, is left out.
- **PosOrders.** `order`, `item` and `stock` are tables; `bill`, `payment` and
  `posted` are what an order left on the folio or invoice, among the payments
  and in the ledger. Cost and use of stock are operators given by the instance;
  delivery and payment are transactions, their ledger entry comes after.
- **FacilityBookings.** A request reads and checks in one step (`Ask...`) and
  writes in another. The reads are merged: they touch no row that the request
  writes in between. `invoice` says that an invoice row names the booking (the
  database allows one), `invoiceId` that the booking names an invoice; the checks
  look at one or the other, and an update may set or clear the second.
  `FinanceInvoice` is the finance page's endpoint, which asks only whether the
  booking exists.
- **Inventory.** `item` is the table; `booked` the sum of an item's movements,
  `told` and `sold` the items reported low, or made low by a delivery.

The modules carry history variables that the code does not have. They say
which of the known races has happened, so that a property can say *what else*
could go wrong:

| Variable | Module | What enters it |
|---|---|---|
| `blind` | FrontDesk | a booking written by a request that read something else than what is there now, or between the two writes of another request |
| `cut` | FrontDesk, Keycards, Billing, PosOrders, Inventory | a row whose request failed or stopped between its first and its last write |
| `stale` | Keycards | a card written, or left out of a sweep, on a status that has changed since it was read |
| `stale` | Billing | a stay with a payment committed against a balance that has changed since it was checked |
| `stale` | PosOrders, Inventory | an order or item written on an outdated reading |
| `repriced` | Billing | a stay whose `totalAmount` was changed |
| `byHand` | PosOrders | an order whose status was last set by `updateStatus()` |
| `byHand`, `lost` | Inventory | an item whose quantity was typed in; one whose outdated quantity was written back |
| `raced` | FacilityBookings | a booking written on a check that another write had overtaken |
| `around` | FacilityBookings | a booking invoiced by finance while it was pending, or one whose `invoiceId` an update cleared while it had an invoice |
| `raced`, `missed`, `changed`, `unsafe` | DailyScans | a hotel and day handled by two scans at once or left unstamped; a day's scan that came late or died; settings saved; settings saved during a scan |
| `neglected`, `disturbed` | Turnover | a room whose cleaning nobody asked for or saw through; two scans at once, or a closed task opened again |
| `byHand` | Turnover | a room whose last open task was closed by `update()`, which frees no room |
| `moved` | Turnover | a stay that changed room while checked in |

A property "unless b is in `blind`" claims that the code's logic is right
whenever its reads are current. It is not vacuous: the runs reach such states in
the thousands and every property has a mutant of the code that breaks it.
With one request at a time `blind` stays empty, and so do `stale` of `Billing`
and `PosOrders`, `lost` and `raced` (proved): the properties then hold without
those exceptions.

## 3. What the runs check

| Run | Instance | Shows |
|---|---|---|
| `desk_serial` | 1 request at a time, 2 rooms, 2 bookings, nights 0..2, six endpoints, rooms put in maintenance | no double booking, and `FrontDesk` implements `StayLifecycle` |
| `desk_pair` | 2 overlapping requests that may stop anywhere, 1 room, 2 bookings | a double booking always has a blind write; an OCCUPIED room has a guest; the first night is charged once; a stay keeps to its lifecycle |
| `keys` | 2 overlapping requests, 2 rooms, 2 cards, 1 stay, provider failures, keycards on and off | no key without a card, an ACTIVE card opens, a departed stay has no card, one live card per guest, cards follow a move |
| `bill_two` | 2 overlapping requests, 1 stay, 2 invoices, charges and price changes, finance payments of one unit too much | invoice status, balance (but for the finance tolerance), `paidAmount` and journal agree with the payments |
| `scans` | 1 job, 2 hotels, 2 days of 2 heartbeats, 2 overlapping scans, 1 upset, fairness | one alert a day, settings stand, every hotel is reached every day |
| `turnover` | 2 rooms, 1 stay that may move, 2 tasks, 2 housekeepers, 2 scans | a dirty room has work or was forgotten in a named way; one task per stay and room, and in two rooms only if the stay moved |
| `pos` | 2 overlapping requests, 1 order of 2 items, failing queries | the order follows its prep boards, the total its items, and `PosOrders` implements `SaleLifecycle` |
| `facility` | 2 clerks, 2 bookings, 1 facility with approval | no double booking, one folio charge, and no pending booking with an invoice but by finance or after its `invoiceId` was cleared |
| `inventory` | 2 overlapping requests, 1 item | stock is the sum of its movements, is not overdrawn, and is reported when low |

Three more runs state what a document or the interface says and the code does
not do:

| Run | The promise | What happens |
|---|---|---|
| `bill_hotels` | settlements are posted to the ledger | entry numbers are counted per hotel and unique over all: the second hotel's first entry is refused |
| `pos_discount` | delivery and payment create journal entries | with a discount the sale's entry does not balance, and is refused after the payment is committed |
| `facility_pending` | pending facility bookings cannot issue an invoice before approval | the finance endpoint asks for neither status, charge type nor approval, and invoices a pending booking in one request |

### Bounds

- *Two request slots.* Every race in this code is a read and a write of one
  request around a write of another; three requests add longer chains of the
  same pairs. Serial runs use one slot, which is what their statements are about.
- *Nights 0..2, two stays.* Two stays can then be equal, overlap in part, touch
  (one leaves the day the other arrives) or be apart; the availability rule
  tells no other cases apart. `MCTwoStays` has two that touch, and updates
  extend one into the other. `Keycards` has one night: nights do not matter to it.
- *Two cards* are needed for a second issue, a re-issue and a sweep over more
  than one; *two invoices* for a stay with an invoice of each series.
- *Two hotels, two days, two heartbeats a day*: one hotel can fail before the
  other, and a scan can end a heartbeat late or after midnight. A hotel may set
  the first or the second heartbeat. `MaxUpsets = 1`: one run by order, one
  change of settings or one scan that dies.
- *Two tasks* let two housekeepers close the last two tasks together, and two
  scans ask twice. *Two rooms and one stay* let it move there and back.
  `MCBound` of `MCTurnover` has two calls or scans in flight, whichever they are,
  while the guest stays where he is, and one at a time once he has moved; the
  other room is left alone until then.
- *Two items on one order* are needed for a status that mixes their prep, and
  for two sums that overlap; the order's own endpoints never look at another
  order. `Quantities = {0}`: a changed quantity is a deletion; `InStock = 2`.
- *Two hours, two spans*: a booking is in the way of another or it is not.
- *Amounts 1 and 2, quantities 0 and 2, minimum 0 or 1*: stock at, above and
  below its minimum, and a withdrawal of more than there is.
- `MaxInvoices`, `MaxCharges`, `MaxPosts`, `MaxStock` and `MaxUpsets` cap what
  would grow for ever. The runs in which ids or caps can be used up say
  `CHECK_DEADLOCK FALSE`.
- Constraints cut only what no property speaks of or what is bounded anyway:
  `MCBound` of `MCBilling` lets a second invoice be made only for stays with
  the booked price and no charges, and a payment of 2 or over the balance only
  while there is one invoice; `MCBound` of `MCFacilityBookings` stops when both
  bookings are exempt, and bills a booking one way; `MCCrowd` runs one request at a time
  while keycards are off or once a request on the stay was cut short; `MCPromised` stops at an order nothing is promised
  of any more; `MCBound` of `MCInventory` likewise, and bounds the movements.
- *PadMax = 9* stands for the code's 9999: entry numbers are padded to four
  digits. No run posts that many entries.
- Symmetry is used on ids and slots, in runs without liveness.

### Fairness

Only `DailyScans` makes a claim of liveness. `FairSpec` is weak fairness of
`Tick` (time passes) and of `Work` (a waiting job is handed to a free worker;
the awaited query or mail of a scan is answered or fails). Bull hands out
waiting jobs as long as a processor lives, Prisma and the mailer answer or time
out. A scan that dies is not excluded: its day is in `missed`, and
`EveryHotelReached` promises nothing of that day and job.

## 4. What is proved

Every invariant and action property of the passing runs, and both refinements,
for every value of the constants: any number of bookings, rooms, orders,
hotels, overlapping requests. The theorems stand under the named ASSUMEs of the
modules (`RowsAssumption`, `DeskAssumption`, `KeycardAssumption`,
`JournalAssumption`, `BillingAssumption`, `ScanAssumption`,
`TurnoverAssumption`, `PosAssumption`, `FacilityAssumption`,
`InventoryAssumption`), which only state what the constants are; TLC evaluates
them in every run. A further hypothesis is part of the theorem that needs it:

- `Serial` (one request slot), in the theorems on requests that do not overlap.
- `"OCCUPIED" \notin ManualStatuses`, in `OccupiedRoomsHaveGuests`:
  `updateStatus()` of rooms accepts any status, so an empty room can be made
  OCCUPIED by hand, and then there is no guest in it. The theorem says that the
  endpoints never do so by themselves.

Each module proves an invariant stronger than its properties. Most of that
strength says what a request in flight may rely upon: what it read, and which of
it still holds.

**FrontDeskProofs**

- `TypeCorrect`: `Spec => []TypeOK`.
- `DoubleBookingNeedsStaleRead`: `Spec => []NoDoubleBookingUnlessBlind`. The
  property alone is not inductive: an update writes dates that were computed
  when the request began. The invariant adds `RequestsOK`: the row a
  request wants is the row it read with the supplied fields replaced, and its
  guards held on the row read. With it each write either is marked blind, or
  finds the row as it was read and the room free.
- `SerialRequestsNeverDoubleBook`, `SerialRequestsAreAtomic`: with one slot,
  `Spec => []NoDoubleBooking` and `Spec => ImplementsLifecycle`. The invariant
  (`SerialInv`) says that while a request is in flight the row is what it read, or what
  it has already written, so that nothing becomes blind, and each write maps to
  a step of `StayLifecycle` and every other step to a stutter.
- `LifecycleIsKept` (`LifecycleKept`), from `RowsOwned`: a new row belongs to the
  request that makes it until it is written, no row is ever PENDING, and only
  `checkIn` charges a night.
- `FirstNightIsChargedOnce`, from `FirstNights`: a stay in the house has
  been charged its night, or the request that checked it in still owes it.
- `OccupiedRoomsHaveGuests`, from `GuestsBehindRooms`: an OCCUPIED room has a
  guest, or a check-in or check-out between its two writes that accounts for it.

**KeycardsProofs**

- `TypeCorrect`: `Spec => []TypeOK`.
- `NoOrphanKey` and `ActiveCardIsHonoured`: the lock and the rows agree in both
  directions, but for cards in `stale` and bookings in `cut`. The two are proved
  together, from `KeyInv`. It says that a card being issued belongs to one
  request (`OneIssuer`) and is not ACTIVE before that request makes it so
  (`NotYetActive`); that its key is at the lock once the provider has
  answered (`KeyAtLock`); and that a revocation which has passed the lock has
  withdrawn the key and its card is still as it was read (`KeyWithdrawn`,
  `SweepWithdrawn`). There is one lemma per action and a frame lemma for the
  actions that touch neither card nor lock.
- `GuestHasOneLiveCard`, `DepartedStaysKeepNoCard` and `CardsFollowTheGuest`,
  from `StayInv`: requests have the shape of their endpoint, a departed stay has
  no live card but those its sweep still has before it (`DepartedSwept`), and a
  live card is for the room of its stay or in the list of a room move
  (`Follow`). They are proved together, since a room move issues again what it
  has revoked.

**BillingProofs**

- The amounts are sums over rows (`SumFunctionOnSet`), and the library has no
  theorem on them that the provers can use. `SumIsTabulated` gives the fold as a
  function on the subsets of a finite set; `SumWithout`, `SumWith` and
  `SumChange` follow (one term more, one less, one changed). They need an
  induction on finite sets, which `SubsetInduction` states about a *set* of
  subsets instead of a predicate, and proves from the least counterexample:
  strict inclusion is well founded.
- `Basis` is the invariant under all the rest: types, a greatest entry number
  (`Bounded`), an invoice made or locked by one transaction at most (`Apart`), and for each request
  what its endpoint has reached (`ReqOK`: the balance it saw, the sum it took
  while it held the invoice, the amount left to post). `WhatHappens` sorts every
  step into six kinds (quiet, thrown, a commit, an entry, a charge, a price);
  the theorems below go by kind and not by action. `Types` is a part of it.
- `BooksAreOfTheRows` (`BooksMatch`), from `BooksBalance`: what is in the books
  of a stay and what its requests still owe them is what is in its rows.
- `StatusIsOfPayments` (`InvoiceStatusCurrent`), `StayIsNotOverpaid`
  (`NoOverpayment`) and `PaidAmountIsOfPayments` (`PaidAmountIsSum`) are
  inductive relative to `Basis`.
- `SerialPaymentsAreCurrent`: with one slot no payment is stale, so the status
  of every invoice and the bound of every plain stay (its price and `Tolerance`)
  hold without exception.
- `OneHotelIsPosted`: the run `bill_hotels` refutes `EveryEntryPosts`; this
  theorem says where it does hold, with one hotel, one request at a time, and
  no entry that has used up the padding.

**ScansProofs**

- `AlertedOnce` (`OneAlertADay`), from: what has been alerted is stamped or
  about to be (`ToldIsStamped`); the hotels before a scan had no stamp of the
  day when it began (`ReadUnstamped`); a scan at a hotel nobody raced for is
  alone there (`AloneAtHand`); nothing is stamped ahead of the clock
  (`NotAhead`).
- `SettingsKept` (`SettingsStand`), from `ReadChosen`: a scan holds the settings
  a hotel chose unless it chose others meanwhile. `Types` for the types.

**TurnoverProofs**

- `DirtyIsWorkedOn` (`DirtyRoomHasWork`). The invariant is stronger
  (`DirtyIsMinded`): the open task is one that nobody is closing, since a task
  that is being closed may be gone after the next step.
- `TasksAreUnique` (`NoTwinTasks`), from: scans that do not overlap are alone
  (`Alone`), and the stay a scan is about to ask for has no open task in the room
  at hand (`LooksBefore`). That tasks in two rooms belong to a stay that moved
  follows from `Followed`: what the scans and the tasks know of a stay that did
  not move is the room it checked into. `Types` for the types.

**PosProofs**

- `Basis` is again the invariant under the rest: types, the shape of a request
  by endpoint and await, no request on an order that does not exist, no item on
  it. `Types` is a part of it.
- `TotalIsOfItems` (`TotalFollowsItems`), from `TotalOrSumming`: an order has the
  total of its items, or a request is on its way to write it, or it is marked.
  `StatusIsOfBoards` (`BoardFollowsPrep`), from `DerivedOrWorking`, likewise.
- `TillKeepsItsPromise`: `PosOrders` implements `SaleLifecycle`. Besides `Basis`
  it needs `WorkOnOpen` (an order that a request is half way through writing is
  open) and `BooksOK` (what is on the folio, paid and posted fits the order's state).
- `SerialTillIsExact`: with one slot nothing is stale and the stock is never
  negative, from `Knows`: what a request has read is what is there.

**FacilityProofs**

- `NotDoubleBooked` (`NoDoubleBooking`), `InvoicedAfterApproval`
  (`PendingNotInvoiced`) and `ChargedOnce` (`PostedOnce`), from `Requests`: what a
  request has checked still holds unless it was overtaken. `PlacesApart` extends
  the first to bookings that wait for approval, which would otherwise be in the
  way once approved; `InvoiceNamed` says that the field the update checks tells
  of the invoice, until it is cleared. `InvoicedAfterApproval` speaks of the
  facilities' endpoints only: `facility_pending` shows what finance does.
  `Types` for the types.
- `OneClerkNeverErrs`: with one slot nothing races, so the first and the last hold
  without exception; `around` stays an exception of the second, for it takes
  one clerk only.

**InventoryProofs**

- `StockIsBooked` (`QuantityIsBooked`), from `OpeningMissing`: between the two
  awaits of `create()` the opening stock is the only movement not in the books.
- `StockIsThere` (`NeverOverdrawn`), from `SawEnough`: a request that takes stock
  has seen enough of it. `LowIsTold` (`LowStockTold`), from `LowIsReported`.
  `Types` for the types.
- `OneRequestIsNeverShort`: with one slot no outdated quantity is written back
  and no quantity is negative.

**Only model-checked**: `EveryHotelReached`, because TLAPS as installed cannot
reason about fairness or ENABLED. The three promises that the code breaks
(`EveryEntryPosts`, `SalesReachLedger`, `PendingNeverInvoiced`) have a counterexample
and no theorem. Induction over data by the library's theorems is out of reach, since
they take a predicate as a parameter, and no module declares a RECURSIVE
operator; what is needed of the folds is proved as described under
`BillingProofs`.

## 5. What is not modelled

- Wall-clock time but for `DailyScans`: validity windows of cards, due times,
  time zones. Audit rows, notifications and mail, which no modelled state
  depends on (the daily alert and the low-stock alert are modelled as sent).
- In reservations: company and group bookings; the `paidAmount` and
  `paymentStatus` fields that `UpdateReservationDto` accepts; the two reads with
  which `recordPayment` begins are one step. In finance and ledger: requisition
  invoices, reversals, deposits, the chart of accounts.
- In the till: tables; a room charge that turns an unpaid reservation PARTIAL;
  quantities other than 1 and 0 in the run. In facilities: maintenance,
  requisitions, inspections; `isPaid` of a booking, which the finance payment
  writes and the booking's DTOs accept. In inventory: categories and suppliers. In
  attendance: clock-in and clock-out.
- Sessions and permissions: what must hold of them are security properties,
  outside the aim of this development.
- CRUD on single rows, read models, transports, seed data and the two frontends
  have no protocol to check. They are the larger part of the repository's
  lines: the map names the service code that changes shared state in more than
  one await, a small share of the whole.

Some of what the code does is in the models without a property of its own.

Where a document or comment says otherwise, or might be read so:

- `housekeeping.service.ts:204` says "When marked done, update room status to
  AVAILABLE", above a spread that adds nothing: `update()` to DONE closes the task
  and leaves the room DIRTY. It takes one call to see. `DirtyRoomHasWork` exempts
  such rooms by name (`byHand`), so that it still speaks of `markDone()`, where the
  release is concurrent.
- A stay that moves between two check-out scans has an open CHECKOUT_PREP task
  in each room, since `ensureCheckoutHousekeepingTask()` looks in the room it is
  given. `NoTwinTasks` allows it to stays in `moved`.
- `FacilityDetailsModal.tsx:50` shows "Shared capacity booking", and
  `assertFacilityBookingAvailability()` has a branch for it (402-416), but
  `createBooking()` and `updateBooking()` leave `bookingPolicy` out of their select
  (1239, 1343), and a missing one means EXCLUSIVE: a second booking that would
  fit is refused. `PolicyRead` has it.
- `docs/hotelos-keycard-auth.md:248-256` and KC-LIFE-03 of the keycard tracker ask
  that a room move of a checked-in reservation replaces its cards, which
  `CardsFollowGuest` checks. They are silent about cards issued before arrival:
  these keep the old room after a move, and a no-show keeps them.
- `docs/PROJECT_STATUS.md:305` counts arrivals and overdue payments among the
  workflows that run on time; their scans exist, but
  `reservations-scheduler.service.ts:80-99` registers no heartbeat for either. The
  jobs that `DailyScans` times are those with one.

Where none says what should happen instead: booking a later stay takes
the room of a guest in the house out of OCCUPIED; `checkOut()` of a
hotel without keycards answers with an error after writing the departure;
a task done in an occupied room makes it AVAILABLE; cancelling an invoiced or
posted facility booking leaves the bill, and finance may invoice a booking that is
on the folio; a job set to the last minutes of the day never comes due; deliveries
of the till raise no low-stock alert.

## 6. State of the work

The modules listed in section 2 are complete in the sense of the table of
components in `PROJECT.json`. Every invariant and action
property that a passing run checks has a theorem. What would come next, in order
of worth: clock-in and clock-out; the composition of `PosOrders` with
`Inventory` over a shared stock; one request at a time as a theorem for
`Keycards` and `DailyScans` as well.
