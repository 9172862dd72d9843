# A formal model of the bus ticket API

This directory holds a TLA+ model of the ticket API in `src/` (a NestJS
application over PostgreSQL, through TypeORM, and Redis), the TLC runs that
check it on small instances and the proofs, checked by TLAPS, that hold for
every instance. Paths below are relative to the repository.

## 1. Inventory

The application is one Node.js process that may be started any number of
times; requests run concurrently and interleave at every `await`. What they
share is in PostgreSQL (READ COMMITTED, TypeORM's default) and in Redis. There
is no queue: everything under `rabbitmq/` is commented out. The repository's
README and its test are the generator's; the comments in the code are the only
statement of intent.

| Component (under `src/src/`) | State it keeps | Operations that change state | What is hard | What makes it correct |
|---|---|---|---|---|
| `booking/` seat booking | `bookings`, `booking_passengers`, `trip_seats.status`, `trips.availableSeats`; orders at the StarPay gateway | `createBooking`, the sweep inside `getTripDetail`, `starpayCallback` | three kinds of transaction over the same rows, a remote call inside one of them, callbacks that come late, twice or never, an expiry that races the payment | a seat is sold once; no seat is held for nobody; a paid booking keeps its seats; no transaction waits for ever |
| `trip/` trips | `trips`, `trip_seats` | `create` (trip and its seats in one transaction) | `totalSeats` comes from the bus model, the seat rows from the bus layout; the bus is read before the driver, the route and the transaction; nothing looks at the trips the bus has that day | one seat row per numbered seat; a trip has the seats of its bus |
| `auth/` authentication | `users.enabled`, `users.password`, `passwordHistory`; in Redis: attempt counter, temporary lock, block key, one-time codes, refresh and access tokens | `login`, `verifyOTP`, `refreshToken`, `changePassword`, `resetPasswordRequest`, `VerifyResetPasswordRequest`, `logout` | counters with a time to live, shared by concurrent attempts; a crash between SET and EXPIRE; the code sent by SMS may be lost | lock and block follow the number of failures; a lock ends; a password is not one of the last seven |
| `driver/` drivers | `drivers`, `driver_bus`, `users.role` | `createDriver`, `assignDriverToBus`, `updateStatus` | an assignment ends two others, in three statements | a driver has one bus and a bus one driver |
| `cancellation-policy/` | policies with their tiers, `enabled` | `create`, `update` | disables all, then inserts the enabled one | one policy of a company is enabled |
| `bus/`, `route/`, `terminals/`, `city/` catalogue | `buses`, `bus_models`, `routes`, `terminals`, `cities` and their status | create, update, toggle, `duplicateBus` | the check for a duplicate and the insert are two statements | no duplicates; a toggle is not lost |
| `transport-company/`, `user/` | companies, users | create company with its administrator, update, enable | SMS is sent before the commit | a company has its administrator; who is told a password can use it |
| `auth/guard/access.guard.ts`, `decorators/`, `pipes/` | none | – | pure decision | realm and role rules |
| `config/`, `dto/`, `util/`, `redis/`, `main.ts` | none | – | validation, plumbing | – |
| payments, refunds, payouts, ratings, subscriptions, documents (`entity/`) | tables only | none: no service uses them | – | – |
| `rabbitmq/`, `middleware/`, `handlers/` | none | none: commented out or unused | – | – |

Interactions: booking reads trips, buses' seats (through the trip), companies
and cancellation policies; the gateway calls booking back; trip creation reads
buses, drivers and routes; authentication guards every other controller.

## 2. Modules

Most important first. Sections 3 to 6 describe them.

| Module | Component | Proofs | Run |
|---|---|---|---|
| `Booking`, `BookingInv`, `BookingProgress` | seat booking, the sweep, the payment callback | `BookingProofs`, `BookingSoldProofs` | `one_sweep`, `two_sweeps`, `progress` and five violations |
| `SeatLedger` | the abstract promise of the three transactions of booking | – | as a property of `one_sweep` |
| `Succession` | the abstract promise of the calls that replace what is current | – | as a property of the next two |
| `DriverAssignment` | buses of drivers | `DriverAssignmentProofs` | `people`, `current_assignment` |
| `CancellationPolicy` | policies of companies | `CancellationPolicyProofs` | `tables` |
| `Fleet` | the kinds of buses, and the seats of the trips made for them | `TablesProofs` | `tables` |
| `Registry` | routes, bus models, terminals, cities, plates and flags | `TablesProofs` | `tables` |
| `Staff` | companies, their people and their drivers | `StaffProofs` | `tables` |
| `Login` | attempts, lock, block, session, tokens, codes | `AccountProofs` | `tables`, `people`, `code` |
| `Passwords` | the password of an account and its history | `AccountProofs` | `people` |
| `AccessControl`, `Endpoints` | routing and guards, over the handlers of every controller | `AccountProofs` | `people` |
| `MCBackOffice` | the parts of the back office side by side | `BackOfficeProofs` | `tables` |

`MCBooking`, `MCBookingProgress`, `MCDriverAssignment`, `MCPeople` and
`MCBackOffice` give them small instances. The components of `MCPeople` and of
`MCBackOffice` share no variable: what one reads of another's rows is an input
it chooses freely. A behaviour of several of them is an interleaving of one of
each, and no property of one can tell; so a behaviour there moves one *part*
(`part`, chosen at the start) and leaves the others as they began. This checks
what separate runs would, in two.

## 3. Booking

### What a state is

| Variable | Code |
|---|---|
| `seat` | `trip_seats.status`, by the table's unique key (tripId, seatNumber) |
| `avail` | `trips.availableSeats` |
| `status` | `bookings.status`; "absent" while the row is not committed |
| `due` | bookings whose `expiresAt` has passed |
| `rows` | `booking_passengers` of a booking, by their seat |
| `tickets` | those rows that have a `ticketNumber` |
| `order` | the order at the gateway (external) |
| `seatLock`, `bookingLock`, `tripLock` | PostgreSQL's row locks (external) |
| `tx` | for every transaction, the statement it is at and its local variables |

The first six are committed rows only. A transaction's own writes are exactly
the rows it has locked, so locks and memory say what they are and the commit
applies them: a request's locked seats become HELD, a sweep's AVAILABLE, a
callback's BOOKED. A step is one SQL statement (or one row of a statement that
updates several, because it may wait in the middle). A statement that needs a
locked row is not enabled until the lock is released, and then sees the
committed row, as READ COMMITTED re-evaluates its WHERE clause.

### Actions

| Action | Code in `booking/booking.service.ts` |
|---|---|
| `Submit` | 241-301: checks, trip read outside the transaction |
| `LockSeat`, `RejectSeat` | 311-330: SELECT ... status = AVAILABLE FOR UPDATE, in sorted order |
| `HoldSeat` | 357-397: passenger, booking passenger, HELD seat, decremented trip |
| `PlaceOrder` | 399-427: the gateway, then `orderNumber` |
| `CommitBooking` | 430 |
| `StartSweep` | 85-94: the expired bookings, of every trip, whatever id is viewed (`NoTrip` for none) |
| `PickBooking` | 96-104: next booking, its passengers |
| `ReleaseSeat` | 106-122: UPDATE ... WHERE status = HELD |
| `DeleteRows`, `ExpireBooking` | 124-127, 129-139: rows deleted, booking EXPIRED |
| `CreditTrip` | 141-154: `availableSeats` of the viewed trip, if there is one |
| `CommitSweep` | 156 |
| `ReceiveCallback`, `IgnoreCallback` | 439-457 |
| `CompleteBooking` | 457-471: COMPLETED, passengers read |
| `CompleteNothing` | the same without a `billRefNo`: the UPDATE finds no row |
| `BookSeat` | 473-478: BOOKED, by seat number only |
| `CommitCallback` | 480-507: tickets (`WriteTicket`), commit |
| `Abort` | any error or crash: the transaction is rolled back |
| `ExpiryPasses` | ten minutes pass |

### What is abstracted

- A seat is (trip, number); every trip has the same seat numbers, and a passenger
  is its seat. Names, phones, fares and ids are left out. A body that names a
  seat the trip does not have is refused like a seat that is taken.
- The callback's UPDATE of the booking and the read of its passengers are one step: their
  rows do not go away before the callback commits, because a sweep that deletes them
  goes on to update the booking row, which is locked. The tickets are written with the
  commit, which for that waits for a sweep that has deleted the row. A sweep's lock on
  the rows it has deleted is told from where it is (`HasRows`): it begins with the
  DELETE, before the booking row is locked.
- `TotalSeats` is `model.totalSeats` of a trip's bus and `SeatNumbers` the seats of its
  layout (`trip.service.ts:316-358`): nothing makes them agree, and the run `two_sweeps`
  has them differ.
- `save(Trip)` reads the row and updates it if it differs: one step, whose update
  waits for the row lock.
- Each request is made once (its identity is the booking's); sweeps and callbacks
  repeat for ever.
- `due` grows only for bookings that are committed and PENDING: the list looks at
  no others. The clock is otherwise free, so an expiry may come at any time
  after the commit (ten minutes is longer than any order of steps needs).
- A callback that is not PAID, or whose booking is not there (not yet committed,
  or rolled back), changes nothing. Callbacks may come any number of times, and for any
  booking: the route is open (`booking.controller.ts:95-100`), nothing is signed, and no
  payment is looked up, so that what customers pay is not modelled.
- A body without `billRefNo` (the callbacks in `Nameless`) finds an arbitrary booking,
  whose seats it books, and completes none: TypeORM leaves an undefined value out of
  findOne's WHERE, and finds no row to update for it.
- The SMS of a ticket is not modelled: it is not awaited and changes nothing.

### Runs

| Run | Instance | What it shows |
|---|---|---|
| `one_sweep` | 2 seats, 3 requests with up to 2 passengers in any order, 1 sweep, 1 callback; a second trip, closed | types; no seat sold twice, and the inductive invariant behind it (`OneSweepInv`); bookings never deadlock with each other or with the sweep; every transaction seems to happen at once (`TransactionsAreAtomic`); tickets only on BOOKED seats of paid bookings; a booking has its order; a seat is released only with its booking |
| `two_sweeps` | 1 seat number on 2 trips, one of them closed, `availableSeats` one above the number of seats; 2 requests, 2 sweeps, 2 callbacks of which one has no `billRefNo` | no seat HELD for nobody, a paid booking's seats are BOOKED, BOOKED is final; the inductive invariant (`LocksProtect`) |
| `progress` | 2 trips, 2 requests, 1 sweep, 2 callbacks; as trips are interchangeable and liveness is checked without symmetry, one request is for the first trip | every transaction ends |

The bounds are enough for the cases that matter: three requests on one seat are a
first customer, a second that takes the seat after the expiry, and a third that
could be sold it again; two sweeps are the least that can hold the same booking
on their lists; two callbacks are a delivery and its repetition, or two payments, or one beside one that names no order;
two trips are the least for a seat number to be ambiguous; two seats are the
least for two bodies to name them in opposite orders.

Fairness (`BookingProgress`): strong fairness of the steps of a transaction that
has begun – Node.js runs its continuation, the gateway answers or fails, and
PostgreSQL hands a row to its waiters in turn, so that one that can go on again
and again does go on – and weak fairness of the deadlock detector. Nothing is
assumed of customers, viewers or the gateway's callbacks. Callbacks (booking
row, then seats) and sweeps (seats, then booking row) do deadlock; without
`BreakDeadlock` the property fails. That the gateway answers is assumed and not shown:
`axios.post` (399) has no timeout.

### Where code and comments disagree

Five runs are expected to end in a counterexample; each checks what a comment (or
an index) of the code says.

| Run | Comment | What happens |
|---|---|---|
| `stale_sweep` | "Get the seats held by this booking", "Release the seats" | two sweeps with the same booking on their lists: the second releases the seat after another customer has taken it, and a third may book it |
| `paid_expired` | "Mark booking expired", "Payment timeout" | a booking paid after it was listed is EXPIRED and loses its passengers; its seats stay BOOKED for nobody |
| `tickets` | "generate ticket numbers" | all numbers are written to the first passenger |
| `availability` | "Update trip availability" | n passengers take n * n off `availableSeats` |
| `other_trip` | unique index (tripId, seatNumber) | a payment books the same seat number of every trip |

### Proofs

`BookingProofs` and `BookingSoldProofs` prove, from the assumptions of `Booking` on its constants
(identities are distinct, trips and seat numbers are finite, seat numbers are
integers, `TotalSeats` are natural numbers), for any number of trips, seats, requests, sweeps and callbacks:

| Theorem | Statement |
|---|---|
| `TypeCorrect` | `Spec => []TypeOK`, with `availableSeats` never below zero |
| `LocksAlwaysProtect` | `Spec => []LocksProtect` |
| `HeldSeatsHaveHolders` | `Spec => []HeldSeatHasHolder` |
| `PaidSeatsAreBooked` | `Spec => []CompletedSeatsBooked` |
| `BookedSeatsStayBooked` | `Spec => BookedIsFinal` |
| `SeatsAlwaysChangeHands` | `Spec /\ []SweepsApart => []SeatsChangeHands` |
| `ReasonsHoldToTheEnd` | `Spec /\ []SweepsApart => []OneSweepInv` |
| `NoSeatSoldTwice` | `Spec /\ []SweepsApart => []SeatSoldOnce` |
| `SeatsReleasedWithBookings` | `Spec /\ []SweepsApart => SeatReleasedWithItsBooking` |
| `BookingIsAtomic` | with `Nameless = {}`, `Spec /\ []SweepsApart => TransactionsAreAtomic`, that is `Ledger!Spec` |
| `OneSweepIsApart` | one sweep at a time (`OneSweep`) implies `Spec => []SweepsApart` |
| `LedgerKeepsPromises` | `Ledger!Spec` implies `[]SeatSoldOnce`, `[]HeldSeatHasHolder`, `[]CompletedSeatsBooked`, `BookedIsFinal`, `SeatReleasedWithItsBooking` |
| `TicketsAreForBookedSeats` | with `Nameless = {}`, `Spec => []TicketIsForBookedSeat` |
| `BookingsHaveOrders` | `Spec => []BookingHasOrder` |
| `BookingsWaitInNoCircle` | `Spec => []BookingsNeverDeadlock` |
| `OneTripSellsItsOwn` | one trip and `Nameless = {}` imply `Spec => SoldSeatHasPassenger` |
| `LonePassengersTicketed` | `MaxPassengers = 1` and `Nameless = {}` imply `Spec => []EveryPassengerTicketed` |

Four of them ask for a `billRefNo` in every callback (`Nameless = {}`): without one a callback
books seats and tickets of a booking that it does not complete. All the others, types, locks,
holders, paid seats, no seat sold twice and no circle of waits, hold whatever
the callbacks bring.

`HeldSeatHasHolder` is not inductive: nothing in it says that the sweep that will
expire the holder has the seat too. `LocksProtect` (in `BookingInv`, and an
invariant of the run `two_sweeps`) adds what each lock protects:

- `LockedSeats` – a request locks AVAILABLE seats of its own body, a sweep HELD
  ones, so that nobody changes a seat under its holder;
- `KnownBookings` – sweeps and callbacks know only committed bookings, so that
  a request's commit surprises nobody;
- `SweepSteps`, `CallbackSteps` – a sweep expires a booking only after it has
  visited all of its seats; a callback has its booking locked, so that its rows
  stay what was read, and has locked each seat it has visited;
- `HolderStays` – a HELD seat has a PENDING booking that no transaction is about
  to end without having the seat locked as well;
- `CompletedSeatsBooked` – also needed for the sweep's commit.

There is one lemma per kind of statement (`RequestMoves`, `SweepMoves`,
`CallbackMoves`: what may change before a commit), one per commit, one for a
rollback; `RequestProtects`, `SweepProtects` and `CallbackProtects` go through
the actions, and `NextProtects` puts them together.

`SeatSoldOnce` needs one assumption more, `SweepsApart`: no sweep locks a booking that
another sweep still has on its list or in hand. Without it the theorem is false (run
`stale_sweep`), so this is the one way in which a seat is sold twice. It is an assumption about
what sweeps do, not about how many there are: where one client sweeps at a time it always
holds (`OneSweepIsApart`), and it leaves room for sweeps that overlap on bookings of
their own up to their commits (a booking that is paid while one sweep has it is not on
the list of the next). Nothing in `getTripDetail` sees to it. `BookingSoldProofs` proves
`SeatsChangeHands`, inductive beside `LocksProtect` as long as sweeps are apart:

- `RequestHasSeats` – a request has locked the seats it goes on with;
- `LiveSeatsTaken` – the seats of a PENDING or COMPLETED booking are not AVAILABLE;
- `DeadRowsGone` – a booking that is not live has no rows left;
- `SweepIsCurrent` – what a sweep has listed and read is still so;
- `SweepEndsHolder` – it gives up a live booking's seat only with that booking.

`SeatReleasedWithItsBooking` follows: the commit of a sweep gives back only HELD seats,
`HeldSeatHasHolder` names the booking and `SweepEndsHolder` says that it ends too.

`ReasonsLast` says the same of what a call has checked without a lock: `RequestAsks` (the
trip was open, the seats are of that trip and at least one, there is no order before the
gateway has answered) and `SweepIsDue` (what a sweep has listed is overdue; what it has locked no one else
ends). `OneSweepInv` is both, and `ReasonsHoldToTheEnd` proves it.

`BookingIsAtomic`, the refinement, follows. `SeatLedger` keeps everything that is
committed but `availableSeats`: seats, bookings, whose time is over, passengers, tickets
and orders. It has one step for each transaction. `Hold` takes free seats of one open
trip, at least one, for a booking whose order is placed; `Expire` ends overdue bookings
and frees exactly their HELD seats; `Pay` books the seats of a booking's numbers
and gives one passenger a ticket. `PlaceOrder` and `ExpiryPasses`
are the gateway and the clock. The mapping is the identity on the committed rows, so the
theorem says that readers cannot tell the interleaved statements from transactions
that ran one after the other; nothing else that PostgreSQL does at READ COMMITTED
promises this. Every other statement is a stutter (`StepsWrite`: only commits, the
gateway and the clock write what the ledger keeps). A request's commit is `Hold` because the
seats it has locked are its body's, and AVAILABLE, and by `RequestAsks`; the sweep's is
`Expire` because `HolderStays` and `SeatSoldOnce` make it lock the HELD seats of each
booking it ends, `SweepEndsHolder` no others, and `SweepIsDue` makes each overdue; the
callback's is `Pay` by `CallbackNumbers` (it locks the seats of the numbers it has read and
no others). A booking that was paid while a sweep listed it may still
expire (run `paid_expired`): that is a legal order of `Pay` and `Expire` in the ledger. `availableSeats` is not in
the ledger: its updates are lost in any order (run `availability`).

That the ledger is worth implementing is `LedgerKeepsPromises`: whatever happens at once in it,
seats are sold once, held for somebody, kept when they are paid for and given back only with
their booking. Its invariant (`LedgerInv`) is the part of `SeatsChangeHands` and `LocksProtect`
that speaks of committed rows; the rest of those is what interleaving costs.

Two theorems say how far two of the violations go. `OneTripSellsItsOwn`: with one trip
no seat turns BOOKED without a passenger, so the run `other_trip` fails for want of the
trip in the WHERE clause and for nothing else. `LonePassengersTicketed`: when no body
has two passengers, every passenger of a paid booking has a ticket, so the run `tickets`
fails only for the index of the array. Both hold for any number of sweeps.

Orders and deadlocks need invariants of their own (the last part of `BookingInv`).
`OrdersComeFirst`: a request that is about to commit has its order, which nothing
takes back. `LocksAreSorted`: while a request locks seats, those that it has are of
smaller numbers than those it still wants, it locks the trip when it has them
all, and it never locks a booking. `OwnStatements`: a transaction is at a statement of its own
handler, and a sweep knows its trip.

`BookingsNeverDeadlock` is about sets of requests and sweeps of which everyone waits for
someone in the set: two of its sweeps then wait for each other. A request that has its
trip waits for nothing (`TripComesLast`), and a sweep that waits for a request waits for its
trip, because the seats it wants are HELD and the request's AVAILABLE (`SweepsWaitForTrips`): so
without sweeps that wait for sweeps there are only requests that wait for seats. Of
two such, the one that waits has more seats still to lock, and the one with the fewest
seat numbers ahead of it (`WFMin` of the library finds it) cannot wait for any of the
others. `SortedNeverDeadlock` is that step. Sweeps do wait for each other (the seats of the
bookings they list, in any order), and callbacks with sweeps: there PostgreSQL's
detector has to help (run `progress`).

Only model-checked: liveness (`EveryTransactionEnds`), which TLAPS cannot prove under
fairness here.

## 4. Succession: driver assignments and cancellation policies

Two parts of the code do the same thing: in one transaction they end what is
current by an UPDATE and insert the new row. `assignDriverToBus`
(`driver/driver.service.ts:287-346`) ends the active `driver_bus` rows of the
driver, then those of the bus; `createCancellationPolicy` and
`updateCancellationPolicy` (`cancellation-policy/cancellation-policy.service.ts:74-176`)
disable all policies of the company. No unique index stands behind either.

`Succession` says what such a call promises as one step: it ends only current
rows that share a resource with it, all of those that were there when the call
began, and becomes current; or it changes nothing. `DriverAssignment` and
`CancellationPolicy` are the statements of the code, and implement it:

| Succession | `DriverAssignment` | `CancellationPolicy` |
|---|---|---|
| `Begin` | `Begin` (first UPDATE starts, 287-312) | `Begin` (81-85, 133-137) |
| – (stutter) | `EndRow`, `EndBus`, `Insert` (301-335) | `Disable`, `Insert` (86-116), `Take` |
| `Replace` | `Commit` (337) | `Commit` |
| `GiveUp` | `Rollback` (340-345) | `Rollback` |
| a claim | the driver and the bus | the company |

An UPDATE visits the rows that matched when it started, in any order, waits for
those another call has locked and looks again at the committed row; a row that no
longer matches is skipped. A row's lock is the call's pending write of it.
`before` is a history variable: the rows committed when a call began. A call is
made once and its identity is that of the row it inserts, so that the system
stops when all calls have ended (`CHECK_DEADLOCK FALSE`). In
`CancellationPolicy` customers book beside the calls: `Take` is the read of
`createBooking` (`booking.service.ts:282-289`), before its transaction, and `since` the
policies that were committed after it. `BookingPolicy` is what that read is worth at any later
time: the policy is enabled, or a call that committed since it was read has replaced it. Left out: tiers (rows of nobody else, saved in the
same transaction), the driver's and the bus's own rows, which are not read, and a
request for no company, whose insert is refused.

| Run, part | Instance | What it shows |
|---|---|---|
| `people`, `assignments` | 2 drivers, 2 buses, 4 calls; the bodies of three are fixed so that two calls can swap buses, the fourth is any | `OnlyOverlapsClash`: two active assignments of a driver or bus come from calls that overlapped; `EndedByAnother`: nobody loses an assignment but to another one; `EveryCallEnds`, deadlocks included; the refinement; the inductive invariant |
| `tables`, `policies` | 2 companies, 4 calls, 1 customer | a company that has a policy always has one in force; a booking is made under one that was in force when it was read; the refinement; the inductive invariant |
| `current_assignment` (violation) | 2 calls | two overlapping calls leave a driver with two active assignments ("Deactivate driver's current assignment") |

Two things met on the way have no run: `getCancellationPolicyByCompanyId`
(`booking.service.ts:232-239`) shows any policy of the company, also one that is no
longer active, and `updateCancellationPolicy` never uses the id in the path of
`PATCH edit/:id`: it replaces the company's policies whatever the id names.

Four calls are two that leave rows and two that meet over them: the least for a
circle of waits, and one more than a third party needs to end what an overlap has
left. Two drivers and two buses (two companies) are the least for a row to be a
rival by one of its two claims and not by the other. Fairness is that of
`BookingProgress`.

Proved in `DriverAssignmentProofs` and `CancellationPolicyProofs`, for any number
of drivers, buses, companies, calls and customers, from `NullsAreDistinct` alone:

| Theorem | Statement |
|---|---|
| `AssignmentsEndWhatTheyMust` | `Spec => []EndsWhatItMust` |
| `OnlyOverlappingCallsClash` | `Spec => []OnlyOverlapsClash` |
| `AssignmentsEndByAnother` | `Spec => EndedByAnother` |
| `AssignmentsSucceed` | `Spec => ReplacesAssignments`, that is `Abstract!Spec` |
| `PoliciesAlwaysSucceed` | `Spec => []PoliciesSucceed` |
| `CompaniesKeepAPolicy` | `Spec => []NeverWithoutPolicy` |
| `BookingsHaveAPolicy` | `Spec => []BookingPolicy` |
| `PoliciesReplaceEachOther` | `Spec => ReplacesPolicies`, that is `Abstract!Spec` |

The invariants say why. Every lock is held by a call in flight on a row it shares
a claim with (`LocksAreOwned`), and every row that was there when a call began and
shares a claim with it is locked by the call, or still to be visited, or ended
already (`DriverEnds`, `BusEnds`, `OldOnesEnd`): at the commit nothing is left to
visit. The commit is then the step of `Succession`, with the locked rows as those
that end. Only model-checked: `EveryCallEnds`.

## 5. Accounts: login, passwords, access

### `Login` (`auth/auth.service.ts:77-326`)

| Variable | Code |
|---|---|
| `accountOn`, `role`, `twoFactor` | `users.enabled`, `role`, `enable2FA` |
| `counter` | `auth:login-attempt-count` in Redis |
| `redis` | `auth:temporary-lock`, `auth:block-user`, `auth:refreshToken`, `auth:otp`: absent, set for good, or set with a time to live |
| `tokens` | the roles that unexpired access tokens name |
| `stage`, `count`, `refresh`, `claim` | the await each call is at and what it has read |
| `strikes`, `late` | history variables |

A step is one command of Redis or one statement. `Arrive` reads the row,
`ReadLock` and `Count` the lock and the counter; a right password goes through
`OpenSession` and either `SendCode` or `ClearCount`, `ClearLock`, `ClearBlock`; a
wrong one (`WrongPassword`) leaves, locks (`SetLock`, `ExpireLock`, `SetBlock`,
`StartAgain`) or disables the account (`DisableAccount`). `CutShort` ends an attempt
anywhere: an error or a crash. `Admit`, `ReadUser` and `Renew` are refresh-token,
`VerifyCode` is verify-otp behind its guard, `ToggleStatus` and `MakeDriver` are what
others do to the row. Keys and tokens expire at any time. The counter is cut at
`MaxCount` = 6: the code tells 3, 5 and the rest apart. A refresh asks only whether
there is a session: any signed refresh token will do, so tokens are not told apart.

`OneStrikeIsForgiven`: however attempts overlap, the wrong password that locks an
account is not the one that disables it. `LockIsTemporary`: a lock without a
time to live is left only by an attempt that was cut short between SET and EXPIRE. `OnlyLateRefreshes`:
only refreshes that were under way at a logout can save the session again.
`ClaimsCatchUp`: after a change of role, tokens that name the old one die out.

Fairness (`LoginFairness`): the server runs a call it has taken to its end or a
failure (weak fairness: no step waits), keys with a time to live and tokens
expire. Nobody has to call.

The run `code` finds a counterexample: login answers a token with `purpose` and
`sub`, `JwtStrategy.validate` drops both, and the guard of verify-otp asks for
them. The code that is sent with "Use this to login" logs nobody in.

### `Passwords` (`auth/auth.service.ts:328-476`)

`column` and `current` are the two columns of the row; a call reads the row, compares the
word it was given with the history it has read (`CheckHistory`), and writes both
columns back. A hash is named by the call that made it, `word` says what was hashed.
`updateateUser` (`EditPassword`) writes an unhashed password and leaves the history alone.
`saved` and `earlier` are history variables: the order of the saves, and what had been
saved when a call read its row. The check of a changePassword's current password is in `BeginChange`
and `Refuse`. A call is made once; two of three changes fit the history.

`OnlyOverlapsReuse` says what "You cannot reuse an old password" can promise: one of
the last `MaxHistory` passwords is set again only past a call that had read its row
before that password was saved. `OnlyOverlapsForget` is the reason; `HistoryCounts` is
both. `PasswordIsNewest` relates the two columns.

### `AccessControl` and `Endpoints`

One request: `Route` takes the first handler whose verb and path match, `RunGuard` runs
its guards in order, `Serve` answers. `Endpoints` lists the handlers of all controllers
in the order of their source with what their decorators require.
`AnswersAsDocumented` compares the decision with the comment of `RequireAccess`, for every
handler, and for every shape of rule (wildcards, empty lists, one or several
roles, AND, OR). Of an empty list the comment says nothing, and read to the letter it would allow
nobody; the guard takes it for a wildcard (44-45), and the property says so (`OrAny`). No
handler of the application passes one. `EachReached`: no handler hides behind one declared before it, but for
`GET trip/stats`, which `GET trip/:id` takes (`trip/trip.controller.ts:62` and `:75`).

### Run `people`

| Part | Instance |
|---|---|
| `assignments` | section 4 |
| `session` | 1 attempt at a time with the right password, 1 refresh, a logout, a change of role, expiry (`Knowing`: wrong passwords are in the part `attempts` of `tables`) |
| `passwords` | 3 changes of any 3 words, 2 hashes kept |
| `requests` | every handler and rule shape, every kind of token, realm and role |

One attempt and one refresh are enough for a token signed from an old row to cross
a change; a third change is the least that can push a hash out while two overlap. The
system may stop (calls are made once), so deadlock is not checked.

## 6. The back office: fleet, registry, staff

### `Fleet` (`bus/bus.service.ts:132-300`, `trip/trip.service.ts:119-371`)

A bus has a *kit*, its model and its seat layout; a body always has both. `owner` is
`companyId`, `tripSeats` the kit that a trip's seats were made from. `AskUpdate`,
`UpdateAll` and `UpdateOwn` are the three statements of `update`: the read, with
`applyForAll` the UPDATE of the company's buses of the old model, and the bus itself.
`ReadBus` and `CommitTrip` are the way to a trip: the lookups of `create` and its transaction. The
body may name any bus and any day; `create` looks neither at the trips the bus has already
nor at the list of free buses (`findAllBusses`) that a client may have been shown, so that days
are left out, and nothing is claimed about two trips of a bus on a day.
`moved` is a history variable.

`SeatsOfBus`: no trip without its seats, and they are its bus's unless the bus
was changed after it was read. `NoneLeftBehind`: after an update with `applyForAll` only
calls that wrote since can have left a bus with the old model.

### `Registry` (routes, bus models, plates and status of buses, terminals, cities)

A row has a `title`, by which the code tells it from others, and a flag. `FindRoute` and
`FindModel` are the query of a create, `InsertRoute` and `InsertModel` its INSERT; a city
and a plate have a unique key. Three toggles read the flag (`ReadFlag`) and write the
opposite (`WriteFlag`); `toggleBusStatus` writes what it is given. The bodies of a model are not
checked (`bus.controller.ts:84` and `:114` declare them `any`): `UpdateModel` may write the flag, and
`InsertModel` may bring one, or an id, and then write over the row that has it (`Rewrite`). `update` of a route or
a model does not look for twins; `create` of a terminal does not await its query, and
`FindNamesake` refuses a name that *another* city has: the model does the same.

`OnlyOverlapsTwin`: twins come from creates that overlapped, or from a write over a row.
`TogglesTurn`: a flag is turned over unless it was changed in between, by another toggle or by an
edit of a model. A body of `updateBusModel` that gives the model another id is not modelled.

### `Staff` (`transport-company/`, `user/`, `driver/driver.service.ts:195-285`)

A company is its name and licence number, both unique; a person is the id of a user's row, which
has a phone (`contact`), unique too, that `EditUser` may change with the role. `held` is the
call whose transaction has written a row or a key: others that write it wait.
`InsertCompany`, `InsertAdmin` and `CommitCompany` are the transaction of `create`;
`AskUser` and `InsertUser` createUser; `FindDriver`, `FindUser`, `FindCompany`,
`SetRole`, `InsertDriver` and `CommitDriver` createDriver; `ReadStatus` and
`WriteStatus` updateUserStatus. A caller of createDriver may have no company (`NoName`): TypeORM drops
the conditions on it, so that any user and any active company are found, and the driver is of the
company found (`joins`). `GiveUp` is a refusal, an error or a crash.

`FoundedTogether`: a company has the account it was created with and the other way
round. `DriverWithRole`: the row of a driver appears with its role, and createDriver gives nobody the
role without the row. `ActsOnWhatHolds`: what a call has looked up still holds when it writes, unless
the status it has read was written under it (`stale` has only the calls about that very user or
company). Who is sent a password is not modelled: no row tells.

### Run `tables`

| Part | Instance |
|---|---|
| `policies` | section 4 |
| `fleet` | 2 buses of 2 companies, 2 trips, 2 kits, 2 calls |
| `routes`, `models`, `terminals`, `cities`, `buses` | 2 rows, 3 titles, 2 calls (`Confined`: the calls are about one table) |
| `staff` | 1 company, 2 people, 2 phones, 2 calls |
| `attempts` | 2 attempts to log in to one account (`Owning`: without the change of role and the code, which are in `people`) |

`RowsHold` is what calls under way rely on, and no client can see: the conjuncts of the inductive
invariants of `Fleet`, `Registry`, `Staff` and `Login` that speak of calls. What the tables
show is checked by properties of their own. Two calls are the least that overlap; ids are used again, so that
what one call leaves behind meets any number of later ones. Two rows with three titles
are the least for a half and for a whole of a title to agree. One company, two people and two phones
are the least for two founders to meet, for a body to name another person than the path, and for
a phone to pass from one person to the other.
The calls, rows and companies that play the same role are permuted (`Interchangeable`);
no liveness is checked under this symmetry. Cities are only created, so deadlock is not
checked.

### Proofs

For any number of accounts' calls, rows, companies, buses and trips, from the named
assumptions of the modules on their constants (sets that are disjoint, null values that
are none):

| Theorem | Statement |
|---|---|
| `LoginHolds`, `NoSessionComesBack`, `SecondStrikeDisables`, `OnlyCutsStrandTheLock` | `LoginSpec => []LoginInv`, `[]OnlyLateRefreshes`, `OneStrikeIsForgiven`, `LockIsTemporary` |
| `PasswordsHold`, `NoPasswordIsReused`, `NewestComesFirst` | `PasswordsSpec => []PasswordsInv`, `[]HistoryCounts`, `[]PasswordIsNewest` |
| `AccessAsDocumented` | `AccessSpec => []AnswersAsDocumented` |
| `HandlersAreReached`, `EveryHandlerIsReached` | `AccessSpec => []EachReached`: for any handlers of which none covers a later one (`NoneHidden`), and for those of `Endpoints` |
| `StatsIsHidden` | with the handlers of `Endpoints`, a request for `GET trip/stats` reaches the third handler of its controller or none |
| `StaffHolds`, `CompaniesAreFoundedTogether`, `DriversGetTheirRole`, `ChecksStillHold` | `StaffSpec => []StaffInv`, `[]FoundedTogether`, `DriverWithRole`, `ActsOnWhatHolds` |
| `FleetHolds`, `TripsHaveTheirSeats`, `UpdatesReachAll` | `FleetSpec => []FleetInv`, `[]SeatsOfBus`, `NoneLeftBehind` |
| `RegistryHolds`, `TwinsOverlap`, `FlagsAreTurned` | `RegistrySpec => []RegistryInv`, `[]OnlyOverlapsTwin`, `TogglesTurn` |
| `RowsAlwaysHold` | `BackOfficeSpec => []RowsHold` |

Each rests on an inductive invariant that says what calls under way rely on:

- `LoginInv` – `StrikesCount`: a block, or an attempt about to set one, comes from a wrong
  password, and one about to disable the account from another; `RowsAreRead`.
- `PasswordsInv` – the history has between one and `MaxHistory` hashes, the newest first,
  and each hash is saved once (`SavedOnce`). A hash that was saved is in the history no
  deeper than the saves since then can have pushed it, or has been pushed out, or a
  later save came from a call that had read the row before it (`Kept`); a call's copy
  was so when it read it (`HasRead`), and it compares its word with that copy.
  `Kept` holds of the new history because a save puts one hash in front of the copy: this
  is an induction over saves, carried by the position in the history and not by a
  recursive definition.
- `StaffInv` – `CommitsHold`: the rows and keys a call is about to commit are its own, and
  what it saw of them still holds. `PhonesDiffer`: the key behind the lookups. `LookupsHold`: what a call
  has looked up and not locked (the company is active, the user enabled and of that company,
  the status as read) is so unless it was written under it (`stale`).
- `FleetInv` – `ClerksHold`: the kit a call has read for a trip is the bus's unless that was changed; after its first UPDATE, buses of the
  old model have been written since. `TripsHold`.
- `RegistryInv` – `CallsHold`: the rows a call saw are still there and, unless edited, no
  twins of what it will insert; `FlagsHold`.

`LockIsTemporary` needs no more than `LoginTypeOK`: only the SET of an attempt leaves the key
without a time to live, and that attempt then stands before its EXPIRE, which takes
effect or is cut short.

`BackOfficeProofs` joins the parts. The lemma `PartsAreThemselves`: no part writes another's rows, so
that a behaviour of the back office is, seen from each part, one of its own with
stutters. `RowsAlwaysHold` is then the conjunction of the parts' theorems.

`EachReached` is a fact about the tables of handlers: `Covers` says when a request for one could be
taken by another (same verb, same length, each segment equal or spelled ":id"), and a lemma per
controller goes through the pairs of its table. `CoversShort` looks at two segments only, which
is enough to tell the paths of this application apart.

Only model-checked: `ClaimsCatchUp`, which is liveness.

### Met on the way, without a run

- The one-time code of a password reset is not deleted when it is used (`auth.service.ts:431-476`).
- The terminals controller has decorators but no guard that reads them; `create` of a
  terminal does not await its query (`terminals.service.ts:79-112`), and `update` refuses a
  name in another city and not in the same one.
- The check of code 23505 in `city.service.ts` never makes a Conflict.
- The administrator of a new company gets the `companyId` of a company without an id yet
  (`transport-company.service.ts:134`).
- `create` of a trip does not look at the day: two trips of a bus may overlap
  (`trip.service.ts:243-301`), although `findAllBusses` offers only buses without one.
- `createDriver` for a caller without a company makes a driver of any enabled user, in an arbitrary
  active company (`driver.service.ts:209-249`).
- The bodies of bus models are not validated (`bus.controller.ts:84`, `:114`).
- An empty list of realms or roles opens a handler (`access.guard.ts:44-45`); no handler has one.
- `updateateUser` looks up the id of the path and updates that of the body (`user.service.ts:84-103`).
- `update` of a route does not look for a duplicate, and the query of `create` ignores the company.
- `update` of a bus with `applyForAll` is two statements without a transaction
  (`bus.service.ts:220-233`); the bus it names need not be the caller's.

## 7. Not modelled

`PROJECT.json` lists the components and what is left out of each. Without a state to
model: configuration, validation, DTOs, the Redis client, commented-out messaging, and
the entities no service uses (payments, refunds, payouts, ratings, subscriptions,
documents). The listings and searches of every service read and change nothing: their
filters, pages and formatting are left out, as are message texts, file uploads, and
third parties other than the gateway, whose side is only what the booking service can
see of it. A body's fields that no guard reads (addresses, descriptions, licences'
dates) are left out with the updates that write nothing else.
