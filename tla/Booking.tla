------------------------------- MODULE Booking -------------------------------
(***************************************************************************)
(* Seat booking: the three transactions of booking.service.ts that share   *)
(* the rows of trips, trip_seats, bookings and booking_passengers.         *)
(*                                                                         *)
(*   createBooking    one process per request: locks the seats, holds      *)
(*                    them, asks the payment gateway for an order, commits *)
(*   getTripDetail    the sweep that a GET of a trip runs first: releases  *)
(*                    the seats of PENDING bookings whose time is over     *)
(*   starpayCallback  one process per delivery of the gateway's callback   *)
(*                                                                         *)
(* A transaction runs at PostgreSQL's READ COMMITTED level, one statement  *)
(* per step.  seat, avail, status, rows and tickets are the committed      *)
(* rows; what a transaction has written and not committed is exactly what  *)
(* it holds a row lock on, so the locks and tx[p] carry its pending        *)
(* writes and its commit applies them.  A statement that meets a row       *)
(* locked by another transaction waits (the step is not enabled) and looks *)
(* at the committed row again once the lock is released.  A transaction    *)
(* may be rolled back at any statement: an error of the gateway, of the    *)
(* connection or of the database (a deadlock victim) and a crash of the    *)
(* server all end in Abort.                                                *)
(***************************************************************************)
EXTENDS Integers, FiniteSets

CONSTANTS
  Trips,          \* ids of the trips
  ClosedTrips,    \* the trips whose status is CANCELLED or COMPLETED
  SeatNumbers,    \* seat numbers, in the order localeCompare gives them
  TotalSeats,     \* model.totalSeats of the bus of each trip
  MaxPassengers,  \* bound: passengers in the body of one request
  Requests,       \* calls of createBooking; also the id of the booking it makes
  Sweeps,         \* clients that call getTripDetail, each any number of times
  Callbacks,      \* concurrent deliveries of starpayCallback, each repeated
  Nameless,       \* those of them whose body has no billRefNo
  NoTxn,          \* owner of a row that is not locked
  NoTrip,         \* no trip chosen, or an id that no trip has
  NoBooking       \* no booking chosen

Txns == Requests \cup Sweeps \cup Callbacks

(* A seat row of trip_seats is its unique key, (tripId, seatNumber). *)
Seats == Trips \X SeatNumbers

ASSUME TxnsAreDistinct ==
  /\ Requests \cap Sweeps = {}
  /\ Requests \cap Callbacks = {}
  /\ Sweeps \cap Callbacks = {}
  /\ NoTxn \notin Txns

ASSUME SeatNumbersAssumption ==
  /\ SeatNumbers \subseteq Int
  /\ IsFiniteSet(SeatNumbers)

ASSUME MaxPassengersAssumption == MaxPassengers \in Nat

ASSUME FiniteTrips == IsFiniteSet(Trips) /\ ClosedTrips \subseteq Trips

ASSUME TotalSeatsAssumption == TotalSeats \in [Trips -> Nat]

ASSUME NamelessAssumption == Nameless \subseteq Callbacks

ASSUME NullsAreDistinct == NoTrip \notin Trips /\ NoBooking \notin Requests

VARIABLES
  seat,         \* trip_seats.status
  avail,        \* trips.availableSeats
  status,       \* bookings.status, "absent" while there is no row
  due,          \* bookings whose expiresAt is in the past
  rows,         \* booking_passengers of a booking, by their seat
  tickets,      \* those of them that have a ticketNumber
  order,        \* the gateway's order for a booking (external)
  seatLock,     \* row locks: the transaction that holds each row, or NoTxn
  bookingLock,
  tripLock,
  tx            \* where each transaction is and what it keeps in memory

db    == <<seat, avail, status, due, rows, tickets>>
locks == <<seatLock, bookingLock, tripLock>>
vars  == <<db, order, locks, tx>>

-----------------------------------------------------------------------------
SeatStatus    == {"AVAILABLE", "HELD", "BOOKED"}
BookingStatus == {"absent", "PENDING", "COMPLETED", "EXPIRED"}
OrderStatus   == {"none", "open"}

Steps == {"idle", "done", "failed", "committing",      \* of every transaction
          "locking", "holding", "ordering",            \* createBooking
          "listing", "releasing", "deleting",          \* getTripDetail
          "expiring", "crediting",
          "completing", "booking"}                     \* starpayCallback

(***************************************************************************)
(* The memory of a transaction.                                            *)
(*   trip     the trip booked or viewed                                    *)
(*   booking  the booking a sweep or a callback works on                   *)
(*   found    the expired bookings a sweep has listed and not yet handled  *)
(*   seats    the seats of the request, or of the BookingPassenger rows    *)
(*            read                                                         *)
(*   todo     the seat rows the current loop has still to visit            *)
(*   avail    trip.availableSeats of the entity createBooking has loaded   *)
(*   credit   what a sweep has added to availableSeats so far              *)
(***************************************************************************)
Tx == [pc      : Steps,
       trip    : Trips \cup {NoTrip},
       booking : Requests \cup {NoBooking},
       found   : SUBSET Requests,
       seats   : SUBSET Seats,
       todo    : SUBSET Seats,
       avail   : Nat,
       credit  : Nat]

At(step) == [pc |-> step, trip |-> NoTrip, booking |-> NoBooking, found |-> {},
             seats |-> {}, todo |-> {}, avail |-> 0, credit |-> 0]

Becomes(p, memory) == tx' = [tx EXCEPT ![p] = memory]

Active(p) == tx[p].pc \notin {"idle", "done", "failed"}

Free(lock, p) == lock \in {NoTxn, p}

Unlocked(lock, p) == [k \in DOMAIN lock |-> IF lock[k] = p THEN NoTxn ELSE lock[k]]

(* The end of a transaction: its locks are released, its memory is gone. *)
Finish(p, step) ==
  /\ seatLock'    = Unlocked(seatLock, p)
  /\ bookingLock' = Unlocked(bookingLock, p)
  /\ tripLock'    = Unlocked(tripLock, p)
  /\ Becomes(p, At(step))

(* Mutant: the connection goes back to the pool inside its transaction. *)
RollbackKeepsLocks(p) ==
  /\ Becomes(p, At(IF p \in Requests THEN "failed" ELSE "idle"))
  /\ UNCHANGED <<db, order, locks>>

Rollback(p) ==
  /\ Finish(p, IF p \in Requests THEN "failed" ELSE "idle")
  /\ UNCHANGED <<db, order>>

Abort(p) == Active(p) /\ Rollback(p)

-----------------------------------------------------------------------------
(* A trip has the seats of the layout of its bus, and as availableSeats    *)
(* the totalSeats of the bus' model, which need not be their number.       *)
Init ==
  /\ seat        = [x \in Seats |-> "AVAILABLE"]
  /\ avail       = TotalSeats
  /\ status      = [b \in Requests |-> "absent"]
  /\ due         = {}
  /\ rows        = [b \in Requests |-> {}]
  /\ tickets     = [b \in Requests |-> {}]
  /\ order       = [b \in Requests |-> "none"]
  /\ seatLock    = [x \in Seats |-> NoTxn]
  /\ bookingLock = [b \in Requests |-> NoTxn]
  /\ tripLock    = [t \in Trips |-> NoTxn]
  /\ tx          = [p \in Txns |-> At("idle")]

-----------------------------------------------------------------------------
(*                            createBooking                                *)

(* data.passengers, by their seat numbers. *)
Bodies == UNION {[1..n -> SeatNumbers] : n \in 0..MaxPassengers}

SeatsOf(t, body) == {<<t, body[i]>> : i \in DOMAIN body}

Acceptable(t, body) ==
  /\ DOMAIN body # {}
  /\ \A i, j \in DOMAIN body : body[i] = body[j] => i = j
  /\ t \notin ClosedTrips

(* The checks before the transaction.  The trip is read here, outside it,  *)
(* and the transaction uses the entity that was loaded.                    *)
Submit(r) ==
  /\ tx[r].pc = "idle"
  /\ \E t \in Trips, body \in Bodies :
       \/ /\ Acceptable(t, body)
          /\ Becomes(r, [At("locking") EXCEPT !.trip  = t,
                                              !.seats = SeatsOf(t, body),
                                              !.todo  = SeatsOf(t, body),
                                              !.avail = avail[t]])
       \/ /\ ~Acceptable(t, body)
          /\ Becomes(r, At("failed"))
  /\ UNCHANGED <<db, order, locks>>

(* Mutant: the passengers are left in the order of the body. *)
IsNextSeatUnsorted(r, x) == x \in tx[r].todo

(* requestedPassengers is sorted by seat number. *)
IsNextSeat(r, x) == x \in tx[r].todo /\ \A y \in tx[r].todo : x[2] <= y[2]

(* The memory of a loop over todo that has visited x. *)
Visit(p, x, here, next) ==
  [tx[p] EXCEPT !.todo = @ \ {x}, !.pc = IF tx[p].todo = {x} THEN next ELSE here]

(* Mutant: the SELECT has no lock mode. *)
LockSeatUnlocked(r) ==
  /\ tx[r].pc = "locking"
  /\ \E x \in tx[r].todo :
       /\ IsNextSeat(r, x)
       /\ seat[x] = "AVAILABLE"
       /\ seatLock' = [seatLock EXCEPT ![x] = r]
       /\ Becomes(r, IF tx[r].todo = {x}
                       THEN [tx[r] EXCEPT !.todo = tx[r].seats, !.pc = "holding"]
                       ELSE [tx[r] EXCEPT !.todo = @ \ {x}])
  /\ UNCHANGED <<db, order, bookingLock, tripLock>>

(* Mutant: the SELECT does not ask for status = AVAILABLE. *)
LockSeatAnyStatus(r) ==
  /\ tx[r].pc = "locking"
  /\ \E x \in tx[r].todo :
       /\ IsNextSeat(r, x)
       /\ seatLock[x] = NoTxn
       /\ seatLock' = [seatLock EXCEPT ![x] = r]
       /\ Becomes(r, IF tx[r].todo = {x}
                       THEN [tx[r] EXCEPT !.todo = tx[r].seats, !.pc = "holding"]
                       ELSE [tx[r] EXCEPT !.todo = @ \ {x}])
  /\ UNCHANGED <<db, order, bookingLock, tripLock>>

(* SELECT ... WHERE status = AVAILABLE FOR UPDATE. *)
LockSeat(r) ==
  /\ tx[r].pc = "locking"
  /\ \E x \in tx[r].todo :
       /\ IsNextSeat(r, x)
       /\ seat[x] = "AVAILABLE"
       /\ seatLock[x] = NoTxn
       /\ seatLock' = [seatLock EXCEPT ![x] = r]
       /\ Becomes(r, IF tx[r].todo = {x}
                       THEN [tx[r] EXCEPT !.todo = tx[r].seats, !.pc = "holding"]
                       ELSE [tx[r] EXCEPT !.todo = @ \ {x}])
  /\ UNCHANGED <<db, order, bookingLock, tripLock>>

(* The same statement finds no row: the seat is not AVAILABLE. *)
RejectSeat(r) ==
  /\ tx[r].pc = "locking"
  /\ \E x \in tx[r].todo : IsNextSeat(r, x) /\ seat[x] # "AVAILABLE"
  /\ Rollback(r)

(* Mutant: no Math.max. *)
MaxZeroUnclamped(n) == n

MaxZero(n) == IF n > 0 THEN n ELSE 0

(* trip.availableSeats after one more passenger: it is decremented by the  *)
(* number of passengers for every passenger.                               *)
Decremented(r) == MaxZero(tx[r].avail - Cardinality(tx[r].seats))

(* availableSeats of the trip as transaction r sees it. *)
VisibleAvail(r) == IF tripLock[tx[r].trip] = r THEN tx[r].avail ELSE avail[tx[r].trip]

(* Mutant: the booking is committed before the gateway is asked. *)
HoldSeatThenCommit(r) ==
  /\ tx[r].pc = "holding"
  /\ Decremented(r) # VisibleAvail(r) => Free(tripLock[tx[r].trip], r)
  /\ tripLock' = [tripLock EXCEPT ![tx[r].trip] =
                    IF Decremented(r) # VisibleAvail(r) THEN r ELSE @]
  /\ \E x \in tx[r].todo :
       /\ IsNextSeat(r, x)
       /\ Becomes(r, [Visit(r, x, "holding", "committing") EXCEPT !.avail = Decremented(r)])
  /\ UNCHANGED <<db, order, seatLock, bookingLock>>

(* One passenger: Passenger, BookingPassenger and the HELD seat are saved, *)
(* then the trip, which save() updates only when the row differs from the  *)
(* entity; the update waits for the row.                                   *)
HoldSeat(r) ==
  /\ tx[r].pc = "holding"
  /\ LET t == tx[r].trip
         changed == Decremented(r) # VisibleAvail(r)
     IN  /\ changed => Free(tripLock[t], r)
         /\ tripLock' = IF changed THEN [tripLock EXCEPT ![t] = r] ELSE tripLock
  /\ \E x \in tx[r].todo :
       /\ IsNextSeat(r, x)
       /\ Becomes(r, [Visit(r, x, "holding", "ordering") EXCEPT !.avail = Decremented(r)])
  /\ UNCHANGED <<db, order, seatLock, bookingLock>>

(* The gateway has accepted the order; its id is stored in the booking. *)
PlaceOrder(r) ==
  /\ tx[r].pc = "ordering"
  /\ order' = [order EXCEPT ![r] = "open"]
  /\ Becomes(r, [tx[r] EXCEPT !.pc = "committing"])
  /\ UNCHANGED <<db, locks>>

CommitBooking(r) ==
  /\ tx[r].pc = "committing"
  /\ seat'   = [x \in Seats |-> IF seatLock[x] = r THEN "HELD" ELSE seat[x]]
  /\ avail'  = [t \in Trips |-> IF tripLock[t] = r THEN tx[r].avail ELSE avail[t]]
  /\ status' = [status EXCEPT ![r] = "PENDING"]
  /\ rows'   = [rows EXCEPT ![r] = tx[r].seats]
  /\ Finish(r, "done")
  /\ UNCHANGED <<due, tickets, order>>

RequestNext(r) ==
  \/ LockSeat(r) \/ RejectSeat(r) \/ HoldSeat(r)
  \/ PlaceOrder(r) \/ CommitBooking(r)

-----------------------------------------------------------------------------
(*                     getTripDetail: the expiry sweep                     *)

Expired == {b \in Requests : status[b] = "PENDING" /\ b \in due}

(* A client views trip t, whether or not there is one; the list of expired *)
(* bookings is of every trip.                                              *)
StartSweep(s) ==
  /\ tx[s].pc = "idle"
  /\ \E t \in Trips \cup {NoTrip} :
       Becomes(s, IF Expired = {}
                    THEN tx[s]
                    ELSE [At("listing") EXCEPT !.trip = t, !.found = Expired])
  /\ UNCHANGED <<db, order, locks>>

(* The next booking of the list, and its BookingPassenger rows.            *)
PickBooking(s) ==
  /\ tx[s].pc = "listing"
  /\ \E b \in tx[s].found :
       Becomes(s, [tx[s] EXCEPT !.found   = @ \ {b},
                                !.booking = b,
                                !.seats   = rows[b],
                                !.todo    = rows[b],
                                !.pc      = IF rows[b] = {} THEN "deleting" ELSE "releasing"])
  /\ UNCHANGED <<db, order, locks>>

(* Mutant: the UPDATE does not ask for status = HELD. *)
ReleaseSeatAnyStatus(s) ==
  /\ tx[s].pc = "releasing"
  /\ \E x \in tx[s].todo :
       /\ Free(seatLock[x], s)
       /\ seatLock' = [seatLock EXCEPT ![x] = s]
       /\ Becomes(s, Visit(s, x, "releasing", "deleting"))
  /\ UNCHANGED <<db, order, bookingLock, tripLock>>

(* Mutant: a seat that another transaction has locked is skipped. *)
ReleaseSeatSkipLocked(s) ==
  /\ tx[s].pc = "releasing"
  /\ \E x \in tx[s].todo :
       /\ seatLock' = IF seat[x] = "HELD" /\ seatLock[x] = NoTxn
                        THEN [seatLock EXCEPT ![x] = s]
                        ELSE seatLock
       /\ Becomes(s, Visit(s, x, "releasing", "deleting"))
  /\ UNCHANGED <<db, order, bookingLock, tripLock>>

(* UPDATE trip_seats SET AVAILABLE WHERE id = x AND status = HELD.         *)
ReleaseSeat(s) ==
  /\ tx[s].pc = "releasing"
  /\ \E x \in tx[s].todo :
       /\ \/ /\ seat[x] = "HELD"
             /\ seatLock[x] = NoTxn
             /\ seatLock' = [seatLock EXCEPT ![x] = s]
          \/ /\ seat[x] # "HELD" \/ seatLock[x] = s
             /\ UNCHANGED seatLock
       /\ Becomes(s, Visit(s, x, "releasing", "deleting"))
  /\ UNCHANGED <<db, order, bookingLock, tripLock>>

(* Sweep u has deleted the rows of booking b and not committed: it holds   *)
(* the row locks on them, if there are any.                                *)
HasRows(u, b) ==
  /\ u \in Sweeps
  /\ rows[b] # {}
  /\ bookingLock[b] = u \/ (tx[u].pc = "expiring" /\ tx[u].booking = b)

(* DELETE FROM booking_passengers WHERE bookingId = the booking's id.      *)
DeleteRows(s) ==
  /\ tx[s].pc = "deleting"
  /\ \A u \in Sweeps \ {s} : ~ HasRows(u, tx[s].booking)
  /\ Becomes(s, [tx[s] EXCEPT !.pc = "expiring"])
  /\ UNCHANGED <<db, order, locks>>

(* Mutant: a booking that another transaction has locked is skipped. *)
ExpireBookingSkipLocked(s) ==
  /\ tx[s].pc = "expiring"
  /\ bookingLock' = [bookingLock EXCEPT ![tx[s].booking] = IF @ = NoTxn THEN s ELSE @]
  /\ Becomes(s, [tx[s] EXCEPT !.pc = "crediting"])
  /\ UNCHANGED <<db, order, seatLock, tripLock>>

(* The booking is set EXPIRED by its id, whatever its status is by now.    *)
ExpireBooking(s) ==
  /\ tx[s].pc = "expiring"
  /\ bookingLock[tx[s].booking] = NoTxn
  /\ bookingLock' = [bookingLock EXCEPT ![tx[s].booking] = s]
  /\ Becomes(s, [tx[s] EXCEPT !.pc = "crediting"])
  /\ UNCHANGED <<db, order, seatLock, tripLock>>

(* The number of rows read goes to the trip that is viewed, if there is    *)
(* such a trip.                                                            *)
CreditTrip(s) ==
  /\ tx[s].pc = "crediting"
  /\ \/ /\ tx[s].trip \in Trips
        /\ Free(tripLock[tx[s].trip], s)
        /\ tripLock' = [tripLock EXCEPT ![tx[s].trip] = s]
     \/ tx[s].trip = NoTrip /\ UNCHANGED tripLock
  /\ Becomes(s, [tx[s] EXCEPT !.credit = @ + Cardinality(tx[s].seats),
                              !.pc = IF tx[s].found = {} THEN "committing" ELSE "listing"])
  /\ UNCHANGED <<db, order, seatLock, bookingLock>>

(* Mutant: the BookingPassenger rows are not deleted. *)
CommitSweepKeepsRows(s) ==
  /\ tx[s].pc = "committing"
  /\ seat'   = [x \in Seats |-> IF seatLock[x] = s THEN "AVAILABLE" ELSE seat[x]]
  /\ avail'  = [t \in Trips |-> IF tripLock[t] = s THEN avail[t] + tx[s].credit ELSE avail[t]]
  /\ status' = [b \in Requests |-> IF bookingLock[b] = s THEN "EXPIRED" ELSE status[b]]
  /\ Finish(s, "idle")
  /\ UNCHANGED <<due, rows, tickets, order>>

CommitSweep(s) ==
  /\ tx[s].pc = "committing"
  /\ seat'    = [x \in Seats |-> IF seatLock[x] = s THEN "AVAILABLE" ELSE seat[x]]
  /\ avail'   = [t \in Trips |-> IF tripLock[t] = s THEN avail[t] + tx[s].credit ELSE avail[t]]
  /\ status'  = [b \in Requests |-> IF bookingLock[b] = s THEN "EXPIRED" ELSE status[b]]
  /\ rows'    = [b \in Requests |-> IF bookingLock[b] = s THEN {} ELSE rows[b]]
  /\ tickets' = [b \in Requests |-> IF bookingLock[b] = s THEN {} ELSE tickets[b]]
  /\ Finish(s, "idle")
  /\ UNCHANGED <<due, order>>

SweepNext(s) ==
  \/ PickBooking(s) \/ ReleaseSeat(s) \/ DeleteRows(s)
  \/ ExpireBooking(s) \/ CreditTrip(s) \/ CommitSweep(s)

-----------------------------------------------------------------------------
(*                            starpayCallback                              *)

(* A callback with status PAID whose booking is found.  Anyone may post    *)
(* one, for any booking.  Without a billRefNo the search has no condition, *)
(* and any booking is found.                                               *)
ReceiveCallback(c) ==
  /\ tx[c].pc = "idle"
  /\ \E b \in Requests :
       /\ status[b] # "absent"
       /\ Becomes(c, [At("completing") EXCEPT !.booking = b])
  /\ UNCHANGED <<db, order, locks>>

(* One whose booking is not found, or with status FAILED: nothing is done. *)
IgnoreCallback(c) ==
  /\ tx[c].pc = "idle"
  /\ UNCHANGED vars

(* The trip_seats rows whose seatNumber is one of those of the rows xs,    *)
(* on every trip.                                                          *)
SameNumbers(xs) == {x \in Seats : \E y \in xs : y[2] = x[2]}

(* The passengers of booking b are read. *)
ReadPassengers(c, b) ==
  Becomes(c, [tx[c] EXCEPT !.seats = rows[b],
                           !.todo  = SameNumbers(rows[b]),
                           !.pc    = IF rows[b] = {} THEN "committing" ELSE "booking"])

(* UPDATE bookings SET COMPLETED, then the passengers are read.  Their rows *)
(* do not go away before the commit: a sweep that deletes them goes on to   *)
(* update the booking row, which is locked here.                            *)
CompleteBooking(c) ==
  /\ tx[c].pc = "completing"
  /\ c \notin Nameless
  /\ \E b \in Requests :
       /\ b = tx[c].booking
       /\ bookingLock[b] = NoTxn
       /\ bookingLock' = [bookingLock EXCEPT ![b] = c]
       /\ ReadPassengers(c, b)
  /\ UNCHANGED <<db, order, seatLock, tripLock>>

(* Without a billRefNo the UPDATE finds no row and locks none.              *)
CompleteNothing(c) ==
  /\ tx[c].pc = "completing"
  /\ c \in Nameless
  /\ \E b \in Requests : b = tx[c].booking /\ ReadPassengers(c, b)
  /\ UNCHANGED <<db, order, locks>>

(* Mutant: a seat that another transaction has locked is skipped. *)
BookSeatSkipLocked(c) ==
  /\ tx[c].pc = "booking"
  /\ \E x \in tx[c].todo :
       /\ seatLock' = IF seatLock[x] = NoTxn THEN [seatLock EXCEPT ![x] = c] ELSE seatLock
       /\ Becomes(c, Visit(c, x, "booking", "committing"))
  /\ UNCHANGED <<db, order, bookingLock, tripLock>>

(* UPDATE trip_seats SET BOOKED WHERE seatNumber IN ..., row by row.       *)
BookSeat(c) ==
  /\ tx[c].pc = "booking"
  /\ \E x \in tx[c].todo :
       /\ seatLock[x] = NoTxn
       /\ seatLock' = [seatLock EXCEPT ![x] = c]
       /\ Becomes(c, Visit(c, x, "booking", "committing"))
  /\ UNCHANGED <<db, order, bookingLock, tripLock>>

(* Every ticket number goes to the first of the rows that were read, in    *)
(* whatever order the query gave them, if the row is still there.  The     *)
(* UPDATE waits for a sweep that has deleted the row.                      *)
WriteTicket(c, b) ==
  \/ tx[c].seats = {} /\ UNCHANGED tickets
  \/ /\ \A u \in Sweeps : ~ HasRows(u, b)
     /\ \E x \in tx[c].seats : tickets' = [tickets EXCEPT ![b] = @ \cup ({x} \cap rows[b])]

CommitCallback(c) ==
  /\ tx[c].pc = "committing"
  /\ seat' = [x \in Seats |-> IF seatLock[x] = c THEN "BOOKED" ELSE seat[x]]
  /\ status' = [b \in Requests |->
                  IF c \notin Nameless /\ b = tx[c].booking THEN "COMPLETED" ELSE status[b]]
  /\ WriteTicket(c, tx[c].booking)
  /\ Finish(c, "idle")
  /\ UNCHANGED <<avail, due, rows, order>>

CallbackNext(c) ==
  \/ CompleteBooking(c) \/ CompleteNothing(c) \/ BookSeat(c) \/ CommitCallback(c)

-----------------------------------------------------------------------------
(*                               the clock                                 *)

(* expiresAt of a PENDING booking passes. *)
ExpiryPasses(b) ==
  /\ status[b] = "PENDING"
  /\ b \notin due
  /\ due' = due \cup {b}
  /\ UNCHANGED <<seat, avail, status, rows, tickets, order, locks, tx>>

Next ==
  \/ \E r \in Requests  : Submit(r) \/ RequestNext(r)
  \/ \E s \in Sweeps    : StartSweep(s) \/ SweepNext(s)
  \/ \E c \in Callbacks : ReceiveCallback(c) \/ IgnoreCallback(c) \/ CallbackNext(c)
  \/ \E b \in Requests  : ExpiryPasses(b)
  \/ \E p \in Txns      : Abort(p)

Spec == Init /\ [][Next]_vars

-----------------------------------------------------------------------------
(*                               properties                                *)

(* Every variable has its type; availableSeats never goes below zero.      *)
TypeOK ==
  /\ seat        \in [Seats -> SeatStatus]
  /\ avail       \in [Trips -> Nat]
  /\ status      \in [Requests -> BookingStatus]
  /\ due         \subseteq Requests
  /\ rows        \in [Requests -> SUBSET Seats]
  /\ tickets     \in [Requests -> SUBSET Seats]
  /\ order       \in [Requests -> OrderStatus]
  /\ seatLock    \in [Seats -> Txns \cup {NoTxn}]
  /\ bookingLock \in [Requests -> Txns \cup {NoTxn}]
  /\ tripLock    \in [Trips -> Txns \cup {NoTxn}]
  /\ tx          \in [Txns -> Tx]

Live(b) == status[b] \in {"PENDING", "COMPLETED"}

(* No seat is sold twice: two bookings that are waiting for payment or     *)
(* paid never have a passenger on the same seat of the same trip.          *)
SeatSoldOnce ==
  \A a, b \in Requests : Live(a) /\ Live(b) /\ a # b => rows[a] \cap rows[b] = {}

(* "Get the seats held by this booking, ... Release the seats": a seat is  *)
(* only taken back from the customer whose booking expires with it.        *)
SeatReleasedWithItsBooking ==
  [][\A x \in Seats : seat[x] = "HELD" /\ seat'[x] = "AVAILABLE" =>
        \E b \in Requests :
          x \in rows[b] /\ status[b] = "PENDING" /\ status'[b] = "EXPIRED"]_seat

(* A HELD seat is always held by a booking that still waits for payment,   *)
(* so that an expiry will give it back: no interleaving of bookings,       *)
(* sweeps and callbacks leaves a seat HELD for nobody.                     *)
HeldSeatHasHolder ==
  \A x \in Seats : seat[x] = "HELD" =>
    \E b \in Requests : status[b] = "PENDING" /\ x \in rows[b]

(* The seats of the passengers of a paid booking are BOOKED: a sweep that  *)
(* runs beside the callback cannot leave them HELD or give them away.      *)
CompletedSeatsBooked ==
  \A b \in Requests : status[b] = "COMPLETED" =>
    \A x \in rows[b] : seat[x] = "BOOKED"

(* A sold seat is never released and never held again, by any transaction. *)
BookedIsFinal ==
  [][\A x \in Seats : seat[x] = "BOOKED" => seat'[x] = "BOOKED"]_seat

(* A ticket number is only ever on a passenger of a paid booking, and the  *)
(* seat it names is BOOKED.                                                *)
TicketIsForBookedSeat ==
  \A b \in Requests : \A x \in tickets[b] :
    status[b] = "COMPLETED" /\ x \in rows[b] /\ seat[x] = "BOOKED"

(* A booking that can be read always has its order at the gateway: no      *)
(* customer waits on a booking that can never be paid.                     *)
BookingHasOrder ==
  \A b \in Requests : status[b] # "absent" => order[b] # "none"

(* Transaction p waits for a row that another, q, has locked.              *)
WaitsFor(p, q) ==
  /\ q # p
  /\ \/ /\ tx[p].pc = "locking"
        /\ \E x \in tx[p].todo :
             IsNextSeat(p, x) /\ seat[x] = "AVAILABLE" /\ seatLock[x] = q
     \/ /\ tx[p].pc = "holding"
        /\ Decremented(p) # VisibleAvail(p)
        /\ tripLock[tx[p].trip] = q
     \/ /\ tx[p].pc = "releasing"
        /\ \E x \in tx[p].todo : seat[x] = "HELD" /\ seatLock[x] = q
     \/ /\ tx[p].pc = "booking"
        /\ \E x \in tx[p].todo : seatLock[x] = q
     \/ /\ tx[p].pc = "deleting" \/ (p \in Callbacks /\ tx[p].pc = "committing" /\ tx[p].seats # {})
        /\ HasRows(q, tx[p].booking)
     \/ /\ tx[p].pc = "expiring" \/ (tx[p].pc = "completing" /\ p \notin Nameless)
        /\ bookingLock[tx[p].booking] = q
     \/ /\ tx[p].pc = "crediting"
        /\ tx[p].trip \in Trips
        /\ tripLock[tx[p].trip] = q

(* Concurrent bookings never wait for each other in a circle, whatever     *)
(* seats they ask for and in whatever order the passengers are given: this *)
(* is what the sort by seat number is for.  Nor do they wait in a circle   *)
(* with sweeps, unless sweeps wait for each other.                         *)
BookingsNeverDeadlock ==
  \A ps \in (SUBSET (Requests \cup Sweeps)) \ {{}} :
    \/ \E p \in ps : \A q \in ps : ~ WaitsFor(p, q)
    \/ \E s, u \in ps \cap Sweeps : WaitsFor(s, u)

-----------------------------------------------------------------------------
(*           what the source says, and the runs show violated              *)

(* "4. Delete BookingPassenger rows, 5. Mark booking expired, ... Payment  *)
(* timeout": a booking that has been paid is not expired.                  *)
PaidBookingNotExpired ==
  [][\A b \in Requests : status[b] = "COMPLETED" => status'[b] # "EXPIRED"]_status

(* "generate ticket numbers": every passenger of a paid booking has one.   *)
EveryPassengerTicketed ==
  \A b \in Requests : status[b] = "COMPLETED" => tickets[b] = rows[b]

(* "Update trip availability": while no transaction runs, availableSeats   *)
(* is the number of AVAILABLE seats of the trip.                           *)
AvailabilityAgrees ==
  (\A p \in Txns : ~ Active(p)) =>
    \A t \in Trips :
      avail[t] = Cardinality({x \in Seats : x[1] = t /\ seat[x] = "AVAILABLE"})

(* The unique key of trip_seats is (tripId, seatNumber): a seat is sold    *)
(* only to a booking that has a passenger on it.                           *)
SoldSeatHasPassenger ==
  [][\A x \in Seats : seat[x] # "BOOKED" /\ seat'[x] = "BOOKED" =>
        \E b \in Requests : status'[b] = "COMPLETED" /\ x \in rows[b]]_seat
=============================================================================
