------------------------------ MODULE BookingInv ------------------------------
(***************************************************************************)
(* The inductive invariant behind the theorems of BookingProofs: what the  *)
(* row locks of a transaction say of the rows, at every statement.         *)
(***************************************************************************)
EXTENDS Booking

(* A request locks seats it asked for, while they are AVAILABLE; a sweep   *)
(* locks seats while they are HELD.  Nobody else can change them then.     *)
LockedSeats ==
  \A x \in Seats :
    /\ seatLock[x] \in Requests =>
         /\ seat[x] = "AVAILABLE"
         /\ Active(seatLock[x])
         /\ x \in tx[seatLock[x]].seats
    /\ seatLock[x] \in Sweeps => seat[x] = "HELD"

(* A booking row appears when its request is done, and only then can a     *)
(* sweep or a callback know it.                                            *)
KnownBookings ==
  /\ \A r \in Requests :
       /\ status[r] # "absent" => tx[r].pc = "done"
       /\ tx[r].todo \subseteq tx[r].seats
       /\ bookingLock[r] # NoTxn => status[r] # "absent"
  /\ \A p \in Sweeps \cup Callbacks :
       /\ \A b \in tx[p].found : status[b] # "absent"
       /\ tx[p].booking \in Requests => status[tx[p].booking] # "absent"

(* A sweep has visited every row of a booking before it expires it.        *)
SweepSteps ==
  \A s \in Sweeps :
    /\ tx[s].pc \in {"releasing", "deleting", "expiring", "crediting"} => tx[s].booking \in Requests
    /\ tx[s].pc \in {"deleting", "expiring"} => tx[s].todo = {}

(* A callback has locked its booking and no other, whose rows stay what    *)
(* was read, and each of their seats it has been through.  Without a       *)
(* billRefNo it locks no booking.                                          *)
CallbackStep(c) ==
  /\ c \notin Nameless /\ tx[c].pc \in {"booking", "committing"} =>
       /\ tx[c].booking \in Requests
       /\ bookingLock[tx[c].booking] = c
       /\ tx[c].seats = rows[tx[c].booking]
       /\ \A x \in rows[tx[c].booking] : x \in tx[c].todo \/ seatLock[x] = c
  /\ tx[c].pc = "committing" => tx[c].todo = {}
  /\ \A b \in Requests :
       bookingLock[b] = c =>
         c \notin Nameless /\ tx[c].pc \in {"booking", "committing"} /\ tx[c].booking = b

CallbackSteps == \A c \in Callbacks : CallbackStep(c)

(* Transaction p will end booking b and has been through seat x.           *)
Passed(p, b, x) ==
  \/ /\ p \in Sweeps
     /\ \/ bookingLock[b] = p
        \/ /\ tx[p].pc \in {"releasing", "deleting", "expiring"}
           /\ tx[p].booking = b
           /\ x \notin tx[p].todo
  \/ p \in Callbacks /\ bookingLock[b] = p /\ x \notin tx[p].todo

(* A HELD seat has a PENDING booking that no transaction is about to end   *)
(* without changing the seat with it.                                      *)
HolderStays ==
  \A x \in Seats : seat[x] = "HELD" =>
    \E b \in Requests :
      /\ status[b] = "PENDING"
      /\ x \in rows[b]
      /\ \A p \in Txns : Passed(p, b, x) => seatLock[x] = p

(* The whole invariant: every row lock protects what its holder relies on, *)
(* whatever the interleaving of createBooking, getTripDetail and           *)
(* starpayCallback.                                                        *)
LocksProtect ==
  /\ LockedSeats
  /\ KnownBookings
  /\ SweepSteps
  /\ CallbackSteps
  /\ HolderStays
  /\ CompletedSeatsBooked

-----------------------------------------------------------------------------
(*           sweeps kept apart: why no seat is sold twice then             *)

(* No sweep has locked the row of a booking that another sweep still has   *)
(* on its list or in hand.  Nothing in getTripDetail sees to it, except    *)
(* that only one client sweeps at a time.                                  *)
SweepsApart ==
  \A s, u \in Sweeps, b \in Requests :
    s # u /\ bookingLock[b] = u =>
      /\ b \notin tx[s].found
      /\ ~ (tx[s].pc \in {"releasing", "deleting", "expiring"} /\ tx[s].booking = b)

OneSweep == \A s, u \in Sweeps : s = u

(* A request has locked the seats it has been through.                     *)
RequestHasSeats ==
  \A r \in Requests :
    /\ tx[r].pc = "locking" => \A x \in tx[r].seats \ tx[r].todo : seatLock[x] = r
    /\ tx[r].pc \in {"holding", "ordering", "committing"} =>
         \A x \in tx[r].seats : seatLock[x] = r

(* The seats of a live booking are not on offer.                           *)
LiveSeatsTaken ==
  \A b \in Requests : Live(b) => \A x \in rows[b] : seat[x] # "AVAILABLE"

(* A booking that is over, or has not begun, has no passengers.            *)
DeadRowsGone == \A b \in Requests : ~ Live(b) => rows[b] = {}

(* What a sweep has listed and read is still so.                           *)
SweepIsCurrent ==
  \A s \in Sweeps :
    /\ \A b \in tx[s].found : Live(b)
    /\ tx[s].pc \in {"releasing", "deleting", "expiring"} =>
         /\ tx[s].booking \in Requests
         /\ Live(tx[s].booking)
         /\ tx[s].todo \subseteq rows[tx[s].booking]

(* A sweep ends whatever live booking has a seat that it has locked.       *)
SweepEndsHolder ==
  \A s \in Sweeps, x \in Seats, b \in Requests :
    seatLock[x] = s /\ Live(b) /\ x \in rows[b] =>
      \/ bookingLock[b] = s
      \/ tx[s].pc \in {"releasing", "deleting", "expiring"} /\ tx[s].booking = b

(* The whole invariant: with sweeps apart, a seat is only given up by the  *)
(* booking that has it, and only then sold again.                          *)
SeatsChangeHands ==
  /\ RequestHasSeats
  /\ LiveSeatsTaken
  /\ DeadRowsGone
  /\ SweepIsCurrent
  /\ SweepEndsHolder
  /\ SeatSoldOnce

(* A request asks for seats of one open trip, and has no order before the  *)
(* gateway has answered.                                                   *)
RequestAsks(r) ==
  /\ tx[r].pc \in {"idle", "locking", "holding", "ordering"} => order[r] = "none"
  /\ tx[r].pc \in {"locking", "holding", "ordering", "committing"} =>
       /\ tx[r].trip \notin ClosedTrips /\ tx[r].seats # {}
       /\ \A x \in tx[r].seats : x[1] = tx[r].trip

(* What a sweep has listed, read or locked is overdue, and what it has     *)
(* locked nobody else can end.                                             *)
SweepIsDue(s) ==
  /\ tx[s].found \subseteq due
  /\ tx[s].pc \in {"releasing", "deleting", "expiring"} => tx[s].booking \in due
  /\ \A b \in Requests : bookingLock[b] = s => b \in due /\ Live(b)

(* What a transaction has checked without a lock still holds when it       *)
(* commits.                                                                *)
ReasonsLast ==
  /\ \A r \in Requests : RequestAsks(r)
  /\ \A s \in Sweeps : SweepIsDue(s)

(* With one sweep, or with sweeps apart, every call still has at its       *)
(* commit the seats, rows and reasons it began with (84-513 of             *)
(* booking.service.ts).                                                    *)
OneSweepInv == SeatsChangeHands /\ ReasonsLast
-----------------------------------------------------------------------------
(*            sweeps kept apart: transactions seem to be atomic            *)

Ledger == INSTANCE SeatLedger

(* What clients can read of seats, bookings and passengers is what they    *)
(* would read if every transaction happened at once, at its commit: at     *)
(* READ COMMITTED nobody promises this but the row locks, and with two     *)
(* sweeps at a time it is not true.                                        *)
TransactionsAreAtomic == Ledger!Spec

(* A callback locks the seats of the numbers it has read, and no others.   *)
CallbackNumbers(c) ==
  /\ tx[c].pc \in {"booking", "committing"} =>
       \A x \in Seats : x \in SameNumbers(tx[c].seats) => x \in tx[c].todo \/ seatLock[x] = c
  /\ \A x \in Seats : x \in tx[c].todo \/ seatLock[x] = c =>
       tx[c].pc \in {"booking", "committing"} /\ x \in SameNumbers(tx[c].seats)

CallbacksBookNumbers == \A c \in Callbacks : CallbackNumbers(c)
-----------------------------------------------------------------------------
(*        a booking has its order, and requests lock in one order          *)

(* The commit of a booking comes after the answer of the gateway.          *)
OrdersComeFirst ==
  /\ BookingHasOrder
  /\ \A r \in Requests : tx[r].pc = "committing" => order[r] # "none"

(* While request r locks seats, those that it has are of smaller numbers   *)
(* than those it still wants, each number being wanted once; it locks its  *)
(* trip when it has them all, and never a booking.                         *)
LocksInOrder(r) ==
  /\ tx[r].pc \in {"locking", "holding"} => tx[r].trip \in Trips
  /\ tx[r].pc = "locking" =>
       /\ \A x, y \in tx[r].todo : x[2] = y[2] => x = y
       /\ \A x \in Seats, y \in tx[r].todo : seatLock[x] = r => x[2] < y[2]
  /\ \A t \in Trips : tripLock[t] = r =>
       t = tx[r].trip /\ tx[r].pc \in {"holding", "ordering", "committing"}
  /\ tx[r].pc \in {"idle", "done", "failed"} => \A x \in Seats : seatLock[x] # r
  /\ \A b \in Requests : bookingLock[b] # r

LocksAreSorted == \A r \in Requests : LocksInOrder(r)

(* A transaction is at a statement of its own handler.                     *)
OwnStatements ==
  /\ \A r \in Requests :
       tx[r].pc \in {"idle", "locking", "holding", "ordering", "committing", "done", "failed"}
  /\ \A s \in Sweeps :
       tx[s].pc \in {"idle", "listing", "releasing", "deleting", "expiring", "crediting",
                     "committing"}
=============================================================================
