---------------------------- MODULE BookingProofs ----------------------------
(***************************************************************************)
(* Theorems about Booking for every finite number of trips, seats and      *)
(* passengers and every number of requests, sweeps and callbacks.          *)
(***************************************************************************)
EXTENDS BookingInv, FiniteSetTheorems, TLAPS

-----------------------------------------------------------------------------
(*                            type correctness                             *)

(* A set of seats has a number of elements.                                *)
LEMMA SeatsAreFinite ==
  ASSUME NEW xs \in SUBSET Seats
  PROVE  IsFiniteSet(xs) /\ Cardinality(xs) \in Nat
<1>1. IsFiniteSet(Seats)
  BY FS_Product, FiniteTrips, SeatNumbersAssumption DEF Seats
<1>2. IsFiniteSet(xs)
  BY <1>1, FS_Subset
<1>. QED
  BY <1>2, FS_CardinalityType

(* The fields of the memory of a transaction.                              *)
LEMMA MemoryFields ==
  ASSUME TypeOK, NEW p \in Txns
  PROVE  /\ tx[p] \in Tx
         /\ tx[p].pc \in Steps
         /\ tx[p].trip \in Trips \cup {NoTrip}
         /\ tx[p].booking \in Requests \cup {NoBooking}
         /\ tx[p].found \subseteq Requests
         /\ tx[p].seats \subseteq Seats
         /\ tx[p].todo \subseteq Seats
         /\ tx[p].avail \in Nat
         /\ tx[p].credit \in Nat
<1>1. tx[p] \in Tx
  BY DEF TypeOK
<1>. QED
  BY <1>1 DEF Tx

(* The memory of a transaction that has just begun or ended.               *)
LEMMA FreshMemory ==
  ASSUME NEW step \in Steps
  PROVE  At(step) \in Tx
  BY DEF At, Tx

(* Becomes changes the memory of one transaction.                          *)
LEMMA BecomesMemory ==
  ASSUME TypeOK, NEW p \in Txns, NEW m \in Tx, Becomes(p, m)
  PROVE  /\ tx' \in [Txns -> Tx]
         /\ tx'[p] = m
         /\ \A q \in Txns : q # p => tx'[q] = tx[q]
  BY DEF TypeOK, Becomes

(* A step of a loop keeps the memory well typed.                           *)
LEMMA VisitMemory ==
  ASSUME TypeOK, NEW p \in Txns, NEW x \in Seats, NEW here \in Steps, NEW next \in Steps
  PROVE  Visit(p, x, here, next) \in Tx
<1>1. tx[p] \in Tx
  BY DEF TypeOK
<1>. QED
  BY <1>1 DEF Visit, Tx

(* Ending a transaction keeps the locks and the memories well typed.       *)
LEMMA FinishType ==
  ASSUME TypeOK, NEW p \in Txns, NEW step \in Steps, Finish(p, step)
  PROVE  /\ seatLock'    \in [Seats -> Txns \cup {NoTxn}]
         /\ bookingLock' \in [Requests -> Txns \cup {NoTxn}]
         /\ tripLock'    \in [Trips -> Txns \cup {NoTxn}]
         /\ tx'          \in [Txns -> Tx]
<1>1. tx' \in [Txns -> Tx]
  BY FreshMemory, BecomesMemory DEF Finish
<1>. QED
  BY <1>1 DEF TypeOK, Finish, Unlocked

LEMMA RollbackType ==
  ASSUME TypeOK, NEW p \in Txns, Rollback(p)
  PROVE  TypeOK'
  BY FinishType DEF Rollback, TypeOK, db, Steps

LEMMA InitType == Init => TypeOK
<1>1. At("idle") \in Tx
  BY FreshMemory DEF Steps
<1>. QED
  BY <1>1, TotalSeatsAssumption DEF Init, TypeOK, SeatStatus, BookingStatus, OrderStatus

LEMMA SubmitType ==
  ASSUME TypeOK, NEW r \in Requests, Submit(r)
  PROVE  TypeOK'
<1>. r \in Txns
  BY DEF Txns
<1>1. PICK t \in Trips, body \in Bodies :
         \/ Becomes(r, [At("locking") EXCEPT !.trip  = t,
                                             !.seats = SeatsOf(t, body),
                                             !.todo  = SeatsOf(t, body),
                                             !.avail = avail[t]])
         \/ Becomes(r, At("failed"))
  BY DEF Submit
<1>2. SeatsOf(t, body) \in SUBSET Seats
  BY DEF SeatsOf, Bodies, Seats
<1>3. At("failed") \in Tx
  BY FreshMemory DEF Steps
<1>4. [At("locking") EXCEPT !.trip = t, !.seats = SeatsOf(t, body),
                            !.todo = SeatsOf(t, body), !.avail = avail[t]] \in Tx
  BY <1>2 DEF TypeOK, At, Tx, Steps
<1>5. tx' \in [Txns -> Tx]
  BY <1>1, <1>3, <1>4, BecomesMemory
<1>. QED
  BY <1>5 DEF TypeOK, Submit, db, locks

(* What is left of availableSeats is a natural number.                     *)
LEMMA DecrementedType ==
  ASSUME TypeOK, NEW r \in Requests
  PROVE  Decremented(r) \in Nat
<1>1. tx[r].avail \in Nat /\ tx[r].seats \in SUBSET Seats
  BY MemoryFields DEF Txns
<1>. QED
  BY <1>1, SeatsAreFinite DEF Decremented, MaxZero

(* One step of createBooking.                                              *)
LEMMA RequestType ==
  ASSUME TypeOK, NEW r \in Requests, RequestNext(r)
  PROVE  TypeOK'
<1>. r \in Txns
  BY DEF Txns
<1>. /\ tx[r] \in Tx
     /\ tx[r].seats \subseteq Seats
     /\ tx[r].todo \subseteq Seats
     /\ tx[r].avail \in Nat
  BY MemoryFields
<1>1. CASE LockSeat(r)
  <2>1. PICK x \in tx[r].todo :
          /\ seatLock' = [seatLock EXCEPT ![x] = r]
          /\ Becomes(r, IF tx[r].todo = {x}
                          THEN [tx[r] EXCEPT !.todo = tx[r].seats, !.pc = "holding"]
                          ELSE [tx[r] EXCEPT !.todo = @ \ {x}])
    BY <1>1 DEF LockSeat
  <2>2. /\ [tx[r] EXCEPT !.todo = tx[r].seats, !.pc = "holding"] \in Tx
        /\ [tx[r] EXCEPT !.todo = @ \ {x}] \in Tx
    BY DEF Tx, Steps
  <2>3. tx' \in [Txns -> Tx]
    BY <2>1, <2>2, BecomesMemory
  <2>. QED
    BY <1>1, <2>1, <2>3 DEF LockSeat, TypeOK, db
<1>2. CASE RejectSeat(r)
  BY <1>2, RollbackType DEF RejectSeat
<1>3. CASE HoldSeat(r)
  <2>1. PICK x \in tx[r].todo :
          Becomes(r, [Visit(r, x, "holding", "ordering") EXCEPT !.avail = Decremented(r)])
    BY <1>3 DEF HoldSeat
  <2>2. Visit(r, x, "holding", "ordering") \in Tx
    BY VisitMemory DEF Steps
  <2>3. [Visit(r, x, "holding", "ordering") EXCEPT !.avail = Decremented(r)] \in Tx
    BY <2>2, DecrementedType DEF Tx
  <2>4. tx' \in [Txns -> Tx]
    BY <2>1, <2>3, BecomesMemory
  <2>5. tripLock' \in [Trips -> Txns \cup {NoTxn}]
    BY <1>3 DEF HoldSeat, TypeOK
  <2>. QED
    BY <1>3, <2>4, <2>5 DEF HoldSeat, TypeOK, db
<1>4. CASE PlaceOrder(r)
  <2>1. [tx[r] EXCEPT !.pc = "committing"] \in Tx
    BY DEF Tx, Steps
  <2>2. tx' \in [Txns -> Tx]
    BY <1>4, <2>1, BecomesMemory DEF PlaceOrder
  <2>. QED
    BY <1>4, <2>2 DEF PlaceOrder, TypeOK, OrderStatus, db, locks
<1>5. CASE CommitBooking(r)
  <2>1. seat' \in [Seats -> SeatStatus] /\ avail' \in [Trips -> Nat]
    BY <1>5 DEF CommitBooking, TypeOK, SeatStatus
  <2>2. status' \in [Requests -> BookingStatus] /\ rows' \in [Requests -> SUBSET Seats]
    BY <1>5 DEF CommitBooking, TypeOK, BookingStatus
  <2>3. Finish(r, "done") /\ "done" \in Steps
    BY <1>5 DEF CommitBooking, Steps
  <2>. QED
    BY <1>5, <2>1, <2>2, <2>3, FinishType DEF CommitBooking, TypeOK
<1>. QED
  BY <1>1, <1>2, <1>3, <1>4, <1>5 DEF RequestNext

(* One step of the sweep of getTripDetail.                                 *)
LEMMA SweepType ==
  ASSUME TypeOK, NEW s \in Sweeps, StartSweep(s) \/ SweepNext(s)
  PROVE  TypeOK'
<1>. s \in Txns
  BY DEF Txns
<1>. /\ tx[s] \in Tx
     /\ tx[s].found \subseteq Requests
     /\ tx[s].seats \in SUBSET Seats
     /\ tx[s].todo \subseteq Seats
     /\ tx[s].credit \in Nat
  BY MemoryFields
<1>1. CASE StartSweep(s)
  <2>1. PICK t \in Trips \cup {NoTrip} :
          Becomes(s, IF Expired = {}
                       THEN tx[s]
                       ELSE [At("listing") EXCEPT !.trip = t, !.found = Expired])
    BY <1>1 DEF StartSweep
  <2>2. [At("listing") EXCEPT !.trip = t, !.found = Expired] \in Tx
    BY DEF Expired, At, Tx, Steps
  <2>3. tx' \in [Txns -> Tx]
    BY <2>1, <2>2, BecomesMemory
  <2>. QED
    BY <1>1, <2>3 DEF StartSweep, TypeOK, db, locks
<1>2. CASE PickBooking(s)
  <2>1. PICK b \in tx[s].found :
          Becomes(s, [tx[s] EXCEPT !.found   = @ \ {b},
                                   !.booking = b,
                                   !.seats   = rows[b],
                                   !.todo    = rows[b],
                                   !.pc      = IF rows[b] = {} THEN "deleting" ELSE "releasing"])
    BY <1>2 DEF PickBooking
  <2>2. rows[b] \in SUBSET Seats
    BY DEF TypeOK
  <2>3. [tx[s] EXCEPT !.found = @ \ {b}, !.booking = b, !.seats = rows[b], !.todo = rows[b],
                      !.pc = IF rows[b] = {} THEN "deleting" ELSE "releasing"] \in Tx
    BY <2>2 DEF Tx, Steps
  <2>4. tx' \in [Txns -> Tx]
    BY <2>1, <2>3, BecomesMemory
  <2>. QED
    BY <1>2, <2>4 DEF PickBooking, TypeOK, db, locks
<1>3. CASE ReleaseSeat(s)
  <2>1. PICK x \in tx[s].todo :
          /\ seatLock' = [seatLock EXCEPT ![x] = s] \/ UNCHANGED seatLock
          /\ Becomes(s, Visit(s, x, "releasing", "deleting"))
    BY <1>3 DEF ReleaseSeat
  <2>2. tx' \in [Txns -> Tx]
    BY <2>1, VisitMemory, BecomesMemory DEF Steps
  <2>. QED
    BY <1>3, <2>1, <2>2 DEF ReleaseSeat, TypeOK, db
<1>4. CASE ExpireBooking(s)
  <2>1. [tx[s] EXCEPT !.pc = "crediting"] \in Tx
    BY DEF Tx, Steps
  <2>2. tx' \in [Txns -> Tx]
    BY <1>4, <2>1, BecomesMemory DEF ExpireBooking
  <2>. QED
    BY <1>4, <2>2 DEF ExpireBooking, TypeOK, db
<1>5. CASE CreditTrip(s)
  <2>1. tx[s].credit + Cardinality(tx[s].seats) \in Nat
    BY SeatsAreFinite
  <2>2. [tx[s] EXCEPT !.credit = @ + Cardinality(tx[s].seats),
                      !.pc = IF tx[s].found = {} THEN "committing" ELSE "listing"] \in Tx
    BY <2>1 DEF Tx, Steps
  <2>3. tx' \in [Txns -> Tx]
    BY <1>5, <2>2, BecomesMemory DEF CreditTrip
  <2>. QED
    BY <1>5, <2>3 DEF CreditTrip, TypeOK, db
<1>6. CASE CommitSweep(s)
  <2>1. seat' \in [Seats -> SeatStatus] /\ avail' \in [Trips -> Nat]
    BY <1>6 DEF CommitSweep, TypeOK, SeatStatus
  <2>2. /\ status' \in [Requests -> BookingStatus]
        /\ rows' \in [Requests -> SUBSET Seats]
        /\ tickets' \in [Requests -> SUBSET Seats]
    BY <1>6 DEF CommitSweep, TypeOK, BookingStatus
  <2>3. Finish(s, "idle") /\ "idle" \in Steps
    BY <1>6 DEF CommitSweep, Steps
  <2>. QED
    BY <1>6, <2>1, <2>2, <2>3, FinishType DEF CommitSweep, TypeOK
<1>7. CASE DeleteRows(s)
  <2>1. [tx[s] EXCEPT !.pc = "expiring"] \in Tx
    BY DEF Tx, Steps
  <2>2. tx' \in [Txns -> Tx]
    BY <1>7, <2>1, BecomesMemory DEF DeleteRows
  <2>. QED
    BY <1>7, <2>2 DEF DeleteRows, TypeOK, db, locks
<1>. QED
  BY <1>1, <1>2, <1>3, <1>4, <1>5, <1>6, <1>7 DEF SweepNext

(* One step of starpayCallback.                                            *)
LEMMA CallbackType ==
  ASSUME TypeOK, NEW c \in Callbacks,
         ReceiveCallback(c) \/ IgnoreCallback(c) \/ CallbackNext(c)
  PROVE  TypeOK'
<1>. c \in Txns
  BY DEF Txns
<1>. /\ tx[c] \in Tx
     /\ tx[c].seats \subseteq Seats
     /\ tx[c].todo \subseteq Seats
  BY MemoryFields
<1>1. CASE ReceiveCallback(c)
  <2>1. PICK b \in Requests : Becomes(c, [At("completing") EXCEPT !.booking = b])
    BY <1>1 DEF ReceiveCallback
  <2>2. [At("completing") EXCEPT !.booking = b] \in Tx
    BY DEF At, Tx, Steps
  <2>3. tx' \in [Txns -> Tx]
    BY <2>1, <2>2, BecomesMemory
  <2>. QED
    BY <1>1, <2>3 DEF ReceiveCallback, TypeOK, db, locks
<1>2. CASE IgnoreCallback(c)
  BY <1>2 DEF IgnoreCallback, vars, TypeOK, db, locks
<1>3. CASE CompleteBooking(c) \/ CompleteNothing(c)
  <2>1. PICK b \in Requests :
          /\ bookingLock' = [bookingLock EXCEPT ![b] = c] \/ UNCHANGED bookingLock
          /\ Becomes(c, [tx[c] EXCEPT !.seats = rows[b],
                                      !.todo  = SameNumbers(rows[b]),
                                      !.pc    = IF rows[b] = {} THEN "committing" ELSE "booking"])
    BY <1>3 DEF CompleteBooking, CompleteNothing, ReadPassengers, locks
  <2>2. rows[b] \in SUBSET Seats /\ SameNumbers(rows[b]) \in SUBSET Seats
    BY DEF SameNumbers, TypeOK
  <2>3. [tx[c] EXCEPT !.seats = rows[b], !.todo = SameNumbers(rows[b]),
                      !.pc = IF rows[b] = {} THEN "committing" ELSE "booking"] \in Tx
    BY <2>2 DEF Tx, Steps
  <2>4. tx' \in [Txns -> Tx]
    BY <2>1, <2>3, BecomesMemory
  <2>. QED
    BY <1>3, <2>1, <2>4 DEF CompleteBooking, CompleteNothing, TypeOK, db, locks
<1>4. CASE BookSeat(c)
  <2>1. PICK x \in tx[c].todo :
          /\ seatLock' = [seatLock EXCEPT ![x] = c]
          /\ Becomes(c, Visit(c, x, "booking", "committing"))
    BY <1>4 DEF BookSeat
  <2>2. tx' \in [Txns -> Tx]
    BY <2>1, VisitMemory, BecomesMemory DEF Steps
  <2>. QED
    BY <1>4, <2>1, <2>2 DEF BookSeat, TypeOK, db
<1>5. CASE CommitCallback(c)
  <2>1. seat' \in [Seats -> SeatStatus] /\ status' \in [Requests -> BookingStatus]
    BY <1>5 DEF CommitCallback, TypeOK, SeatStatus, BookingStatus
  <2>2. tickets' \in [Requests -> SUBSET Seats]
    BY <1>5 DEF CommitCallback, WriteTicket, TypeOK
  <2>3. Finish(c, "idle") /\ "idle" \in Steps
    BY <1>5 DEF CommitCallback, Steps
  <2>. QED
    BY <1>5, <2>1, <2>2, <2>3, FinishType DEF CommitCallback, TypeOK
<1>. QED
  BY <1>1, <1>2, <1>3, <1>4, <1>5 DEF CallbackNext

LEMMA NextType == TypeOK /\ [Next]_vars => TypeOK'
<1>. SUFFICES ASSUME TypeOK, [Next]_vars PROVE TypeOK'
  OBVIOUS
<1>1. CASE \E r \in Requests : Submit(r) \/ RequestNext(r)
  BY <1>1, SubmitType, RequestType
<1>2. CASE \E s \in Sweeps : StartSweep(s) \/ SweepNext(s)
  BY <1>2, SweepType
<1>3. CASE \E c \in Callbacks : ReceiveCallback(c) \/ IgnoreCallback(c) \/ CallbackNext(c)
  BY <1>3, CallbackType
<1>4. CASE \E b \in Requests : ExpiryPasses(b)
  BY <1>4 DEF ExpiryPasses, TypeOK, OrderStatus, db, locks
<1>5. CASE \E p \in Txns : Abort(p)
  BY <1>5, RollbackType DEF Abort
<1>6. CASE UNCHANGED vars
  BY <1>6 DEF vars, db, locks, TypeOK
<1>. QED
  BY <1>1, <1>2, <1>3, <1>4, <1>5, <1>6 DEF Next

(* Type correctness: in particular trips.availableSeats never goes below   *)
(* zero, whatever bookings and sweeps run side by side.                    *)
THEOREM TypeCorrect == Spec => []TypeOK
  BY InitType, NextType, PTL DEF Spec

-----------------------------------------------------------------------------
(*                     the locks protect what they guard                   *)

(* The processes of the three kinds are different, and none is NoTxn.      *)
LEMMA Kinds ==
  /\ \A r \in Requests  : r \in Txns /\ r \notin Sweeps /\ r \notin Callbacks /\ r # NoTxn
  /\ \A s \in Sweeps    : s \in Txns /\ s \notin Requests /\ s \notin Callbacks /\ s # NoTxn
  /\ \A c \in Callbacks : c \in Txns /\ c \notin Requests /\ c \notin Sweeps /\ c # NoTxn
  /\ NoTxn \notin Requests /\ NoTxn \notin Sweeps /\ NoTxn \notin Callbacks
  /\ NoBooking \notin Requests
  BY TxnsAreDistinct, NullsAreDistinct DEF Txns

(* What the end of a transaction changes.                                  *)
LEMMA FinishEffect ==
  ASSUME TypeOK, NEW p \in Txns, NEW step \in Steps, Finish(p, step)
  PROVE  /\ \A x \in Seats : seatLock'[x] = IF seatLock[x] = p THEN NoTxn ELSE seatLock[x]
         /\ \A b \in Requests :
              bookingLock'[b] = IF bookingLock[b] = p THEN NoTxn ELSE bookingLock[b]
         /\ tx'[p] = At(step)
         /\ \A q \in Txns : q # p => tx'[q] = tx[q]
<1>1. tx'[p] = At(step) /\ \A q \in Txns : q # p => tx'[q] = tx[q]
  BY FreshMemory, BecomesMemory DEF Finish
<1>. QED
  BY <1>1 DEF TypeOK, Finish, Unlocked

(* A rolled back transaction leaves nothing behind.                        *)
LEMMA RollbackProtects ==
  ASSUME TypeOK, LocksProtect, NEW p \in Txns, Active(p), Rollback(p)
  PROVE  LocksProtect'
<1>. DEFINE step == IF p \in Requests THEN "failed" ELSE "idle"
<1>1. /\ \A x \in Seats : seatLock'[x] = IF seatLock[x] = p THEN NoTxn ELSE seatLock[x]
      /\ \A b \in Requests :
           bookingLock'[b] = IF bookingLock[b] = p THEN NoTxn ELSE bookingLock[b]
      /\ tx'[p] = At(step)
      /\ \A q \in Txns : q # p => tx'[q] = tx[q]
  BY FinishEffect DEF Rollback, Steps
<1>2. UNCHANGED <<seat, status, rows>>
  BY DEF Rollback, db
<1>3. /\ tx'[p].pc = step /\ tx'[p].booking = NoBooking /\ tx'[p].found = {}
      /\ tx'[p].seats = {} /\ tx'[p].todo = {}
  BY <1>1 DEF At
<1>. HIDE DEF step
<1>4. LockedSeats'
  BY <1>1, <1>2, Kinds DEF LocksProtect, LockedSeats, Active
<1>5. KnownBookings'
  BY <1>1, <1>2, <1>3, Kinds DEF LocksProtect, KnownBookings, Active
<1>6. SweepSteps'
  BY <1>1, <1>3, Kinds DEF LocksProtect, SweepSteps, step
<1>7. CallbackSteps'
  <2>. SUFFICES ASSUME NEW c \in Callbacks, c # p
                PROVE  CallbackStep(c)'
    BY <1>1, <1>3, Kinds DEF CallbackSteps, CallbackStep, step
  <2>1. tx'[c] = tx[c] /\ c \in Txns
    BY <1>1, Kinds
  <2>2. CallbackStep(c)
    BY DEF LocksProtect, CallbackSteps
  <2>3. \A b \in Requests : rows[b] \subseteq Seats
    BY DEF TypeOK
  <2>. QED
    BY <1>1, <1>2, <2>1, <2>2, <2>3, Kinds DEF CallbackStep
<1>8. HolderStays'
  <2>. SUFFICES ASSUME NEW x \in Seats, seat'[x] = "HELD"
                PROVE  \E b \in Requests :
                         /\ status'[b] = "PENDING"
                         /\ x \in rows'[b]
                         /\ \A q \in Txns : Passed(q, b, x)' => seatLock'[x] = q
    BY DEF HolderStays
  <2>1. PICK b \in Requests :
          /\ status[b] = "PENDING"
          /\ x \in rows[b]
          /\ \A q \in Txns : Passed(q, b, x) => seatLock[x] = q
    BY <1>2 DEF LocksProtect, HolderStays
  <2>2. ASSUME NEW q \in Txns, Passed(q, b, x)' PROVE seatLock'[x] = q
    <3>1. q # p
      BY <1>1, <1>3, <2>2, Kinds DEF Passed, step
    <3>2. Passed(q, b, x)
      BY <1>1, <2>2, <3>1, Kinds DEF Passed
    <3>. QED
      BY <1>1, <2>1, <3>1, <3>2
  <2>. QED
    BY <1>2, <2>1, <2>2
<1>9. CompletedSeatsBooked'
  BY <1>2 DEF LocksProtect, CompletedSeatsBooked
<1>. QED
  BY <1>4, <1>5, <1>6, <1>7, <1>8, <1>9 DEF LocksProtect

(* Becomes, without the types.                                             *)
LEMMA BecomesEffect ==
  ASSUME TypeOK, NEW p \in Txns, NEW m, Becomes(p, m)
  PROVE  tx'[p] = m /\ \A q \in Txns : q # p => tx'[q] = tx[q]
  BY DEF TypeOK, Becomes

(* A statement of createBooking before its commit, which may lock a seat   *)
(* that is AVAILABLE.                                                      *)
LEMMA RequestMoves ==
  ASSUME TypeOK, LocksProtect, NEW r \in Requests, NEW m, Becomes(r, m),
         UNCHANGED <<seat, status, rows, bookingLock>>,
         tx[r].pc # "done",
         m.todo \subseteq m.seats,
         \A x \in Seats : \/ seatLock'[x] = seatLock[x]
                          \/ /\ seatLock[x] = NoTxn
                             /\ seatLock'[x] = r
                             /\ seat[x] = "AVAILABLE",
         \A x \in Seats : seatLock'[x] = r =>
                            x \in m.seats /\ m.pc \notin {"idle", "done", "failed"}
  PROVE  LocksProtect'
<1>1. /\ tx'[r] = m
      /\ \A q \in Txns : q # r => tx'[q] = tx[q]
  BY BecomesEffect, Kinds
<1>2. LockedSeats'
  BY <1>1, Kinds DEF LocksProtect, LockedSeats, Active
<1>3. KnownBookings'
  BY <1>1, Kinds DEF LocksProtect, KnownBookings
<1>4. SweepSteps'
  BY <1>1, Kinds DEF LocksProtect, SweepSteps
<1>5. CallbackSteps'
  <2>. SUFFICES ASSUME NEW c \in Callbacks PROVE CallbackStep(c)'
    BY DEF CallbackSteps
  <2>1. tx'[c] = tx[c] /\ CallbackStep(c)
    BY <1>1, Kinds DEF LocksProtect, CallbackSteps
  <2>2. \A b \in Requests : rows[b] \subseteq Seats
    BY DEF TypeOK
  <2>. QED
    BY <2>1, <2>2, Kinds DEF CallbackStep
<1>6. HolderStays'
  <2>. SUFFICES ASSUME NEW x \in Seats, seat[x] = "HELD"
                PROVE  \E b \in Requests :
                         /\ status[b] = "PENDING"
                         /\ x \in rows[b]
                         /\ \A q \in Txns : Passed(q, b, x)' => seatLock'[x] = q
    BY DEF HolderStays
  <2>1. PICK b \in Requests :
          /\ status[b] = "PENDING"
          /\ x \in rows[b]
          /\ \A q \in Txns : Passed(q, b, x) => seatLock[x] = q
    BY DEF LocksProtect, HolderStays
  <2>2. seatLock'[x] = seatLock[x]
    OBVIOUS
  <2>3. ASSUME NEW q \in Txns, Passed(q, b, x)' PROVE Passed(q, b, x)
    BY <1>1, <2>3, Kinds DEF Passed
  <2>. QED
    BY <2>1, <2>2, <2>3
<1>7. CompletedSeatsBooked'
  BY DEF LocksProtect, CompletedSeatsBooked
<1>. QED
  BY <1>2, <1>3, <1>4, <1>5, <1>6, <1>7 DEF LocksProtect

(* A statement of a sweep before its commit: it may lock a HELD seat or a  *)
(* booking, and has then passed only what it has locked.                   *)
LEMMA SweepMoves ==
  ASSUME TypeOK, LocksProtect, NEW s \in Sweeps, NEW m, Becomes(s, m),
         UNCHANGED <<seat, status, rows>>,
         \A x \in Seats : \/ seatLock'[x] = seatLock[x]
                          \/ seatLock[x] = NoTxn /\ seatLock'[x] = s /\ seat[x] = "HELD",
         \A b \in Requests : \/ bookingLock'[b] = bookingLock[b]
                             \/ /\ bookingLock[b] = NoTxn
                                /\ bookingLock'[b] = s
                                /\ status[b] # "absent",
         \A b \in m.found : status[b] # "absent",
         m.booking \in Requests => status[m.booking] # "absent",
         m.pc \in {"releasing", "deleting", "expiring", "crediting"} => m.booking \in Requests,
         m.pc \in {"deleting", "expiring"} => m.todo = {},
         \A b \in Requests : \A x \in rows[b] :
           seat[x] = "HELD" /\ Passed(s, b, x)' => Passed(s, b, x) \/ seatLock'[x] = s
  PROVE  LocksProtect'
<1>1. /\ tx'[s] = m
      /\ \A q \in Txns : q # s => tx'[q] = tx[q]
  BY BecomesEffect, Kinds
<1>2. LockedSeats'
  BY <1>1, Kinds DEF LocksProtect, LockedSeats, Active
<1>3. KnownBookings'
  BY <1>1, Kinds DEF LocksProtect, KnownBookings
<1>4. SweepSteps'
  BY <1>1, Kinds DEF LocksProtect, SweepSteps
<1>5. CallbackSteps'
  <2>. SUFFICES ASSUME NEW c \in Callbacks PROVE CallbackStep(c)'
    BY DEF CallbackSteps
  <2>1. tx'[c] = tx[c] /\ CallbackStep(c)
    BY <1>1, Kinds DEF LocksProtect, CallbackSteps
  <2>2. \A b \in Requests : rows[b] \subseteq Seats
    BY DEF TypeOK
  <2>. QED
    BY <2>1, <2>2, Kinds DEF CallbackStep
<1>6. HolderStays'
  <2>. SUFFICES ASSUME NEW x \in Seats, seat[x] = "HELD"
                PROVE  \E b \in Requests :
                         /\ status[b] = "PENDING"
                         /\ x \in rows[b]
                         /\ \A q \in Txns : Passed(q, b, x)' => seatLock'[x] = q
    BY DEF HolderStays
  <2>1. PICK b \in Requests :
          /\ status[b] = "PENDING"
          /\ x \in rows[b]
          /\ \A q \in Txns : Passed(q, b, x) => seatLock[x] = q
    BY DEF LocksProtect, HolderStays
  <2>2. ASSUME NEW q \in Txns, Passed(q, b, x)', q # s PROVE seatLock'[x] = q
    <3>1. Passed(q, b, x)
      BY <1>1, <2>2, Kinds DEF Passed
    <3>2. seatLock[x] = q /\ q # NoTxn
      BY <2>1, <3>1, TxnsAreDistinct
    <3>. QED
      BY <3>2
  <2>3. ASSUME Passed(s, b, x)' PROVE seatLock'[x] = s
    <3>1. CASE seatLock'[x] # s
      <4>1. Passed(s, b, x)
        BY <2>1, <2>3, <3>1
      <4>2. seatLock[x] = s
        BY <2>1, <4>1, Kinds
      <4>. QED
        BY <4>2
    <3>. QED
      BY <3>1
  <2>. QED
    BY <2>1, <2>2, <2>3
<1>7. CompletedSeatsBooked'
  BY DEF LocksProtect, CompletedSeatsBooked
<1>. QED
  BY <1>2, <1>3, <1>4, <1>5, <1>6, <1>7 DEF LocksProtect

(* A statement of a callback before its commit: it may lock a booking and  *)
(* then seats, and has passed only what it has locked.                     *)
LEMMA CallbackMoves ==
  ASSUME TypeOK, LocksProtect, NEW c \in Callbacks, NEW m, Becomes(c, m),
         UNCHANGED <<seat, status, rows>>,
         \A x \in Seats : \/ seatLock'[x] = seatLock[x]
                          \/ seatLock[x] = NoTxn /\ seatLock'[x] = c,
         \A b \in Requests : \/ bookingLock'[b] = bookingLock[b]
                             \/ /\ bookingLock[b] = NoTxn
                                /\ bookingLock'[b] = c
                                /\ status[b] # "absent",
         \A b \in m.found : status[b] # "absent",
         m.booking \in Requests => status[m.booking] # "absent",
         CallbackStep(c)',
         \A b \in Requests : \A x \in rows[b] :
           seat[x] = "HELD" /\ Passed(c, b, x)' => Passed(c, b, x) \/ seatLock'[x] = c
  PROVE  LocksProtect'
<1>1. /\ tx'[c] = m
      /\ \A q \in Txns : q # c => tx'[q] = tx[q]
  BY BecomesEffect, Kinds
<1>2. LockedSeats'
  BY <1>1, Kinds DEF LocksProtect, LockedSeats, Active
<1>3. KnownBookings'
  BY <1>1, Kinds DEF LocksProtect, KnownBookings
<1>4. SweepSteps'
  BY <1>1, Kinds DEF LocksProtect, SweepSteps
<1>5. CallbackSteps'
  <2>. SUFFICES ASSUME NEW d \in Callbacks, d # c PROVE CallbackStep(d)'
    BY DEF CallbackSteps
  <2>1. tx'[d] = tx[d] /\ CallbackStep(d)
    BY <1>1, Kinds DEF LocksProtect, CallbackSteps
  <2>2. \A b \in Requests : rows[b] \subseteq Seats
    BY DEF TypeOK
  <2>. QED
    BY <2>1, <2>2, Kinds DEF CallbackStep
<1>6. HolderStays'
  <2>. SUFFICES ASSUME NEW x \in Seats, seat[x] = "HELD"
                PROVE  \E b \in Requests :
                         /\ status[b] = "PENDING"
                         /\ x \in rows[b]
                         /\ \A q \in Txns : Passed(q, b, x)' => seatLock'[x] = q
    BY DEF HolderStays
  <2>1. PICK b \in Requests :
          /\ status[b] = "PENDING"
          /\ x \in rows[b]
          /\ \A q \in Txns : Passed(q, b, x) => seatLock[x] = q
    BY DEF LocksProtect, HolderStays
  <2>2. ASSUME NEW q \in Txns, Passed(q, b, x)', q # c PROVE seatLock'[x] = q
    <3>1. Passed(q, b, x)
      BY <1>1, <2>2, Kinds DEF Passed
    <3>2. seatLock[x] = q /\ q # NoTxn
      BY <2>1, <3>1, TxnsAreDistinct
    <3>. QED
      BY <3>2
  <2>3. ASSUME Passed(c, b, x)' PROVE seatLock'[x] = c
    <3>1. CASE seatLock'[x] # c
      <4>1. Passed(c, b, x)
        BY <2>1, <2>3, <3>1
      <4>2. seatLock[x] = c
        BY <2>1, <4>1, Kinds
      <4>. QED
        BY <4>2
    <3>. QED
      BY <3>1
  <2>. QED
    BY <2>1, <2>2, <2>3
<1>7. CompletedSeatsBooked'
  BY DEF LocksProtect, CompletedSeatsBooked
<1>. QED
  BY <1>2, <1>3, <1>4, <1>5, <1>6, <1>7 DEF LocksProtect

(* The commit of a booking: its seats become HELD, and no sweep or         *)
(* callback has heard of it.                                               *)
LEMMA CommitBookingProtects ==
  ASSUME TypeOK, LocksProtect, NEW r \in Requests, CommitBooking(r)
  PROVE  LocksProtect'
<1>1. /\ \A x \in Seats : seatLock'[x] = IF seatLock[x] = r THEN NoTxn ELSE seatLock[x]
      /\ \A b \in Requests :
           bookingLock'[b] = IF bookingLock[b] = r THEN NoTxn ELSE bookingLock[b]
      /\ tx'[r] = At("done")
      /\ \A q \in Txns : q # r => tx'[q] = tx[q]
  BY FinishEffect, Kinds DEF CommitBooking, Steps
<1>2. tx'[r].pc = "done" /\ tx'[r].seats = {} /\ tx'[r].todo = {}
  BY <1>1 DEF At
<1>3. /\ \A x \in Seats : seat'[x] = IF seatLock[x] = r THEN "HELD" ELSE seat[x]
      /\ \A b \in Requests : status'[b] = IF b = r THEN "PENDING" ELSE status[b]
      /\ \A b \in Requests : rows'[b] = IF b = r THEN tx[r].seats ELSE rows[b]
  BY DEF CommitBooking, TypeOK
<1>4. status[r] = "absent" /\ bookingLock[r] = NoTxn
  BY DEF CommitBooking, LocksProtect, KnownBookings
<1>5. \A p \in Sweeps \cup Callbacks :
         tx'[p] = tx[p] /\ r \notin tx[p].found /\ tx[p].booking # r
  BY <1>1, <1>4, Kinds DEF LocksProtect, KnownBookings
<1>6. \A b \in Requests : rows[b] \subseteq Seats
  BY DEF TypeOK
<1>7. LockedSeats'
  BY <1>1, <1>3, Kinds DEF LocksProtect, LockedSeats, Active
<1>8. KnownBookings'
  <2>1. ASSUME NEW b \in Requests
        PROVE  /\ status'[b] # "absent" => tx'[b].pc = "done"
               /\ tx'[b].todo \subseteq tx'[b].seats
               /\ bookingLock'[b] # NoTxn => status'[b] # "absent"
    BY <1>1, <1>2, <1>3, <1>4, Kinds DEF LocksProtect, KnownBookings
  <2>2. ASSUME NEW p \in Sweeps \cup Callbacks
        PROVE  /\ \A b \in tx'[p].found : status'[b] # "absent"
               /\ tx'[p].booking \in Requests => status'[tx'[p].booking] # "absent"
    <3>1. tx'[p] = tx[p] /\ tx[p].found \subseteq Requests
      BY <1>5, Kinds, MemoryFields
    <3>. QED
      BY <1>3, <3>1 DEF LocksProtect, KnownBookings
  <2>. QED
    BY <2>1, <2>2 DEF KnownBookings
<1>9. SweepSteps'
  BY <1>5 DEF LocksProtect, SweepSteps
<1>10. CallbackSteps'
  <2>. SUFFICES ASSUME NEW c \in Callbacks PROVE CallbackStep(c)'
    BY DEF CallbackSteps
  <2>1. CallbackStep(c)
    BY DEF LocksProtect, CallbackSteps
  <2>. QED
    BY <1>1, <1>3, <1>5, <1>6, <2>1, Kinds DEF CallbackStep
<1>11. HolderStays'
  <2>. SUFFICES ASSUME NEW x \in Seats, seat'[x] = "HELD"
                PROVE  \E b \in Requests :
                         /\ status'[b] = "PENDING"
                         /\ x \in rows'[b]
                         /\ \A q \in Txns : Passed(q, b, x)' => seatLock'[x] = q
    BY DEF HolderStays
  <2>1. CASE seatLock[x] = r
    <3>1. status'[r] = "PENDING" /\ x \in rows'[r]
      BY <1>3, <2>1 DEF LocksProtect, LockedSeats
    <3>2. \A q \in Txns : ~ Passed(q, r, x)'
      BY <1>1, <1>4, <1>5, Kinds DEF Passed
    <3>. QED
      BY <3>1, <3>2
  <2>2. CASE seatLock[x] # r
    <3>1. PICK b \in Requests :
            /\ status[b] = "PENDING"
            /\ x \in rows[b]
            /\ \A q \in Txns : Passed(q, b, x) => seatLock[x] = q
      BY <1>3, <2>2 DEF LocksProtect, HolderStays
    <3>2. status'[b] = "PENDING" /\ x \in rows'[b]
      BY <1>3, <1>4, <3>1
    <3>3. ASSUME NEW q \in Txns, Passed(q, b, x)' PROVE seatLock'[x] = q
      <4>1. Passed(q, b, x)
        BY <1>1, <1>5, <3>3, Kinds DEF Passed
      <4>. QED
        BY <1>1, <2>2, <3>1, <4>1
    <3>. QED
      BY <3>2, <3>3
  <2>. QED
    BY <2>1, <2>2
<1>12. CompletedSeatsBooked'
  <2>. SUFFICES ASSUME NEW b \in Requests, status'[b] = "COMPLETED", NEW x \in rows'[b]
                PROVE  seat'[x] = "BOOKED"
    BY DEF CompletedSeatsBooked
  <2>1. status[b] = "COMPLETED" /\ x \in rows[b] /\ x \in Seats
    BY <1>3, <1>6
  <2>2. seat[x] = "BOOKED"
    BY <2>1 DEF LocksProtect, CompletedSeatsBooked
  <2>3. seatLock[x] # r
    BY <2>1, <2>2 DEF LocksProtect, LockedSeats
  <2>. QED
    BY <1>3, <2>1, <2>2, <2>3
<1>. QED
  BY <1>7, <1>8, <1>9, <1>10, <1>11, <1>12 DEF LocksProtect

(* The commit of a sweep: what it releases was HELD, and no HELD seat is   *)
(* left whose booking it ends.                                             *)
LEMMA CommitSweepProtects ==
  ASSUME TypeOK, LocksProtect, NEW s \in Sweeps, CommitSweep(s)
  PROVE  LocksProtect'
<1>1. /\ \A x \in Seats : seatLock'[x] = IF seatLock[x] = s THEN NoTxn ELSE seatLock[x]
      /\ \A b \in Requests :
           bookingLock'[b] = IF bookingLock[b] = s THEN NoTxn ELSE bookingLock[b]
      /\ tx'[s] = At("idle")
      /\ \A q \in Txns : q # s => tx'[q] = tx[q]
  BY FinishEffect, Kinds DEF CommitSweep, Steps
<1>2. /\ tx'[s].pc = "idle" /\ tx'[s].booking = NoBooking /\ tx'[s].found = {}
      /\ tx'[s].seats = {} /\ tx'[s].todo = {}
  BY <1>1 DEF At
<1>3. /\ \A x \in Seats : seat'[x] = IF seatLock[x] = s THEN "AVAILABLE" ELSE seat[x]
      /\ \A b \in Requests : status'[b] = IF bookingLock[b] = s THEN "EXPIRED" ELSE status[b]
      /\ \A b \in Requests : rows'[b] = IF bookingLock[b] = s THEN {} ELSE rows[b]
  BY DEF CommitSweep
<1>4. \A b \in Requests : rows[b] \subseteq Seats
  BY DEF TypeOK
<1>5. LockedSeats'
  BY <1>1, <1>3, Kinds DEF LocksProtect, LockedSeats, Active
<1>6. KnownBookings'
  <2>1. ASSUME NEW b \in Requests
        PROVE  /\ status'[b] # "absent" => tx'[b].pc = "done"
               /\ tx'[b].todo \subseteq tx'[b].seats
               /\ bookingLock'[b] # NoTxn => status'[b] # "absent"
    BY <1>1, <1>3, Kinds DEF LocksProtect, KnownBookings
  <2>2. ASSUME NEW p \in Sweeps \cup Callbacks
        PROVE  /\ \A b \in tx'[p].found : status'[b] # "absent"
               /\ tx'[p].booking \in Requests => status'[tx'[p].booking] # "absent"
    <3>1. p \in Txns /\ tx[p].found \subseteq Requests
      BY Kinds, MemoryFields
    <3>. QED
      BY <1>1, <1>2, <1>3, <3>1, Kinds DEF LocksProtect, KnownBookings
  <2>. QED
    BY <2>1, <2>2 DEF KnownBookings
<1>7. SweepSteps'
  BY <1>1, <1>2, Kinds DEF LocksProtect, SweepSteps
<1>8. CallbackSteps'
  <2>. SUFFICES ASSUME NEW c \in Callbacks PROVE CallbackStep(c)'
    BY DEF CallbackSteps
  <2>1. tx'[c] = tx[c] /\ CallbackStep(c)
    BY <1>1, Kinds DEF LocksProtect, CallbackSteps
  <2>. QED
    BY <1>1, <1>3, <1>4, <2>1, Kinds DEF CallbackStep
<1>9. HolderStays'
  <2>. SUFFICES ASSUME NEW x \in Seats, seat'[x] = "HELD"
                PROVE  \E b \in Requests :
                         /\ status'[b] = "PENDING"
                         /\ x \in rows'[b]
                         /\ \A q \in Txns : Passed(q, b, x)' => seatLock'[x] = q
    BY DEF HolderStays
  <2>1. seat[x] = "HELD" /\ seatLock[x] # s
    BY <1>3
  <2>2. PICK b \in Requests :
          /\ status[b] = "PENDING"
          /\ x \in rows[b]
          /\ \A q \in Txns : Passed(q, b, x) => seatLock[x] = q
    BY <2>1 DEF LocksProtect, HolderStays
  <2>3. bookingLock[b] # s
    BY <2>1, <2>2, Kinds DEF Passed
  <2>4. ASSUME NEW q \in Txns, Passed(q, b, x)' PROVE seatLock'[x] = q
    <3>1. q # s
      BY <1>1, <1>2, <2>3, <2>4, Kinds DEF Passed
    <3>2. Passed(q, b, x)
      BY <1>1, <2>4, <3>1, Kinds DEF Passed
    <3>. QED
      BY <1>1, <2>2, <3>1, <3>2
  <2>. QED
    BY <1>3, <2>2, <2>3, <2>4
<1>10. CompletedSeatsBooked'
  <2>. SUFFICES ASSUME NEW b \in Requests, status'[b] = "COMPLETED", NEW x \in rows'[b]
                PROVE  seat'[x] = "BOOKED"
    BY DEF CompletedSeatsBooked
  <2>1. status[b] = "COMPLETED" /\ x \in rows[b] /\ x \in Seats
    BY <1>3, <1>4
  <2>2. seat[x] = "BOOKED"
    BY <2>1 DEF LocksProtect, CompletedSeatsBooked
  <2>3. seatLock[x] # s
    BY <2>1, <2>2 DEF LocksProtect, LockedSeats
  <2>. QED
    BY <1>3, <2>1, <2>2, <2>3
<1>. QED
  BY <1>5, <1>6, <1>7, <1>8, <1>9, <1>10 DEF LocksProtect

(* The commit of a callback: every seat of the booking it completes is one *)
(* of those it makes BOOKED.                                               *)
LEMMA CommitCallbackProtects ==
  ASSUME TypeOK, LocksProtect, NEW c \in Callbacks, CommitCallback(c)
  PROVE  LocksProtect'
<1>. DEFINE k == tx[c].booking
<1>1. /\ \A x \in Seats : seatLock'[x] = IF seatLock[x] = c THEN NoTxn ELSE seatLock[x]
      /\ \A b \in Requests :
           bookingLock'[b] = IF bookingLock[b] = c THEN NoTxn ELSE bookingLock[b]
      /\ tx'[c] = At("idle")
      /\ \A q \in Txns : q # c => tx'[q] = tx[q]
  BY FinishEffect, Kinds DEF CommitCallback, Steps
<1>2. /\ tx'[c].pc = "idle" /\ tx'[c].booking = NoBooking /\ tx'[c].found = {}
      /\ tx'[c].seats = {} /\ tx'[c].todo = {}
  BY <1>1 DEF At
<1>3. /\ \A x \in Seats : seat'[x] = IF seatLock[x] = c THEN "BOOKED" ELSE seat[x]
      /\ \A b \in Requests : status'[b] = IF c \notin Nameless /\ b = k THEN "COMPLETED" ELSE status[b]
      /\ rows' = rows
  BY DEF CommitCallback, TypeOK
<1>4. /\ c \notin Nameless => /\ k \in Requests /\ bookingLock[k] = c
                             /\ \A x \in rows[k] : seatLock[x] = c
      /\ tx[c].todo = {}
  BY DEF CommitCallback, LocksProtect, CallbackSteps, CallbackStep
<1>5. \A b \in Requests : rows[b] \subseteq Seats
  BY DEF TypeOK
<1>. HIDE DEF k
<1>6. LockedSeats'
  BY <1>1, <1>3, Kinds DEF LocksProtect, LockedSeats, Active
<1>7. KnownBookings'
  <2>1. ASSUME NEW b \in Requests
        PROVE  /\ status'[b] # "absent" => tx'[b].pc = "done"
               /\ tx'[b].todo \subseteq tx'[b].seats
               /\ bookingLock'[b] # NoTxn => status'[b] # "absent"
    BY <1>1, <1>3, <1>4, Kinds DEF LocksProtect, KnownBookings
  <2>2. ASSUME NEW p \in Sweeps \cup Callbacks
        PROVE  /\ \A b \in tx'[p].found : status'[b] # "absent"
               /\ tx'[p].booking \in Requests => status'[tx'[p].booking] # "absent"
    <3>1. p \in Txns /\ tx[p].found \subseteq Requests
      BY Kinds, MemoryFields
    <3>. QED
      BY <1>1, <1>2, <1>3, <3>1, Kinds DEF LocksProtect, KnownBookings
  <2>. QED
    BY <2>1, <2>2 DEF KnownBookings
<1>8. SweepSteps'
  BY <1>1, Kinds DEF LocksProtect, SweepSteps
<1>9. CallbackSteps'
  <2>. SUFFICES ASSUME NEW d \in Callbacks, d # c PROVE CallbackStep(d)'
    BY <1>1, <1>2, Kinds DEF CallbackSteps, CallbackStep
  <2>1. tx'[d] = tx[d] /\ CallbackStep(d)
    BY <1>1, Kinds DEF LocksProtect, CallbackSteps
  <2>. QED
    BY <1>1, <1>3, <1>5, <2>1, Kinds DEF CallbackStep
<1>10. HolderStays'
  <2>. SUFFICES ASSUME NEW x \in Seats, seat'[x] = "HELD"
                PROVE  \E b \in Requests :
                         /\ status'[b] = "PENDING"
                         /\ x \in rows'[b]
                         /\ \A q \in Txns : Passed(q, b, x)' => seatLock'[x] = q
    BY DEF HolderStays
  <2>1. seat[x] = "HELD" /\ seatLock[x] # c
    BY <1>3
  <2>2. PICK b \in Requests :
          /\ status[b] = "PENDING"
          /\ x \in rows[b]
          /\ \A q \in Txns : Passed(q, b, x) => seatLock[x] = q
    BY <2>1 DEF LocksProtect, HolderStays
  <2>3. bookingLock[b] # c /\ (c \notin Nameless => b # k)
    BY <1>4, <2>1, <2>2, Kinds DEF Passed
  <2>4. ASSUME NEW q \in Txns, Passed(q, b, x)' PROVE seatLock'[x] = q
    <3>1. q # c
      BY <1>1, <1>2, <2>3, <2>4, Kinds DEF Passed
    <3>2. Passed(q, b, x)
      BY <1>1, <2>4, <3>1, Kinds DEF Passed
    <3>. QED
      BY <1>1, <2>2, <3>1, <3>2
  <2>. QED
    BY <1>3, <2>2, <2>3, <2>4
<1>11. CompletedSeatsBooked'
  <2>. SUFFICES ASSUME NEW b \in Requests, status'[b] = "COMPLETED", NEW x \in rows'[b]
                PROVE  seat'[x] = "BOOKED"
    BY DEF CompletedSeatsBooked
  <2>1. x \in rows[b] /\ x \in Seats
    BY <1>3, <1>5
  <2>2. CASE c \notin Nameless /\ b = k
    BY <1>3, <1>4, <2>1, <2>2
  <2>3. CASE ~ (c \notin Nameless /\ b = k)
    <3>1. seat[x] = "BOOKED"
      BY <1>3, <2>1, <2>3 DEF LocksProtect, CompletedSeatsBooked
    <3>. QED
      BY <1>3, <2>1, <3>1
  <2>. QED
    BY <2>2, <2>3
<1>. QED
  BY <1>6, <1>7, <1>8, <1>9, <1>10, <1>11 DEF LocksProtect

(* Every step of createBooking.                                            *)
LEMMA RequestProtects ==
  ASSUME TypeOK, LocksProtect, NEW r \in Requests, Submit(r) \/ RequestNext(r)
  PROVE  LocksProtect'
<1>. r \in Txns
  BY Kinds
<1>1. /\ tx[r].todo \subseteq tx[r].seats
      /\ tx[r].todo \subseteq Seats
      /\ \A x \in Seats : seatLock[x] = r => x \in tx[r].seats /\ Active(r)
  BY MemoryFields DEF LocksProtect, KnownBookings, LockedSeats
<1>2. CASE Submit(r)
  <2>1. PICK t \in Trips, body \in Bodies :
          \/ Becomes(r, [At("locking") EXCEPT !.trip  = t,
                                              !.seats = SeatsOf(t, body),
                                              !.todo  = SeatsOf(t, body),
                                              !.avail = avail[t]])
          \/ Becomes(r, At("failed"))
    BY <1>2 DEF Submit
  <2>. DEFINE m == [At("locking") EXCEPT !.trip  = t,
                                         !.seats = SeatsOf(t, body),
                                         !.todo  = SeatsOf(t, body),
                                         !.avail = avail[t]]
              n == At("failed")
  <2>2. m.todo \subseteq m.seats /\ n.todo \subseteq n.seats
    BY DEF At
  <2>3. UNCHANGED <<seat, status, rows, bookingLock, seatLock>> /\ tx[r].pc = "idle"
    BY <1>2 DEF Submit, db, locks
  <2>4. \A x \in Seats : seatLock'[x] # r
    BY <1>1, <2>3 DEF Active
  <2>. HIDE DEF m, n
  <2>5. Becomes(r, m) \/ Becomes(r, n)
    BY <2>1 DEF m, n
  <2>. QED
    BY <2>2, <2>3, <2>4, <2>5, RequestMoves
<1>3. CASE LockSeat(r)
  <2>1. PICK x \in tx[r].todo :
          /\ seat[x] = "AVAILABLE"
          /\ seatLock[x] = NoTxn
          /\ seatLock' = [seatLock EXCEPT ![x] = r]
          /\ Becomes(r, IF tx[r].todo = {x}
                          THEN [tx[r] EXCEPT !.todo = tx[r].seats, !.pc = "holding"]
                          ELSE [tx[r] EXCEPT !.todo = @ \ {x}])
    BY <1>3 DEF LockSeat
  <2>. DEFINE m == IF tx[r].todo = {x}
                     THEN [tx[r] EXCEPT !.todo = tx[r].seats, !.pc = "holding"]
                     ELSE [tx[r] EXCEPT !.todo = @ \ {x}]
  <2>2. UNCHANGED <<seat, status, rows, bookingLock>> /\ tx[r].pc = "locking"
    BY <1>3 DEF LockSeat, db
  <2>3. m.todo \subseteq m.seats /\ m.seats = tx[r].seats /\ m.pc \in {"locking", "holding"}
    BY <1>1, <2>2, MemoryFields DEF Tx
  <2>4. Becomes(r, m)
    BY <2>1
  <2>5. \A y \in Seats : seatLock'[y] = IF y = x THEN r ELSE seatLock[y]
    BY <2>1 DEF TypeOK
  <2>6. x \in m.seats
    BY <1>1, <2>3
  <2>. HIDE DEF m
  <2>7. \A y \in Seats : seatLock'[y] = r => y \in m.seats /\ m.pc \notin {"idle", "done", "failed"}
    BY <1>1, <2>3, <2>5, <2>6
  <2>. QED
    BY <2>1, <2>2, <2>3, <2>4, <2>5, <2>7, RequestMoves
<1>4. CASE RejectSeat(r)
  BY <1>4, RollbackProtects DEF RejectSeat, Active
<1>5. CASE HoldSeat(r)
  <2>1. PICK x \in tx[r].todo :
          Becomes(r, [Visit(r, x, "holding", "ordering") EXCEPT !.avail = Decremented(r)])
    BY <1>5 DEF HoldSeat
  <2>. DEFINE m == [Visit(r, x, "holding", "ordering") EXCEPT !.avail = Decremented(r)]
  <2>2. UNCHANGED <<seat, status, rows, bookingLock, seatLock>> /\ tx[r].pc = "holding"
    BY <1>5 DEF HoldSeat, db
  <2>3. m.todo \subseteq m.seats /\ m.seats = tx[r].seats /\ m.pc \in {"holding", "ordering"}
    BY <1>1, MemoryFields DEF Visit, Tx
  <2>4. Becomes(r, m)
    BY <2>1
  <2>. HIDE DEF m
  <2>5. \A y \in Seats : seatLock'[y] = r => y \in m.seats /\ m.pc \notin {"idle", "done", "failed"}
    BY <1>1, <2>2, <2>3
  <2>. QED
    BY <2>2, <2>3, <2>4, <2>5, RequestMoves
<1>6. CASE PlaceOrder(r)
  <2>. DEFINE m == [tx[r] EXCEPT !.pc = "committing"]
  <2>1. UNCHANGED <<seat, status, rows, bookingLock, seatLock>> /\ tx[r].pc = "ordering" /\ Becomes(r, m)
    BY <1>6 DEF PlaceOrder, db, locks
  <2>2. m.todo \subseteq m.seats /\ m.seats = tx[r].seats /\ m.pc = "committing"
    BY <1>1, MemoryFields DEF Tx
  <2>. HIDE DEF m
  <2>3. \A y \in Seats : seatLock'[y] = r => y \in m.seats /\ m.pc \notin {"idle", "done", "failed"}
    BY <1>1, <2>1, <2>2
  <2>. QED
    BY <2>1, <2>2, <2>3, RequestMoves
<1>7. CASE CommitBooking(r)
  BY <1>7, CommitBookingProtects
<1>. QED
  BY <1>2, <1>3, <1>4, <1>5, <1>6, <1>7 DEF RequestNext

(* Every step of the sweep of getTripDetail.                               *)
LEMMA SweepProtects ==
  ASSUME TypeOK, LocksProtect, NEW s \in Sweeps, StartSweep(s) \/ SweepNext(s)
  PROVE  LocksProtect'
<1>. s \in Txns
  BY Kinds
<1>1. /\ tx[s] \in Tx
      /\ tx[s].found \subseteq Requests
      /\ tx[s].todo \subseteq Seats
      /\ \A b \in tx[s].found : status[b] # "absent"
      /\ tx[s].booking \in Requests => status[tx[s].booking] # "absent"
      /\ tx[s].pc \in {"releasing", "deleting", "expiring", "crediting"} =>
           tx[s].booking \in Requests
      /\ tx[s].pc \in {"deleting", "expiring"} => tx[s].todo = {}
  BY MemoryFields DEF LocksProtect, KnownBookings, SweepSteps
<1>2. CASE StartSweep(s)
  <2>1. PICK t \in Trips \cup {NoTrip} :
          Becomes(s, IF Expired = {}
                       THEN tx[s]
                       ELSE [At("listing") EXCEPT !.trip = t, !.found = Expired])
    BY <1>2 DEF StartSweep
  <2>. DEFINE m == IF Expired = {}
                     THEN tx[s]
                     ELSE [At("listing") EXCEPT !.trip = t, !.found = Expired]
  <2>2. UNCHANGED <<seat, status, rows, seatLock, bookingLock>> /\ tx[s].pc = "idle" /\ Becomes(s, m)
    BY <1>2, <2>1 DEF StartSweep, db, locks
  <2>3. /\ m.found \subseteq tx[s].found \cup Expired
        /\ m.booking \in {tx[s].booking, NoBooking}
        /\ m.pc \in {"idle", "listing"}
    BY <2>2 DEF At
  <2>4. \A b \in m.found : status[b] # "absent"
    BY <1>1, <2>3 DEF Expired
  <2>. HIDE DEF m
  <2>5. tx'[s] = m
    BY <2>2, BecomesEffect
  <2>6. \A b \in Requests : \A x \in rows[b] : Passed(s, b, x)' => Passed(s, b, x)
    BY <2>2, <2>3, <2>5, Kinds DEF Passed
  <2>. QED
    BY <1>1, <2>2, <2>3, <2>4, <2>6, Kinds, SweepMoves
<1>3. CASE PickBooking(s)
  <2>1. PICK b \in tx[s].found :
          Becomes(s, [tx[s] EXCEPT !.found   = @ \ {b},
                                   !.booking = b,
                                   !.seats   = rows[b],
                                   !.todo    = rows[b],
                                   !.pc      = IF rows[b] = {} THEN "deleting" ELSE "releasing"])
    BY <1>3 DEF PickBooking
  <2>. DEFINE m == [tx[s] EXCEPT !.found   = @ \ {b},
                                 !.booking = b,
                                 !.seats   = rows[b],
                                 !.todo    = rows[b],
                                 !.pc      = IF rows[b] = {} THEN "deleting" ELSE "releasing"]
  <2>2. UNCHANGED <<seat, status, rows, seatLock, bookingLock>> /\ tx[s].pc = "listing" /\ Becomes(s, m)
    BY <1>3, <2>1 DEF PickBooking, db, locks
  <2>3. /\ m.found = tx[s].found \ {b}
        /\ m.booking = b
        /\ m.todo = rows[b]
        /\ m.pc = IF rows[b] = {} THEN "deleting" ELSE "releasing"
    BY <1>1 DEF Tx
  <2>. HIDE DEF m
  <2>4. tx'[s] = m
    BY <2>2, BecomesEffect
  <2>5. \A d \in Requests : \A x \in rows[d] : Passed(s, d, x)' => Passed(s, d, x)
    BY <2>2, <2>3, <2>4, Kinds DEF Passed
  <2>. QED
    BY <1>1, <2>2, <2>3, <2>5, SweepMoves
<1>4. CASE ReleaseSeat(s)
  <2>1. PICK x \in tx[s].todo :
          /\ \/ /\ seat[x] = "HELD"
                /\ seatLock[x] = NoTxn
                /\ seatLock' = [seatLock EXCEPT ![x] = s]
             \/ /\ seat[x] # "HELD" \/ seatLock[x] = s
                /\ UNCHANGED seatLock
          /\ Becomes(s, Visit(s, x, "releasing", "deleting"))
    BY <1>4 DEF ReleaseSeat
  <2>. DEFINE m == Visit(s, x, "releasing", "deleting")
  <2>2. UNCHANGED <<seat, status, rows, bookingLock>> /\ tx[s].pc = "releasing" /\ Becomes(s, m)
    BY <1>4, <2>1 DEF ReleaseSeat, db
  <2>3. /\ m.found = tx[s].found
        /\ m.booking = tx[s].booking
        /\ m.todo = tx[s].todo \ {x}
        /\ m.pc = IF tx[s].todo = {x} THEN "deleting" ELSE "releasing"
    BY <1>1 DEF Visit, Tx
  <2>. HIDE DEF m
  <2>4. tx'[s] = m
    BY <2>2, BecomesEffect
  <2>5. /\ \A y \in Seats : y # x => seatLock'[y] = seatLock[y]
        /\ \/ seatLock[x] = NoTxn /\ seatLock'[x] = s /\ seat[x] = "HELD"
           \/ seatLock'[x] = seatLock[x] /\ (seat[x] # "HELD" \/ seatLock[x] = s)
    BY <1>1, <2>1 DEF TypeOK
  <2>6. \A d \in Requests : \A y \in rows[d] :
          seat[y] = "HELD" /\ Passed(s, d, y)' => Passed(s, d, y) \/ seatLock'[y] = s
    BY <2>2, <2>3, <2>4, <2>5, Kinds DEF Passed
  <2>7. m.pc = "deleting" => m.todo = {}
    BY <2>3
  <2>. QED
    BY <1>1, <2>2, <2>3, <2>5, <2>6, <2>7, SweepMoves
<1>5. CASE ExpireBooking(s)
  <2>. DEFINE m == [tx[s] EXCEPT !.pc = "crediting"]
              k == tx[s].booking
  <2>1. /\ UNCHANGED <<seat, status, rows, seatLock>>
        /\ tx[s].pc = "expiring"
        /\ Becomes(s, m)
        /\ bookingLock[k] = NoTxn
        /\ bookingLock' = [bookingLock EXCEPT ![k] = s]
    BY <1>5 DEF ExpireBooking, db
  <2>2. m.found = tx[s].found /\ m.booking = k /\ m.pc = "crediting" /\ m.todo = {}
    BY <1>1, <2>1 DEF Tx
  <2>3. k \in Requests /\ status[k] # "absent"
    BY <1>1, <2>1
  <2>4. \A b \in Requests : bookingLock'[b] = IF b = k THEN s ELSE bookingLock[b]
    BY <2>1, <2>3 DEF TypeOK
  <2>5. tx'[s] = m
    BY <2>1, BecomesEffect
  <2>. HIDE DEF m
  <2>6. \A d \in Requests : \A y \in rows[d] : Passed(s, d, y)' => Passed(s, d, y)
    BY <1>1, <2>1, <2>2, <2>3, <2>4, <2>5, Kinds DEF Passed
  <2>. QED
    BY <1>1, <2>1, <2>2, <2>3, <2>4, <2>6, SweepMoves
<1>6. CASE CreditTrip(s)
  <2>. DEFINE m == [tx[s] EXCEPT !.credit = @ + Cardinality(tx[s].seats),
                                 !.pc = IF tx[s].found = {} THEN "committing" ELSE "listing"]
  <2>1. UNCHANGED <<seat, status, rows, seatLock, bookingLock>> /\ Becomes(s, m)
    BY <1>6 DEF CreditTrip, db
  <2>2. m.found = tx[s].found /\ m.booking = tx[s].booking /\ m.pc \in {"committing", "listing"}
    BY <1>1 DEF Tx
  <2>3. tx'[s] = m
    BY <2>1, BecomesEffect
  <2>. HIDE DEF m
  <2>4. \A d \in Requests : \A y \in rows[d] : Passed(s, d, y)' => Passed(s, d, y)
    BY <2>1, <2>2, <2>3, Kinds DEF Passed
  <2>. QED
    BY <1>1, <2>1, <2>2, <2>4, SweepMoves
<1>7. CASE CommitSweep(s)
  BY <1>7, CommitSweepProtects
<1>8. CASE DeleteRows(s)
  <2>. DEFINE m == [tx[s] EXCEPT !.pc = "expiring"]
  <2>1. /\ UNCHANGED <<seat, status, rows, seatLock, bookingLock>>
        /\ tx[s].pc = "deleting" /\ Becomes(s, m)
    BY <1>8 DEF DeleteRows, db, locks
  <2>2. /\ m.found = tx[s].found /\ m.booking = tx[s].booking /\ m.pc = "expiring"
        /\ m.todo = tx[s].todo
    BY <1>1 DEF Tx
  <2>3. tx'[s] = m
    BY <2>1, BecomesEffect
  <2>. HIDE DEF m
  <2>4. \A d \in Requests : \A y \in rows[d] : Passed(s, d, y)' => Passed(s, d, y)
    BY <2>1, <2>2, <2>3, Kinds DEF Passed
  <2>. QED
    BY <1>1, <2>1, <2>2, <2>4, SweepMoves
<1>. QED
  BY <1>2, <1>3, <1>4, <1>5, <1>6, <1>7, <1>8 DEF SweepNext

(* A step that changes neither the rows LocksProtect speaks of nor the     *)
(* locks nor any memory.                                                   *)
LEMMA StutterProtects ==
  ASSUME LocksProtect, UNCHANGED <<seat, status, rows, locks, tx>>
  PROVE  LocksProtect'
<1>. UNCHANGED <<seatLock, bookingLock, tripLock>>
  BY DEF locks
<1>. QED
  BY DEF LocksProtect, LockedSeats, KnownBookings, SweepSteps, CallbackSteps,
         CallbackStep, HolderStays, Passed, CompletedSeatsBooked, Active

(* Every step of starpayCallback.                                          *)
LEMMA CallbackProtects ==
  ASSUME TypeOK, LocksProtect, NEW c \in Callbacks,
         ReceiveCallback(c) \/ IgnoreCallback(c) \/ CallbackNext(c)
  PROVE  LocksProtect'
<1>. c \in Txns
  BY Kinds
<1>1. /\ tx[c] \in Tx
      /\ tx[c].found \subseteq Requests
      /\ tx[c].todo \subseteq Seats
      /\ \A b \in tx[c].found : status[b] # "absent"
      /\ tx[c].booking \in Requests => status[tx[c].booking] # "absent"
      /\ CallbackStep(c)
  BY MemoryFields DEF LocksProtect, KnownBookings, CallbackSteps
<1>2. \A b \in Requests : rows[b] \subseteq Seats
  BY DEF TypeOK
<1>3. CASE ReceiveCallback(c)
  <2>1. PICK b \in Requests :
          /\ status[b] # "absent"
          /\ Becomes(c, [At("completing") EXCEPT !.booking = b])
    BY <1>3 DEF ReceiveCallback
  <2>. DEFINE m == [At("completing") EXCEPT !.booking = b]
  <2>2. UNCHANGED <<seat, status, rows, seatLock, bookingLock>> /\ Becomes(c, m)
    BY <1>3, <2>1 DEF ReceiveCallback, db, locks
  <2>3. m.found = {} /\ m.booking = b /\ m.pc = "completing" /\ m.todo = {}
    BY DEF At
  <2>4. tx'[c] = m
    BY <2>2, BecomesEffect
  <2>. HIDE DEF m
  <2>5. /\ tx[c].pc = "idle"
        /\ \A d \in Requests : bookingLock'[d] # c
    BY <1>1, <1>3, <2>2 DEF ReceiveCallback, CallbackStep
  <2>6. CallbackStep(c)'
    BY <2>3, <2>4, <2>5 DEF CallbackStep
  <2>7. \A d \in Requests : \A x \in rows[d] : ~ Passed(c, d, x)'
    BY <2>5, Kinds DEF Passed
  <2>. QED
    BY <2>1, <2>2, <2>3, <2>6, <2>7, CallbackMoves
<1>4. CASE IgnoreCallback(c)
  <2>1. UNCHANGED <<seat, status, rows, locks, tx>>
    BY <1>4 DEF IgnoreCallback, vars, db
  <2>. QED
    BY <2>1, StutterProtects
<1>5. CASE CompleteBooking(c)
  <2>1. PICK b \in Requests :
          /\ b = tx[c].booking
          /\ bookingLock[b] = NoTxn
          /\ bookingLock' = [bookingLock EXCEPT ![b] = c]
          /\ Becomes(c, [tx[c] EXCEPT !.seats = rows[b],
                                      !.todo  = SameNumbers(rows[b]),
                                      !.pc    = IF rows[b] = {} THEN "committing" ELSE "booking"])
    BY <1>5 DEF CompleteBooking, ReadPassengers
  <2>. DEFINE m == [tx[c] EXCEPT !.seats = rows[b],
                                 !.todo  = SameNumbers(rows[b]),
                                 !.pc    = IF rows[b] = {} THEN "committing" ELSE "booking"]
  <2>2. UNCHANGED <<seat, status, rows, seatLock>> /\ Becomes(c, m)
    BY <1>5, <2>1 DEF CompleteBooking, db
  <2>3. /\ m.found = tx[c].found
        /\ m.booking = b
        /\ m.seats = rows[b]
        /\ m.todo = SameNumbers(rows[b])
        /\ m.pc = IF rows[b] = {} THEN "committing" ELSE "booking"
    BY <1>1, <2>1 DEF Tx
  <2>. HIDE DEF m
  <2>4. tx'[c] = m
    BY <2>2, BecomesEffect
  <2>5. \A d \in Requests : bookingLock'[d] = IF d = b THEN c ELSE bookingLock[d]
    BY <2>1 DEF TypeOK
  <2>6. rows[b] \subseteq m.todo /\ (rows[b] = {} => m.todo = {})
    BY <1>2, <2>3 DEF SameNumbers
  <2>7. \A d \in Requests : bookingLock[d] # c
    BY <1>1, <1>5 DEF CompleteBooking, CallbackStep
  <2>8. CallbackStep(c)'
    BY <1>5, <2>1, <2>2, <2>3, <2>4, <2>5, <2>6, <2>7 DEF CallbackStep, CompleteBooking
  <2>9. \A d \in Requests : \A x \in rows[d] : ~ Passed(c, d, x)'
    BY <2>4, <2>5, <2>6, <2>7, Kinds DEF Passed
  <2>. QED
    BY <1>1, <2>1, <2>2, <2>3, <2>5, <2>8, <2>9, CallbackMoves
<1>6. CASE BookSeat(c)
  <2>1. PICK x \in tx[c].todo :
          /\ seatLock[x] = NoTxn
          /\ seatLock' = [seatLock EXCEPT ![x] = c]
          /\ Becomes(c, Visit(c, x, "booking", "committing"))
    BY <1>6 DEF BookSeat
  <2>. DEFINE m == Visit(c, x, "booking", "committing")
  <2>2. UNCHANGED <<seat, status, rows, bookingLock>> /\ tx[c].pc = "booking" /\ Becomes(c, m)
    BY <1>6, <2>1 DEF BookSeat, db
  <2>3. /\ m.found = tx[c].found
        /\ m.booking = tx[c].booking
        /\ m.seats = tx[c].seats
        /\ m.todo = tx[c].todo \ {x}
        /\ m.pc = IF tx[c].todo = {x} THEN "committing" ELSE "booking"
    BY <1>1 DEF Visit, Tx
  <2>. HIDE DEF m
  <2>4. tx'[c] = m
    BY <2>2, BecomesEffect
  <2>5. /\ \A y \in Seats : y # x => seatLock'[y] = seatLock[y]
        /\ seatLock[x] = NoTxn /\ seatLock'[x] = c
    BY <1>1, <2>1 DEF TypeOK
  <2>6. CallbackStep(c)'
    BY <1>1, <1>2, <2>2, <2>3, <2>4, <2>5 DEF CallbackStep
  <2>7. \A d \in Requests : \A y \in rows[d] :
          seat[y] = "HELD" /\ Passed(c, d, y)' => Passed(c, d, y) \/ seatLock'[y] = c
    BY <2>2, <2>3, <2>4, <2>5, Kinds DEF Passed
  <2>. QED
    BY <1>1, <2>2, <2>3, <2>5, <2>6, <2>7, CallbackMoves
<1>7. CASE CommitCallback(c)
  BY <1>7, CommitCallbackProtects
<1>8. CASE CompleteNothing(c)
  <2>1. PICK b \in Requests :
          /\ b = tx[c].booking
          /\ Becomes(c, [tx[c] EXCEPT !.seats = rows[b],
                                      !.todo  = SameNumbers(rows[b]),
                                      !.pc    = IF rows[b] = {} THEN "committing" ELSE "booking"])
    BY <1>8 DEF CompleteNothing, ReadPassengers
  <2>. DEFINE m == [tx[c] EXCEPT !.seats = rows[b],
                                 !.todo  = SameNumbers(rows[b]),
                                 !.pc    = IF rows[b] = {} THEN "committing" ELSE "booking"]
  <2>2. UNCHANGED <<seat, status, rows, seatLock, bookingLock>> /\ Becomes(c, m)
    BY <1>8, <2>1 DEF CompleteNothing, db, locks
  <2>3. /\ m.found = tx[c].found
        /\ m.booking = b
        /\ m.pc = IF rows[b] = {} THEN "committing" ELSE "booking"
        /\ rows[b] = {} => m.todo = {}
    BY <1>1, <2>1 DEF Tx, SameNumbers
  <2>. HIDE DEF m
  <2>4. tx'[c] = m
    BY <2>2, BecomesEffect
  <2>5. c \in Nameless /\ \A d \in Requests : bookingLock[d] # c
    BY <1>1, <1>8 DEF CompleteNothing, CallbackStep
  <2>6. CallbackStep(c)'
    BY <2>2, <2>3, <2>4, <2>5 DEF CallbackStep
  <2>7. \A d \in Requests : \A x \in rows[d] : ~ Passed(c, d, x)'
    BY <2>2, <2>5, Kinds DEF Passed
  <2>. QED
    BY <1>1, <2>1, <2>2, <2>3, <2>6, <2>7, CallbackMoves
<1>. QED
  BY <1>3, <1>4, <1>5, <1>6, <1>7, <1>8 DEF CallbackNext

LEMMA InitProtects == Init => LocksProtect
<1>. SUFFICES ASSUME Init PROVE LocksProtect
  OBVIOUS
<1>1. \A p \in Txns : /\ tx[p].pc = "idle" /\ tx[p].booking = NoBooking
                      /\ tx[p].found = {} /\ tx[p].todo = {} /\ tx[p].seats = {}
  BY DEF Init, At
<1>2. /\ \A x \in Seats : seatLock[x] = NoTxn /\ seat[x] = "AVAILABLE"
      /\ \A b \in Requests : bookingLock[b] = NoTxn /\ status[b] = "absent"
  BY DEF Init
<1>3. LockedSeats
  BY <1>2, Kinds DEF LockedSeats
<1>4. KnownBookings
  BY <1>1, <1>2, Kinds DEF KnownBookings
<1>5. SweepSteps /\ CallbackSteps
  BY <1>1, <1>2, Kinds DEF SweepSteps, CallbackSteps, CallbackStep
<1>6. HolderStays /\ CompletedSeatsBooked
  BY <1>2 DEF HolderStays, CompletedSeatsBooked
<1>. QED
  BY <1>3, <1>4, <1>5, <1>6 DEF LocksProtect

(* LocksProtect is inductive: one case per disjunct of Next.               *)
LEMMA NextProtects ==
  ASSUME TypeOK, LocksProtect, [Next]_vars
  PROVE  LocksProtect'
<1>1. ASSUME NEW r \in Requests, Submit(r) \/ RequestNext(r) PROVE LocksProtect'
  BY <1>1, RequestProtects
<1>2. ASSUME NEW s \in Sweeps, StartSweep(s) \/ SweepNext(s) PROVE LocksProtect'
  BY <1>2, SweepProtects
<1>3. ASSUME NEW c \in Callbacks, ReceiveCallback(c) \/ IgnoreCallback(c) \/ CallbackNext(c)
      PROVE  LocksProtect'
  BY <1>3, CallbackProtects
<1>4. ASSUME NEW b \in Requests, ExpiryPasses(b) PROVE LocksProtect'
  <2>1. UNCHANGED <<seat, status, rows, locks, tx>>
    BY <1>4 DEF ExpiryPasses, db
  <2>. QED
    BY <2>1, StutterProtects
<1>5. ASSUME NEW p \in Txns, Abort(p) PROVE LocksProtect'
  BY <1>5, RollbackProtects DEF Abort
<1>6. CASE UNCHANGED vars
  <2>1. UNCHANGED <<seat, status, rows, locks, tx>>
    BY <1>6 DEF vars, db
  <2>. QED
    BY <2>1, StutterProtects
<1>. QED
  BY <1>1, <1>2, <1>3, <1>4, <1>5, <1>6 DEF Next

(* In every reachable state each row lock protects what its holder relies  *)
(* on: the rows a sweep or a callback has read stay what they were until   *)
(* the commit that acts on them.                                           *)
THEOREM LocksAlwaysProtect == Spec => []LocksProtect
<1>1. TypeOK /\ LocksProtect /\ [Next]_vars => LocksProtect'
  BY NextProtects
<1>. QED
  BY <1>1, InitProtects, TypeCorrect, PTL DEF Spec

(* No interleaving of bookings, sweeps and callbacks leaves a seat HELD    *)
(* for nobody: every HELD seat is on a PENDING booking, which an expiry or *)
(* a payment will take it out of.                                          *)
THEOREM HeldSeatsHaveHolders == Spec => []HeldSeatHasHolder
<1>1. LocksProtect => HeldSeatHasHolder
  BY DEF LocksProtect, HolderStays, HeldSeatHasHolder
<1>. QED
  BY <1>1, LocksAlwaysProtect, PTL

(* The seats of a paid booking are BOOKED for as long as it has them, also *)
(* when a sweep had listed it as expired before the payment came.          *)
THEOREM PaidSeatsAreBooked == Spec => []CompletedSeatsBooked
<1>1. LocksProtect => CompletedSeatsBooked
  BY DEF LocksProtect
<1>. QED
  BY <1>1, LocksAlwaysProtect, PTL

(* What a step changes of what clients can read.                           *)
LEMMA StepsWrite ==
  ASSUME [Next]_vars
  PROVE  \/ \E r \in Requests : PlaceOrder(r) \/ CommitBooking(r)
         \/ \E s \in Sweeps : CommitSweep(s)
         \/ \E c \in Callbacks : CommitCallback(c)
         \/ \E b \in Requests : ExpiryPasses(b)
         \/ UNCHANGED <<db, order>>
  BY DEF Next, vars, RequestNext, SweepNext, CallbackNext, Abort, Rollback,
         Submit, LockSeat, RejectSeat, HoldSeat,
         StartSweep, PickBooking, ReleaseSeat, DeleteRows, ExpireBooking, CreditTrip,
         ReceiveCallback, IgnoreCallback, CompleteBooking, CompleteNothing, BookSeat

(* The rows of seats, bookings and passengers only change by the three     *)
(* commits.                                                                *)
LEMMA CommitsWrite ==
  ASSUME [Next]_vars
  PROVE  \/ \E r \in Requests : CommitBooking(r)
         \/ \E s \in Sweeps : CommitSweep(s)
         \/ \E c \in Callbacks : CommitCallback(c)
         \/ UNCHANGED <<seat, status, rows, tickets>>
  BY StepsWrite DEF PlaceOrder, ExpiryPasses, db

(* No transaction releases or holds a seat once it is BOOKED: requests     *)
(* only lock AVAILABLE seats and sweeps HELD ones, and the row locks keep  *)
(* those seats from being sold in between.                                 *)
THEOREM BookedSeatsStayBooked == Spec => BookedIsFinal
<1>1. ASSUME TypeOK, LocksProtect, [Next]_vars,
             NEW x \in Seats, seat[x] = "BOOKED"
      PROVE  seat'[x] = "BOOKED"
  <2>1. seatLock[x] \notin Requests /\ seatLock[x] \notin Sweeps
    BY <1>1 DEF LocksProtect, LockedSeats
  <2>2. ASSUME NEW r \in Requests, CommitBooking(r) PROVE seat'[x] = "BOOKED"
    BY <1>1, <2>1, <2>2 DEF CommitBooking
  <2>3. ASSUME NEW s \in Sweeps, CommitSweep(s) PROVE seat'[x] = "BOOKED"
    BY <1>1, <2>1, <2>3 DEF CommitSweep
  <2>4. ASSUME NEW c \in Callbacks, CommitCallback(c) PROVE seat'[x] = "BOOKED"
    BY <1>1, <2>4 DEF CommitCallback
  <2>. QED
    BY <1>1, <2>2, <2>3, <2>4, CommitsWrite
<1>2. TypeOK /\ LocksProtect /\ [Next]_vars =>
        [\A x \in Seats : seat[x] = "BOOKED" => seat'[x] = "BOOKED"]_seat
  BY <1>1
<1>. QED
  BY <1>2, TypeCorrect, LocksAlwaysProtect, PTL DEF Spec, BookedIsFinal
-----------------------------------------------------------------------------
(*                          tickets and orders                             *)

(* A ticket is written in the commit that completes its booking and has    *)
(* locked its seat, and deleted with its row.                              *)
LEMMA NextTickets ==
  ASSUME TypeOK, LocksProtect, TicketIsForBookedSeat, [Next]_vars, Nameless = {}
  PROVE  TicketIsForBookedSeat'
<1>. SUFFICES ASSUME NEW b \in Requests, NEW x \in tickets'[b]
              PROVE  status'[b] = "COMPLETED" /\ x \in rows'[b] /\ seat'[x] = "BOOKED"
  BY DEF TicketIsForBookedSeat
<1>1. CASE \E r \in Requests : CommitBooking(r)
  <2>1. PICK r \in Requests : CommitBooking(r)
    BY <1>1
  <2>2. x \in tickets[b] /\ x \in Seats
    BY <2>1 DEF CommitBooking, TypeOK
  <2>3. status[b] = "COMPLETED" /\ x \in rows[b] /\ seat[x] = "BOOKED"
    BY <2>2 DEF TicketIsForBookedSeat
  <2>4. b # r
    BY <2>1, <2>3 DEF LocksProtect, KnownBookings, CommitBooking
  <2>5. seatLock[x] # r
    BY <2>2, <2>3 DEF LocksProtect, LockedSeats
  <2>. QED
    BY <2>1, <2>2, <2>3, <2>4, <2>5 DEF CommitBooking, TypeOK
<1>2. CASE \E s \in Sweeps : CommitSweep(s)
  <2>1. PICK s \in Sweeps : CommitSweep(s)
    BY <1>2
  <2>2. bookingLock[b] # s /\ x \in tickets[b] /\ x \in Seats
    BY <2>1 DEF CommitSweep, TypeOK
  <2>3. status[b] = "COMPLETED" /\ x \in rows[b] /\ seat[x] = "BOOKED"
    BY <2>2 DEF TicketIsForBookedSeat
  <2>4. seatLock[x] # s
    BY <2>2, <2>3 DEF LocksProtect, LockedSeats
  <2>. QED
    BY <2>1, <2>2, <2>3, <2>4 DEF CommitSweep
<1>3. CASE \E c \in Callbacks : CommitCallback(c)
  <2>1. PICK c \in Callbacks : CommitCallback(c)
    BY <1>3
  <2>2. /\ tx[c].booking \in Requests /\ tx[c].seats = rows[tx[c].booking]
        /\ \A y \in rows[tx[c].booking] : seatLock[y] = c
    BY <2>1 DEF LocksProtect, CallbackSteps, CallbackStep, CommitCallback
  <2>3. x \in Seats /\ rows'[b] = rows[b]
    <3>1. \A a \in Requests : rows[a] \subseteq Seats /\ tickets[a] \subseteq Seats
      BY DEF TypeOK
    <3>2. \A a \in Requests : tickets'[a] \subseteq tickets[a] \cup rows[a]
      BY <2>1 DEF CommitCallback, WriteTicket, TypeOK
    <3>. QED
      BY <2>1, <3>1, <3>2 DEF CommitCallback
  <2>4. CASE x \in tickets[b]
    <3>1. status[b] = "COMPLETED" /\ x \in rows[b] /\ seat[x] = "BOOKED"
      BY <2>4 DEF TicketIsForBookedSeat
    <3>. QED
      BY <2>1, <2>3, <3>1 DEF CommitCallback, TypeOK
  <2>5. CASE x \notin tickets[b]
    <3>1. PICK y \in tx[c].seats :
            tickets' = [tickets EXCEPT ![tx[c].booking] = @ \cup ({y} \cap rows[tx[c].booking])]
      BY <2>1, <2>5 DEF CommitCallback, WriteTicket
    <3>2. b = tx[c].booking /\ x \in rows[b]
      BY <2>2, <2>5, <3>1 DEF TypeOK
    <3>. QED
      BY <2>1, <2>2, <2>3, <3>2 DEF CommitCallback, TypeOK
  <2>. QED
    BY <2>4, <2>5
<1>4. CASE UNCHANGED <<seat, status, rows, tickets>>
  BY <1>4 DEF TicketIsForBookedSeat
<1>. QED
  BY <1>1, <1>2, <1>3, <1>4, CommitsWrite

(* A ticket number is only on a passenger of a paid booking, on a seat     *)
(* that is BOOKED, however callbacks are repeated and sweeps race them, as *)
(* long as every callback has a billRefNo.                                 *)
THEOREM TicketsAreForBookedSeats == Nameless = {} /\ Spec => []TicketIsForBookedSeat
<1>. SUFFICES ASSUME Nameless = {} PROVE Spec => []TicketIsForBookedSeat
  OBVIOUS
<1>1. Init => TicketIsForBookedSeat
  BY DEF Init, TicketIsForBookedSeat
<1>2. TypeOK /\ LocksProtect /\ TicketIsForBookedSeat /\ [Next]_vars => TicketIsForBookedSeat'
  BY NextTickets
<1>. QED
  BY <1>1, <1>2, TypeCorrect, LocksAlwaysProtect, PTL DEF Spec

(* An order never goes away.                                               *)
LEMMA OrdersStay ==
  ASSUME TypeOK, [Next]_vars, NEW b \in Requests, order[b] # "none"
  PROVE  order'[b] # "none"
<1>1. ASSUME NEW r \in Requests, PlaceOrder(r) PROVE order'[b] # "none"
  BY <1>1 DEF PlaceOrder, TypeOK
<1>2. ASSUME NEW r \in Requests, CommitBooking(r) \/ ExpiryPasses(r) PROVE UNCHANGED order
  BY <1>2 DEF CommitBooking, ExpiryPasses
<1>3. ASSUME NEW s \in Sweeps, CommitSweep(s) PROVE UNCHANGED order
  BY <1>3 DEF CommitSweep
<1>4. ASSUME NEW c \in Callbacks, CommitCallback(c) PROVE UNCHANGED order
  BY <1>4 DEF CommitCallback
<1>. QED
  BY <1>1, <1>2, <1>3, <1>4, StepsWrite

(* The steps of transaction p, its failure included, and those of no       *)
(* other.                                                                  *)
Moves(p) ==
  \/ p \in Requests  /\ (Submit(p) \/ RequestNext(p))
  \/ p \in Sweeps    /\ (StartSweep(p) \/ SweepNext(p))
  \/ p \in Callbacks /\ (ReceiveCallback(p) \/ CallbackNext(p))
  \/ Abort(p)

(* A statement locks one row for p, or none; its end unlocks those of p.   *)
Relocked(lock, after, p) ==
  \/ after = lock
  \/ \E k : Free(lock[k], p) /\ after = [lock EXCEPT ![k] = p]
  \/ after = Unlocked(lock, p)

OwnStep(p) ==
  /\ \E m : Becomes(p, m)
  /\ Relocked(seatLock, seatLock', p)
  /\ Relocked(bookingLock, bookingLock', p)
  /\ Relocked(tripLock, tripLock', p)

LEMMA MovesAreOwn ==
  ASSUME NEW p \in Txns, Moves(p)
  PROVE  OwnStep(p)
<1>1. ASSUME NEW step, Finish(p, step) PROVE OwnStep(p)
  BY <1>1 DEF Finish, OwnStep, Relocked
<1>2. UNCHANGED seatLock => Relocked(seatLock, seatLock', p)
  BY DEF Relocked
<1>3. UNCHANGED bookingLock => Relocked(bookingLock, bookingLock', p)
  BY DEF Relocked
<1>4. UNCHANGED tripLock => Relocked(tripLock, tripLock', p)
  BY DEF Relocked
<1>5. ASSUME NEW lock, NEW after, NEW k, lock[k] = NoTxn, after = [lock EXCEPT ![k] = p]
      PROVE  Relocked(lock, after, p)
  <2>1. Free(lock[k], p)
    BY <1>5 DEF Free
  <2>. QED
    BY <1>5, <2>1 DEF Relocked
<1>6. ASSUME NEW m, Becomes(p, m), UNCHANGED locks PROVE OwnStep(p)
  BY <1>2, <1>3, <1>4, <1>6 DEF OwnStep, locks
<1>7. CASE p \in Requests /\ (Submit(p) \/ RequestNext(p))
  <2>1. CASE Submit(p) \/ PlaceOrder(p)
    BY <1>6, <2>1 DEF Submit, PlaceOrder
  <2>2. CASE LockSeat(p)
    <3>1. /\ \E m : Becomes(p, m)
          /\ \E x : seatLock[x] = NoTxn /\ seatLock' = [seatLock EXCEPT ![x] = p]
      BY <2>2 DEF LockSeat
    <3>2. UNCHANGED <<bookingLock, tripLock>>
      BY <2>2 DEF LockSeat
    <3>3. Relocked(seatLock, seatLock', p)
      BY <1>5, <3>1
    <3>. QED
      BY <1>3, <1>4, <3>1, <3>2, <3>3 DEF OwnStep
  <2>3. CASE RejectSeat(p) \/ CommitBooking(p)
    BY <1>1, <2>3 DEF RejectSeat, CommitBooking, Rollback
  <2>4. CASE HoldSeat(p)
    <3>1. Relocked(tripLock, tripLock', p)
      BY <2>4 DEF HoldSeat, Relocked
    <3>2. UNCHANGED <<seatLock, bookingLock>> /\ \E m : Becomes(p, m)
      BY <2>4 DEF HoldSeat
    <3>. QED
      BY <1>2, <1>3, <3>1, <3>2 DEF OwnStep
  <2>. QED
    BY <1>7, <2>1, <2>2, <2>3, <2>4 DEF RequestNext
<1>8. CASE p \in Sweeps /\ (StartSweep(p) \/ SweepNext(p))
  <2>1. CASE StartSweep(p) \/ PickBooking(p) \/ DeleteRows(p)
    BY <1>6, <2>1 DEF StartSweep, PickBooking, DeleteRows
  <2>2. CASE ReleaseSeat(p)
    <3>1. /\ \E m : Becomes(p, m)
          /\ \/ UNCHANGED seatLock
             \/ \E x : seatLock[x] = NoTxn /\ seatLock' = [seatLock EXCEPT ![x] = p]
      BY <2>2 DEF ReleaseSeat
    <3>2. UNCHANGED <<bookingLock, tripLock>>
      BY <2>2 DEF ReleaseSeat
    <3>3. Relocked(seatLock, seatLock', p)
      BY <1>2, <1>5, <3>1
    <3>. QED
      BY <1>3, <1>4, <3>1, <3>2, <3>3 DEF OwnStep
  <2>3. CASE ExpireBooking(p)
    <3>1. Relocked(bookingLock, bookingLock', p)
      BY <1>5, <2>3 DEF ExpireBooking
    <3>2. UNCHANGED <<seatLock, tripLock>> /\ \E m : Becomes(p, m)
      BY <2>3 DEF ExpireBooking
    <3>. QED
      BY <1>2, <1>4, <3>1, <3>2 DEF OwnStep
  <2>4. CASE CreditTrip(p)
    <3>1. Relocked(tripLock, tripLock', p)
      BY <2>4 DEF CreditTrip, Relocked
    <3>2. UNCHANGED <<seatLock, bookingLock>> /\ \E m : Becomes(p, m)
      BY <2>4 DEF CreditTrip
    <3>. QED
      BY <1>2, <1>3, <3>1, <3>2 DEF OwnStep
  <2>5. CASE CommitSweep(p)
    BY <1>1, <2>5 DEF CommitSweep
  <2>. QED
    BY <1>8, <2>1, <2>2, <2>3, <2>4, <2>5 DEF SweepNext
<1>9. CASE p \in Callbacks /\ (ReceiveCallback(p) \/ CallbackNext(p))
  <2>1. CASE ReceiveCallback(p) \/ CompleteNothing(p)
    BY <1>6, <2>1 DEF ReceiveCallback, CompleteNothing, ReadPassengers
  <2>2. CASE CompleteBooking(p)
    <3>1. \E b : bookingLock[b] = NoTxn /\ bookingLock' = [bookingLock EXCEPT ![b] = p]
      BY <2>2 DEF CompleteBooking
    <3>2. Relocked(bookingLock, bookingLock', p)
      BY <1>5, <3>1
    <3>3. UNCHANGED <<seatLock, tripLock>> /\ \E m : Becomes(p, m)
      BY <2>2 DEF CompleteBooking, ReadPassengers
    <3>. QED
      BY <1>2, <1>4, <3>2, <3>3 DEF OwnStep
  <2>3. CASE BookSeat(p)
    <3>1. /\ \E m : Becomes(p, m)
          /\ \E x : seatLock[x] = NoTxn /\ seatLock' = [seatLock EXCEPT ![x] = p]
      BY <2>3 DEF BookSeat
    <3>2. UNCHANGED <<bookingLock, tripLock>>
      BY <2>3 DEF BookSeat
    <3>3. Relocked(seatLock, seatLock', p)
      BY <1>5, <3>1
    <3>. QED
      BY <1>3, <1>4, <3>1, <3>2, <3>3 DEF OwnStep
  <2>4. CASE CommitCallback(p)
    BY <1>1, <2>4 DEF CommitCallback
  <2>. QED
    BY <1>9, <2>1, <2>2, <2>3, <2>4 DEF CallbackNext
<1>10. CASE Abort(p)
  BY <1>1, <1>10 DEF Abort, Rollback
<1>. QED
  BY <1>7, <1>8, <1>9, <1>10 DEF Moves

(* What a transaction remembers and has locked changes by its own steps    *)
(* only.                                                                   *)
LEMMA OthersStay ==
  ASSUME TypeOK, [Next]_vars, NEW p \in Txns, ~ Moves(p)
  PROVE  /\ tx'[p] = tx[p]
         /\ \A x \in Seats : seatLock'[x] = p <=> seatLock[x] = p
         /\ \A b \in Requests : bookingLock'[b] = p <=> bookingLock[b] = p
         /\ \A t \in Trips : tripLock'[t] = p <=> tripLock[t] = p
<1>1. CASE \E q \in Txns : Moves(q)
  <2>1. PICK q \in Txns : q # p /\ OwnStep(q)
    BY <1>1, MovesAreOwn
  <2>2. tx'[p] = tx[p]
    BY <2>1, BecomesEffect DEF OwnStep
  <2>3. p # NoTxn
    BY TxnsAreDistinct
  <2>4. ASSUME NEW K, NEW lock \in [K -> Txns \cup {NoTxn}], NEW after,
               Relocked(lock, after, q), NEW k \in K
        PROVE  after[k] = p <=> lock[k] = p
    BY <2>1, <2>3, <2>4 DEF Relocked, Unlocked, Free
  <2>. QED
    BY <2>1, <2>2, <2>4 DEF OwnStep, TypeOK
<1>2. CASE UNCHANGED <<seatLock, bookingLock, tripLock, tx>>
  BY <1>2
<1>3. UNCHANGED <<locks, tx>> => UNCHANGED <<seatLock, bookingLock, tripLock, tx>>
  BY DEF locks
<1>4. (\E b \in Requests : ExpiryPasses(b)) => UNCHANGED <<locks, tx>>
  BY DEF ExpiryPasses
<1>5. (\E c \in Callbacks : IgnoreCallback(c)) \/ UNCHANGED vars => UNCHANGED <<locks, tx>>
  BY DEF IgnoreCallback, vars
<1>6. ASSUME ~ \E b \in Requests : ExpiryPasses(b),
             ~ \E c \in Callbacks : IgnoreCallback(c), ~ UNCHANGED vars
      PROVE  \E q \in Txns : Moves(q)
  BY <1>6, Kinds DEF Next, Moves
<1>. QED
  BY <1>1, <1>2, <1>3, <1>4, <1>5, <1>6

(* The memory of a request that has come in.                               *)
LEMMA SubmitBegins ==
  ASSUME NEW r \in Requests, Submit(r)
  PROVE  \E m : Becomes(r, m) /\ m.pc \in {"locking", "failed"}
<1>1. PICK t \in Trips, body \in Bodies :
         \/ Becomes(r, [At("locking") EXCEPT !.trip  = t,
                                             !.seats = SeatsOf(t, body),
                                             !.todo  = SeatsOf(t, body),
                                             !.avail = avail[t]])
         \/ Becomes(r, At("failed"))
  BY DEF Submit
<1>2. /\ [At("locking") EXCEPT !.trip = t, !.seats = SeatsOf(t, body),
                               !.todo = SeatsOf(t, body), !.avail = avail[t]].pc = "locking"
      /\ At("failed").pc = "failed"
  BY DEF At
<1>. QED
  BY <1>1, <1>2

(* A request comes to its commit from the answer of the gateway only.      *)
LEMMA CommitAfterOrder ==
  ASSUME TypeOK, [Next]_vars, NEW r \in Requests, tx'[r].pc = "committing"
  PROVE  tx[r].pc = "committing" \/ order'[r] # "none"
<1>. r \in Txns
  BY Kinds
<1>1. ASSUME NEW m, Becomes(r, m), m.pc # "committing" PROVE FALSE
  BY <1>1 DEF Becomes, TypeOK
<1>2. ASSUME Submit(r) PROVE FALSE
  BY <1>1, <1>2, SubmitBegins
<1>3. ASSUME LockSeat(r) PROVE FALSE
  <2>1. PICK x \in tx[r].todo :
          Becomes(r, IF tx[r].todo = {x}
                       THEN [tx[r] EXCEPT !.todo = tx[r].seats, !.pc = "holding"]
                       ELSE [tx[r] EXCEPT !.todo = @ \ {x}])
    BY <1>3 DEF LockSeat
  <2>2. /\ [tx[r] EXCEPT !.todo = tx[r].seats, !.pc = "holding"].pc = "holding"
        /\ [tx[r] EXCEPT !.todo = @ \ {x}].pc = "locking"
    BY <1>3, MemoryFields DEF LockSeat, Tx
  <2>. QED
    BY <1>1, <2>1, <2>2
<1>4. ASSUME HoldSeat(r) PROVE FALSE
  <2>1. PICK x \in tx[r].todo :
          Becomes(r, [Visit(r, x, "holding", "ordering") EXCEPT !.avail = Decremented(r)])
    BY <1>4 DEF HoldSeat
  <2>. QED
    BY <1>1, <2>1 DEF Visit, TypeOK, Tx
<1>5. ~ RejectSeat(r) /\ ~ CommitBooking(r) /\ ~ Abort(r)
  BY <1>1 DEF RejectSeat, CommitBooking, Abort, Rollback, Finish, At
<1>6. PlaceOrder(r) => order'[r] # "none"
  BY DEF PlaceOrder, TypeOK
<1>. QED
  BY <1>2, <1>3, <1>4, <1>5, <1>6, OthersStay, Kinds DEF Moves, RequestNext

LEMMA OrdersAlwaysFirst == Spec => []OrdersComeFirst
<1>1. Init => OrdersComeFirst
  BY Kinds DEF Init, OrdersComeFirst, BookingHasOrder, At
<1>2. ASSUME TypeOK, LocksProtect, OrdersComeFirst, [Next]_vars
      PROVE  OrdersComeFirst'
  <2>1. ASSUME NEW r \in Requests, tx'[r].pc = "committing" PROVE order'[r] # "none"
    BY <1>2, <2>1, CommitAfterOrder, OrdersStay DEF OrdersComeFirst
  <2>2. ASSUME NEW b \in Requests, status'[b] # "absent" PROVE order'[b] # "none"
    <3>1. CASE status[b] # "absent"
      BY <1>2, <3>1, OrdersStay DEF OrdersComeFirst, BookingHasOrder
    <3>2. CASE status[b] = "absent"
      <4>1. bookingLock[b] = NoTxn
        BY <1>2, <3>2 DEF LocksProtect, KnownBookings
      <4>2. ASSUME NEW s \in Sweeps, CommitSweep(s) PROVE FALSE
        BY <2>2, <3>2, <4>1, <4>2, Kinds DEF CommitSweep
      <4>3. ASSUME NEW c \in Callbacks, CommitCallback(c) PROVE FALSE
        <5>1. c \notin Nameless => bookingLock[tx[c].booking] = c
          BY <1>2, <4>3 DEF LocksProtect, CallbackSteps, CallbackStep, CommitCallback
        <5>. QED
          BY <1>2, <2>2, <3>2, <4>1, <4>3, <5>1, Kinds DEF CommitCallback, TypeOK
      <4>4. PICK r \in Requests : CommitBooking(r)
        BY <1>2, <2>2, <3>2, <4>2, <4>3, CommitsWrite
      <4>5. b = r /\ order[r] # "none"
        BY <1>2, <2>2, <3>2, <4>4 DEF CommitBooking, TypeOK, OrdersComeFirst
      <4>. QED
        BY <1>2, <4>5, OrdersStay
    <3>. QED
      BY <3>1, <3>2
  <2>. QED
    BY <2>1, <2>2 DEF OrdersComeFirst, BookingHasOrder
<1>3. TypeOK /\ LocksProtect /\ OrdersComeFirst /\ [Next]_vars => OrdersComeFirst'
  BY <1>2
<1>. QED
  BY <1>1, <1>3, TypeCorrect, LocksAlwaysProtect, PTL DEF Spec

(* A booking that can be read has its order at the gateway: the order is   *)
(* taken before the commit, whatever fails in between.                     *)
THEOREM BookingsHaveOrders == Spec => []BookingHasOrder
<1>1. OrdersComeFirst => BookingHasOrder
  BY DEF OrdersComeFirst
<1>. QED
  BY <1>1, OrdersAlwaysFirst, PTL
=============================================================================
