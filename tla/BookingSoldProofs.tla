-------------------------- MODULE BookingSoldProofs --------------------------
(***************************************************************************)
(* No seat is sold twice as long as no sweep locks a booking that another  *)
(* still has to end (SweepsApart), as when one client sweeps at a time:    *)
(* then OneSweepInv is inductive beside TypeOK and LocksProtect, for any   *)
(* number of trips, seats, requests, sweeps and callbacks, and with it the *)
(* transactions implement SeatLedger.  However they sweep, requests and    *)
(* sweeps never deadlock unless sweeps wait for each other, one trip sells *)
(* its own seats, and passengers who travel alone have their tickets.      *)
(***************************************************************************)
EXTENDS BookingProofs, WellFoundedInduction

(* The parts of the invariant that only speak of committed rows.           *)
LEMMA SameRows ==
  ASSUME SeatsChangeHands, UNCHANGED <<seat, status, rows>>
  PROVE  LiveSeatsTaken' /\ DeadRowsGone' /\ SeatSoldOnce'
  BY DEF SeatsChangeHands, LiveSeatsTaken, DeadRowsGone, SeatSoldOnce, Live

(* A rolled back transaction.                                              *)
LEMMA RollbackSells ==
  ASSUME TypeOK, SeatsChangeHands, NEW p \in Txns, Rollback(p)
  PROVE  SeatsChangeHands'
<1>. DEFINE step == IF p \in Requests THEN "failed" ELSE "idle"
<1>1. /\ \A x \in Seats : seatLock'[x] = IF seatLock[x] = p THEN NoTxn ELSE seatLock[x]
      /\ \A b \in Requests :
           bookingLock'[b] = IF bookingLock[b] = p THEN NoTxn ELSE bookingLock[b]
      /\ tx'[p] = At(step)
      /\ \A q \in Txns : q # p => tx'[q] = tx[q]
  BY FinishEffect DEF Rollback, Steps
<1>2. UNCHANGED <<seat, status, rows>>
  BY DEF Rollback, db
<1>3. /\ tx'[p].pc = step /\ tx'[p].found = {}
      /\ step \notin {"locking", "holding", "ordering", "committing", "releasing", "deleting",
                      "expiring"}
  BY <1>1 DEF At
<1>. HIDE DEF step
<1>4. RequestHasSeats'
  <2>. SUFFICES ASSUME NEW r \in Requests, r # p
                PROVE  /\ tx'[r].pc = "locking" =>
                            \A x \in tx'[r].seats \ tx'[r].todo : seatLock'[x] = r
                       /\ tx'[r].pc \in {"holding", "ordering", "committing"} =>
                            \A x \in tx'[r].seats : seatLock'[x] = r
    BY <1>3 DEF RequestHasSeats
  <2>1. r \in Txns /\ tx'[r] = tx[r] /\ tx[r].seats \subseteq Seats
    BY <1>1, Kinds, MemoryFields
  <2>. QED
    BY <1>1, <2>1 DEF SeatsChangeHands, RequestHasSeats
<1>5. SweepIsCurrent'
  BY <1>1, <1>2, <1>3, Kinds DEF SeatsChangeHands, SweepIsCurrent, Live
<1>6. SweepEndsHolder'
  BY <1>1, <1>2, <1>3, Kinds DEF SeatsChangeHands, SweepEndsHolder, Live
<1>. QED
  BY <1>2, <1>4, <1>5, <1>6, SameRows DEF SeatsChangeHands

(* A statement of createBooking before its commit.                         *)
LEMMA RequestMovesSell ==
  ASSUME TypeOK, SeatsChangeHands, NEW r \in Requests, NEW m, Becomes(r, m),
         UNCHANGED <<seat, status, rows, bookingLock>>,
         \A x \in Seats : \/ seatLock'[x] = seatLock[x]
                          \/ seatLock[x] = NoTxn /\ seatLock'[x] = r,
         m.pc = "locking" => \A x \in m.seats \ m.todo : seatLock'[x] = r,
         m.pc \in {"holding", "ordering", "committing"} =>
           \A x \in m.seats : seatLock'[x] = r
  PROVE  SeatsChangeHands'
<1>1. tx'[r] = m /\ \A q \in Txns : q # r => tx'[q] = tx[q]
  BY BecomesEffect, Kinds
<1>2. RequestHasSeats'
  <2>. SUFFICES ASSUME NEW q \in Requests, q # r
                PROVE  /\ tx'[q].pc = "locking" =>
                            \A x \in tx'[q].seats \ tx'[q].todo : seatLock'[x] = q
                       /\ tx'[q].pc \in {"holding", "ordering", "committing"} =>
                            \A x \in tx'[q].seats : seatLock'[x] = q
    BY <1>1 DEF RequestHasSeats
  <2>1. q # NoTxn /\ tx'[q] = tx[q] /\ tx[q].seats \subseteq Seats
    BY <1>1, Kinds, MemoryFields
  <2>. QED
    BY <2>1 DEF SeatsChangeHands, RequestHasSeats
<1>3. SweepIsCurrent'
  BY <1>1, Kinds DEF SeatsChangeHands, SweepIsCurrent, Live
<1>4. SweepEndsHolder'
  BY <1>1, Kinds DEF SeatsChangeHands, SweepEndsHolder, Live
<1>. QED
  BY <1>2, <1>3, <1>4, SameRows DEF SeatsChangeHands

(* A statement of a sweep before its commit.                               *)
LEMMA SweepMovesSell ==
  ASSUME TypeOK, SeatsChangeHands, NEW s \in Sweeps, NEW m, Becomes(s, m),
         UNCHANGED <<seat, status, rows>>,
         \A x \in Seats : \/ seatLock'[x] = seatLock[x]
                          \/ seatLock[x] = NoTxn /\ seatLock'[x] = s,
         \A b \in Requests : \/ bookingLock'[b] = bookingLock[b]
                             \/ bookingLock[b] = NoTxn /\ bookingLock'[b] = s,
         \A b \in m.found : Live(b),
         m.pc \in {"releasing", "deleting", "expiring"} =>
           /\ m.booking \in Requests
           /\ Live(m.booking)
           /\ m.todo \subseteq rows[m.booking],
         \A x \in Seats, b \in Requests :
           seatLock'[x] = s /\ Live(b) /\ x \in rows[b] =>
             \/ bookingLock'[b] = s
             \/ m.pc \in {"releasing", "deleting", "expiring"} /\ m.booking = b
  PROVE  SeatsChangeHands'
<1>1. tx'[s] = m /\ \A q \in Txns : q # s => tx'[q] = tx[q]
  BY BecomesEffect, Kinds
<1>2. RequestHasSeats'
  <2>. SUFFICES ASSUME NEW q \in Requests
                PROVE  /\ tx'[q].pc = "locking" =>
                            \A x \in tx'[q].seats \ tx'[q].todo : seatLock'[x] = q
                       /\ tx'[q].pc \in {"holding", "ordering", "committing"} =>
                            \A x \in tx'[q].seats : seatLock'[x] = q
    BY DEF RequestHasSeats
  <2>1. q # NoTxn /\ tx'[q] = tx[q] /\ tx[q].seats \subseteq Seats
    BY <1>1, Kinds, MemoryFields
  <2>. QED
    BY <2>1 DEF SeatsChangeHands, RequestHasSeats
<1>3. SweepIsCurrent'
  <2>1. \A u \in Sweeps :
          /\ \A b \in tx'[u].found : Live(b)
          /\ tx'[u].pc \in {"releasing", "deleting", "expiring"} =>
               /\ tx'[u].booking \in Requests
               /\ Live(tx'[u].booking)
               /\ tx'[u].todo \subseteq rows[tx'[u].booking]
    BY <1>1, Kinds DEF SeatsChangeHands, SweepIsCurrent
  <2>. QED
    BY <2>1 DEF SweepIsCurrent, Live
<1>4. SweepEndsHolder'
  BY <1>1, Kinds DEF SeatsChangeHands, SweepEndsHolder, Live
<1>. QED
  BY <1>2, <1>3, <1>4, SameRows DEF SeatsChangeHands

(* A statement of a callback before its commit.                            *)
LEMMA CallbackMovesSell ==
  ASSUME TypeOK, SeatsChangeHands, NEW c \in Callbacks, NEW m, Becomes(c, m),
         UNCHANGED <<seat, status, rows>>,
         \A x \in Seats : \/ seatLock'[x] = seatLock[x]
                          \/ seatLock[x] = NoTxn /\ seatLock'[x] = c,
         \A b \in Requests : \/ bookingLock'[b] = bookingLock[b]
                             \/ bookingLock[b] = NoTxn /\ bookingLock'[b] = c
  PROVE  SeatsChangeHands'
<1>1. \A q \in Txns : q # c => tx'[q] = tx[q]
  BY BecomesEffect, Kinds
<1>2. RequestHasSeats'
  <2>. SUFFICES ASSUME NEW q \in Requests
                PROVE  /\ tx'[q].pc = "locking" =>
                            \A x \in tx'[q].seats \ tx'[q].todo : seatLock'[x] = q
                       /\ tx'[q].pc \in {"holding", "ordering", "committing"} =>
                            \A x \in tx'[q].seats : seatLock'[x] = q
    BY DEF RequestHasSeats
  <2>1. q # NoTxn /\ tx'[q] = tx[q] /\ tx[q].seats \subseteq Seats
    BY <1>1, Kinds, MemoryFields
  <2>. QED
    BY <2>1 DEF SeatsChangeHands, RequestHasSeats
<1>3. SweepIsCurrent'
  BY <1>1, Kinds DEF SeatsChangeHands, SweepIsCurrent, Live
<1>4. SweepEndsHolder'
  BY <1>1, Kinds DEF SeatsChangeHands, SweepEndsHolder, Live
<1>. QED
  BY <1>2, <1>3, <1>4, SameRows DEF SeatsChangeHands

LEMMA InitSells == Init => SeatsChangeHands
<1>. SUFFICES ASSUME Init PROVE SeatsChangeHands
  OBVIOUS
<1>1. \A p \in Txns : tx[p].pc = "idle" /\ tx[p].found = {}
  BY DEF Init, At
<1>2. \A b \in Requests : ~ Live(b) /\ rows[b] = {}
  BY DEF Init, Live
<1>. QED
  BY <1>1, <1>2, Kinds DEF SeatsChangeHands, RequestHasSeats, LiveSeatsTaken, DeadRowsGone,
                           SweepIsCurrent, SweepEndsHolder, SeatSoldOnce

(* The commit of a booking: nobody live has its seats, for it has locked   *)
(* them while they were AVAILABLE.                                         *)
LEMMA CommitBookingSells ==
  ASSUME TypeOK, LocksProtect, SeatsChangeHands, NEW r \in Requests, CommitBooking(r)
  PROVE  SeatsChangeHands'
<1>1. /\ \A x \in Seats : seatLock'[x] = IF seatLock[x] = r THEN NoTxn ELSE seatLock[x]
      /\ \A b \in Requests :
           bookingLock'[b] = IF bookingLock[b] = r THEN NoTxn ELSE bookingLock[b]
      /\ tx'[r] = At("done")
      /\ \A q \in Txns : q # r => tx'[q] = tx[q]
  BY FinishEffect, Kinds DEF CommitBooking, Steps
<1>2. tx'[r].pc = "done"
  BY <1>1 DEF At
<1>3. /\ \A x \in Seats : seat'[x] = IF seatLock[x] = r THEN "HELD" ELSE seat[x]
      /\ \A b \in Requests : status'[b] = IF b = r THEN "PENDING" ELSE status[b]
      /\ \A b \in Requests : rows'[b] = IF b = r THEN tx[r].seats ELSE rows[b]
  BY DEF CommitBooking, TypeOK
<1>4. \A x \in tx[r].seats : x \in Seats /\ seatLock[x] = r /\ seat[x] = "AVAILABLE"
  <2>1. \A x \in tx[r].seats : x \in Seats /\ seatLock[x] = r
    BY Kinds, MemoryFields DEF CommitBooking, SeatsChangeHands, RequestHasSeats
  <2>. QED
    BY <2>1 DEF LocksProtect, LockedSeats
<1>5. \A b \in Requests : b # r /\ Live(b) => rows[b] \cap tx[r].seats = {}
  BY <1>4 DEF SeatsChangeHands, LiveSeatsTaken
<1>6. status[r] = "absent"
  BY DEF CommitBooking, LocksProtect, KnownBookings
<1>7. \A p \in Sweeps : tx'[p] = tx[p] /\ r \notin tx[p].found /\ tx[p].booking # r
  BY <1>1, <1>6, Kinds DEF LocksProtect, KnownBookings
<1>8. \A b \in Requests : /\ rows[b] \subseteq Seats
                          /\ b # r => (Live(b)' <=> Live(b))
  BY <1>3 DEF Live, TypeOK
<1>9. RequestHasSeats'
  <2>. SUFFICES ASSUME NEW q \in Requests, q # r
                PROVE  /\ tx'[q].pc = "locking" =>
                            \A x \in tx'[q].seats \ tx'[q].todo : seatLock'[x] = q
                       /\ tx'[q].pc \in {"holding", "ordering", "committing"} =>
                            \A x \in tx'[q].seats : seatLock'[x] = q
    BY <1>2 DEF RequestHasSeats
  <2>1. q # NoTxn /\ tx'[q] = tx[q] /\ tx[q].seats \subseteq Seats
    BY <1>1, Kinds, MemoryFields
  <2>. QED
    BY <1>1, <2>1 DEF SeatsChangeHands, RequestHasSeats
<1>10. LiveSeatsTaken'
  <2>. SUFFICES ASSUME NEW b \in Requests, Live(b)', NEW x \in rows'[b]
                PROVE  seat'[x] # "AVAILABLE"
    BY DEF LiveSeatsTaken
  <2>1. CASE b = r
    BY <1>3, <1>4, <2>1
  <2>2. CASE b # r
    BY <1>3, <1>8, <2>2 DEF SeatsChangeHands, LiveSeatsTaken
  <2>. QED
    BY <2>1, <2>2
<1>11. DeadRowsGone'
  BY <1>3, <1>8 DEF SeatsChangeHands, DeadRowsGone, Live
<1>12. SweepIsCurrent'
  <2>. SUFFICES ASSUME NEW s \in Sweeps
                PROVE  /\ \A b \in tx[s].found : Live(b)'
                       /\ tx[s].pc \in {"releasing", "deleting", "expiring"} =>
                            /\ tx[s].booking \in Requests
                            /\ status'[tx[s].booking] \in {"PENDING", "COMPLETED"}
                            /\ tx[s].todo \subseteq rows'[tx[s].booking]
    BY <1>7 DEF SweepIsCurrent, Live
  <2>1. tx[s].found \subseteq Requests
    BY Kinds, MemoryFields
  <2>. QED
    BY <1>3, <1>7, <1>8, <2>1 DEF SeatsChangeHands, SweepIsCurrent, Live
<1>13. SweepEndsHolder'
  <2>. SUFFICES ASSUME NEW s \in Sweeps, NEW x \in Seats, NEW b \in Requests,
                       seatLock'[x] = s, Live(b)', x \in rows'[b]
                PROVE  \/ bookingLock'[b] = s
                       \/ tx'[s].pc \in {"releasing", "deleting", "expiring"} /\ tx'[s].booking = b
    BY DEF SweepEndsHolder
  <2>1. seatLock[x] = s /\ s # r
    BY <1>1, Kinds
  <2>2. b # r
    BY <1>3, <1>4, <2>1
  <2>3. Live(b) /\ x \in rows[b]
    BY <1>3, <1>8, <2>2
  <2>. QED
    BY <1>1, <1>7, <2>1, <2>3 DEF SeatsChangeHands, SweepEndsHolder
<1>14. SeatSoldOnce'
  <2>. SUFFICES ASSUME NEW a \in Requests, NEW b \in Requests, Live(a)', Live(b)', a # b
                PROVE  rows'[a] \cap rows'[b] = {}
    BY DEF SeatSoldOnce
  <2>1. CASE a = r
    BY <1>3, <1>5, <1>8, <2>1
  <2>2. CASE b = r
    BY <1>3, <1>5, <1>8, <2>2
  <2>3. CASE a # r /\ b # r
    BY <1>3, <1>8, <2>3 DEF SeatsChangeHands, SeatSoldOnce
  <2>. QED
    BY <2>1, <2>2, <2>3
<1>. QED
  BY <1>9, <1>10, <1>11, <1>12, <1>13, <1>14 DEF SeatsChangeHands

(* The commit of the only sweep: the seats it gives back were those of the *)
(* bookings it ends.                                                       *)
LEMMA CommitSweepSells ==
  ASSUME TypeOK, SweepsApart, SeatsChangeHands, NEW s \in Sweeps, CommitSweep(s)
  PROVE  SeatsChangeHands'
<1>1. /\ \A x \in Seats : seatLock'[x] = IF seatLock[x] = s THEN NoTxn ELSE seatLock[x]
      /\ \A b \in Requests :
           bookingLock'[b] = IF bookingLock[b] = s THEN NoTxn ELSE bookingLock[b]
      /\ tx'[s] = At("idle")
      /\ \A q \in Txns : q # s => tx'[q] = tx[q]
  BY FinishEffect, Kinds DEF CommitSweep, Steps
<1>2. tx'[s].pc = "idle" /\ tx'[s].found = {}
  BY <1>1 DEF At
<1>3. /\ \A x \in Seats : seat'[x] = IF seatLock[x] = s THEN "AVAILABLE" ELSE seat[x]
      /\ \A b \in Requests : status'[b] = IF bookingLock[b] = s THEN "EXPIRED" ELSE status[b]
      /\ \A b \in Requests : rows'[b] = IF bookingLock[b] = s THEN {} ELSE rows[b]
  BY DEF CommitSweep
<1>4. \A b \in Requests : Live(b)' => Live(b) /\ bookingLock[b] # s /\ rows'[b] = rows[b]
  BY <1>3 DEF Live
<1>5. tx[s].pc = "committing"
  BY DEF CommitSweep
<1>6. \A b \in Requests : rows[b] \subseteq Seats
  BY DEF TypeOK
<1>7. RequestHasSeats'
  <2>. SUFFICES ASSUME NEW q \in Requests
                PROVE  /\ tx'[q].pc = "locking" =>
                            \A x \in tx'[q].seats \ tx'[q].todo : seatLock'[x] = q
                       /\ tx'[q].pc \in {"holding", "ordering", "committing"} =>
                            \A x \in tx'[q].seats : seatLock'[x] = q
    BY DEF RequestHasSeats
  <2>1. q # s /\ tx'[q] = tx[q] /\ tx[q].seats \subseteq Seats
    BY <1>1, Kinds, MemoryFields
  <2>. QED
    BY <1>1, <2>1 DEF SeatsChangeHands, RequestHasSeats
<1>8. LiveSeatsTaken'
  <2>. SUFFICES ASSUME NEW b \in Requests, Live(b)', NEW x \in rows'[b]
                PROVE  seat'[x] # "AVAILABLE"
    BY DEF LiveSeatsTaken
  <2>1. Live(b) /\ x \in rows[b] /\ x \in Seats /\ bookingLock[b] # s
    BY <1>4, <1>6
  <2>2. seatLock[x] # s
    BY <1>5, <2>1 DEF SeatsChangeHands, SweepEndsHolder
  <2>. QED
    BY <1>3, <2>1, <2>2 DEF SeatsChangeHands, LiveSeatsTaken
<1>9. DeadRowsGone'
  BY <1>3 DEF SeatsChangeHands, DeadRowsGone, Live
<1>10. SweepIsCurrent'
  <2>. SUFFICES ASSUME NEW u \in Sweeps
                PROVE  /\ \A b \in tx'[u].found : Live(b)'
                       /\ tx'[u].pc \in {"releasing", "deleting", "expiring"} =>
                            /\ tx'[u].booking \in Requests
                            /\ status'[tx'[u].booking] \in {"PENDING", "COMPLETED"}
                            /\ tx'[u].todo \subseteq rows'[tx'[u].booking]
    BY DEF SweepIsCurrent, Live
  <2>1. CASE u = s
    BY <1>2, <2>1 DEF Live
  <2>2. CASE u # s
    <3>0. \A b \in Requests :
            bookingLock[b] = s => b \notin tx[u].found /\
              ~ (tx[u].pc \in {"releasing", "deleting", "expiring"} /\ tx[u].booking = b)
      BY <2>2 DEF SweepsApart
    <3>1. tx'[u] = tx[u] /\ tx[u].found \subseteq Requests
      BY <1>1, <2>2, Kinds, MemoryFields
    <3>2. ASSUME NEW b \in tx[u].found PROVE Live(b)'
      <4>1. b \in Requests /\ Live(b) /\ bookingLock[b] # s
        BY <3>0, <3>1 DEF SeatsChangeHands, SweepIsCurrent
      <4>. QED
        BY <1>3, <4>1 DEF Live
    <3>3. ASSUME tx[u].pc \in {"releasing", "deleting", "expiring"}
          PROVE  /\ tx[u].booking \in Requests
                 /\ status'[tx[u].booking] \in {"PENDING", "COMPLETED"}
                 /\ tx[u].todo \subseteq rows'[tx[u].booking]
      <4>1. /\ tx[u].booking \in Requests /\ Live(tx[u].booking)
            /\ tx[u].todo \subseteq rows[tx[u].booking]
        BY <3>3 DEF SeatsChangeHands, SweepIsCurrent
      <4>2. bookingLock[tx[u].booking] # s
        BY <3>0, <3>3, <4>1
      <4>. QED
        BY <1>3, <4>1, <4>2 DEF Live
    <3>. QED
      BY <3>1, <3>2, <3>3 DEF Live
  <2>. QED
    BY <2>1, <2>2
<1>11. SweepEndsHolder'
  <2>. SUFFICES ASSUME NEW u \in Sweeps, NEW x \in Seats, NEW b \in Requests,
                       seatLock'[x] = u, Live(b)', x \in rows'[b]
                PROVE  \/ bookingLock'[b] = u
                       \/ tx'[u].pc \in {"releasing", "deleting", "expiring"} /\ tx'[u].booking = b
    BY DEF SweepEndsHolder
  <2>1. u # s /\ u \in Txns /\ seatLock[x] = u /\ tx'[u] = tx[u]
    BY <1>1, Kinds
  <2>2. Live(b) /\ x \in rows[b] /\ bookingLock[b] # s
    BY <1>4
  <2>3. \/ bookingLock[b] = u
        \/ tx[u].pc \in {"releasing", "deleting", "expiring"} /\ tx[u].booking = b
    BY <2>1, <2>2 DEF SeatsChangeHands, SweepEndsHolder
  <2>. QED
    BY <1>1, <2>1, <2>2, <2>3
<1>12. SeatSoldOnce'
  BY <1>4 DEF SeatsChangeHands, SeatSoldOnce
<1>. QED
  BY <1>7, <1>8, <1>9, <1>10, <1>11, <1>12 DEF SeatsChangeHands

(* The commit of a callback: it takes no seat from anybody; a booking that *)
(* was over has no passengers to come back with.                           *)
LEMMA CommitCallbackSells ==
  ASSUME TypeOK, LocksProtect, SeatsChangeHands, NEW c \in Callbacks, CommitCallback(c)
  PROVE  SeatsChangeHands'
<1>. DEFINE k == tx[c].booking
<1>1. /\ \A x \in Seats : seatLock'[x] = IF seatLock[x] = c THEN NoTxn ELSE seatLock[x]
      /\ \A b \in Requests :
           bookingLock'[b] = IF bookingLock[b] = c THEN NoTxn ELSE bookingLock[b]
      /\ \A q \in Txns : q # c => tx'[q] = tx[q]
  BY FinishEffect, Kinds DEF CommitCallback, Steps
<1>2. /\ \A x \in Seats : seat'[x] = IF seatLock[x] = c THEN "BOOKED" ELSE seat[x]
      /\ \A b \in Requests :
           status'[b] = IF c \notin Nameless /\ b = k THEN "COMPLETED" ELSE status[b]
      /\ rows' = rows
  BY DEF CommitCallback, TypeOK
<1>. HIDE DEF k
<1>3. \A b \in Requests : /\ rows[b] \subseteq Seats
                          /\ Live(b) => Live(b)'
                          /\ rows[b] # {} => Live(b)
  BY <1>2 DEF Live, TypeOK, SeatsChangeHands, DeadRowsGone
<1>4. RequestHasSeats'
  <2>. SUFFICES ASSUME NEW q \in Requests
                PROVE  /\ tx'[q].pc = "locking" =>
                            \A x \in tx'[q].seats \ tx'[q].todo : seatLock'[x] = q
                       /\ tx'[q].pc \in {"holding", "ordering", "committing"} =>
                            \A x \in tx'[q].seats : seatLock'[x] = q
    BY DEF RequestHasSeats
  <2>1. q # c /\ tx'[q] = tx[q] /\ tx[q].seats \subseteq Seats
    BY <1>1, Kinds, MemoryFields
  <2>. QED
    BY <1>1, <2>1 DEF SeatsChangeHands, RequestHasSeats
<1>5. LiveSeatsTaken'
  <2>. SUFFICES ASSUME NEW b \in Requests, NEW x \in rows[b]
                PROVE  seat'[x] # "AVAILABLE"
    BY <1>2 DEF LiveSeatsTaken
  <2>1. x \in Seats /\ seat[x] # "AVAILABLE"
    BY <1>3 DEF SeatsChangeHands, LiveSeatsTaken
  <2>. QED
    BY <1>2, <2>1
<1>6. DeadRowsGone'
  BY <1>2, <1>3 DEF DeadRowsGone
<1>7. SweepIsCurrent'
  <2>1. ASSUME NEW s \in Sweeps
        PROVE  /\ tx'[s] = tx[s]
               /\ \A b \in tx[s].found : Live(b)'
               /\ tx[s].pc \in {"releasing", "deleting", "expiring"} =>
                    /\ tx[s].booking \in Requests
                    /\ status'[tx[s].booking] \in {"PENDING", "COMPLETED"}
                    /\ tx[s].todo \subseteq rows'[tx[s].booking]
    <3>1. tx'[s] = tx[s] /\ tx[s].found \subseteq Requests
      BY <1>1, Kinds, MemoryFields
    <3>. QED
      BY <1>2, <1>3, <3>1 DEF SeatsChangeHands, SweepIsCurrent, Live
  <2>. QED
    BY <2>1 DEF SweepIsCurrent, Live
<1>8. SweepEndsHolder'
  <2>. SUFFICES ASSUME NEW s \in Sweeps, NEW x \in Seats, NEW b \in Requests,
                       seatLock'[x] = s, x \in rows[b]
                PROVE  \/ bookingLock'[b] = s
                       \/ tx'[s].pc \in {"releasing", "deleting", "expiring"} /\ tx'[s].booking = b
    BY <1>2 DEF SweepEndsHolder
  <2>1. Live(b) /\ seatLock[x] = s /\ s # c /\ tx'[s] = tx[s]
    BY <1>1, <1>3, Kinds
  <2>. QED
    BY <1>1, <2>1 DEF SeatsChangeHands, SweepEndsHolder
<1>9. SeatSoldOnce'
  <2>. SUFFICES ASSUME NEW a \in Requests, NEW b \in Requests, a # b
                PROVE  rows[a] \cap rows[b] = {}
    BY <1>2 DEF SeatSoldOnce
  <2>. QED
    BY <1>3 DEF SeatsChangeHands, SeatSoldOnce
<1>. QED
  BY <1>4, <1>5, <1>6, <1>7, <1>8, <1>9 DEF SeatsChangeHands

(* Every step of createBooking.                                            *)
LEMMA RequestSells ==
  ASSUME TypeOK, LocksProtect, SeatsChangeHands, NEW r \in Requests,
         Submit(r) \/ RequestNext(r)
  PROVE  SeatsChangeHands'
<1>. r \in Txns
  BY Kinds
<1>1. /\ tx[r] \in Tx
      /\ tx[r].seats \subseteq Seats
      /\ tx[r].pc = "locking" => \A x \in tx[r].seats \ tx[r].todo : seatLock[x] = r
      /\ tx[r].pc \in {"holding", "ordering", "committing"} =>
           \A x \in tx[r].seats : seatLock[x] = r
  BY MemoryFields DEF SeatsChangeHands, RequestHasSeats
<1>2. CASE Submit(r)
  <2>1. PICK t \in Trips, body \in Bodies :
          \/ Becomes(r, [At("locking") EXCEPT !.trip  = t,
                                              !.seats = SeatsOf(t, body),
                                              !.todo  = SeatsOf(t, body),
                                              !.avail = avail[t]])
          \/ Becomes(r, At("failed"))
    BY <1>2 DEF Submit
  <2>. DEFINE m == [At("locking") EXCEPT !.trip  = t,
                                         !.seats = SeatsOf(t, body),
                                         !.todo  = SeatsOf(t, body),
                                         !.avail = avail[t]]
              n == At("failed")
  <2>2. m.pc = "locking" /\ m.seats \ m.todo = {} /\ n.pc = "failed"
    BY DEF At
  <2>3. UNCHANGED <<seat, status, rows, bookingLock, seatLock>>
    BY <1>2 DEF Submit, db, locks
  <2>. HIDE DEF m, n
  <2>4. Becomes(r, m) \/ Becomes(r, n)
    BY <2>1 DEF m, n
  <2>. QED
    BY <2>2, <2>3, <2>4, RequestMovesSell
<1>3. CASE LockSeat(r)
  <2>1. PICK x \in tx[r].todo :
          /\ seatLock[x] = NoTxn
          /\ seatLock' = [seatLock EXCEPT ![x] = r]
          /\ Becomes(r, IF tx[r].todo = {x}
                          THEN [tx[r] EXCEPT !.todo = tx[r].seats, !.pc = "holding"]
                          ELSE [tx[r] EXCEPT !.todo = @ \ {x}])
    BY <1>3 DEF LockSeat
  <2>. DEFINE m == IF tx[r].todo = {x}
                     THEN [tx[r] EXCEPT !.todo = tx[r].seats, !.pc = "holding"]
                     ELSE [tx[r] EXCEPT !.todo = @ \ {x}]
  <2>2. UNCHANGED <<seat, status, rows, bookingLock>> /\ tx[r].pc = "locking" /\ Becomes(r, m)
    BY <1>3, <2>1 DEF LockSeat, db
  <2>3. /\ m.seats = tx[r].seats
        /\ m.pc = IF tx[r].todo = {x} THEN "holding" ELSE "locking"
        /\ m.pc = "locking" => m.todo = tx[r].todo \ {x}
    BY <1>1, <2>2 DEF Tx
  <2>. HIDE DEF m
  <2>4. \A y \in Seats : seatLock'[y] = IF y = x THEN r ELSE seatLock[y]
    BY <2>1 DEF TypeOK
  <2>5. \A y \in tx[r].seats : y = x \/ seatLock'[y] = r \/ y \in tx[r].todo \ {x}
    BY <1>1, <2>2, <2>4
  <2>6. \A y \in m.seats : seatLock'[y] = r \/ y \in tx[r].todo \ {x}
    BY <1>1, <2>3, <2>4, <2>5
  <2>. QED
    BY <2>1, <2>2, <2>3, <2>4, <2>6, RequestMovesSell
<1>4. CASE RejectSeat(r)
  BY <1>4, RollbackSells DEF RejectSeat
<1>5. CASE HoldSeat(r)
  <2>1. PICK x \in tx[r].todo :
          Becomes(r, [Visit(r, x, "holding", "ordering") EXCEPT !.avail = Decremented(r)])
    BY <1>5 DEF HoldSeat
  <2>. DEFINE m == [Visit(r, x, "holding", "ordering") EXCEPT !.avail = Decremented(r)]
  <2>2. UNCHANGED <<seat, status, rows, bookingLock, seatLock>> /\ tx[r].pc = "holding" /\ Becomes(r, m)
    BY <1>5, <2>1 DEF HoldSeat, db
  <2>3. m.seats = tx[r].seats /\ m.pc \in {"holding", "ordering"}
    BY <1>1 DEF Visit, Tx
  <2>. HIDE DEF m
  <2>. QED
    BY <1>1, <2>2, <2>3, RequestMovesSell
<1>6. CASE PlaceOrder(r)
  <2>. DEFINE m == [tx[r] EXCEPT !.pc = "committing"]
  <2>1. UNCHANGED <<seat, status, rows, bookingLock, seatLock>> /\ tx[r].pc = "ordering" /\ Becomes(r, m)
    BY <1>6 DEF PlaceOrder, db, locks
  <2>2. m.seats = tx[r].seats /\ m.pc = "committing"
    BY <1>1 DEF Tx
  <2>. HIDE DEF m
  <2>. QED
    BY <1>1, <2>1, <2>2, RequestMovesSell
<1>7. CASE CommitBooking(r)
  BY <1>7, CommitBookingSells
<1>. QED
  BY <1>2, <1>3, <1>4, <1>5, <1>6, <1>7 DEF RequestNext

(* Every step of the sweep of getTripDetail.                               *)
LEMMA SweepSells ==
  ASSUME TypeOK, SweepsApart, LocksProtect, SeatsChangeHands, NEW s \in Sweeps,
         StartSweep(s) \/ SweepNext(s)
  PROVE  SeatsChangeHands'
<1>. s \in Txns
  BY Kinds
<1>1. /\ tx[s] \in Tx
      /\ tx[s].found \subseteq Requests
      /\ tx[s].todo \subseteq Seats
      /\ \A b \in tx[s].found : Live(b)
      /\ tx[s].pc \in {"releasing", "deleting", "expiring"} =>
           /\ tx[s].booking \in Requests
           /\ Live(tx[s].booking)
           /\ tx[s].todo \subseteq rows[tx[s].booking]
      /\ \A x \in Seats, b \in Requests :
           seatLock[x] = s /\ Live(b) /\ x \in rows[b] =>
             \/ bookingLock[b] = s
             \/ tx[s].pc \in {"releasing", "deleting", "expiring"} /\ tx[s].booking = b
  BY MemoryFields DEF SeatsChangeHands, SweepIsCurrent, SweepEndsHolder
<1>2. CASE StartSweep(s)
  <2>1. PICK t \in Trips \cup {NoTrip} :
          Becomes(s, IF Expired = {}
                       THEN tx[s]
                       ELSE [At("listing") EXCEPT !.trip = t, !.found = Expired])
    BY <1>2 DEF StartSweep
  <2>. DEFINE m == IF Expired = {}
                     THEN tx[s]
                     ELSE [At("listing") EXCEPT !.trip = t, !.found = Expired]
  <2>2. UNCHANGED <<seat, status, rows, seatLock, bookingLock>> /\ tx[s].pc = "idle" /\ Becomes(s, m)
    BY <1>2, <2>1 DEF StartSweep, db, locks
  <2>3. m.found \subseteq tx[s].found \cup Expired /\ m.pc \in {"idle", "listing"}
    BY <2>2 DEF At
  <2>4. \A b \in m.found : Live(b)
    BY <1>1, <2>3 DEF Expired, Live
  <2>. HIDE DEF m
  <2>. QED
    BY <1>1, <2>2, <2>3, <2>4, SweepMovesSell
<1>3. CASE PickBooking(s)
  <2>1. PICK b \in tx[s].found :
          Becomes(s, [tx[s] EXCEPT !.found   = @ \ {b},
                                   !.booking = b,
                                   !.seats   = rows[b],
                                   !.todo    = rows[b],
                                   !.pc      = IF rows[b] = {} THEN "deleting" ELSE "releasing"])
    BY <1>3 DEF PickBooking
  <2>. DEFINE m == [tx[s] EXCEPT !.found   = @ \ {b},
                                 !.booking = b,
                                 !.seats   = rows[b],
                                 !.todo    = rows[b],
                                 !.pc      = IF rows[b] = {} THEN "deleting" ELSE "releasing"]
  <2>2. UNCHANGED <<seat, status, rows, seatLock, bookingLock>> /\ tx[s].pc = "listing" /\ Becomes(s, m)
    BY <1>3, <2>1 DEF PickBooking, db, locks
  <2>3. m.found = tx[s].found \ {b} /\ m.booking = b /\ m.todo = rows[b]
    BY <1>1 DEF Tx
  <2>. HIDE DEF m
  <2>. QED
    BY <1>1, <2>2, <2>3, SweepMovesSell
<1>4. CASE ReleaseSeat(s)
  <2>1. PICK x \in tx[s].todo :
          /\ \/ seatLock[x] = NoTxn /\ seatLock' = [seatLock EXCEPT ![x] = s]
             \/ UNCHANGED seatLock
          /\ Becomes(s, Visit(s, x, "releasing", "deleting"))
    BY <1>4 DEF ReleaseSeat
  <2>. DEFINE m == Visit(s, x, "releasing", "deleting")
  <2>2. UNCHANGED <<seat, status, rows, bookingLock>> /\ tx[s].pc = "releasing" /\ Becomes(s, m)
    BY <1>4, <2>1 DEF ReleaseSeat, db
  <2>3. /\ m.found = tx[s].found
        /\ m.booking = tx[s].booking
        /\ m.todo = tx[s].todo \ {x}
        /\ m.pc \in {"releasing", "deleting", "expiring"}
    BY <1>1 DEF Visit, Tx
  <2>. HIDE DEF m
  <2>4. \A y \in Seats : \/ seatLock'[y] = seatLock[y]
                         \/ y = x /\ seatLock[y] = NoTxn /\ seatLock'[y] = s
    BY <1>1, <2>1 DEF TypeOK
  <2>5. ASSUME NEW b \in Requests, Live(b), x \in rows[b]
        PROVE  b = tx[s].booking
    BY <1>1, <2>1, <2>2, <2>5 DEF SeatsChangeHands, SeatSoldOnce
  <2>6. \A y \in Seats, b \in Requests :
          seatLock'[y] = s /\ Live(b) /\ y \in rows[b] =>
            bookingLock[b] = s \/ tx[s].booking = b
    BY <1>1, <2>4, <2>5
  <2>. QED
    BY <1>1, <2>2, <2>3, <2>4, <2>6, SweepMovesSell
<1>5. CASE ExpireBooking(s)
  <2>. DEFINE m == [tx[s] EXCEPT !.pc = "crediting"]
              k == tx[s].booking
  <2>1. /\ UNCHANGED <<seat, status, rows, seatLock>>
        /\ tx[s].pc = "expiring"
        /\ Becomes(s, m)
        /\ bookingLock[k] = NoTxn
        /\ bookingLock' = [bookingLock EXCEPT ![k] = s]
    BY <1>5 DEF ExpireBooking, db
  <2>2. m.found = tx[s].found /\ m.pc = "crediting"
    BY <1>1 DEF Tx
  <2>. HIDE DEF m
  <2>3. \A b \in Requests : bookingLock'[b] = IF b = k THEN s ELSE bookingLock[b]
    BY <1>1, <2>1 DEF TypeOK
  <2>4. \A x \in Seats, b \in Requests :
          seatLock[x] = s /\ Live(b) /\ x \in rows[b] => bookingLock'[b] = s
    BY <1>1, <2>3
  <2>. QED
    BY <1>1, <2>1, <2>2, <2>3, <2>4, SweepMovesSell
<1>6. CASE CreditTrip(s)
  <2>. DEFINE m == [tx[s] EXCEPT !.credit = @ + Cardinality(tx[s].seats),
                                 !.pc = IF tx[s].found = {} THEN "committing" ELSE "listing"]
  <2>1. UNCHANGED <<seat, status, rows, seatLock, bookingLock>> /\ Becomes(s, m) /\ tx[s].pc = "crediting"
    BY <1>6 DEF CreditTrip, db
  <2>2. m.found = tx[s].found /\ m.pc \in {"committing", "listing"}
    BY <1>1 DEF Tx
  <2>. HIDE DEF m
  <2>. QED
    BY <1>1, <2>1, <2>2, SweepMovesSell
<1>7. CASE CommitSweep(s)
  BY <1>7, CommitSweepSells
<1>8. CASE DeleteRows(s)
  <2>. DEFINE m == [tx[s] EXCEPT !.pc = "expiring"]
  <2>1. /\ UNCHANGED <<seat, status, rows, seatLock, bookingLock>>
        /\ Becomes(s, m) /\ tx[s].pc = "deleting"
    BY <1>8 DEF DeleteRows, db, locks
  <2>2. /\ m.found = tx[s].found /\ m.booking = tx[s].booking /\ m.todo = tx[s].todo
        /\ m.pc = "expiring"
    BY <1>1 DEF Tx
  <2>. HIDE DEF m
  <2>. QED
    BY <1>1, <2>1, <2>2, SweepMovesSell
<1>. QED
  BY <1>2, <1>3, <1>4, <1>5, <1>6, <1>7, <1>8 DEF SweepNext

(* A step that changes neither these rows nor locks nor memories.          *)
LEMMA StutterSells ==
  ASSUME SeatsChangeHands, UNCHANGED <<seat, status, rows, locks, tx>>
  PROVE  SeatsChangeHands'
<1>. UNCHANGED <<seatLock, bookingLock, tripLock>>
  BY DEF locks
<1>. QED
  BY SameRows DEF SeatsChangeHands, RequestHasSeats, SweepIsCurrent, SweepEndsHolder, Live

(* Every step of starpayCallback.                                          *)
LEMMA CallbackSells ==
  ASSUME TypeOK, LocksProtect, SeatsChangeHands, NEW c \in Callbacks,
         ReceiveCallback(c) \/ IgnoreCallback(c) \/ CallbackNext(c)
  PROVE  SeatsChangeHands'
<1>. c \in Txns
  BY Kinds
<1>1. CASE ReceiveCallback(c) \/ CompleteNothing(c)
  <2>1. UNCHANGED <<seat, status, rows, seatLock, bookingLock>> /\ \E m : Becomes(c, m)
    BY <1>1 DEF ReceiveCallback, CompleteNothing, ReadPassengers, db, locks
  <2>. QED
    BY <2>1, CallbackMovesSell
<1>2. CASE IgnoreCallback(c)
  <2>1. UNCHANGED <<seat, status, rows, locks, tx>>
    BY <1>2 DEF IgnoreCallback, vars, db
  <2>. QED
    BY <2>1, StutterSells
<1>3. CASE CompleteBooking(c)
  <2>1. /\ UNCHANGED <<seat, status, rows, seatLock>>
        /\ \E m : Becomes(c, m)
        /\ \E b \in Requests : /\ bookingLock[b] = NoTxn
                               /\ bookingLock' = [bookingLock EXCEPT ![b] = c]
    BY <1>3 DEF CompleteBooking, ReadPassengers, db
  <2>2. \A d \in Requests : \/ bookingLock'[d] = bookingLock[d]
                            \/ bookingLock[d] = NoTxn /\ bookingLock'[d] = c
    BY <2>1 DEF TypeOK
  <2>. QED
    BY <2>1, <2>2, CallbackMovesSell
<1>4. CASE BookSeat(c)
  <2>1. /\ UNCHANGED <<seat, status, rows, bookingLock>>
        /\ \E m : Becomes(c, m)
        /\ \E x \in tx[c].todo : /\ seatLock[x] = NoTxn
                                 /\ seatLock' = [seatLock EXCEPT ![x] = c]
    BY <1>4 DEF BookSeat, db
  <2>2. \A y \in Seats : \/ seatLock'[y] = seatLock[y]
                         \/ seatLock[y] = NoTxn /\ seatLock'[y] = c
    BY <2>1, MemoryFields DEF TypeOK
  <2>. QED
    BY <2>1, <2>2, CallbackMovesSell
<1>5. CASE CommitCallback(c)
  BY <1>5, CommitCallbackSells
<1>. QED
  BY <1>1, <1>2, <1>3, <1>4, <1>5 DEF CallbackNext

(* SeatsChangeHands is inductive: one case per disjunct of Next.           *)
LEMMA NextSells ==
  ASSUME TypeOK, SweepsApart, LocksProtect, SeatsChangeHands, [Next]_vars
  PROVE  SeatsChangeHands'
<1>1. ASSUME NEW r \in Requests, Submit(r) \/ RequestNext(r) PROVE SeatsChangeHands'
  BY <1>1, RequestSells
<1>2. ASSUME NEW s \in Sweeps, StartSweep(s) \/ SweepNext(s) PROVE SeatsChangeHands'
  BY <1>2, SweepSells
<1>3. ASSUME NEW c \in Callbacks, ReceiveCallback(c) \/ IgnoreCallback(c) \/ CallbackNext(c)
      PROVE  SeatsChangeHands'
  BY <1>3, CallbackSells
<1>4. ASSUME NEW b \in Requests, ExpiryPasses(b) PROVE SeatsChangeHands'
  <2>1. UNCHANGED <<seat, status, rows, locks, tx>>
    BY <1>4 DEF ExpiryPasses, db
  <2>. QED
    BY <2>1, StutterSells
<1>5. ASSUME NEW p \in Txns, Abort(p) PROVE SeatsChangeHands'
  BY <1>5, RollbackSells DEF Abort
<1>6. CASE UNCHANGED vars
  <2>1. UNCHANGED <<seat, status, rows, locks, tx>>
    BY <1>6 DEF vars, db
  <2>. QED
    BY <2>1, StutterSells
<1>. QED
  BY <1>1, <1>2, <1>3, <1>4, <1>5, <1>6 DEF Next

(* Unless a sweep locks a booking that another still has to end, every     *)
(* seat is given up by the booking that has it before another booking can  *)
(* have it.                                                                *)
THEOREM SeatsAlwaysChangeHands == Spec /\ []SweepsApart => []SeatsChangeHands
<1>1. TypeOK /\ SweepsApart /\ LocksProtect /\ SeatsChangeHands /\ [Next]_vars
        => SeatsChangeHands'
  BY NextSells
<1>. QED
  BY <1>1, InitSells, TypeCorrect, LocksAlwaysProtect, PTL DEF Spec

(* Where one client sweeps at a time, sweeps are apart.                    *)
THEOREM OneSweepIsApart ==
  ASSUME OneSweep
  PROVE  Spec => []SweepsApart
<1>1. SweepsApart
  BY OneSweep DEF OneSweep, SweepsApart
<1>. QED
  BY <1>1, PTL

(* No seat is sold twice, whatever requests, callbacks, failures, expiries *)
(* and sweeps interleave, unless a sweep locks a booking that another      *)
(* still has to end.  Without that it is not true: see                     *)
(* SeatReleasedWithItsBooking.                                             *)
THEOREM NoSeatSoldTwice == Spec /\ []SweepsApart => []SeatSoldOnce
<1>1. SeatsChangeHands => SeatSoldOnce
  BY DEF SeatsChangeHands
<1>. QED
  BY <1>1, SeatsAlwaysChangeHands, PTL

(* With sweeps apart a seat is only taken back from the customer whose     *)
(* booking expires in the same commit: the sweep that has locked a HELD    *)
(* seat ends the booking that holds it.                                    *)
THEOREM SeatsReleasedWithBookings ==
  Spec /\ []SweepsApart => SeatReleasedWithItsBooking
<1>1. ASSUME TypeOK, LocksProtect, SeatsChangeHands, [Next]_vars,
             NEW x \in Seats, seat[x] = "HELD", seat'[x] = "AVAILABLE"
      PROVE  \E b \in Requests :
               x \in rows[b] /\ status[b] = "PENDING" /\ status'[b] = "EXPIRED"
  <2>1. ASSUME NEW r \in Requests, CommitBooking(r) PROVE FALSE
    BY <1>1, <2>1 DEF CommitBooking
  <2>2. ASSUME NEW c \in Callbacks, CommitCallback(c) PROVE FALSE
    BY <1>1, <2>2 DEF CommitCallback
  <2>3. PICK s \in Sweeps : CommitSweep(s)
    BY <1>1, <2>1, <2>2, CommitsWrite
  <2>4. seatLock[x] = s /\ tx[s].pc = "committing"
    BY <1>1, <2>3 DEF CommitSweep
  <2>5. HeldSeatHasHolder
    BY <1>1 DEF LocksProtect, HolderStays, HeldSeatHasHolder
  <2>6. PICK b \in Requests : status[b] = "PENDING" /\ x \in rows[b]
    BY <1>1, <2>5 DEF HeldSeatHasHolder
  <2>7. bookingLock[b] = s
    BY <1>1, <2>4, <2>6 DEF SeatsChangeHands, SweepEndsHolder, Live
  <2>. QED
    BY <2>3, <2>6, <2>7 DEF CommitSweep
<1>2. TypeOK /\ LocksProtect /\ SeatsChangeHands /\ [Next]_vars =>
        [\A x \in Seats : seat[x] = "HELD" /\ seat'[x] = "AVAILABLE" =>
            \E b \in Requests :
              x \in rows[b] /\ status[b] = "PENDING" /\ status'[b] = "EXPIRED"]_seat
  BY <1>1
<1>. QED
  BY <1>2, SeatsAlwaysChangeHands, TypeCorrect, LocksAlwaysProtect, PTL
     DEF Spec, SeatReleasedWithItsBooking
-----------------------------------------------------------------------------
(*                what was checked holds until the commit                  *)

(* A step of createBooking: the trip and the seats are those of Submit,    *)
(* and the order comes with the answer of the gateway.                     *)
LEMMA RequestKeepsAsking ==
  ASSUME TypeOK, NEW r \in Requests, RequestAsks(r),
         Submit(r) \/ RequestNext(r) \/ Abort(r)
  PROVE  RequestAsks(r)'
<1>. r \in Txns /\ tx[r] \in Tx
  BY Kinds, MemoryFields
<1>. DEFINE Same(m) == m.trip = tx[r].trip /\ m.seats = tx[r].seats
<1>1. ASSUME NEW m, Becomes(r, m), Same(m), UNCHANGED order,
             tx[r].pc \in {"locking", "holding"}, m.pc \in {"locking", "holding", "ordering"}
      PROVE  RequestAsks(r)'
  BY <1>1, BecomesEffect DEF RequestAsks
<1>2. ASSUME NEW step \in {"done", "failed"}, Becomes(r, At(step)) PROVE RequestAsks(r)'
  BY <1>2, BecomesEffect DEF RequestAsks, At
<1>3. CASE Submit(r)
  <2>1. PICK t \in Trips, body \in Bodies :
          \/ /\ Acceptable(t, body)
             /\ Becomes(r, [At("locking") EXCEPT !.trip  = t,
                                                 !.seats = SeatsOf(t, body),
                                                 !.todo  = SeatsOf(t, body),
                                                 !.avail = avail[t]])
          \/ Becomes(r, At("failed"))
    BY <1>3 DEF Submit
  <2>2. order'[r] = "none"
    BY <1>3 DEF Submit, RequestAsks
  <2>3. CASE ~ Becomes(r, At("failed"))
    <3>1. /\ Acceptable(t, body)
          /\ Becomes(r, [At("locking") EXCEPT !.trip  = t,
                                              !.seats = SeatsOf(t, body),
                                              !.todo  = SeatsOf(t, body),
                                              !.avail = avail[t]])
      BY <2>1, <2>3
    <3>2. tx'[r].pc = "locking" /\ tx'[r].trip = t /\ tx'[r].seats = SeatsOf(t, body)
      BY <3>1 DEF Becomes, TypeOK, At
    <3>3. t \notin ClosedTrips /\ SeatsOf(t, body) # {}
      BY <3>1 DEF Acceptable, SeatsOf
    <3>4. \A x \in SeatsOf(t, body) : x[1] = t
      BY DEF SeatsOf
    <3>. QED
      BY <2>2, <3>2, <3>3, <3>4 DEF RequestAsks
  <2>. QED
    BY <1>2, <2>3
<1>4. CASE LockSeat(r)
  <2>1. PICK x \in tx[r].todo :
          Becomes(r, IF tx[r].todo = {x}
                       THEN [tx[r] EXCEPT !.todo = tx[r].seats, !.pc = "holding"]
                       ELSE [tx[r] EXCEPT !.todo = @ \ {x}])
    BY <1>4 DEF LockSeat
  <2>2. tx[r].pc = "locking" /\ UNCHANGED order
    BY <1>4 DEF LockSeat
  <2>3. \A m \in {[tx[r] EXCEPT !.todo = tx[r].seats, !.pc = "holding"],
                  [tx[r] EXCEPT !.todo = @ \ {x}]} :
          Same(m) /\ m.pc \in {"locking", "holding"}
    BY <2>2 DEF Tx
  <2>. QED
    BY <1>1, <2>1, <2>2, <2>3
<1>5. CASE HoldSeat(r)
  <2>1. PICK x \in tx[r].todo :
          Becomes(r, [Visit(r, x, "holding", "ordering") EXCEPT !.avail = Decremented(r)])
    BY <1>5 DEF HoldSeat
  <2>2. PICK m : m = [Visit(r, x, "holding", "ordering") EXCEPT !.avail = Decremented(r)]
    OBVIOUS
  <2>3. Same(m) /\ m.pc \in {"holding", "ordering"}
    BY <2>2 DEF Visit, Tx
  <2>4. tx[r].pc = "holding" /\ UNCHANGED order
    BY <1>5 DEF HoldSeat
  <2>. QED
    BY <1>1, <2>1, <2>2, <2>3, <2>4
<1>6. CASE PlaceOrder(r)
  <2>1. tx[r].pc = "ordering" /\ Becomes(r, [tx[r] EXCEPT !.pc = "committing"])
    BY <1>6 DEF PlaceOrder
  <2>2. tx'[r].pc = "committing" /\ tx'[r].trip = tx[r].trip /\ tx'[r].seats = tx[r].seats
    BY <2>1, BecomesEffect DEF Tx
  <2>. QED
    BY <2>1, <2>2 DEF RequestAsks
<1>7. CASE RejectSeat(r) \/ CommitBooking(r) \/ Abort(r)
  BY <1>2, <1>7 DEF RejectSeat, CommitBooking, Abort, Rollback, Finish
<1>. QED
  BY <1>3, <1>4, <1>5, <1>6, <1>7 DEF RequestNext

(* Nobody else places the order of a booking.                              *)
LEMMA OrdersOfOthers ==
  ASSUME TypeOK, [Next]_vars, NEW b \in Requests
  PROVE  PlaceOrder(b) \/ order'[b] = order[b]
<1>1. ASSUME NEW r \in Requests, PlaceOrder(r), r # b PROVE order'[b] = order[b]
  BY <1>1 DEF PlaceOrder, TypeOK
<1>2. ASSUME NEW r \in Requests, CommitBooking(r) \/ ExpiryPasses(r) PROVE UNCHANGED order
  BY <1>2 DEF CommitBooking, ExpiryPasses
<1>3. ASSUME NEW s \in Sweeps, CommitSweep(s) PROVE UNCHANGED order
  BY <1>3 DEF CommitSweep
<1>4. ASSUME NEW c \in Callbacks, CommitCallback(c) PROVE UNCHANGED order
  BY <1>4 DEF CommitCallback
<1>. QED
  BY <1>1, <1>2, <1>3, <1>4, StepsWrite

(* A sweep lists, reads and locks overdue bookings, which stay overdue,    *)
(* and a booking that it has locked is not ended by another.               *)
LEMMA SweepStaysDue ==
  ASSUME TypeOK, LocksProtect, SeatsChangeHands, [Next]_vars, NEW s \in Sweeps, SweepIsDue(s)
  PROVE  SweepIsDue(s)'
<1>. s \in Txns /\ tx[s] \in Tx /\ tx[s].found \subseteq Requests
  BY Kinds, MemoryFields
<1>1. due \subseteq due'
  <2>1. ASSUME NEW b \in Requests, PlaceOrder(b) \/ CommitBooking(b)
        PROVE  UNCHANGED due
    BY <2>1 DEF PlaceOrder, CommitBooking, db
  <2>2. ASSUME NEW u \in Sweeps, CommitSweep(u) PROVE UNCHANGED due
    BY <2>2 DEF CommitSweep
  <2>3. ASSUME NEW c \in Callbacks, CommitCallback(c) PROVE UNCHANGED due
    BY <2>3 DEF CommitCallback
  <2>4. ASSUME NEW b \in Requests, ExpiryPasses(b) PROVE due \subseteq due'
    BY <2>4 DEF ExpiryPasses
  <2>. QED
    BY <2>1, <2>2, <2>3, <2>4, StepsWrite DEF db
<1>2. ASSUME NEW b \in Requests, bookingLock[b] = s, Live(b), ~ CommitSweep(s) PROVE Live(b)'
  <2>1. ASSUME NEW r \in Requests, CommitBooking(r) PROVE Live(b)'
    BY <1>2, <2>1 DEF CommitBooking, Live, TypeOK
  <2>2. ASSUME NEW u \in Sweeps, CommitSweep(u) PROVE Live(b)'
    BY <1>2, <2>2 DEF CommitSweep, Live
  <2>3. ASSUME NEW c \in Callbacks, CommitCallback(c) PROVE Live(b)'
    BY <1>2, <2>3 DEF CommitCallback, Live, TypeOK
  <2>. QED
    BY <1>2, <2>1, <2>2, <2>3, CommitsWrite DEF Live
<1>3. ASSUME tx'[s].found \subseteq due,
             tx'[s].pc \in {"releasing", "deleting", "expiring"} => tx'[s].booking \in due,
             \A b \in Requests : bookingLock'[b] = s => b \in due /\ Live(b)'
      PROVE  SweepIsDue(s)'
  BY <1>1, <1>3 DEF SweepIsDue
<1>4. ASSUME UNCHANGED bookingLock, ~ CommitSweep(s)
      PROVE  \A b \in Requests : bookingLock'[b] = s => b \in due /\ Live(b)'
  BY <1>2, <1>4 DEF SweepIsDue
<1>5. CASE StartSweep(s)
  <2>1. PICK t \in Trips \cup {NoTrip} :
          Becomes(s, IF Expired = {}
                       THEN tx[s]
                       ELSE [At("listing") EXCEPT !.trip = t, !.found = Expired])
    BY <1>5 DEF StartSweep
  <2>2. tx'[s].found \subseteq tx[s].found \cup Expired /\ tx'[s].pc \in {"idle", "listing"}
    BY <1>5, <2>1 DEF StartSweep, Becomes, TypeOK, At
  <2>3. UNCHANGED bookingLock /\ ~ CommitSweep(s) /\ Expired \subseteq due
    BY <1>5 DEF StartSweep, CommitSweep, Expired, locks
  <2>. QED
    BY <1>3, <1>4, <2>2, <2>3 DEF SweepIsDue
<1>6. CASE PickBooking(s)
  <2>1. PICK b \in tx[s].found :
          Becomes(s, [tx[s] EXCEPT !.found   = @ \ {b},
                                   !.booking = b,
                                   !.seats   = rows[b],
                                   !.todo    = rows[b],
                                   !.pc      = IF rows[b] = {} THEN "deleting" ELSE "releasing"])
    BY <1>6 DEF PickBooking
  <2>2. tx'[s].found \subseteq tx[s].found /\ tx'[s].booking = b
    BY <2>1 DEF Becomes, TypeOK, Tx
  <2>3. UNCHANGED bookingLock /\ ~ CommitSweep(s)
    BY <1>6 DEF PickBooking, CommitSweep, locks
  <2>. QED
    BY <1>3, <1>4, <2>1, <2>2, <2>3 DEF SweepIsDue
<1>7. CASE ReleaseSeat(s)
  <2>1. PICK x \in tx[s].todo : Becomes(s, Visit(s, x, "releasing", "deleting"))
    BY <1>7 DEF ReleaseSeat
  <2>2. tx'[s].found = tx[s].found /\ tx'[s].booking = tx[s].booking
    BY <2>1 DEF Becomes, Visit, TypeOK, Tx
  <2>3. UNCHANGED bookingLock /\ ~ CommitSweep(s) /\ tx[s].pc = "releasing"
    BY <1>7 DEF ReleaseSeat, CommitSweep
  <2>. QED
    BY <1>3, <1>4, <2>2, <2>3 DEF SweepIsDue
<1>8. CASE ExpireBooking(s)
  <2>1. PICK b \in Requests : b = tx[s].booking
    BY <1>8 DEF ExpireBooking, LocksProtect, SweepSteps
  <2>2. b \in due /\ Live(b) /\ UNCHANGED status
    BY <1>8, <2>1 DEF ExpireBooking, SweepIsDue, SeatsChangeHands, SweepIsCurrent, db
  <2>3. tx'[s].found = tx[s].found /\ tx'[s].pc = "crediting"
    BY <1>8 DEF ExpireBooking, Becomes, TypeOK, Tx
  <2>4. \A a \in Requests : bookingLock'[a] = s => a = b \/ bookingLock[a] = s
    BY <1>8, <2>1 DEF ExpireBooking, TypeOK
  <2>5. \A a \in Requests : bookingLock'[a] = s => a \in due /\ Live(a)'
    BY <2>2, <2>4 DEF SweepIsDue, Live
  <2>. QED
    BY <1>3, <2>3, <2>5 DEF SweepIsDue
<1>9. CASE CreditTrip(s)
  <2>1. tx'[s].found = tx[s].found /\ tx'[s].pc \in {"committing", "listing"}
    BY <1>9 DEF CreditTrip, Becomes, TypeOK, Tx
  <2>2. UNCHANGED bookingLock /\ ~ CommitSweep(s)
    BY <1>9 DEF CreditTrip, CommitSweep
  <2>. QED
    BY <1>3, <1>4, <2>1, <2>2 DEF SweepIsDue
<1>10. CASE CommitSweep(s) \/ Abort(s)
  <2>1. Finish(s, "idle")
    BY <1>10, Kinds DEF CommitSweep, Abort, Rollback
  <2>2. /\ \A b \in Requests : bookingLock'[b] # s
        /\ tx'[s].found = {} /\ tx'[s].pc = "idle"
    BY <2>1, FinishEffect, Kinds DEF Steps, At
  <2>. QED
    BY <1>3, <2>2
<1>11. CASE ~ Moves(s)
  <2>1. tx'[s] = tx[s] /\ \A b \in Requests : bookingLock'[b] = s <=> bookingLock[b] = s
    BY <1>11, OthersStay
  <2>2. ~ CommitSweep(s)
    BY <1>11 DEF Moves, SweepNext
  <2>. QED
    BY <1>2, <1>3, <2>1, <2>2 DEF SweepIsDue
<1>12. CASE DeleteRows(s)
  <2>1. /\ tx'[s].found = tx[s].found /\ tx'[s].booking = tx[s].booking
        /\ tx[s].pc = "deleting"
    BY <1>12 DEF DeleteRows, Becomes, TypeOK, Tx
  <2>2. UNCHANGED bookingLock /\ ~ CommitSweep(s)
    BY <1>12 DEF DeleteRows, CommitSweep, locks
  <2>. QED
    BY <1>3, <1>4, <2>1, <2>2 DEF SweepIsDue
<1>. QED
  BY <1>5, <1>6, <1>7, <1>8, <1>9, <1>10, <1>11, <1>12, Kinds DEF Moves, SweepNext

LEMMA NextKeepsReasons ==
  ASSUME TypeOK, LocksProtect, SeatsChangeHands, ReasonsLast, [Next]_vars
  PROVE  ReasonsLast'
<1>1. ASSUME NEW r \in Requests PROVE RequestAsks(r)'
  <2>1. RequestAsks(r) /\ r \in Txns
    BY Kinds DEF ReasonsLast
  <2>2. CASE Submit(r) \/ RequestNext(r) \/ Abort(r)
    BY <2>1, <2>2, RequestKeepsAsking
  <2>3. CASE ~ Moves(r)
    <3>1. tx'[r] = tx[r]
      BY <2>1, <2>3, OthersStay
    <3>2. order[r] = "none" => order'[r] = "none"
      BY <2>3, OrdersOfOthers DEF Moves, RequestNext
    <3>. QED
      BY <2>1, <3>1, <3>2 DEF RequestAsks
  <2>. QED
    BY <2>2, <2>3, Kinds DEF Moves
<1>2. ASSUME NEW s \in Sweeps PROVE SweepIsDue(s)'
  BY <1>2, SweepStaysDue DEF ReasonsLast
<1>. QED
  BY <1>1, <1>2 DEF ReasonsLast

(* What a transaction has checked without holding a lock still holds when  *)
(* it commits: the trip that a request books was open and its seats are of *)
(* that trip, and the bookings that a sweep ends are overdue and, with     *)
(* sweeps apart, alive until its commit.                                   *)
THEOREM ReasonsHoldToTheEnd == Spec /\ []SweepsApart => []OneSweepInv
<1>1. Init => ReasonsLast
  BY Kinds DEF Init, ReasonsLast, RequestAsks, SweepIsDue, At
<1>2. TypeOK /\ LocksProtect /\ SeatsChangeHands /\ ReasonsLast /\ [Next]_vars => ReasonsLast'
  BY NextKeepsReasons
<1>. QED
  BY <1>1, <1>2, SeatsAlwaysChangeHands, TypeCorrect, LocksAlwaysProtect, PTL
     DEF Spec, OneSweepInv

-----------------------------------------------------------------------------
(*                    transactions seem to be atomic                       *)

(* A callback reads the numbers, locks their seats and commits them.       *)
LEMMA CallbackBooks ==
  ASSUME TypeOK, NEW c \in Callbacks, CallbackNumbers(c),
         ReceiveCallback(c) \/ CallbackNext(c) \/ Abort(c)
  PROVE  CallbackNumbers(c)'
<1>1. c \in Txns /\ c # NoTxn /\ c \notin Requests
  BY Kinds
<1>2. CASE ReceiveCallback(c)
  <2>1. PICK b \in Requests : Becomes(c, [At("completing") EXCEPT !.booking = b])
    BY <1>2 DEF ReceiveCallback
  <2>2. tx'[c].pc = "completing" /\ tx'[c].todo = {}
    BY <1>1, <2>1, BecomesEffect DEF At
  <2>3. tx[c].pc = "idle" /\ UNCHANGED seatLock
    BY <1>2 DEF ReceiveCallback, locks
  <2>. QED
    BY <2>2, <2>3 DEF CallbackNumbers
<1>3. CASE CompleteBooking(c) \/ CompleteNothing(c)
  <2>1. PICK b \in Requests :
          Becomes(c, [tx[c] EXCEPT !.seats = rows[b],
                                   !.todo  = SameNumbers(rows[b]),
                                   !.pc    = IF rows[b] = {} THEN "committing" ELSE "booking"])
    BY <1>3 DEF CompleteBooking, CompleteNothing, ReadPassengers
  <2>2. /\ tx'[c].seats = rows[b] /\ tx'[c].todo = SameNumbers(rows[b])
        /\ tx'[c].pc \in {"booking", "committing"}
    BY <1>1, <2>1 DEF Becomes, TypeOK, Tx
  <2>3. tx[c].pc = "completing" /\ UNCHANGED seatLock
    BY <1>3 DEF CompleteBooking, CompleteNothing, locks
  <2>. QED
    BY <2>2, <2>3 DEF CallbackNumbers
<1>4. CASE BookSeat(c)
  <2>1. PICK x \in tx[c].todo : /\ seatLock' = [seatLock EXCEPT ![x] = c]
                                /\ Becomes(c, Visit(c, x, "booking", "committing"))
    BY <1>4 DEF BookSeat
  <2>2. /\ tx'[c].seats = tx[c].seats /\ tx'[c].todo = tx[c].todo \ {x}
        /\ tx'[c].pc \in {"booking", "committing"}
    BY <1>1, <2>1 DEF Becomes, Visit, TypeOK, Tx
  <2>3. tx[c].pc = "booking" /\ x \in Seats
    BY <1>1, <1>4, MemoryFields DEF BookSeat
  <2>4. \A y \in Seats : seatLock'[y] = IF y = x THEN c ELSE seatLock[y]
    BY <2>1, <2>3 DEF TypeOK
  <2>. QED
    BY <2>2, <2>3, <2>4 DEF CallbackNumbers
<1>5. CASE CommitCallback(c) \/ Abort(c)
  <2>1. Finish(c, "idle")
    BY <1>1, <1>5 DEF CommitCallback, Abort, Rollback
  <2>2. /\ \A x \in Seats : seatLock'[x] = IF seatLock[x] = c THEN NoTxn ELSE seatLock[x]
        /\ tx'[c] = At("idle")
    BY <1>1, <2>1, FinishEffect DEF Steps
  <2>. QED
    BY <1>1, <2>2 DEF CallbackNumbers, At
<1>. QED
  BY <1>2, <1>3, <1>4, <1>5 DEF CallbackNext

LEMMA NumbersAlways == Spec => []CallbacksBookNumbers
<1>1. Init => CallbacksBookNumbers
  BY Kinds DEF Init, CallbacksBookNumbers, CallbackNumbers, At
<1>2. ASSUME TypeOK, CallbacksBookNumbers, [Next]_vars PROVE CallbacksBookNumbers'
  <2>. SUFFICES ASSUME NEW c \in Callbacks PROVE CallbackNumbers(c)'
    BY DEF CallbacksBookNumbers
  <2>1. CallbackNumbers(c)
    BY <1>2 DEF CallbacksBookNumbers
  <2>2. CASE ReceiveCallback(c) \/ CallbackNext(c) \/ Abort(c)
    BY <1>2, <2>1, <2>2, CallbackBooks
  <2>3. CASE ~ ReceiveCallback(c) /\ ~ CallbackNext(c) /\ ~ Abort(c)
    <3>1. tx'[c] = tx[c] /\ \A x \in Seats : seatLock'[x] = c <=> seatLock[x] = c
      BY <1>2, <2>3, OthersStay, Kinds DEF Moves
    <3>. QED
      BY <2>1, <3>1 DEF CallbackNumbers
  <2>. QED
    BY <2>2, <2>3
<1>. QED
  BY <1>1, <1>2, TypeCorrect, PTL DEF Spec

(* The commit of createBooking holds free seats of one open trip, for a    *)
(* booking that has its order.                                             *)
LEMMA CommitHolds ==
  ASSUME TypeOK, LocksProtect, SeatsChangeHands, OrdersComeFirst,
         NEW r \in Requests, RequestAsks(r), CommitBooking(r)
  PROVE  Ledger!Hold(r)
<1>. DEFINE xs == tx[r].seats
<1>1. tx[r].pc = "committing" /\ r \in Txns /\ xs \subseteq Seats
  BY Kinds, MemoryFields DEF CommitBooking
<1>2. status[r] = "absent"
  BY <1>1 DEF LocksProtect, KnownBookings
<1>3. \A x \in Seats : seatLock[x] = r <=> x \in xs
  BY <1>1 DEF LocksProtect, LockedSeats, SeatsChangeHands, RequestHasSeats
<1>4. \A x \in xs : x[1] = tx[r].trip /\ x[1] \notin ClosedTrips
  BY <1>1 DEF RequestAsks
<1>5. xs \in (SUBSET Ledger!OnOffer) \ {{}} /\ \A x, y \in xs : x[1] = y[1]
  <2>1. \A x \in xs : x \in Ledger!OnOffer
    BY <1>1, <1>3, <1>4 DEF LocksProtect, LockedSeats, Ledger!OnOffer
  <2>2. xs # {} /\ \A x, y \in xs : x[1] = y[1]
    BY <1>1, <1>4 DEF RequestAsks
  <2>3. xs \in SUBSET Ledger!OnOffer
    BY <2>1
  <2>. HIDE DEF xs
  <2>4. xs \notin {{}}
    BY <2>2
  <2>. QED
    BY <2>2, <2>3, <2>4
<1>6. Ledger!Turn(xs, "HELD")
  BY <1>3 DEF CommitBooking, Ledger!Turn
<1>7. rows' = [rows EXCEPT ![r] = xs]
  BY DEF CommitBooking
<1>8. status' = [status EXCEPT ![r] = "PENDING"] /\ UNCHANGED <<due, tickets, order>>
  BY DEF CommitBooking
<1>9. order[r] # "none"
  BY <1>1 DEF OrdersComeFirst
<1>. HIDE DEF xs
<1>. QED
  BY <1>2, <1>5, <1>6, <1>7, <1>8, <1>9 DEF Ledger!Hold

(* The commit of the only sweep gives back the HELD seats of the overdue   *)
(* bookings it ends: it has locked them all, and no seat of another.       *)
LEMMA CommitExpires ==
  ASSUME TypeOK, LocksProtect, SeatsChangeHands,
         NEW s \in Sweeps, SweepIsDue(s), CommitSweep(s)
  PROVE  \E bs \in SUBSET Requests : Ledger!Expire(bs)
<1>. DEFINE bs == {b \in Requests : bookingLock[b] = s}
<1>. DEFINE xs == {x \in Seats : seat[x] = "HELD" /\ \E b \in bs : x \in rows[b]}
<1>1. s \in Txns /\ s # NoTxn /\ tx[s].pc = "committing"
  BY Kinds DEF CommitSweep
<1>2. \A b \in bs : b \in due /\ status[b] \in {"PENDING", "COMPLETED"}
  BY DEF SweepIsDue, Live
<1>3. ASSUME NEW x \in Seats, seatLock[x] = s PROVE x \in xs
  <2>1. seat[x] = "HELD"
    BY <1>3 DEF LocksProtect, LockedSeats
  <2>2. PICK b \in Requests : status[b] = "PENDING" /\ x \in rows[b]
    BY <2>1 DEF LocksProtect, HolderStays
  <2>3. bookingLock[b] = s
    BY <1>1, <1>3, <2>2 DEF SeatsChangeHands, SweepEndsHolder, Live
  <2>. QED
    BY <2>1, <2>2, <2>3
<1>4. ASSUME NEW x \in xs PROVE seatLock[x] = s
  <2>1. PICK b \in Requests : bookingLock[b] = s /\ x \in rows[b]
    OBVIOUS
  <2>2. PICK h \in Requests : /\ status[h] = "PENDING"
                              /\ x \in rows[h]
                              /\ \A p \in Txns : Passed(p, h, x) => seatLock[x] = p
    BY DEF LocksProtect, HolderStays
  <2>3. Live(b) /\ Live(h)
    BY <2>1, <2>2 DEF SeatsChangeHands, DeadRowsGone, Live
  <2>4. h = b
    BY <2>1, <2>2, <2>3 DEF SeatsChangeHands, SeatSoldOnce
  <2>. QED
    BY <1>1, <2>1, <2>2, <2>4 DEF Passed
<1>5. \A x \in Seats : seatLock[x] = s <=> x \in xs
  BY <1>3, <1>4
<1>6. seat' = [x \in Seats |-> IF x \in xs THEN "AVAILABLE" ELSE seat[x]]
  <2>. HIDE DEF xs
  <2>. QED
    BY <1>5 DEF CommitSweep
<1>7. /\ status' = [b \in Requests |-> IF b \in bs THEN "EXPIRED" ELSE status[b]]
      /\ rows' = [b \in Requests |-> IF b \in bs THEN {} ELSE rows[b]]
      /\ tickets' = [b \in Requests |-> IF b \in bs THEN {} ELSE tickets[b]]
      /\ UNCHANGED <<due, order>>
  BY DEF CommitSweep
<1>8. bs \in SUBSET Requests
  OBVIOUS
<1>. HIDE DEF bs
<1>. QED
  BY <1>2, <1>6, <1>7, <1>8 DEF Ledger!Expire, Ledger!Turn

(* The commit of a callback that names its booking books the seats of its  *)
(* numbers.                                                                *)
LEMMA CommitPays ==
  ASSUME TypeOK, LocksProtect, CallbacksBookNumbers,
         NEW c \in Callbacks, c \notin Nameless, CommitCallback(c)
  PROVE  \E b \in Requests : Ledger!Pay(b)
<1>. DEFINE b == tx[c].booking
<1>1. tx[c].pc = "committing"
  BY DEF CommitCallback
<1>2. b \in Requests /\ tx[c].seats = rows[b] /\ tx[c].todo = {}
  BY <1>1 DEF LocksProtect, CallbackSteps, CallbackStep
<1>3. status[b] # "absent"
  BY <1>2 DEF LocksProtect, KnownBookings
<1>4. \A x \in Seats : seatLock[x] = c <=> x \in SameNumbers(rows[b])
  BY <1>1, <1>2 DEF CallbacksBookNumbers, CallbackNumbers
<1>5. seat' = [x \in Seats |-> IF x \in SameNumbers(rows[b]) THEN "BOOKED" ELSE seat[x]]
  BY <1>4 DEF CommitCallback
<1>6. /\ status' = [status EXCEPT ![b] = "COMPLETED"]
      /\ \/ rows[b] = {} /\ UNCHANGED tickets
         \/ \E x \in rows[b] : tickets' = [tickets EXCEPT ![b] = @ \cup {x}]
      /\ UNCHANGED <<due, rows, order>>
  <2>1. status' = [status EXCEPT ![b] = "COMPLETED"] /\ UNCHANGED <<due, rows, order>>
    BY <1>2 DEF CommitCallback, TypeOK
  <2>2. ASSUME rows[b] # {}
        PROVE  \E x \in rows[b] : tickets' = [tickets EXCEPT ![b] = @ \cup {x}]
    <3>1. PICK x \in rows[b] : tickets' = [tickets EXCEPT ![b] = @ \cup ({x} \cap rows[b])]
      BY <1>2, <2>2 DEF CommitCallback, WriteTicket
    <3>2. {x} \cap rows[b] = {x}
      OBVIOUS
    <3>. QED
      BY <3>1, <3>2
  <2>3. rows[b] = {} => UNCHANGED tickets
    BY <1>2 DEF CommitCallback, WriteTicket
  <2>. QED
    BY <2>1, <2>2, <2>3
<1>. HIDE DEF b
<1>. QED
  BY <1>2, <1>3, <1>5, <1>6 DEF Ledger!Pay, Ledger!Turn, SameNumbers

(* With sweeps apart, and callbacks that name their booking, what clients  *)
(* read is what they would read if every createBooking, sweep and callback *)
(* happened at once: the detailed specification implements SeatLedger.     *)
THEOREM BookingIsAtomic ==
  Nameless = {} /\ Spec /\ []SweepsApart => TransactionsAreAtomic
<1>. SUFFICES ASSUME Nameless = {}
              PROVE  Spec /\ []SweepsApart => TransactionsAreAtomic
  OBVIOUS
<1>1. Init => Ledger!Init
  BY DEF Init, Ledger!Init
<1>2. ASSUME TypeOK, LocksProtect, OneSweepInv, OrdersComeFirst, CallbacksBookNumbers,
             [Next]_vars
      PROVE  [Ledger!Next]_(Ledger!ledger)
  <2>. SeatsChangeHands /\ ReasonsLast
    BY <1>2 DEF OneSweepInv
  <2>1. ASSUME NEW r \in Requests, PlaceOrder(r) PROVE Ledger!PlaceOrder(r)
    <3>1. order[r] = "none"
      BY <2>1 DEF PlaceOrder, ReasonsLast, RequestAsks
    <3>2. status[r] = "absent"
      BY <1>2, <2>1 DEF PlaceOrder, LocksProtect, KnownBookings
    <3>. QED
      BY <2>1, <3>1, <3>2 DEF PlaceOrder, Ledger!PlaceOrder, db
  <2>2. ASSUME NEW r \in Requests, CommitBooking(r) PROVE Ledger!Hold(r)
    BY <1>2, <2>2, CommitHolds DEF ReasonsLast
  <2>3. ASSUME NEW s \in Sweeps, CommitSweep(s) PROVE Ledger!Next
    BY <1>2, <2>3, CommitExpires DEF ReasonsLast, Ledger!Next
  <2>4. ASSUME NEW c \in Callbacks, CommitCallback(c) PROVE Ledger!Next
    BY <1>2, <2>4, CommitPays DEF ReasonsLast, Ledger!Next
  <2>5. ASSUME NEW b \in Requests, ExpiryPasses(b) PROVE Ledger!ExpiryPasses(b)
    BY <2>5 DEF ExpiryPasses, Ledger!ExpiryPasses
  <2>6. UNCHANGED <<db, order>> => UNCHANGED Ledger!ledger
    BY DEF db, Ledger!ledger
  <2>. QED
    BY <1>2, <2>1, <2>2, <2>3, <2>4, <2>5, <2>6, StepsWrite DEF Ledger!Next
<1>. QED
  BY <1>1, <1>2, ReasonsHoldToTheEnd, OrdersAlwaysFirst, NumbersAlways, TypeCorrect,
     LocksAlwaysProtect, PTL
     DEF Spec, TransactionsAreAtomic, Ledger!Spec

(*                  what an atomic ledger promises                         *)

(* The seats of live bookings are taken, and by one booking each: of HELD  *)
(* seats one that waits for payment, of the seats of paid ones BOOKED.     *)
LedgerInv ==
  /\ seat   \in [Seats -> SeatStatus]
  /\ status \in [Requests -> BookingStatus]
  /\ rows   \in [Requests -> SUBSET Seats]
  /\ LiveSeatsTaken /\ DeadRowsGone /\ SeatSoldOnce
  /\ HeldSeatHasHolder /\ CompletedSeatsBooked

LEMMA LedgerBegins == Ledger!Init => LedgerInv
  BY DEF Ledger!Init, LedgerInv, LiveSeatsTaken, DeadRowsGone, SeatSoldOnce, HeldSeatHasHolder,
         CompletedSeatsBooked, Live, SeatStatus, BookingStatus

LEMMA LedgerHolds ==
  ASSUME LedgerInv, NEW b \in Requests, Ledger!Hold(b)
  PROVE  LedgerInv'
<1>1. PICK xs \in SUBSET {x \in Seats : seat[x] = "AVAILABLE"} :
        /\ rows' = [rows EXCEPT ![b] = xs]
        /\ seat' = [x \in Seats |-> IF x \in xs THEN "HELD" ELSE seat[x]]
  BY DEF Ledger!Hold, Ledger!OnOffer, Ledger!Turn
<1>2. /\ status[b] = "absent" /\ status' = [status EXCEPT ![b] = "PENDING"]
      /\ seat \in [Seats -> SeatStatus] /\ status \in [Requests -> BookingStatus]
      /\ rows \in [Requests -> SUBSET Seats]
  BY DEF Ledger!Hold, LedgerInv
<1>3. /\ seat' \in [Seats -> SeatStatus] /\ status' \in [Requests -> BookingStatus]
      /\ rows' \in [Requests -> SUBSET Seats]
  BY <1>1, <1>2 DEF SeatStatus, BookingStatus
<1>4. \A c \in Requests : c # b => status'[c] = status[c] /\ rows'[c] = rows[c]
  BY <1>1, <1>2
<1>5. status'[b] = "PENDING" /\ rows'[b] = xs
  BY <1>1, <1>2
<1>6. LiveSeatsTaken'
  BY <1>1, <1>2, <1>4, <1>5 DEF LedgerInv, LiveSeatsTaken, Live
<1>7. DeadRowsGone'
  BY <1>4, <1>5 DEF LedgerInv, DeadRowsGone, Live
<1>8. SeatSoldOnce'
  BY <1>1, <1>2, <1>4, <1>5 DEF LedgerInv, LiveSeatsTaken, SeatSoldOnce, Live
<1>9. HeldSeatHasHolder'
  <2>. SUFFICES ASSUME NEW x \in Seats, seat'[x] = "HELD"
                PROVE  \E c \in Requests : status'[c] = "PENDING" /\ x \in rows'[c]
    BY DEF HeldSeatHasHolder
  <2>1. CASE x \in xs
    BY <1>5, <2>1
  <2>2. CASE x \notin xs
    <3>1. PICK c \in Requests : status[c] = "PENDING" /\ x \in rows[c]
      BY <1>1, <2>2 DEF LedgerInv, HeldSeatHasHolder
    <3>. QED
      BY <1>2, <1>4, <3>1
  <2>. QED
    BY <2>1, <2>2
<1>10. CompletedSeatsBooked'
  BY <1>1, <1>2, <1>4, <1>5 DEF LedgerInv, CompletedSeatsBooked
<1>. QED
  BY <1>3, <1>6, <1>7, <1>8, <1>9, <1>10 DEF LedgerInv

LEMMA LedgerExpires ==
  ASSUME LedgerInv, NEW bs \in SUBSET Requests, Ledger!Expire(bs)
  PROVE  LedgerInv'
<1>1. /\ seat' = [x \in Seats |-> IF seat[x] = "HELD" /\ \E b \in bs : x \in rows[b]
                                    THEN "AVAILABLE" ELSE seat[x]]
      /\ status' = [b \in Requests |-> IF b \in bs THEN "EXPIRED" ELSE status[b]]
      /\ rows'   = [b \in Requests |-> IF b \in bs THEN {} ELSE rows[b]]
      /\ \A b \in bs : Live(b)
  BY DEF Ledger!Expire, Ledger!Turn, Live
<1>2. /\ seat \in [Seats -> SeatStatus] /\ status \in [Requests -> BookingStatus]
      /\ rows \in [Requests -> SUBSET Seats]
  BY DEF LedgerInv
<1>3. /\ seat' \in [Seats -> SeatStatus] /\ status' \in [Requests -> BookingStatus]
      /\ rows' \in [Requests -> SUBSET Seats]
  BY <1>1, <1>2 DEF SeatStatus, BookingStatus
<1>4. \A b \in Requests : Live(b)' => b \notin bs /\ Live(b) /\ rows'[b] = rows[b]
  BY <1>1 DEF Live
<1>5. ASSUME NEW c \in Requests, Live(c)', NEW x \in rows'[c]
      PROVE  x \in Seats /\ x \in rows[c] /\ seat'[x] = seat[x]
  <2>1. c \notin bs /\ Live(c) /\ x \in rows[c] /\ x \in Seats
    BY <1>2, <1>4, <1>5
  <2>2. \A b \in bs : x \notin rows[b]
    BY <1>1, <2>1 DEF LedgerInv, SeatSoldOnce
  <2>. QED
    BY <1>1, <2>1, <2>2
<1>6. LiveSeatsTaken'
  BY <1>4, <1>5 DEF LedgerInv, LiveSeatsTaken
<1>7. DeadRowsGone'
  BY <1>1 DEF LedgerInv, DeadRowsGone, Live
<1>8. SeatSoldOnce'
  BY <1>4 DEF LedgerInv, SeatSoldOnce
<1>9. HeldSeatHasHolder'
  <2>. SUFFICES ASSUME NEW x \in Seats, seat'[x] = "HELD"
                PROVE  \E c \in Requests : status'[c] = "PENDING" /\ x \in rows'[c]
    BY DEF HeldSeatHasHolder
  <2>1. seat[x] = "HELD" /\ \A b \in bs : x \notin rows[b]
    BY <1>1
  <2>2. PICK c \in Requests : status[c] = "PENDING" /\ x \in rows[c]
    BY <2>1 DEF LedgerInv, HeldSeatHasHolder
  <2>. QED
    BY <1>1, <2>1, <2>2
<1>10. CompletedSeatsBooked'
  BY <1>1, <1>4, <1>5 DEF LedgerInv, CompletedSeatsBooked, Live
<1>. QED
  BY <1>3, <1>6, <1>7, <1>8, <1>9, <1>10 DEF LedgerInv

LEMMA LedgerPays ==
  ASSUME LedgerInv, NEW b \in Requests, Ledger!Pay(b)
  PROVE  LedgerInv'
<1>1. /\ seat' = [x \in Seats |-> IF \E y \in rows[b] : y[2] = x[2] THEN "BOOKED" ELSE seat[x]]
      /\ status' = [status EXCEPT ![b] = "COMPLETED"]
      /\ rows' = rows
  BY DEF Ledger!Pay, Ledger!Turn
<1>2. /\ seat \in [Seats -> SeatStatus] /\ status \in [Requests -> BookingStatus]
      /\ rows \in [Requests -> SUBSET Seats]
  BY DEF LedgerInv
<1>3. /\ seat' \in [Seats -> SeatStatus] /\ status' \in [Requests -> BookingStatus]
      /\ rows' \in [Requests -> SUBSET Seats]
  BY <1>1, <1>2 DEF SeatStatus, BookingStatus
<1>4. /\ status'[b] = "COMPLETED" /\ \A c \in Requests : c # b => status'[c] = status[c]
      /\ \A c \in Requests : rows[c] # {} => Live(c)
  BY <1>1, <1>2 DEF LedgerInv, DeadRowsGone
<1>5. /\ \A x \in rows[b] : seat'[x] = "BOOKED"
      /\ \A x \in Seats : seat'[x] \in {"BOOKED", seat[x]}
  BY <1>1, <1>2
<1>6. LiveSeatsTaken'
  <2>. SUFFICES ASSUME NEW c \in Requests, NEW x \in rows[c] PROVE seat'[x] # "AVAILABLE"
    BY <1>1 DEF LiveSeatsTaken
  <2>1. x \in Seats /\ seat[x] # "AVAILABLE"
    BY <1>2, <1>4 DEF LedgerInv, LiveSeatsTaken
  <2>. QED
    BY <1>5, <2>1
<1>7. DeadRowsGone'
  BY <1>1, <1>4 DEF LedgerInv, DeadRowsGone, Live
<1>8. SeatSoldOnce'
  <2>. SUFFICES ASSUME NEW c \in Requests, NEW e \in Requests, c # e
                PROVE  rows[c] \cap rows[e] = {}
    BY <1>1 DEF SeatSoldOnce
  <2>. QED
    BY <1>4 DEF LedgerInv, SeatSoldOnce
<1>9. HeldSeatHasHolder'
  <2>. SUFFICES ASSUME NEW x \in Seats, seat'[x] = "HELD"
                PROVE  \E c \in Requests : status'[c] = "PENDING" /\ x \in rows[c]
    BY <1>1 DEF HeldSeatHasHolder
  <2>1. seat[x] = "HELD" /\ x \notin rows[b]
    BY <1>1
  <2>2. PICK c \in Requests : status[c] = "PENDING" /\ x \in rows[c]
    BY <2>1 DEF LedgerInv, HeldSeatHasHolder
  <2>. QED
    BY <1>4, <2>1, <2>2
<1>10. CompletedSeatsBooked'
  <2>. SUFFICES ASSUME NEW c \in Requests, status'[c] = "COMPLETED", NEW x \in rows[c]
                PROVE  seat'[x] = "BOOKED"
    BY <1>1 DEF CompletedSeatsBooked
  <2>1. c # b => x \in Seats /\ seat[x] = "BOOKED"
    BY <1>2, <1>4 DEF LedgerInv, CompletedSeatsBooked
  <2>. QED
    BY <1>5, <2>1
<1>. QED
  BY <1>3, <1>6, <1>7, <1>8, <1>9, <1>10 DEF LedgerInv

LEMMA LedgerStep == LedgerInv /\ [Ledger!Next]_(Ledger!ledger) => LedgerInv'
<1>. SUFFICES ASSUME LedgerInv, [Ledger!Next]_(Ledger!ledger) PROVE LedgerInv'
  OBVIOUS
<1>1. ASSUME UNCHANGED <<seat, status, rows>> PROVE LedgerInv'
  BY <1>1 DEF LedgerInv, LiveSeatsTaken, DeadRowsGone, SeatSoldOnce, HeldSeatHasHolder,
              CompletedSeatsBooked, Live
<1>2. ASSUME NEW b \in Requests,
             Ledger!PlaceOrder(b) \/ Ledger!ExpiryPasses(b)
      PROVE  UNCHANGED <<seat, status, rows>>
  BY <1>2 DEF Ledger!PlaceOrder, Ledger!ExpiryPasses
<1>3. UNCHANGED Ledger!ledger => UNCHANGED <<seat, status, rows>>
  BY DEF Ledger!ledger
<1>. QED
  BY <1>1, <1>2, <1>3, LedgerHolds, LedgerExpires, LedgerPays DEF Ledger!Next

(* What happens at once keeps every promise to a customer: no seat is sold *)
(* twice, held for nobody or, once paid for, lost, and one that is given   *)
(* back is given back by the booking that had it.  So these are promises   *)
(* of SeatLedger itself, which BookingIsAtomic hands down.                 *)
THEOREM LedgerKeepsPromises ==
  Ledger!Spec => /\ []SeatSoldOnce
                 /\ []HeldSeatHasHolder
                 /\ []CompletedSeatsBooked
                 /\ BookedIsFinal
                 /\ SeatReleasedWithItsBooking
<1>1. LedgerInv => SeatSoldOnce /\ HeldSeatHasHolder /\ CompletedSeatsBooked
  BY DEF LedgerInv
<1>2. ASSUME LedgerInv, [Ledger!Next]_(Ledger!ledger), NEW x \in Seats
      PROVE  /\ seat[x] = "BOOKED" => seat'[x] = "BOOKED"
             /\ seat[x] = "HELD" /\ seat'[x] = "AVAILABLE" =>
                  \E b \in Requests : x \in rows[b] /\ status[b] = "PENDING" /\ status'[b] = "EXPIRED"
  <2>1. ASSUME UNCHANGED seat PROVE seat'[x] = seat[x]
    BY <2>1
  <2>2. ASSUME NEW b \in Requests,
               Ledger!PlaceOrder(b) \/ Ledger!ExpiryPasses(b)
        PROVE  UNCHANGED seat
    BY <2>2 DEF Ledger!PlaceOrder, Ledger!ExpiryPasses
  <2>3. ASSUME NEW b \in Requests, Ledger!Hold(b)
        PROVE  seat'[x] = IF seat[x] = "AVAILABLE" THEN seat'[x] ELSE seat[x]
    BY <2>3 DEF Ledger!Hold, Ledger!OnOffer, Ledger!Turn
  <2>4. ASSUME NEW b \in Requests, Ledger!Pay(b) PROVE seat'[x] \in {"BOOKED", seat[x]}
    BY <2>4 DEF Ledger!Pay, Ledger!Turn
  <2>5. ASSUME NEW bs \in SUBSET Requests, Ledger!Expire(bs)
        PROVE  \/ seat'[x] = seat[x]
               \/ seat[x] = "HELD" /\ \E b \in Requests :
                    x \in rows[b] /\ status[b] = "PENDING" /\ status'[b] = "EXPIRED"
    <3>1. CASE seat[x] = "HELD" /\ \E b \in bs : x \in rows[b]
      <4>1. PICK b \in bs : x \in rows[b]
        BY <3>1
      <4>2. status[b] = "PENDING"
        BY <1>2, <2>5, <3>1, <4>1 DEF Ledger!Expire, LedgerInv, CompletedSeatsBooked
      <4>3. status'[b] = "EXPIRED"
        BY <2>5, <4>1 DEF Ledger!Expire
      <4>. QED
        BY <3>1, <4>1, <4>2, <4>3
    <3>2. CASE ~ (seat[x] = "HELD" /\ \E b \in bs : x \in rows[b])
      BY <2>5, <3>2 DEF Ledger!Expire, Ledger!Turn
    <3>. QED
      BY <3>1, <3>2
  <2>6. UNCHANGED Ledger!ledger => UNCHANGED seat
    BY DEF Ledger!ledger
  <2>. QED
    BY <1>2, <2>1, <2>2, <2>3, <2>4, <2>5, <2>6 DEF Ledger!Next
<1>3. LedgerInv /\ [Ledger!Next]_(Ledger!ledger) =>
        /\ [\A x \in Seats : seat[x] = "BOOKED" => seat'[x] = "BOOKED"]_seat
        /\ [\A x \in Seats : seat[x] = "HELD" /\ seat'[x] = "AVAILABLE" =>
              \E b \in Requests :
                x \in rows[b] /\ status[b] = "PENDING" /\ status'[b] = "EXPIRED"]_seat
  BY <1>2
<1>. QED
  BY <1>1, <1>3, LedgerBegins, LedgerStep, PTL
     DEF Ledger!Spec, BookedIsFinal, SeatReleasedWithItsBooking
-----------------------------------------------------------------------------
(*                 requests do not wait in a circle                        *)

(* A transaction that has ended has no locks.                              *)
LEMMA FinishSorts ==
  ASSUME TypeOK, NEW r \in Requests, NEW step \in {"done", "failed"}, Finish(r, step)
  PROVE  LocksInOrder(r)'
<1>1. r \in Txns /\ r # NoTxn /\ step \in Steps
  BY Kinds DEF Steps
<1>2. tx'[r] = At(step) /\ At(step).pc = step
  BY <1>1, FinishEffect DEF At
<1>3. (\A x \in Seats : seatLock'[x] # r) /\ \A b \in Requests : bookingLock'[b] # r
  BY <1>1, FinishEffect
<1>4. \A t \in Trips : tripLock'[t] # r
  BY <1>1 DEF Finish, Unlocked, TypeOK
<1>. QED
  BY <1>2, <1>3, <1>4 DEF LocksInOrder

(* A statement of createBooking locks the next seat, and every other one   *)
(* of the locked seats has a smaller number.                               *)
LEMMA RequestSorts ==
  ASSUME TypeOK, NEW r \in Requests, LocksInOrder(r), Submit(r) \/ RequestNext(r)
  PROVE  LocksInOrder(r)'
<1>. r \in Txns
  BY Kinds
<1>. /\ tx[r] \in Tx /\ tx[r].todo \subseteq Seats
  BY MemoryFields
<1>0. \A b \in Requests : bookingLock[b] # r
  BY DEF LocksInOrder
<1>1. CASE Submit(r)
  <2>0. UNCHANGED bookingLock
    BY <1>1 DEF Submit, locks
  <2>1. /\ UNCHANGED <<seatLock, tripLock>> /\ tx[r].pc = "idle"
        /\ \E t \in Trips, body \in Bodies :
             \/ Becomes(r, [At("locking") EXCEPT !.trip  = t,
                                                 !.seats = SeatsOf(t, body),
                                                 !.todo  = SeatsOf(t, body),
                                                 !.avail = avail[t]])
             \/ Becomes(r, At("failed"))
    BY <1>1 DEF Submit, locks
  <2>2. PICK t \in Trips, body \in Bodies :
          \/ Becomes(r, [At("locking") EXCEPT !.trip  = t,
                                              !.seats = SeatsOf(t, body),
                                              !.todo  = SeatsOf(t, body),
                                              !.avail = avail[t]])
          \/ Becomes(r, At("failed"))
    BY <2>1
  <2>3. /\ \A x \in Seats : seatLock'[x] # r
        /\ \A u \in Trips : tripLock'[u] # r
    BY <2>1 DEF LocksInOrder
  <2>4. CASE Becomes(r, At("failed"))
    BY <1>0, <2>0, <2>3, <2>4 DEF Becomes, At, TypeOK, LocksInOrder
  <2>5. CASE Becomes(r, [At("locking") EXCEPT !.trip  = t,
                                              !.seats = SeatsOf(t, body),
                                              !.todo  = SeatsOf(t, body),
                                              !.avail = avail[t]])
    <3>1. tx'[r].pc = "locking" /\ tx'[r].trip = t /\ tx'[r].todo = SeatsOf(t, body)
      BY <2>5 DEF Becomes, At, TypeOK
    <3>2. \A x, y \in SeatsOf(t, body) : x[2] = y[2] => x = y
      BY DEF SeatsOf
    <3>. QED
      BY <1>0, <2>0, <2>3, <3>1, <3>2 DEF LocksInOrder
  <2>. QED
    BY <2>2, <2>4, <2>5
<1>2. CASE LockSeat(r)
  <2>1. PICK x \in tx[r].todo :
          /\ IsNextSeat(r, x)
          /\ seatLock' = [seatLock EXCEPT ![x] = r]
          /\ Becomes(r, IF tx[r].todo = {x}
                          THEN [tx[r] EXCEPT !.todo = tx[r].seats, !.pc = "holding"]
                          ELSE [tx[r] EXCEPT !.todo = @ \ {x}])
    BY <1>2 DEF LockSeat
  <2>2. tx[r].pc = "locking" /\ UNCHANGED <<bookingLock, tripLock>>
    BY <1>2 DEF LockSeat
  <2>3. \A t \in Trips : tripLock[t] # r
    BY <2>2 DEF LocksInOrder
  <2>4. CASE tx[r].todo = {x}
    <3>1. tx'[r].pc = "holding" /\ tx'[r].trip = tx[r].trip
      BY <2>1, <2>4 DEF Becomes, TypeOK, Tx
    <3>. QED
      BY <1>0, <2>2, <2>3, <3>1 DEF LocksInOrder
  <2>5. CASE tx[r].todo # {x}
    <3>1. /\ tx'[r].pc = "locking" /\ tx'[r].trip = tx[r].trip
          /\ tx'[r].todo = tx[r].todo \ {x}
      BY <2>1, <2>2, <2>5 DEF Becomes, TypeOK, Tx
    <3>2. \A y \in tx[r].todo \ {x} : x[2] < y[2]
      <4>1. \A y \in tx[r].todo : x[2] <= y[2] /\ x[2] \in Int /\ y[2] \in Int
        BY <2>1, SeatNumbersAssumption DEF IsNextSeat, Seats
      <4>2. \A y \in tx[r].todo : x[2] = y[2] => x = y
        BY <2>2 DEF LocksInOrder
      <4>. QED
        BY <4>1, <4>2
    <3>3. \A z \in Seats, y \in tx[r].todo \ {x} : seatLock'[z] = r => z[2] < y[2]
      <4>1. \A z \in Seats, y \in tx[r].todo : seatLock[z] = r => z[2] < y[2]
        BY <2>2 DEF LocksInOrder
      <4>. QED
        BY <2>1, <3>2, <4>1 DEF TypeOK
    <3>4. \A y, z \in tx[r].todo : y[2] = z[2] => y = z
      BY <2>2 DEF LocksInOrder
    <3>. QED
      BY <1>0, <2>2, <2>3, <3>1, <3>3, <3>4 DEF LocksInOrder
  <2>. QED
    BY <2>4, <2>5
<1>3. CASE RejectSeat(r) \/ CommitBooking(r)
  BY <1>3, FinishSorts DEF RejectSeat, CommitBooking, Rollback
<1>4. CASE HoldSeat(r)
  <2>1. PICK x \in tx[r].todo :
          Becomes(r, [Visit(r, x, "holding", "ordering") EXCEPT !.avail = Decremented(r)])
    BY <1>4 DEF HoldSeat
  <2>2. tx'[r].pc \in {"holding", "ordering"} /\ tx'[r].trip = tx[r].trip
    BY <2>1 DEF Becomes, Visit, TypeOK, Tx
  <2>3. /\ tx[r].pc = "holding" /\ UNCHANGED bookingLock
        /\ tripLock' = tripLock \/ tripLock' = [tripLock EXCEPT ![tx[r].trip] = r]
    BY <1>4 DEF HoldSeat
  <2>. QED
    BY <2>2, <2>3 DEF LocksInOrder, TypeOK
<1>5. CASE PlaceOrder(r)
  BY <1>5 DEF PlaceOrder, Becomes, LocksInOrder, TypeOK, Tx, locks
<1>. QED
  BY <1>1, <1>2, <1>3, <1>4, <1>5 DEF RequestNext

LEMMA NextSorts ==
  ASSUME TypeOK, LocksAreSorted, [Next]_vars
  PROVE  LocksAreSorted'
<1>. SUFFICES ASSUME NEW r \in Requests PROVE LocksInOrder(r)'
  BY DEF LocksAreSorted
<1>1. LocksInOrder(r)
  BY DEF LocksAreSorted
<1>2. CASE Submit(r) \/ RequestNext(r)
  BY <1>1, <1>2, RequestSorts
<1>3. CASE Abort(r)
  BY <1>3, FinishSorts DEF Abort, Rollback
<1>4. CASE ~ Moves(r)
  <2>1. /\ tx'[r] = tx[r]
        /\ \A x \in Seats : seatLock'[x] = r <=> seatLock[x] = r
        /\ \A b \in Requests : bookingLock'[b] = r <=> bookingLock[b] = r
        /\ \A t \in Trips : tripLock'[t] = r <=> tripLock[t] = r
    BY <1>4, OthersStay, Kinds
  <2>. QED
    BY <1>1, <2>1 DEF LocksInOrder
<1>. QED
  BY <1>2, <1>3, <1>4, Kinds DEF Moves

LEMMA NextOwnStatements ==
  ASSUME TypeOK, OwnStatements, [Next]_vars
  PROVE  OwnStatements'
<1>1. ASSUME NEW r \in Requests
      PROVE  tx'[r].pc \in {"idle", "locking", "holding", "ordering", "committing", "done", "failed"}
  <2>0. /\ r \in Txns /\ tx[r] \in Tx
        /\ tx[r].pc \in {"idle", "locking", "holding", "ordering", "committing", "done", "failed"}
    BY Kinds, MemoryFields DEF OwnStatements
  <2>1. CASE Submit(r)
    <3>1. PICK t \in Trips, body \in Bodies :
            \/ Becomes(r, [At("locking") EXCEPT !.trip  = t,
                                                !.seats = SeatsOf(t, body),
                                                !.todo  = SeatsOf(t, body),
                                                !.avail = avail[t]])
            \/ Becomes(r, At("failed"))
      BY <2>1 DEF Submit
    <3>2. CASE Becomes(r, At("failed"))
      <4>1. tx'[r] = At("failed")
        BY <2>0, <3>2, BecomesEffect
      <4>. QED
        BY <4>1 DEF At
    <3>3. CASE Becomes(r, [At("locking") EXCEPT !.trip  = t,
                                                !.seats = SeatsOf(t, body),
                                                !.todo  = SeatsOf(t, body),
                                                !.avail = avail[t]])
      <4>1. tx'[r] = [At("locking") EXCEPT !.trip  = t,
                                           !.seats = SeatsOf(t, body),
                                           !.todo  = SeatsOf(t, body),
                                           !.avail = avail[t]]
        BY <2>0, <3>3, BecomesEffect
      <4>. QED
        BY <4>1 DEF At
    <3>. QED
      BY <3>1, <3>2, <3>3
  <2>2. CASE LockSeat(r)
    BY <2>0, <2>2 DEF LockSeat, Becomes, TypeOK, Tx
  <2>3. CASE HoldSeat(r)
    <3>1. PICK x \in tx[r].todo :
            Becomes(r, [Visit(r, x, "holding", "ordering") EXCEPT !.avail = Decremented(r)])
      BY <2>3 DEF HoldSeat
    <3>. QED
      BY <2>0, <3>1 DEF Becomes, Visit, TypeOK, Tx
  <2>4. CASE PlaceOrder(r)
    BY <2>0, <2>4 DEF PlaceOrder, Becomes, TypeOK, Tx
  <2>5. CASE RejectSeat(r) \/ CommitBooking(r) \/ Abort(r)
    <3>1. PICK step \in {"done", "failed"} : Becomes(r, At(step))
      BY <2>5 DEF RejectSeat, CommitBooking, Abort, Rollback, Finish
    <3>2. At(step).pc = step
      BY DEF At
    <3>. QED
      BY <2>0, <3>1, <3>2, BecomesEffect
  <2>6. CASE ~ Moves(r)
    BY <2>0, <2>6, OthersStay
  <2>. QED
    BY <2>1, <2>2, <2>3, <2>4, <2>5, <2>6, Kinds DEF Moves, RequestNext
<1>2. ASSUME NEW s \in Sweeps
      PROVE  tx'[s].pc \in {"idle", "listing", "releasing", "deleting", "expiring", "crediting",
                            "committing"}
  <2>0. /\ s \in Txns /\ tx[s] \in Tx
        /\ tx[s].pc \in {"idle", "listing", "releasing", "deleting", "expiring", "crediting",
                         "committing"}
    BY Kinds, MemoryFields DEF OwnStatements
  <2>1. CASE StartSweep(s)
    <3>1. PICK t \in Trips \cup {NoTrip} :
            Becomes(s, IF Expired = {}
                         THEN tx[s]
                         ELSE [At("listing") EXCEPT !.trip = t, !.found = Expired])
      BY <2>1 DEF StartSweep
    <3>2. tx'[s] = IF Expired = {}
                     THEN tx[s]
                     ELSE [At("listing") EXCEPT !.trip = t, !.found = Expired]
      BY <2>0, <3>1, BecomesEffect
    <3>. QED
      BY <2>0, <3>2 DEF At
  <2>2. CASE PickBooking(s)
    BY <2>0, <2>2 DEF PickBooking, Becomes, TypeOK, Tx
  <2>3. CASE ReleaseSeat(s)
    <3>1. PICK x \in tx[s].todo : Becomes(s, Visit(s, x, "releasing", "deleting"))
      BY <2>3 DEF ReleaseSeat
    <3>2. tx'[s] = Visit(s, x, "releasing", "deleting")
      BY <2>0, <3>1, BecomesEffect
    <3>. QED
      BY <2>0, <3>2 DEF Visit, Tx
  <2>4. CASE DeleteRows(s) \/ ExpireBooking(s)
    BY <2>0, <2>4 DEF DeleteRows, ExpireBooking, Becomes, TypeOK, Tx
  <2>5. CASE CreditTrip(s)
    BY <2>0, <2>5 DEF CreditTrip, Becomes, TypeOK, Tx
  <2>6. CASE CommitSweep(s) \/ Abort(s)
    <3>1. Becomes(s, At("idle"))
      BY <2>6, Kinds DEF CommitSweep, Abort, Rollback, Finish
    <3>2. At("idle").pc = "idle"
      BY DEF At
    <3>. QED
      BY <2>0, <3>1, <3>2, BecomesEffect
  <2>7. CASE ~ Moves(s)
    BY <2>0, <2>7, OthersStay
  <2>. QED
    BY <2>1, <2>2, <2>3, <2>4, <2>5, <2>6, <2>7, Kinds DEF Moves, SweepNext
<1>. QED
  BY <1>1, <1>2 DEF OwnStatements

(* Whoever waits for a request with more of its locks behind it: the       *)
(* numbers that are still to come for r include all those still to come    *)
(* for the request q it waits for, and one more.                           *)
Ahead(r) == {n \in SeatNumbers : \E y \in tx[r].todo : y[2] <= n}

LEMMA WaitsAhead ==
  ASSUME TypeOK, LocksAreSorted, NEW r \in Requests, NEW q \in Requests,
         tx[r].pc = "locking", tx[q].pc = "locking", WaitsFor(r, q)
  PROVE  /\ Cardinality(Ahead(r)) \in Nat /\ Cardinality(Ahead(q)) \in Nat
         /\ Cardinality(Ahead(q)) < Cardinality(Ahead(r))
<1>1. /\ tx[r].todo \subseteq Seats /\ tx[q].todo \subseteq Seats
      /\ \A x \in Seats : x[2] \in SeatNumbers /\ x[2] \in Int
  BY MemoryFields, Kinds, SeatNumbersAssumption DEF Seats
<1>2. PICK x \in tx[r].todo : seatLock[x] = q
  BY DEF WaitsFor
<1>3. \A y \in tx[q].todo : x[2] < y[2]
  BY <1>1, <1>2 DEF LocksAreSorted, LocksInOrder
<1>4. Ahead(q) \subseteq Ahead(r) /\ x[2] \in Ahead(r) /\ x[2] \notin Ahead(q)
  <2>1. x[2] \in SeatNumbers /\ x[2] \in Int /\ SeatNumbers \subseteq Int
    BY <1>1, <1>2, SeatNumbersAssumption
  <2>2. ASSUME NEW n \in SeatNumbers, NEW y \in tx[q].todo, y[2] <= n PROVE x[2] < n
    <3>1. x[2] < y[2] /\ y[2] \in Int /\ n \in Int
      BY <1>1, <1>3, <2>1
    <3>. QED
      BY <2>1, <2>2, <3>1
  <2>3. x[2] \in Ahead(r)
    BY <1>2, <2>1 DEF Ahead
  <2>4. ASSUME NEW n \in Ahead(q) PROVE n \in Ahead(r) /\ n # x[2]
    <3>1. n \in SeatNumbers /\ x[2] < n
      BY <2>2, <2>4 DEF Ahead
    <3>2. x[2] <= n /\ n # x[2]
      BY <2>1, <3>1
    <3>. QED
      BY <1>2, <3>1, <3>2 DEF Ahead
  <2>. QED
    BY <2>3, <2>4
<1>5. IsFiniteSet(Ahead(r))
  BY FS_Subset, SeatNumbersAssumption DEF Ahead
<1>6. /\ IsFiniteSet(Ahead(q)) /\ Cardinality(Ahead(q)) <= Cardinality(Ahead(r))
      /\ Cardinality(Ahead(q)) # Cardinality(Ahead(r))
  BY <1>4, <1>5, FS_Subset
<1>. QED
  BY <1>5, <1>6, FS_CardinalityType

(* A request that has its trip has all of its seats, and waits for nothing.*)
LEMMA TripComesLast ==
  ASSUME LocksAreSorted, NEW r \in Requests, NEW t \in Trips, tripLock[t] = r
  PROVE  \A q : ~ WaitsFor(r, q)
<1>1. t = tx[r].trip /\ tx[r].pc \in {"holding", "ordering", "committing"}
  BY DEF LocksAreSorted, LocksInOrder
<1>. QED
  BY <1>1, Kinds DEF WaitsFor

(* A sweep that waits for a request waits for its trip: the seats of a     *)
(* sweep are HELD and those of a request AVAILABLE, and no request locks a *)
(* booking.                                                                *)
LEMMA SweepsWaitForTrips ==
  ASSUME TypeOK, LocksProtect, LocksAreSorted, NEW s \in Sweeps, NEW r \in Requests, WaitsFor(s, r),
         OwnStatements
  PROVE  \E t \in Trips : tripLock[t] = r
<1>0. tx[s] \in Tx /\ tx[s].todo \subseteq Seats /\ tx[s].trip \in Trips \cup {NoTrip}
  BY MemoryFields, Kinds DEF Tx
<1>1. /\ ~ (tx[s].pc \in {"locking", "holding", "booking", "completing"})
      /\ s \notin Callbacks /\ r \notin Sweeps
  BY Kinds DEF OwnStatements
<1>2. ASSUME NEW x \in tx[s].todo, seat[x] = "HELD", seatLock[x] = r PROVE FALSE
  BY <1>0, <1>2 DEF LocksProtect, LockedSeats
<1>3. ASSUME tx[s].pc = "expiring", bookingLock[tx[s].booking] = r PROVE FALSE
  BY <1>3 DEF LocksProtect, SweepSteps, LocksAreSorted, LocksInOrder
<1>4. tx[s].trip \in Trips /\ tripLock[tx[s].trip] = r
  BY <1>1, <1>2, <1>3 DEF WaitsFor, HasRows
<1>. QED
  BY <1>4

(* In a set of which everybody waits for somebody in it, but no sweep for  *)
(* a sweep, nobody waits for a trip of a request, since that one waits for *)
(* nothing; so there is no sweep, and no request waits for a trip; and of  *)
(* the requests that wait for seats the furthest waits for none of them.   *)
LEMMA SortedNeverDeadlock ==
  ASSUME TypeOK, LocksProtect, LocksAreSorted, OwnStatements
  PROVE  BookingsNeverDeadlock
<1>. SUFFICES ASSUME NEW rs \in SUBSET (Requests \cup Sweeps), rs # {},
                     \A p \in rs : \E q \in rs : WaitsFor(p, q),
                     \A s, u \in rs \cap Sweeps : ~ WaitsFor(s, u)
              PROVE  FALSE
  BY DEF BookingsNeverDeadlock
<1>0. rs \subseteq Requests
  <2>. SUFFICES ASSUME NEW s \in rs \cap Sweeps PROVE FALSE
    OBVIOUS
  <2>1. PICK q \in rs \cap Requests : WaitsFor(s, q)
    OBVIOUS
  <2>2. PICK t \in Trips : tripLock[t] = q
    BY <2>1, SweepsWaitForTrips
  <2>. QED
    BY <2>1, <2>2, TripComesLast
<1>1. ASSUME NEW r \in rs PROVE tx[r].pc = "locking"
  <2>. SUFFICES ASSUME tx[r].pc # "locking" PROVE FALSE
    OBVIOUS
  <2>1. PICK q \in rs : tx[r].pc = "holding" /\ tripLock[tx[r].trip] = q
    BY <1>0, Kinds DEF WaitsFor, OwnStatements
  <2>2. tx[r].trip \in Trips
    BY <1>0, <2>1 DEF LocksAreSorted, LocksInOrder
  <2>. QED
    BY <1>0, <2>1, <2>2, TripComesLast
<1>. DEFINE Counts == {Cardinality(Ahead(r)) : r \in rs}
<1>2. Counts \subseteq Nat /\ Counts # {}
  BY <1>0, <1>1, WaitsAhead
<1>3. PICK n \in Counts : \A m \in Counts : ~ (<<m, n>> \in OpToRel(<, Nat))
  BY <1>2, WFMin, NatLessThanWellFounded
<1>4. \A m \in Counts : ~ (m < n)
  BY <1>2, <1>3 DEF OpToRel
<1>5. PICK r \in rs : n = Cardinality(Ahead(r))
  OBVIOUS
<1>6. PICK q \in rs : WaitsFor(r, q)
  OBVIOUS
<1>. QED
  BY <1>0, <1>1, <1>4, <1>5, <1>6, WaitsAhead

(* Requests never wait in a circle, whatever seats they ask for: their     *)
(* passengers are sorted by seat number, and the trip comes last.  A sweep *)
(* in such a circle waits for another sweep, or for a callback.            *)
THEOREM BookingsWaitInNoCircle == Spec => []BookingsNeverDeadlock
<1>1. Init => LocksAreSorted /\ OwnStatements
  BY Kinds DEF Init, LocksAreSorted, LocksInOrder, OwnStatements, At
<1>2. TypeOK /\ LocksAreSorted /\ OwnStatements /\ [Next]_vars => LocksAreSorted' /\ OwnStatements'
  BY NextSorts, NextOwnStatements
<1>3. TypeOK /\ LocksProtect /\ LocksAreSorted /\ OwnStatements => BookingsNeverDeadlock
  BY SortedNeverDeadlock
<1>. QED
  BY <1>1, <1>2, <1>3, TypeCorrect, LocksAlwaysProtect, PTL DEF Spec
-----------------------------------------------------------------------------
(*             what two trips and two passengers have to do with it        *)

(* The callback books by seat number: were there one trip only, and had    *)
(* every callback a billRefNo, a seat would only be sold to a booking that *)
(* has a passenger on it.                                                  *)
THEOREM OneTripSellsItsOwn ==
  ASSUME \A t, u \in Trips : t = u, Nameless = {}
  PROVE  Spec => SoldSeatHasPassenger
<1>1. ASSUME TypeOK, LocksProtect, CallbacksBookNumbers, [Next]_vars,
             NEW x \in Seats, seat[x] # "BOOKED", seat'[x] = "BOOKED"
      PROVE  \E b \in Requests : status'[b] = "COMPLETED" /\ x \in rows[b]
  <2>1. ASSUME NEW r \in Requests, CommitBooking(r) PROVE FALSE
    BY <1>1, <2>1 DEF CommitBooking
  <2>2. ASSUME NEW s \in Sweeps, CommitSweep(s) PROVE FALSE
    BY <1>1, <2>2 DEF CommitSweep
  <2>3. PICK c \in Callbacks : CommitCallback(c)
    BY <1>1, <2>1, <2>2, CommitsWrite
  <2>4. seatLock[x] = c /\ tx[c].pc = "committing"
    BY <1>1, <2>3 DEF CommitCallback
  <2>5. PICK b \in Requests : b = tx[c].booking /\ tx[c].seats = rows[b]
    BY <1>1, <2>4 DEF LocksProtect, CallbackSteps, CallbackStep
  <2>6. PICK y \in rows[b] : y[2] = x[2]
    BY <1>1, <2>4, <2>5 DEF CallbacksBookNumbers, CallbackNumbers, SameNumbers
  <2>7. x = y
    <3>1. y \in Seats
      BY <1>1 DEF TypeOK
    <3>. QED
      BY <2>6, <3>1 DEF Seats
  <2>8. status'[b] = "COMPLETED"
    BY <1>1, <2>3, <2>5 DEF CommitCallback, TypeOK
  <2>. QED
    BY <2>7, <2>8
<1>2. TypeOK /\ LocksProtect /\ CallbacksBookNumbers /\ [Next]_vars =>
        [\A x \in Seats : seat[x] # "BOOKED" /\ seat'[x] = "BOOKED" =>
            \E b \in Requests : status'[b] = "COMPLETED" /\ x \in rows[b]]_seat
  BY <1>1
<1>. QED
  BY <1>2, TypeCorrect, LocksAlwaysProtect, NumbersAlways, PTL DEF Spec, SoldSeatHasPassenger

(* A request never has another seat than those of Submit.                  *)
LEMMA RequestKeepsSeats ==
  ASSUME TypeOK, NEW r \in Requests, RequestNext(r) \/ Abort(r)
  PROVE  tx'[r].seats \in {tx[r].seats, {}}
<1>. r \in Txns /\ tx[r] \in Tx
  BY Kinds, MemoryFields
<1>1. CASE LockSeat(r)
  BY <1>1 DEF LockSeat, Becomes, TypeOK, Tx
<1>2. CASE HoldSeat(r)
  <2>1. PICK x \in tx[r].todo :
          Becomes(r, [Visit(r, x, "holding", "ordering") EXCEPT !.avail = Decremented(r)])
    BY <1>2 DEF HoldSeat
  <2>. QED
    BY <2>1 DEF Becomes, Visit, TypeOK, Tx
<1>3. CASE PlaceOrder(r)
  BY <1>3 DEF PlaceOrder, Becomes, TypeOK, Tx
<1>4. CASE RejectSeat(r) \/ CommitBooking(r) \/ Abort(r)
  <2>1. PICK step : Becomes(r, At(step))
    BY <1>4 DEF RejectSeat, CommitBooking, Abort, Rollback, Finish
  <2>. QED
    BY <2>1, BecomesEffect DEF At
<1>. QED
  BY <1>1, <1>2, <1>3, <1>4 DEF RequestNext

(* No request has two passengers, and no booking.                          *)
Alone(xs) == \A x, y \in xs : x = y

TravelAlone == \A r \in Requests : Alone(tx[r].seats) /\ Alone(rows[r])

LEMMA NextTravelAlone ==
  ASSUME MaxPassengers = 1, TypeOK, LocksProtect, TravelAlone, [Next]_vars
  PROVE  TravelAlone'
<1>1. ASSUME NEW r \in Requests PROVE Alone(tx'[r].seats)
  <2>1. CASE Submit(r)
    <3>1. PICK t \in Trips, body \in Bodies :
            \/ Becomes(r, [At("locking") EXCEPT !.trip  = t,
                                                !.seats = SeatsOf(t, body),
                                                !.todo  = SeatsOf(t, body),
                                                !.avail = avail[t]])
            \/ Becomes(r, At("failed"))
      BY <2>1 DEF Submit
    <3>2. tx'[r].seats \in {SeatsOf(t, body), {}}
      <4>1. CASE Becomes(r, At("failed"))
        BY <4>1, BecomesEffect, Kinds DEF At
      <4>2. CASE Becomes(r, [At("locking") EXCEPT !.trip  = t,
                                                  !.seats = SeatsOf(t, body),
                                                  !.todo  = SeatsOf(t, body),
                                                  !.avail = avail[t]])
        <5>1. tx'[r] = [At("locking") EXCEPT !.trip  = t,
                                             !.seats = SeatsOf(t, body),
                                             !.todo  = SeatsOf(t, body),
                                             !.avail = avail[t]]
          BY <4>2, Kinds DEF Becomes, TypeOK
        <5>. QED
          BY <5>1 DEF At
      <4>. QED
        BY <3>1, <4>1, <4>2
    <3>3. \A i, j \in DOMAIN body : i = j
      BY DEF Bodies
    <3>4. Alone(SeatsOf(t, body))
      BY <3>3 DEF Alone, SeatsOf
    <3>. QED
      BY <3>2, <3>4 DEF Alone
  <2>2. CASE RequestNext(r) \/ Abort(r)
    BY <2>2, RequestKeepsSeats DEF TravelAlone, Alone
  <2>3. CASE ~ Moves(r)
    BY <2>3, OthersStay, Kinds DEF TravelAlone
  <2>. QED
    BY <2>1, <2>2, <2>3, Kinds DEF Moves
<1>2. ASSUME NEW b \in Requests PROVE rows'[b] \in {rows[b], tx[b].seats, {}}
  <2>1. ASSUME NEW r \in Requests, CommitBooking(r) PROVE rows'[b] \in {rows[b], tx[b].seats}
    BY <2>1 DEF CommitBooking, TypeOK
  <2>2. ASSUME NEW s \in Sweeps, CommitSweep(s) PROVE rows'[b] \in {rows[b], {}}
    BY <2>2 DEF CommitSweep
  <2>3. ASSUME NEW c \in Callbacks, CommitCallback(c) PROVE rows'[b] = rows[b]
    BY <2>3 DEF CommitCallback
  <2>. QED
    BY <2>1, <2>2, <2>3, CommitsWrite
<1>3. ASSUME NEW b \in Requests PROVE Alone(rows'[b])
  BY <1>2 DEF TravelAlone, Alone
<1>. QED
  BY <1>1, <1>3 DEF TravelAlone, Alone

(* A callback gives the first passenger a ticket, and no other.            *)
LEMMA NextTicketed ==
  ASSUME Nameless = {}, TypeOK, LocksProtect, TicketIsForBookedSeat, TravelAlone,
         EveryPassengerTicketed, [Next]_vars
  PROVE  EveryPassengerTicketed'
<1>. SUFFICES ASSUME NEW b \in Requests, status'[b] = "COMPLETED"
              PROVE  tickets'[b] = rows'[b]
  BY DEF EveryPassengerTicketed
<1>1. ASSUME NEW r \in Requests, CommitBooking(r) PROVE tickets'[b] = rows'[b]
  BY <1>1 DEF CommitBooking, TypeOK, EveryPassengerTicketed
<1>2. ASSUME NEW s \in Sweeps, CommitSweep(s) PROVE tickets'[b] = rows'[b]
  BY <1>2 DEF CommitSweep, EveryPassengerTicketed
<1>3. ASSUME NEW c \in Callbacks, CommitCallback(c) PROVE tickets'[b] = rows'[b]
  <2>1. tx[c].booking \in Requests /\ tx[c].seats = rows[tx[c].booking]
    BY <1>3 DEF CommitCallback, LocksProtect, CallbackSteps, CallbackStep
  <2>2. CASE b # tx[c].booking
    BY <1>3, <2>1, <2>2 DEF CommitCallback, WriteTicket, TypeOK, EveryPassengerTicketed
  <2>3. CASE b = tx[c].booking
    <3>1. tickets[b] \subseteq rows[b] /\ rows'[b] = rows[b]
      BY <1>3 DEF CommitCallback, TicketIsForBookedSeat
    <3>2. \/ rows[b] = {} /\ tickets'[b] = tickets[b]
          \/ \E x \in rows[b] : tickets'[b] = tickets[b] \cup {x}
      <4>1. CASE rows[b] = {} /\ UNCHANGED tickets
        BY <4>1
      <4>2. CASE \E x \in rows[b] : tickets' = [tickets EXCEPT ![b] = @ \cup ({x} \cap rows[b])]
        <5>1. PICK x \in rows[b] : tickets' = [tickets EXCEPT ![b] = @ \cup ({x} \cap rows[b])]
          BY <4>2
        <5>2. {x} \cap rows[b] = {x}
          OBVIOUS
        <5>. QED
          BY <5>1, <5>2 DEF TypeOK
      <4>. QED
        BY <1>3, <2>1, <2>3, <4>1, <4>2 DEF CommitCallback, WriteTicket
    <3>3. Alone(rows[b])
      BY DEF TravelAlone
    <3>. QED
      BY <3>1, <3>2, <3>3 DEF Alone
  <2>. QED
    BY <2>2, <2>3
<1>4. UNCHANGED <<seat, status, rows, tickets>> => tickets'[b] = rows'[b]
  BY DEF EveryPassengerTicketed
<1>. QED
  BY <1>1, <1>2, <1>3, <1>4, CommitsWrite

(* Were every passenger to travel alone, and had every callback a          *)
(* billRefNo, each paid booking would have its ticket; with two passengers *)
(* it is not true.                                                         *)
THEOREM LonePassengersTicketed ==
  ASSUME MaxPassengers = 1, Nameless = {}
  PROVE  Spec => []EveryPassengerTicketed
<1>1. Init => TravelAlone /\ EveryPassengerTicketed
  BY Kinds DEF Init, TravelAlone, Alone, EveryPassengerTicketed, At
<1>2. TypeOK /\ LocksProtect /\ TravelAlone /\ [Next]_vars => TravelAlone'
  BY NextTravelAlone
<1>3. TypeOK /\ LocksProtect /\ TicketIsForBookedSeat /\ TravelAlone /\ EveryPassengerTicketed
        /\ [Next]_vars => EveryPassengerTicketed'
  BY NextTicketed
<1>. QED
  BY <1>1, <1>2, <1>3, TypeCorrect, LocksAlwaysProtect, TicketsAreForBookedSeats, PTL DEF Spec
=============================================================================
