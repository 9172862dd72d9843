------------------------------ MODULE SeatLedger ------------------------------
(***************************************************************************)
(* The promise of booking.service.ts: createBooking, the sweep of          *)
(* getTripDetail and starpayCallback each happen at once, or not at all,   *)
(* although each is many statements that the others interleave with.  A    *)
(* booking takes seats of one open trip that are free, and has its order;  *)
(* an expiry gives back the seats of the bookings it ends, each of them    *)
(* overdue, and no others; a callback books all of the seats of the        *)
(* booking that it names.                                                  *)
(***************************************************************************)
CONSTANTS
  Seats,        \* rows of trip_seats, <<trip, seat number>>
  ClosedTrips,  \* the trips that are CANCELLED or COMPLETED
  Requests      \* the bookings that may be made

VARIABLES
  seat,         \* the status of each seat
  status,       \* the status of each booking
  due,          \* the bookings whose time is over
  rows,         \* the seats of the passengers of a booking
  tickets,      \* those of them with a ticket number
  order         \* the order of each booking at the gateway

ledger == <<seat, status, due, rows, tickets, order>>

Init ==
  /\ seat    = [x \in Seats |-> "AVAILABLE"]
  /\ status  = [b \in Requests |-> "absent"]
  /\ due     = {}
  /\ rows    = [b \in Requests |-> {}]
  /\ tickets = [b \in Requests |-> {}]
  /\ order   = [b \in Requests |-> "none"]

(* The seats xs become s. *)
Turn(xs, s) == seat' = [x \in Seats |-> IF x \in xs THEN s ELSE seat[x]]

PlaceOrder(b) ==
  /\ status[b] = "absent" /\ order[b] = "none"
  /\ order' = [order EXCEPT ![b] = "open"]
  /\ UNCHANGED <<seat, status, due, rows, tickets>>

OnOffer == {x \in Seats : seat[x] = "AVAILABLE" /\ x[1] \notin ClosedTrips}

Hold(b) ==
  /\ status[b] = "absent" /\ order[b] # "none"
  /\ status' = [status EXCEPT ![b] = "PENDING"]
  /\ \E xs \in (SUBSET OnOffer) \ {{}} :
       /\ \A x, y \in xs : x[1] = y[1]
       /\ rows' = [rows EXCEPT ![b] = xs]
       /\ Turn(xs, "HELD")
  /\ UNCHANGED <<due, tickets, order>>

ExpiryPasses(b) ==
  /\ status[b] = "PENDING"
  /\ due' = due \cup {b}
  /\ UNCHANGED <<seat, status, rows, tickets, order>>

(* A booking that has been paid while the sweep ran is expired with the    *)
(* others.                                                                 *)
Expire(bs) ==
  /\ \A b \in bs : b \in due /\ status[b] \in {"PENDING", "COMPLETED"}
  /\ status'  = [b \in Requests |-> IF b \in bs THEN "EXPIRED" ELSE status[b]]
  /\ rows'    = [b \in Requests |-> IF b \in bs THEN {} ELSE rows[b]]
  /\ tickets' = [b \in Requests |-> IF b \in bs THEN {} ELSE tickets[b]]
  /\ Turn({x \in Seats : seat[x] = "HELD" /\ \E b \in bs : x \in rows[b]}, "AVAILABLE")
  /\ UNCHANGED <<due, order>>

(* A seat is booked by its number, whatever its trip, and one passenger    *)
(* has the ticket.                                                         *)
Pay(b) ==
  /\ status[b] # "absent"
  /\ status' = [status EXCEPT ![b] = "COMPLETED"]
  /\ Turn({x \in Seats : \E y \in rows[b] : y[2] = x[2]}, "BOOKED")
  /\ \/ rows[b] = {} /\ UNCHANGED tickets
     \/ \E x \in rows[b] : tickets' = [tickets EXCEPT ![b] = @ \cup {x}]
  /\ UNCHANGED <<due, rows, order>>

Next ==
  \/ \E b \in Requests : PlaceOrder(b) \/ Hold(b) \/ ExpiryPasses(b) \/ Pay(b)
  \/ \E bs \in SUBSET Requests : Expire(bs)

Spec == Init /\ [][Next]_ledger
=============================================================================
