------------------------------ MODULE MCBooking ------------------------------
(* Booking on small instances. *)
EXTENDS BookingInv, TLC

(* model.totalSeats is the number of seats of the layout, or one more.     *)
AsBuilt == [t \in Trips |-> Cardinality(SeatNumbers)]
OneMore == [t \in Trips |-> Cardinality(SeatNumbers) + 1]

(* Transactions are interchangeable within their kind, and so are trips. *)
Interchangeable ==
  UNION {Permutations(kind) :
           kind \in {Requests, Sweeps, Nameless, Callbacks \ Nameless,
                     ClosedTrips, Trips \ ClosedTrips}}
=============================================================================
