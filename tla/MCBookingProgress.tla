-------------------------- MODULE MCBookingProgress --------------------------
(* BookingProgress on a small instance. *)
EXTENDS BookingProgress

CONSTANTS t1, r1

AsBuilt == [t \in Trips |-> Cardinality(SeatNumbers)]

(* Trips being interchangeable, one request may be taken to be for one of  *)
(* them.  Which trip a client asks for is no step of a transaction, so     *)
(* that nothing is taken from those that fairness is about.                *)
FirstTripFirst == tx'[r1].trip \in {NoTrip, t1}

MCFairSpec == Init /\ [][Next /\ FirstTripFirst]_vars /\ Fairness
=============================================================================
