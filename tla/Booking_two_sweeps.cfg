\* One seat number on two trips, one of them closed, two requests, two sweeps and
\* two callbacks, one of them without a billRefNo; availableSeats starts one above
\* the number of seats.
SPECIFICATION Spec
CONSTANTS
  Trips = {t1, t2}
  ClosedTrips = {t2}
  SeatNumbers = {1}
  TotalSeats <- OneMore
  MaxPassengers = 1
  Requests = {r1, r2}
  Sweeps = {s1, s2}
  Callbacks = {c1, c2}
  Nameless = {c2}
  NoTxn = NoTxn
  NoTrip = NoTrip
  NoBooking = NoBooking
SYMMETRY Interchangeable
INVARIANTS
  HeldSeatHasHolder
  LocksProtect
  CompletedSeatsBooked
PROPERTY
  BookedIsFinal
