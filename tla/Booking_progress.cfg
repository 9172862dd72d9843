\* One seat number on two trips, two requests, the first of them for the first trip,
\* a sweep and two callbacks.
SPECIFICATION MCFairSpec
CONSTANTS
  t1 = t1
  r1 = r1
  Trips = {t1, t2}
  ClosedTrips = {}
  SeatNumbers = {1}
  TotalSeats <- AsBuilt
  MaxPassengers = 1
  Requests = {r1, r2}
  Sweeps = {s1}
  Callbacks = {c1, c2}
  Nameless = {}
  NoTxn = NoTxn
  NoTrip = NoTrip
  NoBooking = NoBooking
PROPERTY
  EveryTransactionEnds
