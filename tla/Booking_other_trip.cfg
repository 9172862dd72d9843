\* The same seat number on two trips.
SPECIFICATION Spec
CONSTANTS
  Trips = {t1, t2}
  ClosedTrips = {}
  SeatNumbers = {1}
  TotalSeats <- AsBuilt
  MaxPassengers = 1
  Requests = {r1}
  Sweeps = {s1}
  Callbacks = {c1}
  Nameless = {}
  NoTxn = NoTxn
  NoTrip = NoTrip
  NoBooking = NoBooking
PROPERTY
  SoldSeatHasPassenger
