\* Two sweeps that list the same expired booking.
SPECIFICATION Spec
CONSTANTS
  Trips = {t1}
  ClosedTrips = {}
  SeatNumbers = {1}
  TotalSeats <- AsBuilt
  MaxPassengers = 1
  Requests = {r1, r2, r3}
  Sweeps = {s1, s2}
  Callbacks = {c1}
  Nameless = {}
  NoTxn = NoTxn
  NoTrip = NoTrip
  NoBooking = NoBooking
PROPERTY
  SeatReleasedWithItsBooking
