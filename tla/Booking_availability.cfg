\* A booking of two passengers on a trip of five seats.
SPECIFICATION Spec
CONSTANTS
  Trips = {t1}
  ClosedTrips = {}
  SeatNumbers = {1, 2, 3, 4, 5}
  TotalSeats <- AsBuilt
  MaxPassengers = 2
  Requests = {r1}
  Sweeps = {s1}
  Callbacks = {c1}
  Nameless = {}
  NoTxn = NoTxn
  NoTrip = NoTrip
  NoBooking = NoBooking
INVARIANT
  AvailabilityAgrees
