\* Two seats, three requests, one sweep and one callback at a time; a second
\* trip is closed.
SPECIFICATION Spec
CONSTANTS
  Trips = {t1, t2}
  ClosedTrips = {t2}
  SeatNumbers = {1, 2}
  TotalSeats <- AsBuilt
  MaxPassengers = 2
  Requests = {r1, r2, r3}
  Sweeps = {s1}
  Callbacks = {c1}
  Nameless = {}
  NoTxn = NoTxn
  NoTrip = NoTrip
  NoBooking = NoBooking
SYMMETRY Interchangeable
INVARIANTS
  TypeOK
  SeatSoldOnce
  OneSweepInv
  TicketIsForBookedSeat
  BookingHasOrder
  BookingsNeverDeadlock
PROPERTY
  TransactionsAreAtomic
  SeatReleasedWithItsBooking
