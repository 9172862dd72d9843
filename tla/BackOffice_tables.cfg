\* Four calls over two companies and a customer; two buses, trips, companies
\* and calls; two rows of each table and two calls; two calls about a company,
\* two people and two phones; two attempts to log in to one account. Cities
\* are only created, so that the system may stop.
SPECIFICATION BackOfficeSpec
CONSTANTS
  Companies = {z1, z2}
  Calls = {e1, e2, e3, e4}
  Customers = {u1}
  NoCall = NoCall
  NoCompany = NoCompany
  NoPolicy = NoPolicy
  Buses = {b1, b2}
  Trips = {t1, t2}
  Kits <- TwoKits
  Operators = {o1, o2}
  Clerks = {e1, e2}
  NoBus = NoBus
  NoKit = NoKit
  NoOperator = NoOperator
  Routes = {r1, r2}
  BusModels = {x1, x2}
  Terminals = {y1, y2}
  Cities = {z1, z2}
  BusIds = {b1, b2}
  Titles <- ThreeTitles
  Desks = {e1, e2}
  NoEntry = NoEntry
  NoTitle = NoTitle
  Names = {c1}
  People = {t1, t2}
  Phones = {b1, b2}
  Offices = {e1, e2}
  NoName = NoName
  NoPerson = NoPerson
  NoPhone = NoPhone
  NoOffice = NoOffice
  Attempts = {e1, e2}
  Refreshes = {}
  m1 = m1
  m2 = m2
  l1 = l1
  l2 = l2
  n1 = n1
  n2 = n2
  p1 = p1
  p2 = p2
SYMMETRY Interchangeable
CHECK_DEADLOCK FALSE
INVARIANTS
  NeverWithoutPolicy
  BookingPolicy
  PoliciesSucceed
  RowsHold
  SeatsOfBus
  OnlyOverlapsTwin
  FoundedTogether
PROPERTIES
  ReplacesPolicies
  NoneLeftBehind
  TogglesTurn
  DriverWithRole
  ActsOnWhatHolds
  LockIsTemporary
  OneStrikeIsForgiven
