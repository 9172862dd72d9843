\* Four calls over two drivers and two buses; an attempt to log in and a
\* refresh of one account; three changes of a password, of which two are kept;
\* every handler and every shape of rule. A call of the assignments, a change
\* and a request are one each, so that the system may stop.
SPECIFICATION PeopleSpec
CONSTANTS
  Drivers = {1, 2}
  Buses = {1, 2}
  Calls = {1, 2, 3, 4}
  Bodies <- SwapBodies
  NoCall = NoCall
  NoDriver = NoDriver
  NoBus = NoBus
  Attempts = {a1}
  Refreshes = {f1}
  Words = {w1, w2, w3}
  w1 = w1
  Changes = {h1, h2, h3}
  Created = h0
  MaxHistory = 2
  Controllers <- AllControllers
  Handlers <- AllHandlers
  Users <- AllUsers
CHECK_DEADLOCK FALSE
INVARIANTS
  OnlyOverlapsClash
  EndsWhatItMust
  OnlyLateRefreshes
  HistoryCounts
  PasswordIsNewest
  AnswersAsDocumented
  EachReached
PROPERTIES
  ReplacesAssignments
  EndedByAnother
  EveryCallEnds
  ClaimsCatchUp
