\* Two calls over two drivers and two buses. The calls are one each, so the
\* system stops when all of them have ended.
SPECIFICATION Spec
CONSTANTS
  Drivers = {d1, d2}
  Buses = {b1, b2}
  Calls = {c1, c2}
  Bodies <- AnyBody
  NoCall = NoCall
  NoDriver = NoDriver
  NoBus = NoBus
SYMMETRY Interchangeable
CHECK_DEADLOCK FALSE
INVARIANT
  OneCurrentAssignment
