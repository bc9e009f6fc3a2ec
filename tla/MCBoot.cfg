SPECIFICATION MCSpec
CONSTANTS
  Requests = {r1, r2, r3, r4}
  Stations = {s1}
  Users = {u1}
  Booked = {i1, i2}
  Codes = {c1, c2}
  Nil = Nil
  Slots <- MidSlot
  TTL = 1
  Early = 0
  Price = 1
  Balance0 <- MCBalance0
  Package0 <- MCPackage0
  MaxTime = 2
SYMMETRY Symmetry
INVARIANTS
  StationInUseIffOneSession
  BooksBalance
  UsedCodesMatchSessions
  OneSessionPerReservation
  NoEarlyBoot
PROPERTIES
  KeepsTicketPromise
