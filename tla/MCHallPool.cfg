SPECIFICATION MCSpec
CONSTANTS
  Requests = {r1, r2, r3}
  r1 = r1
  r2 = r2
  r3 = r3
  Stations = {s1}
  Users = {u1}
  Booked = {i1}
  Codes = {c1}
  Nil = Nil
  Slots <- OneSlot
  TTL = 1
  Early = 1
  Price = 1
  Balance0 <- MCBalance0
  Package0 <- MCPackage0
  MaxTime = 0
  Renewals = {1}
  MaxOpenConns = 2
  Ops = {"Generate", "Verify", "Start", "Cancel"}
CHECK_DEADLOCK FALSE
PROPERTIES
  EveryRequestAnswered
