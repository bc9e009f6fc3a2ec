SPECIFICATION HallSpec
CONSTANTS
  Requests = {r1, r2, r3}
  Stations = {s1}
  Users = {u1}
  Booked = {}
  Codes = {c1}
  Nil = Nil
  Slots <- OneSlot
  TTL = 1
  Early = 1
  Price = 1
  Balance0 <- MCBalance0
  Package0 <- MCPackage0
  MaxTime = 0
  Renewals = {1}
  Ops = {"Start", "Renew"}
CHECK_DEADLOCK FALSE
INVARIANT RenewalsAreCredited
