SPECIFICATION MCSpec
CONSTANTS
  Requests = {r1, r2, r3}
  Stations = {s1}
  Users = {u1}
  Booked = {i1}
  Codes = {c1, c2}
  Nil = Nil
  Slots <- OneSlot
  TTL = 1
  Early = 1
  Price = 1
  Balance0 <- MCBalance0
  Package0 <- MCPackage0
  MaxTime = 1
  Renewals = {2}
  Ops = {"Generate", "Verify", "Create", "Confirm", "Cancel", "CheckIn", "Start", "Renew", "End", "UpdateStatus", "Update", "Delete"}
SYMMETRY Symmetry
INVARIANTS
  TypeOK
  AtMostOneActiveCode
  PrepaidIsPaid
  UsedCodesKeepTheirSession
PROPERTIES
  CodesAreFinal
  SeatedOnlyWhenReady
