SPECIFICATION WalletSpec
CONSTANTS
  Requests = {r1}
  Owned = {o1}
  o1 = o1
  Users = {u1}
  Products = {p1}
  Nil = Nil
  Amounts <- TopUps
  Needs <- Shifts
  PricePerHour = 800
  Balance0 <- MCBalance0
  Owned0 <- MCOwned0
  Product0 <- MCProduct0
  Prices <- NewPrices
  Ops = {"BuyPackage"}
  MaxTime = 0
CHECK_DEADLOCK FALSE
INVARIANT PaidPackagesArrive
