SPECIFICATION MCSpec
CONSTANTS
  Requests = {r1, r2, r3}
  Owned = {o1, o2}
  o1 = o1
  Users = {u1}
  Products = {p1}
  Nil = Nil
  Amounts <- TopUps
  Needs <- Shifts
  PricePerHour = 800
  Balance0 <- MCBalance0
  Owned0 <- MCOwned0
  Product0 <- MCProduct0
  Prices <- NewPrices
  Ops = {"Recharge", "BuyPackage", "Charge", "Scan", "EditUser", "DeleteUser", "EditProduct", "DeleteProduct"}
  MaxTime = 2
SYMMETRY Symmetry
INVARIANTS TypeOK BalancesAddUp ChargedHoursArePaid GrantsAreOrderedAndPaid
PROPERTY SoonestExpiryIsSpentFirst
