------------------------------- MODULE Wallet -------------------------------
(***************************************************************************)
(* What a member can spend: the balance in table users and the time        *)
(* packages in user_packages, with the recharges and orders that fill them *)
(* and the charges that empty them.                                        *)
(*                                                                         *)
(* Each statement or transaction here takes the locks it needs and commits *)
(* at once: none waits for a second row while others can see it half done  *)
(* (a scan locks member and packages in one transaction and is one step).  *)
(* Between the steps of a request everything else may happen.              *)
(*                                                                         *)
(* Hours are decimal(10,2) columns and charges are minutes: both are whole *)
(* numbers of 300ths of an hour (a minute is 5, a hundredth of an hour 3). *)
(* Money is counted in 300ths of a cent, so that 300ths of an hour at a    *)
(* price of cents per hour are exact until a column rounds them.           *)
(***************************************************************************)
EXTENDS Integers, FiniteSets, FiniteSetsExt

CONSTANTS
  Requests,       \* HTTP requests; a request also names the rows it inserts
  Owned,          \* time packages bought before
  Users, Products,
  Nil,
  Amounts,        \* what recharges may bring
  Needs,          \* hours a charge may ask for
  PricePerHour,   \* of every station, in cents
  Balance0, Owned0, Product0,   \* the tables at the start
  Prices,         \* what an edit of the catalogue may set
  Ops,            \* the operations requests may ask for
  MaxTime         \* bound: days modelled

Packages == Owned \cup Requests

VARIABLES
  clock,      \* days; every time.Now()
  user,       \* users: whether the row exists, and its balance
  product,    \* time_packages, the catalogue
  package,    \* user_packages, by the request that inserted the row
  order,      \* package_orders, by the request that inserted the row
  recharge,   \* recharges: the amount, by the request that inserted the row
  req         \* what each request does next and has read

tables == <<user, product, package, order, recharge>>
vars   == <<clock, tables, req>>

Hour == 300
Cent == 300
Nearest(x, unit) == ((2 * x + unit) \div (2 * unit)) * unit
Hundredths(x) == Nearest(x, Hour \div 100)   \* what a decimal(10,2) column of hours keeps
Cents(x)      == Nearest(x, Cent)            \* what the balance column keeps

ProductRows == [status : {"none", "active", "disabled"}, price : Nat, hours : Nat, days : Nat]
PackageRows == [status : {"none", "active", "expired", "used"}, user : Users \cup {Nil},
                total : Nat, left : Nat, expire : Nat]
OrderRows   == [user : Users \cup {Nil}, amount : Nat, hours : Nat]
NoProduct   == [status |-> "none", price |-> 0, hours |-> 0, days |-> 0]
NoPackage   == [status |-> "none", user |-> Nil, total |-> 0, left |-> 0, expire |-> 0]
NoOrder     == [user |-> Nil, amount |-> 0, hours |-> 0]

ASSUME WalletTablesAssumption ==
  /\ Balance0 \in [Users -> Nat] /\ Owned0 \in [Owned -> PackageRows]
  /\ Product0 \in [Products -> ProductRows]
ASSUME WalletNumbersAssumption ==
  /\ Amounts \subseteq Nat \ {0} /\ Needs \subseteq Nat \ {0} /\ Prices \subseteq Nat \ {0}
  /\ PricePerHour \in Nat /\ MaxTime \in Nat
ASSUME WalletNamesAssumption == Nil \notin Users /\ Owned \cap Requests = {}
ASSUME WalletFiniteAssumption == IsFiniteSet(Requests) /\ IsFiniteSet(Owned)
ASSUME WalletOpsAssumption ==
  Ops \subseteq {"Recharge", "BuyPackage", "Charge", "Scan", "EditUser", "DeleteUser",
                 "EditProduct", "DeleteProduct"}

RequestStates ==
  [pc : {"new", "done", "rechargeCredit", "rechargeRecord", "buyDebit", "buyOrder", "buyGrant",
         "chargeBalance", "editSave", "productSave"},
   ans : {"none", "ok", "refused", "error"},
   user : Users \cup {Nil}, product : Products \cup {Nil},
   row : ProductRows,    \* the catalogue row that was read
   balance : Nat,        \* the balance in the user row that was read
   cash : BOOLEAN,       \* PaymentMethod is not "balance"
   amount : Nat,         \* to credit or debit
   moved : Int,          \* what it has added to the balance
   need : Nat,           \* hours taken from packages or still to be paid from the balance
   saved : BOOLEAN]      \* it has written a whole user row, or deleted it
NewRequest ==
  [pc |-> "new", ans |-> "none", user |-> Nil, product |-> Nil, row |-> NoProduct, balance |-> 0,
   cash |-> FALSE, amount |-> 0, moved |-> 0, need |-> 0, saved |-> FALSE]

WalletInit ==
  /\ clock = 0
  /\ user = [u \in Users |-> [exists |-> TRUE, balance |-> Balance0[u]]]
  /\ product = Product0
  /\ package = [p \in Packages |-> IF p \in Owned THEN Owned0[p] ELSE NoPackage]
  /\ order = [r \in Requests |-> NoOrder]
  /\ recharge = [r \in Requests |-> 0]
  /\ req = [r \in Requests |-> NewRequest]

Becomes(r, state) == req' = [req EXCEPT ![r] = state]
Return(r, answer) == Becomes(r, [req[r] EXCEPT !.pc = "done", !.ans = answer])
Answer(r, answer) == Return(r, answer) /\ UNCHANGED <<clock, tables>>

-----------------------------------------------------------------------------
(* Faulty: the balance is not tested. *)
AlwaysCanPay(u, cost) == TRUE

(* UpdateBalanceTx: the test, under the lock of the user row. *)
CanPay(u, cost) == user[u].balance >= cost

(* Faulty: a recharge adds to the balance read earlier instead of the one under the lock. *)
MoveReadBalance(r, delta) ==
  user' = [user EXCEPT ![req[r].user].balance =
             Cents((IF delta > 0 THEN req[r].balance ELSE @) + delta)]

(* UpdateBalanceTx: the write. *)
MoveBalance(r, delta) ==
  user' = [user EXCEPT ![req[r].user].balance = Cents(@ + delta)]

(* Recharge: the user must exist... *)
RechargeRead(r) ==
  /\ req[r].pc = "new"
  /\ \E u \in Users, amount \in Amounts :
       IF user[u].exists
       THEN /\ Becomes(r, [req[r] EXCEPT !.pc = "rechargeCredit", !.user = u, !.amount = amount,
                                         !.balance = user[u].balance])
            /\ UNCHANGED <<clock, tables>>
       ELSE Answer(r, "refused")

(* ... and when the balance is raised... *)
RechargeCredit(r) ==
  LET q == req[r] IN
  /\ q.pc = "rechargeCredit"
  /\ \/ /\ user[q.user].exists
        /\ MoveBalance(r, q.amount)
        /\ Becomes(r, [q EXCEPT !.pc = "rechargeRecord", !.moved = q.amount])
        /\ UNCHANGED <<clock, product, package, order, recharge>>
     \/ ~user[q.user].exists /\ Answer(r, "error")

(* ... the recharge is recorded. *)
RechargeRecord(r) ==
  /\ req[r].pc = "rechargeRecord"
  /\ recharge' = [recharge EXCEPT ![r] = Cents(req[r].amount)]
  /\ Return(r, "ok")
  /\ UNCHANGED <<clock, user, product, package, order>>

-----------------------------------------------------------------------------
(* BuyPackage: the product is read once; whoever does not pay by balance pays elsewhere... *)
BuyRead(r) ==
  /\ req[r].pc = "new"
  /\ \E u \in Users, p \in Products, cash \in BOOLEAN :
       IF product[p].status = "active"
       THEN /\ Becomes(r, [req[r] EXCEPT !.pc = IF cash THEN "buyOrder" ELSE "buyDebit", !.user = u,
                           !.product = p, !.row = product[p], !.cash = cash,
                           !.amount = product[p].price])
            /\ UNCHANGED <<clock, tables>>
       ELSE Answer(r, "refused")

(* ... the balance is debited... *)
BuyDebit(r) ==
  LET q == req[r] IN
  /\ q.pc = "buyDebit"
  /\ \/ /\ user[q.user].exists /\ CanPay(q.user, q.amount)
        /\ MoveBalance(r, - q.amount)
        /\ Becomes(r, [q EXCEPT !.pc = "buyOrder", !.moved = - q.amount])
        /\ UNCHANGED <<clock, product, package, order, recharge>>
     \/ user[q.user].exists /\ ~CanPay(q.user, q.amount) /\ Answer(r, "refused")
     \/ ~user[q.user].exists /\ Answer(r, "error")

(* Faulty: the order is filled from the catalogue as it is now. *)
BuyOrderRereads(r) ==
  /\ req[r].pc = "buyOrder"
  /\ order' = [order EXCEPT ![r] = [user |-> req[r].user, amount |-> product[req[r].product].price,
                                    hours |-> req[r].row.hours]]
  /\ Becomes(r, [req[r] EXCEPT !.pc = "buyGrant"])
  /\ UNCHANGED <<clock, user, product, package, recharge>>

(* ... the order inserted... *)
BuyOrder(r) ==
  /\ req[r].pc = "buyOrder"
  /\ order' = [order EXCEPT ![r] = [user |-> req[r].user, amount |-> req[r].amount,
                                    hours |-> req[r].row.hours]]
  /\ Becomes(r, [req[r] EXCEPT !.pc = "buyGrant"])
  /\ UNCHANGED <<clock, user, product, package, recharge>>

(* ... and the hours granted. *)
BuyGrant(r) ==
  LET row == req[r].row IN
  /\ req[r].pc = "buyGrant"
  /\ package' = [package EXCEPT ![r] = [status |-> "active", user |-> req[r].user,
                    total |-> row.hours, left |-> row.hours, expire |-> clock + row.days]]
  /\ Return(r, "ok")
  /\ UNCHANGED <<clock, user, product, order, recharge>>

-----------------------------------------------------------------------------
(* SELECT ... WHERE status = 'active' AND remaining_hours > 0. *)
Spendable(u) == {p \in Packages : /\ package[p].user = u
                                  /\ package[p].status = "active"
                                  /\ package[p].left > 0}

(* Faulty: ORDER BY expire_at DESC. *)
LatestFirst(u) ==
  {turn \in [Spendable(u) -> 1..Cardinality(Spendable(u))] :
     \A p, q \in Spendable(u) : p # q =>
       /\ turn[p] # turn[q]
       /\ package[p].expire < package[q].expire => turn[p] > turn[q]}

(* ORDER BY expire_at ASC: packages that expire together come in any order. *)
SoonestFirst(u) ==
  {turn \in [Spendable(u) -> 1..Cardinality(Spendable(u))] :
     \A p, q \in Spendable(u) : p # q =>
       /\ turn[p] # turn[q]
       /\ package[p].expire < package[q].expire => turn[p] < turn[q]}

Expired(p) == package[p].expire < clock

(* Faulty: the need is not reduced by what earlier packages gave. *)
WholeNeed(turn, p, need) == need

(* What is still needed when the loop of ConsumeHoursTx comes to p. *)
StillNeeded(turn, p, need) ==
  need - SumFunctionOnSet([q \in Packages |-> package[q].left],
                          {q \in DOMAIN turn : turn[q] < turn[p] /\ ~Expired(q)})

(* What p gives. *)
Use(turn, p, need) ==
  IF Expired(p) THEN 0 ELSE Max({0, Min({StillNeeded(turn, p, need), package[p].left})})

(* Faulty: whatever is needed is taken from the package at hand. *)
RowAfterAll(turn, p, need) ==
  [package[p] EXCEPT !.left = @ - need, !.status = IF need < package[p].left THEN @ ELSE "used"]

(* The row after the loop: untouched unless its turn came while something was needed. *)
RowAfter(turn, p, need) ==
  LET row == package[p]  use == Use(turn, p, need) IN
  CASE StillNeeded(turn, p, need) =< 0 -> row
    [] StillNeeded(turn, p, need) > 0 /\ Expired(p) -> [row EXCEPT !.status = "expired"]
    [] OTHER -> [row EXCEPT !.left = Hundredths(row.left - use),
                            !.status = IF use = row.left THEN "used" ELSE row.status]

(* ConsumeHoursTx *)
AfterConsuming(turn, need) ==
  [p \in Packages |-> IF p \in DOMAIN turn THEN RowAfter(turn, p, need) ELSE package[p]]

(* splitBilling: the cost of the hours the packages did not give. *)
BalanceCost(turn, need) ==
  PricePerHour * Max({0, need - SumFunction([p \in DOMAIN turn |-> Use(turn, p, need)])})

(* Renew and End, ChargeWithinTx(nil, ...): the packages, committed on their own... *)
ChargePackages(r) ==
  /\ req[r].pc = "new"
  /\ \E u \in Users, need \in Needs : \E turn \in SoonestFirst(u) :
       LET cost == BalanceCost(turn, need)
           paid == [req[r] EXCEPT !.user = u, !.need = need, !.amount = cost]
       IN /\ package' = AfterConsuming(turn, need)
          /\ \/ cost = 0 /\ Becomes(r, [paid EXCEPT !.pc = "done", !.ans = "ok"])
             \/ cost > 0 /\ Becomes(r, [paid EXCEPT !.pc = "chargeBalance"])
  /\ UNCHANGED <<clock, user, product, order, recharge>>

(* ... then the balance. *)
ChargeBalance(r) ==
  LET q == req[r] IN
  /\ q.pc = "chargeBalance"
  /\ \/ /\ user[q.user].exists /\ CanPay(q.user, q.amount)
        /\ MoveBalance(r, - q.amount)
        /\ Becomes(r, [q EXCEPT !.pc = "done", !.ans = "ok", !.moved = - q.amount, !.amount = 0])
        /\ UNCHANGED <<clock, product, package, order, recharge>>
     \/ user[q.user].exists /\ ~CanPay(q.user, q.amount) /\ Answer(r, "refused")
     \/ ~user[q.user].exists /\ Answer(r, "error")

(* Verify, ChargeWithinTx(tx, ...): both in the transaction that has locked the member. *)
ScanCharge(r) ==
  /\ req[r].pc = "new"
  /\ \E u \in Users, need \in Needs : \E turn \in SoonestFirst(u) :
       LET cost == BalanceCost(turn, need) IN
       \/ /\ user[u].exists
          /\ cost = 0 \/ CanPay(u, cost)
          /\ package' = AfterConsuming(turn, need)
          /\ user' = IF cost = 0 THEN user ELSE [user EXCEPT ![u].balance = Cents(@ - cost)]
          /\ Becomes(r, [req[r] EXCEPT !.pc = "done", !.ans = "ok", !.user = u, !.need = need,
                                       !.moved = - cost])
          /\ UNCHANGED <<clock, product, order, recharge>>
       \/ user[u].exists /\ cost > 0 /\ ~CanPay(u, cost) /\ Answer(r, "refused")
       \/ ~user[u].exists /\ Answer(r, "error")

-----------------------------------------------------------------------------
(* UserService.Update reads the row... *)
EditRead(r) ==
  /\ req[r].pc = "new"
  /\ \E u \in Users :
       IF user[u].exists
       THEN /\ Becomes(r, [req[r] EXCEPT !.pc = "editSave", !.user = u, !.balance = user[u].balance])
            /\ UNCHANGED <<clock, tables>>
       ELSE Answer(r, "refused")

(* ... and saves all of it: the balance that was read, and the row itself if it is gone. *)
EditSave(r) ==
  LET q == req[r] IN
  /\ q.pc = "editSave"
  /\ user' = [user EXCEPT ![q.user] = [exists |-> TRUE, balance |-> q.balance]]
  /\ Becomes(r, [q EXCEPT !.pc = "done", !.ans = "ok", !.saved = TRUE])
  /\ UNCHANGED <<clock, product, package, order, recharge>>

DeleteUser(r) ==
  /\ req[r].pc = "new"
  /\ \E u \in Users :
       /\ user' = [user EXCEPT ![u] = [exists |-> FALSE, balance |-> 0]]
       /\ Becomes(r, [req[r] EXCEPT !.pc = "done", !.ans = "ok", !.user = u, !.saved = TRUE])
  /\ UNCHANGED <<clock, product, package, order, recharge>>

(* TimePackageService.Update: the same read and save of a catalogue row. *)
ProductRead(r) ==
  /\ req[r].pc = "new"
  /\ \E p \in Products, price \in Prices, status \in {"active", "disabled"} :
       IF product[p].status # "none"
       THEN /\ Becomes(r, [req[r] EXCEPT !.pc = "productSave", !.product = p,
                             !.row = [product[p] EXCEPT !.price = price, !.status = status]])
            /\ UNCHANGED <<clock, tables>>
       ELSE Answer(r, "refused")

ProductSave(r) ==
  /\ req[r].pc = "productSave"
  /\ product' = [product EXCEPT ![req[r].product] = req[r].row]
  /\ Return(r, "ok")
  /\ UNCHANGED <<clock, user, package, order, recharge>>

DeleteProduct(r) ==
  /\ req[r].pc = "new"
  /\ \E p \in Products : product' = [product EXCEPT ![p] = NoProduct]
  /\ Return(r, "ok")
  /\ UNCHANGED <<clock, user, package, order, recharge>>

-----------------------------------------------------------------------------
(* A statement fails or the server dies: what was committed stays. *)
Fail(r) == req[r].pc \notin {"new", "done"} /\ Answer(r, "error")

Tick == clock < MaxTime /\ clock' = clock + 1 /\ UNCHANGED <<tables, req>>

(* POST /recharges and /recharges/packages; PUT /users/:id and /packages/:id *)
Recharge(r)    == RechargeRead(r) \/ RechargeCredit(r) \/ RechargeRecord(r)
BuyPackage(r)  == BuyRead(r) \/ BuyDebit(r) \/ BuyOrder(r) \/ BuyGrant(r)
EditUser(r)    == EditRead(r) \/ EditSave(r)
EditProduct(r) == ProductRead(r) \/ ProductSave(r)

Serve(r) ==
  \/ "Recharge"      \in Ops /\ Recharge(r)
  \/ "BuyPackage"    \in Ops /\ BuyPackage(r)
  \/ "Charge"        \in Ops /\ (ChargePackages(r) \/ ChargeBalance(r))
  \/ "Scan"          \in Ops /\ ScanCharge(r)
  \/ "EditUser"      \in Ops /\ EditUser(r)
  \/ "DeleteUser"    \in Ops /\ DeleteUser(r)
  \/ "EditProduct"   \in Ops /\ EditProduct(r)
  \/ "DeleteProduct" \in Ops /\ DeleteProduct(r)

WalletNext == (\E r \in Requests : Serve(r) \/ Fail(r)) \/ Tick
WalletSpec == WalletInit /\ [][WalletNext]_vars

-----------------------------------------------------------------------------
(* The rows and what requests remember have the types of their columns: no balance and no *)
(* remaining hours below zero.                                                            *)
TypeOK ==
  /\ clock \in Nat
  /\ user \in [Users -> [exists : BOOLEAN, balance : Nat]]
  /\ product \in [Products -> ProductRows] /\ package \in [Packages -> PackageRows]
  /\ order \in [Requests -> OrderRows] /\ recharge \in [Requests -> Nat]
  /\ req \in [Requests -> RequestStates]

By(u)       == {r \in Requests : req[r].user = u}
Charges(u)  == {r \in By(u) : req[r].need > 0}
Bought(u)   == {p \in Packages : package[p].user = u}
Distance(a, b) == IF a < b THEN b - a ELSE a - b

(* As long as nobody has saved or deleted the user row, the balance is what the member had *)
(* plus every recharge minus every debit and charge, whatever interleaves: only the        *)
(* rounding of each write to the cent may show.                                            *)
Expected(u)     == Balance0[u] + SumFunctionOnSet([r \in Requests |-> req[r].moved], By(u))
BalanceIsExact(u) ==
  Distance(user[u].balance, Expected(u)) =< (Cent \div 2) * Cardinality(By(u))
Edited(u)       == \E r \in By(u) : req[r].saved
BalancesAddUp   == \A u \in Users : ~Edited(u) => BalanceIsExact(u)

Asked(u) == SumFunctionOnSet([r \in Requests |-> req[r].need], Charges(u))
Owing(u) == SumFunctionOnSet([r \in Requests |-> req[r].amount - req[r].moved], Charges(u))
Taken(u) == SumFunctionOnSet([p \in Packages |-> package[p].total - package[p].left], Bought(u))
TakenBefore(u) ==
  SumFunctionOnSet([p \in Owned |-> Owned0[p].total - Owned0[p].left], Owned \cap Bought(u))

(* Every hour that was charged is paid exactly once: it has left a package, or was taken *)
(* from the balance, or is still due by a charge that was refused, failed or goes on.    *)
(* Each save of a package may be off by half of a hundredth of an hour.                  *)
ChargedHoursArePaid ==
  \A u \in Users :
    LET drift == Cardinality(Charges(u)) * Cardinality(Bought(u))
    IN Distance((Taken(u) - TakenBefore(u)) * PricePerHour + Owing(u), Asked(u) * PricePerHour)
         =< drift * PricePerHour

(* Hours are only ever taken from a package that has not expired, and only when all that  *)
(* expires sooner has been used up.  A package does not come back to life.                *)
SoonestExpiryIsSpentFirst ==
  [][\A p \in Packages :
       /\ package'[p].left < package[p].left =>
            /\ ~Expired(p)
            /\ \A q \in Spendable(package[p].user) :
                 package[q].expire < package[p].expire =>
                   \/ package'[q].status = "expired"
                   \/ package'[q].left = 0
       /\ package[p].status \in {"expired", "used"} => package'[p] = package[p]]_vars

(* A granted package has an order with the same hours; unless it was paid in cash, its    *)
(* order names the amount taken from the balance.  Catalogue edits between the reading of *)
(* the product and the grant change none of it.                                           *)
GrantsAreOrderedAndPaid ==
  \A r \in Requests : package[r].status # "none" =>
    /\ order[r].user = package[r].user /\ order[r].hours = package[r].total
    /\ req[r].cash \/ req[r].moved = - order[r].amount

-----------------------------------------------------------------------------
(* What the documentation says and the code does not do. *)

(* recharge_service.go: the debit, the order and the grant of a purchase are one transaction. *)
PaidPackagesArrive ==
  \A r \in Requests :
    req[r].pc = "done" /\ req[r].product # Nil /\ req[r].moved < 0 => package[r].status # "none"
=============================================================================
