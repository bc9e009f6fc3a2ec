---------------------------- MODULE WalletProofs ----------------------------
(***************************************************************************)
(* What a member can spend, proved for any number of members, packages,    *)
(* products, requests and days.  The sums of Wallet are the ones of module *)
(* Sums: a step changes what one request, or the packages of one member,   *)
(* bring to them.                                                          *)
(***************************************************************************)
EXTENDS Wallet, Sums

(* The states in which a request knows its member, and those in which it has written nothing *)
(* to a balance.                                                                             *)
WithUser == {"rechargeCredit", "rechargeRecord", "buyDebit", "buyOrder", "buyGrant",
             "chargeBalance", "editSave"}
Unmoved  == {"new", "rechargeCredit", "buyDebit", "chargeBalance", "editSave", "productSave"}

(* What a request remembers at each of its steps. *)
Remembers(q) ==
  /\ q.pc = "new" => q = NewRequest
  /\ q.pc \in WithUser => q.user \in Users
  /\ q.pc = "productSave" => q.product \in Products
  /\ q.pc \in Unmoved => q.moved = 0
  /\ q.pc \in {"buyOrder", "buyGrant"} => q.cash \/ q.moved = - q.amount
  /\ q.need > 0 => q.pc \in {"chargeBalance", "done"}

(* The rows a request has inserted so far. *)
Inserted(r) ==
  /\ req[r].pc # "done" => package[r] = NoPackage
  /\ req[r].pc = "buyGrant" =>
       order[r] = [user |-> req[r].user, amount |-> req[r].amount, hours |-> req[r].row.hours]

RequestsInv == \A r \in Requests : Remembers(req[r]) /\ Inserted(r)

(* Each request writes a balance once, and may be off by the rounding of that one write. *)
Writers(u) == {r \in By(u) : req[r].pc \notin Unmoved}
BalancesInv ==
  \A u \in Users : ~Edited(u) =>
    Distance(user[u].balance, Expected(u)) =< (Cent \div 2) * Cardinality(Writers(u))

WalletInv ==
  TypeOK /\ RequestsInv /\ BalancesInv /\ ChargedHoursArePaid /\ GrantsAreOrderedAndPaid

-----------------------------------------------------------------------------
(* Numbers. *)

LEMMA MaxOfZero ==
  ASSUME NEW a \in Int
  PROVE  /\ Max({0, a}) \in Nat
         /\ a =< 0 => Max({0, a}) = 0
         /\ a >= 0 => Max({0, a}) = a
  <1> DEFINE M == Max({0, a})
  <1>1. \E x \in {0, a} : \A y \in {0, a} : x >= y
    <2>1. CASE a >= 0
      BY <2>1
    <2>2. CASE a < 0
      BY <2>2
    <2> QED
      BY <2>1, <2>2
  <1>2. M \in {0, a} /\ \A y \in {0, a} : M >= y
    BY <1>1 DEF Max
  <1>3. PICK m : m = M
    OBVIOUS
  <1>4. (m = 0 \/ m = a) /\ m >= 0 /\ m >= a
    BY <1>2, <1>3
  <1> HIDE DEF M
  <1>5. m \in Nat /\ (a =< 0 => m = 0) /\ (a >= 0 => m = a)
    BY <1>4
  <1> USE DEF M
  <1> QED
    BY <1>3, <1>5, SMTT(30)

LEMMA MinOfTwo ==
  ASSUME NEW a \in Int, NEW b \in Int
  PROVE  Min({a, b}) \in Int /\ Min({a, b}) = IF a =< b THEN a ELSE b
  <1> DEFINE M == Min({a, b})
  <1>1. \E x \in {a, b} : \A y \in {a, b} : x =< y
    <2>1. CASE a =< b
      BY <2>1
    <2>2. CASE b < a
      BY <2>2
    <2> QED
      BY <2>1, <2>2
  <1>2. M \in {a, b} /\ \A y \in {a, b} : M =< y
    BY <1>1 DEF Min
  <1>3. PICK m : m = M
    OBVIOUS
  <1>4. (m = a \/ m = b) /\ m =< a /\ m =< b
    BY <1>2, <1>3
  <1> HIDE DEF M
  <1>5. m \in Int /\ m = IF a =< b THEN a ELSE b
    BY <1>4
  <1> USE DEF M
  <1> QED
    BY <1>3, <1>5

(* A balance rounds to a natural number at most half a cent off. *)
LEMMA CentsNearby ==
  ASSUME NEW x \in Nat
  PROVE  Cents(x) \in Nat /\ Distance(Cents(x), x) =< 150
  <1>1. PICK k \in Int : k = (2 * x + 300) \div 600
    OBVIOUS
  <1>2. 600 * k =< 2 * x + 300 /\ 2 * x + 300 < 600 * k + 600
    BY <1>1
  <1>3. Cents(x) = k * 300
    BY <1>1 DEF Cents, Nearest, Cent
  <1>4. k >= 0
    BY <1>2
  <1> QED
    BY <1>2, <1>3, <1>4 DEF Distance

(* Remaining hours round to a natural number at most half of a hundredth off. *)
LEMMA HundredthsNearby ==
  ASSUME NEW x \in Nat
  PROVE  /\ Hundredths(x) \in Nat
         /\ Distance(Hundredths(x), x) =< 1
         /\ x = 0 => Hundredths(x) = 0
  <1>1. PICK k \in Int : k = (2 * x + 3) \div 6
    OBVIOUS
  <1>2. 6 * k =< 2 * x + 3 /\ 2 * x + 3 < 6 * k + 6
    BY <1>1
  <1>3. Hundredths(x) = k * 3
    BY <1>1 DEF Hundredths, Nearest, Hour
  <1>4. k >= 0
    BY <1>2
  <1> QED
    BY <1>2, <1>3, <1>4 DEF Distance

-----------------------------------------------------------------------------
(* What one request brings to the sums over the requests of a member. *)

USE WalletFiniteAssumption, WalletNamesAssumption, WalletNumbersAssumption

LEMMA ExpectedStep ==
  ASSUME req \in [Requests -> RequestStates], Balance0 \in [Users -> Nat],
         NEW r \in Requests, NEW s \in RequestStates, Becomes(r, s), NEW u \in Users
  PROVE  /\ Expected(u) \in Int
         /\ Expected(u)' = Expected(u) + ((IF s.user = u THEN s.moved ELSE 0)
                                          - (IF req[r].user = u THEN req[r].moved ELSE 0))
  <1>1. PICK f, e, T, V : /\ f = [x \in Requests |-> req[x].moved]
                          /\ e = [x \in Requests |-> (req[x].moved)']
                          /\ T = By(u) /\ V = By(u)'
    OBVIOUS
  <1>2. req' = [req EXCEPT ![r] = s] /\ s.moved \in Int /\ \A x \in Requests : req[x].moved \in Int
    BY DEF Becomes, RequestStates
  <1>3. T \subseteq Requests /\ V \subseteq Requests /\ T \ {r} = V \ {r}
    BY <1>1, <1>2 DEF By
  <1>4. /\ \A x \in Requests : f[x] \in Int /\ e[x] \in Int
        /\ \A x \in Requests \ {r} : e[x] = f[x]
    BY <1>1, <1>2
  <1>5. /\ SumFunctionOnSet(f, T) \in Int
        /\ SumFunctionOnSet(e, V) = SumFunctionOnSet(f, T)
             + ((IF r \in V THEN e[r] ELSE 0) - (IF r \in T THEN f[r] ELSE 0))
    BY <1>3, <1>4, SumMove, SMTT(30)
  <1>6. (r \in T <=> req[r].user = u) /\ (r \in V <=> s.user = u) /\ f[r] = req[r].moved /\ e[r] = s.moved
    BY <1>1, <1>2 DEF By
  <1>7. Expected(u) = Balance0[u] + SumFunctionOnSet(f, T) /\ Expected(u)' = Balance0[u] + SumFunctionOnSet(e, V)
    BY <1>1 DEF Expected
  <1>8. Balance0[u] \in Int
    OBVIOUS
  <1> QED
    BY <1>2, <1>5, <1>6, <1>7, <1>8

LEMMA ChargesStep ==
  ASSUME req \in [Requests -> RequestStates],
         NEW r \in Requests, NEW s \in RequestStates, Becomes(r, s), NEW u \in Users
  PROVE  /\ Asked(u) \in Int /\ Owing(u) \in Int
         /\ Asked(u)' = Asked(u) + ((IF s.user = u THEN s.need ELSE 0)
                                    - (IF req[r].user = u THEN req[r].need ELSE 0))
         /\ Owing(u)' = Owing(u)
              + ((IF s.user = u /\ s.need > 0 THEN s.amount - s.moved ELSE 0)
                 - (IF req[r].user = u /\ req[r].need > 0 THEN req[r].amount - req[r].moved ELSE 0))
  <1>1. PICK f, e, T, V : /\ f = [x \in Requests |-> req[x].need]
                          /\ e = [x \in Requests |-> (req[x].need)']
                          /\ T = Charges(u) /\ V = Charges(u)'
    OBVIOUS
  <1>2. PICK g, h : /\ g = [x \in Requests |-> req[x].amount - req[x].moved]
                    /\ h = [x \in Requests |-> (req[x].amount - req[x].moved)']
    OBVIOUS
  <1>3. req' = [req EXCEPT ![r] = s]
    BY DEF Becomes
  <1>4. /\ s.moved \in Int /\ s.need \in Nat /\ s.amount \in Nat
        /\ \A x \in Requests : req[x].moved \in Int /\ req[x].need \in Nat /\ req[x].amount \in Nat
    BY DEF RequestStates
  <1>5. T \subseteq Requests /\ V \subseteq Requests /\ T \ {r} = V \ {r}
    BY <1>1, <1>3 DEF By, Charges
  <1>6. /\ \A x \in Requests : f[x] \in Int /\ e[x] \in Int /\ g[x] \in Int /\ h[x] \in Int
        /\ \A x \in Requests \ {r} : e[x] = f[x] /\ h[x] = g[x]
    BY <1>1, <1>2, <1>3, <1>4
  <1>7. /\ SumFunctionOnSet(f, T) \in Int
        /\ SumFunctionOnSet(e, V) = SumFunctionOnSet(f, T)
             + ((IF r \in V THEN e[r] ELSE 0) - (IF r \in T THEN f[r] ELSE 0))
    BY <1>5, <1>6, SumMove, SMTT(30)
  <1>8. /\ SumFunctionOnSet(g, T) \in Int
        /\ SumFunctionOnSet(h, V) = SumFunctionOnSet(g, T)
             + ((IF r \in V THEN h[r] ELSE 0) - (IF r \in T THEN g[r] ELSE 0))
    BY <1>5, <1>6, SumMove, SMTT(30)
  <1>9. /\ r \in T <=> req[r].user = u /\ req[r].need > 0
        /\ r \in V <=> s.user = u /\ s.need > 0
        /\ f[r] = req[r].need /\ e[r] = s.need
        /\ g[r] = req[r].amount - req[r].moved /\ h[r] = s.amount - s.moved
    BY <1>1, <1>2, <1>3 DEF By, Charges
  <1>10. /\ Asked(u) = SumFunctionOnSet(f, T) /\ Asked(u)' = SumFunctionOnSet(e, V)
         /\ Owing(u) = SumFunctionOnSet(g, T) /\ Owing(u)' = SumFunctionOnSet(h, V)
    BY <1>1, <1>2 DEF Asked, Owing
  <1>11. /\ (IF r \in V THEN e[r] ELSE 0) = (IF s.user = u THEN s.need ELSE 0)
         /\ (IF r \in T THEN f[r] ELSE 0) = (IF req[r].user = u THEN req[r].need ELSE 0)
    BY <1>4, <1>9
  <1> QED
    BY <1>7, <1>8, <1>9, <1>10, <1>11

-----------------------------------------------------------------------------
(* The loop of ConsumeHoursTx. *)

LEMMA PackagesFinite == IsFiniteSet(Packages)
  BY FS_Union DEF Packages

LEMMA TurnIs ==
  ASSUME NEW u \in Users, NEW turn \in SoonestFirst(u)
  PROVE  /\ DOMAIN turn = Spendable(u) /\ DOMAIN turn \subseteq Packages /\ IsFiniteSet(DOMAIN turn)
         /\ \E n \in Nat : \A p \in DOMAIN turn : turn[p] \in 1..n
         /\ \A p, q \in DOMAIN turn : p # q => turn[p] # turn[q]
         /\ \A p, q \in DOMAIN turn :
              p # q /\ package[p].expire < package[q].expire => turn[p] < turn[q]
  <1>1. turn \in [Spendable(u) -> 1..Cardinality(Spendable(u))]
    BY DEF SoonestFirst
  <1>2. Spendable(u) \subseteq Packages /\ IsFiniteSet(Spendable(u))
    BY PackagesFinite, FS_Subset DEF Spendable
  <1>3. Cardinality(Spendable(u)) \in Nat
    BY <1>2, FS_CardinalityType
  <1> QED
    BY <1>1, <1>2, <1>3 DEF SoonestFirst

LEMMA InTurn ==
  ASSUME NEW u \in Users, NEW turn \in SoonestFirst(u), NEW p \in DOMAIN turn
  PROVE  /\ p \in Packages /\ package[p].user = u
         /\ package[p].status = "active" /\ package[p].left > 0
  <1>1. p \in Spendable(u)
    BY TurnIs
  <1> QED
    BY <1>1 DEF Spendable

(* What is still needed when the loop comes to a package, and what the package gives. *)
LEMMA UseIs ==
  ASSUME package \in [Packages -> PackageRows], NEW u \in Users, NEW turn \in SoonestFirst(u),
         NEW need \in Nat, NEW p \in DOMAIN turn
  PROVE  /\ StillNeeded(turn, p, need) \in Int
         /\ Use(turn, p, need) = IF Expired(p) \/ StillNeeded(turn, p, need) =< 0 THEN 0
                                 ELSE IF StillNeeded(turn, p, need) =< package[p].left
                                      THEN StillNeeded(turn, p, need) ELSE package[p].left
         /\ Use(turn, p, need) \in Nat /\ Use(turn, p, need) =< package[p].left
  <1>1. PICK f, T, n : /\ f = [q \in Packages |-> package[q].left]
                       /\ T = {q \in DOMAIN turn : turn[q] < turn[p] /\ ~Expired(q)}
                       /\ n = StillNeeded(turn, p, need)
    OBVIOUS
  <1>2. IsFiniteSet(T) /\ \A x \in T : f[x] \in Int
    <2>1. T \subseteq DOMAIN turn /\ DOMAIN turn \subseteq Packages /\ IsFiniteSet(DOMAIN turn)
      BY <1>1, TurnIs
    <2> QED
      BY <1>1, <2>1, FS_Subset DEF PackageRows
  <1>3. SumFunctionOnSet(f, T) \in Int
    BY <1>2, SumType
  <1>4. n \in Int
    BY <1>1, <1>3 DEF StillNeeded
  <1>5. package[p].left \in Nat
    BY TurnIs DEF PackageRows
  <1>6. PICK l : l = package[p].left
    OBVIOUS
  <1>7. PICK m : m = Min({n, l})
    OBVIOUS
  <1>8. m \in Int /\ m = IF n =< l THEN n ELSE l
    BY <1>4, <1>5, <1>6, <1>7, MinOfTwo
  <1>9. Max({0, m}) \in Nat /\ (m =< 0 => Max({0, m}) = 0) /\ (m >= 0 => Max({0, m}) = m)
    BY <1>8, MaxOfZero
  <1>10. Use(turn, p, need) = IF Expired(p) THEN 0 ELSE Max({0, m})
    BY <1>1, <1>6, <1>7 DEF Use
  <1>11. CASE Expired(p)
    BY <1>1, <1>4, <1>5, <1>10, <1>11
  <1>12. CASE ~Expired(p)
    BY <1>1, <1>4, <1>5, <1>6, <1>8, <1>9, <1>10, <1>12
  <1> QED
    BY <1>11, <1>12

(* Together the packages give what is needed or all they have, whichever is less. *)
LEMMA UsesAreNeeded ==
  ASSUME package \in [Packages -> PackageRows], NEW u \in Users, NEW turn \in SoonestFirst(u),
         NEW need \in Nat
  PROVE  LET given == SumFunction([p \in DOMAIN turn |-> Use(turn, p, need)])
         IN given \in Nat /\ given =< need
  <1>1. PICK D, lf, us : /\ D = DOMAIN turn
                         /\ lf = [q \in Packages |-> package[q].left]
                         /\ us = [q \in D |-> Use(turn, q, need)]
    OBVIOUS
  <1>2. D \subseteq Packages /\ IsFiniteSet(D)
    BY <1>1, TurnIs
  <1>3. \A q \in D : turn[q] \in Nat /\ turn[q] >= 1 /\ \A p \in D : p # q => turn[p] # turn[q]
    BY <1>1, TurnIs
  <1>4. (\A q \in Packages : lf[q] \in Nat) /\ \A q \in D : us[q] \in Nat
    <2>1. \A q \in D : Use(turn, q, need) \in Nat
      BY <1>1, UseIs
    <2> QED
      BY <1>1, <2>1 DEF PackageRows
  <1> DEFINE F(k) == {q \in D : turn[q] < k}
             Q(k) == {q \in D : turn[q] < k /\ ~Expired(q)}
             Good(k) == /\ SumFunctionOnSet(lf, Q(k)) \in Nat
                        /\ SumFunctionOnSet(us, F(k)) = IF SumFunctionOnSet(lf, Q(k)) =< need
                                                        THEN SumFunctionOnSet(lf, Q(k)) ELSE need
             B == {k \in Nat : ~Good(k)}
  <1>5. ASSUME B # {} PROVE FALSE
    <2>1. PICK n \in B : \A m \in B : ~(m < n)
      <3>1. B \in SUBSET Nat
        OBVIOUS
      <3> HIDE DEF B
      <3> QED
        BY <1>5, <3>1, LeastNat
    <2>2. n \in Nat /\ ~Good(n)
      BY <2>1
    <2>3. CASE n = 0
      <3>1. F(0) = {} /\ Q(0) = {}
        BY <1>3
      <3>2. SumFunctionOnSet(lf, {}) = 0 /\ SumFunctionOnSet(us, {}) = 0
        BY SumEmpty
      <3> QED
        BY <2>2, <2>3, <3>1, <3>2, SMTT(30)
    <2>4. CASE n # 0
      <3>1. PICK k \in Nat : n = k + 1
        BY <2>2, <2>4
      <3>2. Good(k)
        <4>1. k < n
          BY <3>1
        <4> HIDE DEF Good
        <4> QED
          BY <2>1, <4>1
      <3>3. CASE \A q \in D : turn[q] # k
        <4>1. F(n) = F(k) /\ Q(n) = Q(k)
          BY <1>3, <3>1, <3>3
        <4> QED
          BY <2>2, <3>2, <4>1
      <3>4. ASSUME NEW p \in D, turn[p] = k
            PROVE  FALSE
        <4>1. PICK Fk, Qk : Fk = F(k) /\ Qk = Q(k)
          OBVIOUS
        <4>2. F(n) = Fk \cup {p} /\ p \notin Fk /\ p \notin Qk
          BY <1>3, <3>1, <3>4, <4>1
        <4>3. Fk \subseteq D /\ Qk \subseteq D /\ IsFiniteSet(Fk) /\ IsFiniteSet(Qk)
          BY <1>2, <4>1, FS_Subset
        <4>4. PICK A, U : A = SumFunctionOnSet(lf, Qk) /\ U = SumFunctionOnSet(us, Fk)
          OBVIOUS
        <4>5. A \in Nat /\ U = IF A =< need THEN A ELSE need
          BY <3>2, <4>1, <4>4
        <4>6. SumFunctionOnSet(us, F(n)) = U + us[p]
          <5>1. \A y \in Fk \cup {p} : us[y] \in Int
            BY <1>4, <4>3
          <5>2. SumFunctionOnSet(us, Fk \cup {p}) = SumFunctionOnSet(us, Fk) + us[p]
            BY <4>2, <4>3, <5>1, SumAdd
          <5> QED
            BY <4>2, <4>4, <5>2
        <4>7. StillNeeded(turn, p, need) = need - A
          <5>1. Qk = {q \in DOMAIN turn : turn[q] < turn[p] /\ ~Expired(q)}
            BY <1>1, <3>4, <4>1
          <5> QED
            BY <1>1, <4>4, <5>1 DEF StillNeeded
        <4>8. us[p] = IF Expired(p) \/ need - A =< 0 THEN 0
                      ELSE IF need - A =< lf[p] THEN need - A ELSE lf[p]
          <5>1. Use(turn, p, need) = IF Expired(p) \/ StillNeeded(turn, p, need) =< 0 THEN 0
                                     ELSE IF StillNeeded(turn, p, need) =< package[p].left
                                          THEN StillNeeded(turn, p, need) ELSE package[p].left
            BY <1>1, UseIs
          <5>2. us[p] = Use(turn, p, need) /\ lf[p] = package[p].left
            BY <1>1, <1>2
          <5> QED
            BY <4>7, <5>1, <5>2
        <4>9. CASE Expired(p)
          <5>1. Q(n) = Qk
            BY <1>3, <3>1, <3>4, <4>1, <4>9
          <5>2. us[p] = 0
            BY <4>8, <4>9
          <5>3. SumFunctionOnSet(lf, Q(n)) = A
            BY <4>4, <5>1
          <5>4. SumFunctionOnSet(us, F(n)) = U
            BY <4>5, <4>6, <5>2
          <5> QED
            BY <2>2, <4>5, <5>3, <5>4
        <4>10. CASE ~Expired(p)
          <5>1. Q(n) = Qk \cup {p}
            BY <1>3, <3>1, <3>4, <4>1, <4>10
          <5>2. \A y \in Qk \cup {p} : lf[y] \in Int
            BY <1>2, <1>4, <4>3
          <5>3. SumFunctionOnSet(lf, Qk \cup {p}) = SumFunctionOnSet(lf, Qk) + lf[p]
            BY <4>2, <4>3, <5>2, SumAdd
          <5>4. SumFunctionOnSet(lf, Q(n)) = A + lf[p] /\ lf[p] \in Nat
            BY <1>2, <1>4, <4>4, <5>1, <5>3
          <5>5. us[p] = IF need - A =< 0 THEN 0 ELSE IF need - A =< lf[p] THEN need - A ELSE lf[p]
            BY <4>8, <4>10
          <5>6. U + us[p] = IF A + lf[p] =< need THEN A + lf[p] ELSE need
            BY <4>5, <5>4, <5>5
          <5>7. PICK a, w : a = SumFunctionOnSet(lf, Q(n)) /\ w = SumFunctionOnSet(us, F(n))
            OBVIOUS
          <5>8. a \in Nat /\ w = IF a =< need THEN a ELSE need
            BY <4>5, <4>6, <5>4, <5>6, <5>7
          <5> QED
            BY <2>2, <5>7, <5>8
        <4> QED
          BY <4>9, <4>10
      <3> QED
        BY <3>3, <3>4
    <2> QED
      BY <2>3, <2>4
  <1>6. PICK n \in Nat : \A p \in D : turn[p] < n
    <2>1. PICK n \in Nat : \A p \in DOMAIN turn : turn[p] \in 1..n
      BY TurnIs
    <2>2. n + 1 \in Nat /\ \A p \in D : turn[p] < n + 1
      BY <1>1, <2>1
    <2> QED
      BY <2>2
  <1>7. Good(n)
    BY <1>5
  <1>8. F(n) = D
    BY <1>6
  <1>9. SumFunctionOnSet(us, D) \in Nat /\ SumFunctionOnSet(us, D) =< need
    BY <1>7, <1>8, SMTT(30)
  <1> QED
    BY <1>1, <1>9 DEF SumFunction

(* The row of a package after its turn. *)
LEMMA RowIs ==
  ASSUME package \in [Packages -> PackageRows], NEW u \in Users, NEW turn \in SoonestFirst(u),
         NEW need \in Nat, NEW p \in DOMAIN turn
  PROVE  LET row == package[p]  after == RowAfter(turn, p, need)  use == Use(turn, p, need)
             needed == StillNeeded(turn, p, need)
         IN /\ after \in PackageRows /\ after.status # "none"
            /\ after.user = row.user /\ after.total = row.total
            /\ Distance(row.left - after.left, use) =< 1
            /\ needed =< 0 => after = row
            /\ needed > 0 /\ Expired(p) => after = [row EXCEPT !.status = "expired"]
            /\ needed > 0 /\ ~Expired(p) /\ use = row.left => after.left = 0
  <1>1. PICK row, use, needed : /\ row = package[p] /\ use = Use(turn, p, need)
                                /\ needed = StillNeeded(turn, p, need)
    OBVIOUS
  <1>2. row \in PackageRows /\ row.status = "active" /\ row.left \in Nat
    <2>1. p \in Spendable(u)
      BY TurnIs
    <2> QED
      BY <1>1, <2>1 DEF Spendable, PackageRows
  <1>3. /\ needed \in Int /\ use \in Nat /\ use =< row.left
        /\ use = IF Expired(p) \/ needed =< 0 THEN 0 ELSE IF needed =< row.left THEN needed ELSE row.left
    BY <1>1, UseIs
  <1>4. CASE needed =< 0
    <2>1. RowAfter(turn, p, need) = row
      <3>1. ~(needed > 0)
        BY <1>3, <1>4
      <3> QED
        BY <1>1, <1>4, <3>1, Zenon DEF RowAfter
    <2> QED
      BY <1>1, <1>2, <1>3, <1>4, <2>1 DEF Distance
  <1>5. CASE needed > 0 /\ Expired(p)
    <2>1. RowAfter(turn, p, need) = [row EXCEPT !.status = "expired"]
      <3>1. ~(needed =< 0)
        BY <1>3, <1>5
      <3> QED
        BY <1>1, <1>5, <3>1, Zenon DEF RowAfter
    <2>2. PICK after : after = [row EXCEPT !.status = "expired"]
      OBVIOUS
    <2>3. /\ after \in PackageRows /\ after.status # "none"
          /\ after.user = row.user /\ after.total = row.total /\ after.left = row.left
      BY <1>2, <2>2 DEF PackageRows
    <2> QED
      BY <1>1, <1>2, <1>3, <1>5, <2>1, <2>2, <2>3 DEF Distance
  <1>6. CASE needed > 0 /\ ~Expired(p)
    <2>1. PICK left, status : left = Hundredths(row.left - use) /\ status = IF use = row.left THEN "used" ELSE row.status
      OBVIOUS
    <2>2. RowAfter(turn, p, need) = [row EXCEPT !.left = left, !.status = status]
      <3>1. ~(needed =< 0)
        BY <1>3, <1>6
      <3> QED
        BY <1>1, <1>6, <2>1, <3>1, Zenon DEF RowAfter
    <2>3. PICK rest \in Nat : rest = row.left - use
      BY <1>2, <1>3
    <2>4. left \in Nat /\ Distance(left, rest) =< 1 /\ (rest = 0 => left = 0)
      BY <2>1, <2>3, HundredthsNearby
    <2>5. PICK after : after = [row EXCEPT !.left = left, !.status = status]
      OBVIOUS
    <2>6. status \in {"active", "used"}
      BY <1>2, <2>1
    <2>7. /\ after \in PackageRows /\ after.status # "none"
          /\ after.user = row.user /\ after.total = row.total /\ after.left = left
      BY <1>2, <2>4, <2>5, <2>6 DEF PackageRows
    <2>8. Distance(row.left - after.left, use) =< 1
      BY <1>2, <1>3, <2>3, <2>4, <2>7 DEF Distance
    <2>9. use = row.left => after.left = 0
      BY <1>2, <2>3, <2>4, <2>7
    <2> QED
      BY <1>1, <1>3, <1>6, <2>2, <2>5, <2>7, <2>8, <2>9
  <1> QED
    BY <1>3, <1>4, <1>5, <1>6

(* The packages of the member pay for what was given, to a hundredth of an hour each; all *)
(* others stay as they are.                                                               *)
LEMMA ConsumingIs ==
  ASSUME package \in [Packages -> PackageRows], NEW u \in Users, NEW turn \in SoonestFirst(u),
         NEW need \in Nat, package' = AfterConsuming(turn, need)
  PROVE  /\ package' \in [Packages -> PackageRows]
         /\ \A p \in Packages : /\ package'[p].user = package[p].user
                                /\ package'[p].total = package[p].total
                                /\ package'[p].status = "none" <=> package[p].status = "none"
                                /\ package[p].status # "active" => package'[p] = package[p]
         /\ \A p \in DOMAIN turn : package'[p] = RowAfter(turn, p, need)
         /\ \A p \in Packages \ DOMAIN turn : package'[p] = package[p]
  <1>1. DOMAIN turn \subseteq Packages /\ \A p \in DOMAIN turn : package[p].status = "active"
    BY InTurn
  <1>2. \A p \in DOMAIN turn : package'[p] = RowAfter(turn, p, need)
    BY <1>1 DEF AfterConsuming
  <1>3. \A p \in Packages \ DOMAIN turn : package'[p] = package[p]
    BY DEF AfterConsuming
  <1>4. ASSUME NEW p \in DOMAIN turn
        PROVE  /\ package'[p] \in PackageRows /\ package'[p].status # "none"
               /\ package'[p].user = package[p].user /\ package'[p].total = package[p].total
    BY <1>2, RowIs
  <1>5. package' = [p \in Packages |-> package'[p]]
    BY DEF AfterConsuming
  <1>6. \A p \in Packages : package'[p] \in PackageRows
    BY <1>3, <1>4
  <1>7. package' \in [Packages -> PackageRows]
    BY <1>5, <1>6
  <1> QED
    BY <1>1, <1>2, <1>3, <1>4, <1>7

LEMMA TakenIs ==
  ASSUME package \in [Packages -> PackageRows], NEW u \in Users, NEW turn \in SoonestFirst(u),
         NEW need \in Nat, package' = AfterConsuming(turn, need)
  PROVE  /\ Taken(u) \in Int /\ Taken(u)' \in Int
         /\ Distance(Taken(u)' - Taken(u), SumFunction([p \in DOMAIN turn |-> Use(turn, p, need)]))
              =< Cardinality(Bought(u))
         /\ \A v \in Users : Bought(v)' = Bought(v) /\ (v # u => Taken(v)' = Taken(v))
  <1>1. PICK f, e, S, D, us : /\ f = [p \in Packages |-> package[p].total - package[p].left]
                              /\ e = [p \in Packages |-> (package[p].total - package[p].left)']
                              /\ S = Bought(u) /\ D = DOMAIN turn
                              /\ us = [p \in D |-> Use(turn, p, need)]
    OBVIOUS
  <1>2. S \subseteq Packages /\ D \subseteq S /\ IsFiniteSet(S)
    <2>1. S \subseteq Packages /\ \A p \in D : p \in Packages /\ package[p].user = u
      BY <1>1, InTurn DEF Bought
    <2>2. D \subseteq S
      BY <1>1, <2>1 DEF Bought
    <2> QED
      BY <2>1, <2>2, PackagesFinite, FS_Subset
  <1>3. \A p \in Packages : f[p] \in Int /\ e[p] \in Int
    BY <1>1, ConsumingIs DEF PackageRows
  <1>4. \A v \in Users : Bought(v)' = Bought(v)
    BY ConsumingIs DEF Bought
  <1>5. PICK w, g, one, more : /\ w = [p \in Packages |-> IF p \in D THEN us[p] ELSE 0]
                               /\ g = [p \in Packages |-> f[p] + w[p]]
                               /\ one = [p \in Packages |-> 1]
                               /\ more = [p \in Packages |-> e[p] + one[p]]
    OBVIOUS
  <1>6. PICK gmore : gmore = [p \in Packages |-> g[p] + one[p]]
    OBVIOUS
  <1>7. \A p \in D : us[p] \in Nat
    BY <1>1, UseIs
  <1>8. \A p \in S : w[p] \in Int /\ g[p] \in Int /\ one[p] \in Int /\ more[p] \in Int /\ gmore[p] \in Int
    BY <1>2, <1>3, <1>5, <1>6, <1>7
  <1>9. \A p \in S : e[p] =< gmore[p] /\ g[p] =< more[p]
    <2> TAKE p \in S
    <2>1. CASE p \in D
      <3>1. PICK row, after : row = package[p] /\ after = package'[p]
        OBVIOUS
      <3>2. after = RowAfter(turn, p, need)
        BY <1>1, <2>1, <3>1, ConsumingIs
      <3>3. Distance(row.left - after.left, us[p]) =< 1 /\ after.total = row.total
        BY <1>1, <2>1, <3>1, <3>2, RowIs
      <3>4. row.left \in Nat /\ row.total \in Nat /\ after.left \in Nat
        BY <1>2, <3>1, ConsumingIs DEF PackageRows
      <3>5. us[p] \in Nat
        BY <1>7, <2>1
      <3>6. f[p] = row.total - row.left /\ e[p] = row.total - after.left
        BY <1>1, <1>2, <3>1, <3>3
      <3>7. w[p] = us[p] /\ gmore[p] = f[p] + us[p] + 1 /\ g[p] = f[p] + us[p] /\ more[p] = e[p] + 1
        BY <1>2, <1>5, <1>6, <2>1
      <3> QED
        BY <3>3, <3>4, <3>5, <3>6, <3>7 DEF Distance
    <2>2. CASE p \notin D
      <3>1. package'[p] = package[p]
        BY <1>1, <1>2, <2>2, ConsumingIs
      <3>2. e[p] = f[p] /\ f[p] \in Int
        BY <1>1, <1>2, <1>3, <3>1
      <3>3. gmore[p] = f[p] + 0 + 1 /\ g[p] = f[p] + 0 /\ more[p] = e[p] + 1
        BY <1>2, <1>5, <1>6, <2>2
      <3> QED
        BY <3>2, <3>3
    <2> QED
      BY <2>1, <2>2
  <1>10. SumFunctionOnSet(g, S) = SumFunctionOnSet(f, S) + SumFunctionOnSet(w, S)
    <2>1. \A p \in S : f[p] \in Int /\ w[p] \in Int /\ g[p] = f[p] + w[p]
      BY <1>2, <1>3, <1>5, <1>8
    <2> QED
      BY <1>2, <2>1, SumPlus
  <1>11. SumFunctionOnSet(gmore, S) = SumFunctionOnSet(g, S) + SumFunctionOnSet(one, S)
    <2>1. \A p \in S : g[p] \in Int /\ one[p] \in Int /\ gmore[p] = g[p] + one[p]
      BY <1>2, <1>6, <1>8
    <2> QED
      BY <1>2, <2>1, SumPlus
  <1>12. SumFunctionOnSet(more, S) = SumFunctionOnSet(e, S) + SumFunctionOnSet(one, S)
    <2>1. \A p \in S : e[p] \in Int /\ one[p] \in Int /\ more[p] = e[p] + one[p]
      BY <1>2, <1>3, <1>5, <1>8
    <2> QED
      BY <1>2, <2>1, SumPlus
  <1>13. SumFunctionOnSet(one, S) = Cardinality(S) /\ Cardinality(S) \in Nat
    <2>1. \A p \in S : one[p] = 1
      BY <1>2, <1>5
    <2> QED
      BY <1>2, <2>1, SumOnes, FS_CardinalityType
  <1>14. SumFunctionOnSet(us, D) = SumFunctionOnSet(w, S)
    <2>1. (\A p \in D : us[p] \in Int) /\ \A p \in S : w[p] = IF p \in D THEN us[p] ELSE 0
      BY <1>2, <1>5, <1>7
    <2> QED
      BY <1>2, <2>1, SumMask
  <1>15. /\ SumFunctionOnSet(e, S) =< SumFunctionOnSet(gmore, S)
         /\ SumFunctionOnSet(g, S) =< SumFunctionOnSet(more, S)
    <2>1. \A p \in S : e[p] \in Int
      BY <1>2, <1>3
    <2> QED
      BY <1>2, <1>8, <1>9, <2>1, SumLessOrEqual
  <1>16. SumFunctionOnSet(f, S) \in Int /\ SumFunctionOnSet(e, S) \in Int /\ SumFunctionOnSet(w, S) \in Int
    <2>1. \A p \in S : f[p] \in Int /\ e[p] \in Int /\ w[p] \in Int
      BY <1>2, <1>3, <1>8
    <2> QED
      BY <1>2, <2>1, SumType
  <1>17. Taken(u) = SumFunctionOnSet(f, S) /\ Taken(u)' = SumFunctionOnSet(e, S)
    BY <1>1, <1>4 DEF Taken
  <1>18. SumFunction([p \in DOMAIN turn |-> Use(turn, p, need)]) = SumFunctionOnSet(us, D)
    BY <1>1 DEF SumFunction
  <1>19. Distance(SumFunctionOnSet(e, S) - SumFunctionOnSet(f, S), SumFunctionOnSet(us, D)) =< Cardinality(S)
    BY <1>10, <1>11, <1>12, <1>13, <1>14, <1>15, <1>16 DEF Distance
  <1>20. ASSUME NEW v \in Users, v # u
         PROVE  Taken(v)' = Taken(v)
    <2>1. PICK R : R = Bought(v)
      OBVIOUS
    <2>2. R \subseteq Packages /\ R \cap D = {} /\ IsFiniteSet(R)
      <3>1. R \subseteq Packages /\ \A p \in R : package[p].user = v
        BY <2>1 DEF Bought
      <3>2. \A p \in D : package[p].user = u
        BY <1>1, InTurn
      <3> QED
        BY <1>20, <3>1, <3>2, PackagesFinite, FS_Subset
    <2>3. \A p \in R : e[p] = f[p]
      <3>1. \A p \in R : package'[p] = package[p]
        BY <1>1, <2>2, ConsumingIs
      <3> QED
        BY <1>1, <2>2, <3>1
    <2>4. SumFunctionOnSet(e, R) = SumFunctionOnSet(f, R)
      BY <2>2, <2>3, SumCongruent
    <2> QED
      BY <1>1, <1>4, <2>1, <2>4 DEF Taken
  <1> QED
    BY <1>1, <1>4, <1>16, <1>17, <1>18, <1>19, <1>20

-----------------------------------------------------------------------------
(* What a request does to each part of the invariant. *)

LEMMA NewRequestIs ==
  NewRequest.user = Nil /\ NewRequest.moved = 0 /\ NewRequest.amount = 0 /\ NewRequest.need = 0
    /\ NewRequest.saved = FALSE /\ NewRequest.pc = "new" /\ NewRequest.cash = FALSE
  BY DEF NewRequest

(* Rows and memories, by a request that inserts no order and no package. *)
LEMMA RowsKept ==
  ASSUME req \in [Requests -> RequestStates], RequestsInv, GrantsAreOrderedAndPaid,
         NEW r \in Requests, req[r].pc # "done", NEW s \in RequestStates, Becomes(r, s),
         Remembers(s), s.pc # "buyGrant", order' = order,
         \A p \in Packages : /\ package'[p].user = package[p].user
                             /\ package'[p].total = package[p].total
                             /\ package'[p].status = "none" <=> package[p].status = "none"
                             /\ package[p].status # "active" => package'[p] = package[p]
  PROVE  RequestsInv' /\ GrantsAreOrderedAndPaid'
  <1>1. req' = [req EXCEPT ![r] = s] /\ req'[r] = s /\ \A x \in Requests \ {r} : req'[x] = req[x]
    BY DEF Becomes
  <1>2. \A x \in Requests : x \in Packages
    BY DEF Packages
  <1>3. NoPackage.status = "none"
    BY DEF NoPackage
  <1>4. package[r] = NoPackage /\ package'[r] = NoPackage
    BY <1>2, <1>3 DEF RequestsInv, Inserted
  <1>5. ASSUME NEW x \in Requests
        PROVE  Remembers(req'[x]) /\ Inserted(x)'
    <2>1. CASE x = r
      BY <1>1, <1>4, <2>1 DEF Inserted
    <2>2. CASE x # r
      <3>1. Remembers(req[x]) /\ Inserted(x) /\ req'[x] = req[x]
        BY <1>1, <2>2 DEF RequestsInv
      <3>2. package[x] = NoPackage => package'[x] = NoPackage
        BY <1>2, <1>3
      <3> QED
        BY <3>1, <3>2 DEF Inserted
    <2> QED
      BY <2>1, <2>2
  <1>6. RequestsInv'
    BY <1>5 DEF RequestsInv
  <1>7. GrantsAreOrderedAndPaid'
    <2>1. ASSUME NEW x \in Requests, package'[x].status # "none"
          PROVE  /\ order'[x].user = package'[x].user /\ order'[x].hours = package'[x].total
                 /\ req'[x].cash \/ req'[x].moved = - order'[x].amount
      <3>1. x # r
        BY <1>3, <1>4, <2>1
      <3>2. package[x].status # "none" /\ package'[x].user = package[x].user /\ package'[x].total = package[x].total
        BY <1>2, <2>1
      <3> QED
        BY <1>1, <3>1, <3>2 DEF GrantsAreOrderedAndPaid
    <2> QED
      BY <2>1 DEF GrantsAreOrderedAndPaid
  <1> QED
    BY <1>6, <1>7

(* A balance that does not change. *)
LEMMA WritersIs ==
  ASSUME req \in [Requests -> RequestStates], NEW r \in Requests, NEW s, Becomes(r, s), NEW u \in Users,
         req[r].user = u => s.user = u, req[r].pc \notin Unmoved => s.pc \notin Unmoved
  PROVE  /\ Cardinality(Writers(u)) \in Nat /\ Cardinality(Writers(u)') \in Nat
         /\ Cardinality(Writers(u)) =< Cardinality(Writers(u)')
         /\ req[r].pc \in Unmoved /\ s.pc \notin Unmoved /\ s.user = u =>
              Cardinality(Writers(u)') = Cardinality(Writers(u)) + 1
  <1>1. PICK T, V : T = Writers(u) /\ V = Writers(u)'
    OBVIOUS
  <1>2. req'[r] = s /\ \A x \in Requests \ {r} : req'[x] = req[x]
    BY DEF Becomes
  <1>3. T \subseteq Requests /\ V \subseteq Requests /\ T \subseteq V
    BY <1>1, <1>2 DEF Writers, By
  <1>4. IsFiniteSet(T) /\ IsFiniteSet(V)
    BY <1>3, FS_Subset
  <1>5. Cardinality(T) \in Nat /\ Cardinality(V) \in Nat /\ Cardinality(T) =< Cardinality(V)
    BY <1>3, <1>4, FS_CardinalityType, FS_Subset
  <1>6. ASSUME req[r].pc \in Unmoved, s.pc \notin Unmoved, s.user = u
        PROVE  Cardinality(V) = Cardinality(T) + 1
    <2>1. r \notin T /\ V = T \cup {r}
      BY <1>1, <1>2, <1>6 DEF Writers, By
    <2> QED
      BY <1>4, <2>1, FS_AddElement
  <1> QED
    BY <1>1, <1>5, <1>6

LEMMA EditedStays ==
  ASSUME req \in [Requests -> RequestStates], NEW r \in Requests, NEW s, Becomes(r, s), NEW u \in Users,
         req[r].user = u => s.user = u, req[r].saved => s.saved, Edited(u)
  PROVE  Edited(u)'
  <1>1. req'[r] = s /\ \A x \in Requests \ {r} : req'[x] = req[x]
    BY DEF Becomes
  <1> QED
    BY <1>1 DEF Edited, By

LEMMA BalancesKept ==
  ASSUME req \in [Requests -> RequestStates], user \in [Users -> [exists : BOOLEAN, balance : Nat]],
         Balance0 \in [Users -> Nat], BalancesInv,
         NEW r \in Requests, NEW s \in RequestStates, Becomes(r, s),
         \A v \in Users : (s.saved /\ s.user = v) \/ user'[v].balance = user[v].balance,
         s.moved = req[r].moved,
         s.user = req[r].user \/ (req[r].user = Nil /\ s.moved = 0),
         req[r].saved => s.saved, req[r].pc \notin Unmoved => s.pc \notin Unmoved
  PROVE  BalancesInv'
  <1>1. ASSUME NEW u \in Users, ~Edited(u)'
        PROVE  (Distance(user[u].balance, Expected(u)) =< 150 * Cardinality(Writers(u)))'
    <2>1. req[r].user = u => s.user = u
      OBVIOUS
    <2>2. ~Edited(u)
      BY <1>1, <2>1, EditedStays
    <2>3. ~(s.saved /\ s.user = u)
      <3>1. req'[r] = s
        BY DEF Becomes
      <3> QED
        BY <1>1, <3>1 DEF Edited, By
    <2>4. user'[u].balance = user[u].balance
      BY <2>3
    <2>5. Expected(u) \in Int /\ Expected(u)' = Expected(u)
      <3>1. /\ Expected(u) \in Int
            /\ Expected(u)' = Expected(u) + ((IF s.user = u THEN s.moved ELSE 0)
                                          - (IF req[r].user = u THEN req[r].moved ELSE 0))
        BY ExpectedStep
      <3>2. (IF s.user = u THEN s.moved ELSE 0) = (IF req[r].user = u THEN req[r].moved ELSE 0)
        OBVIOUS
      <3>3. (IF req[r].user = u THEN req[r].moved ELSE 0) \in Int
        BY DEF RequestStates
      <3> QED
        BY <3>1, <3>2, <3>3
    <2>6. /\ Cardinality(Writers(u)) \in Nat /\ Cardinality(Writers(u)') \in Nat
          /\ Cardinality(Writers(u)) =< Cardinality(Writers(u)')
      BY <2>1, WritersIs
    <2>7. Distance(user[u].balance, Expected(u)) =< 150 * Cardinality(Writers(u))
      BY <2>2 DEF BalancesInv, Cent
    <2>8. PICK n, m : n = Cardinality(Writers(u)) /\ m = Cardinality(Writers(u)')
      OBVIOUS
    <2>9. Distance(user[u].balance, Expected(u)) \in Int
      BY <2>5 DEF Distance
    <2>10. Distance(user[u].balance, Expected(u)) =< 150 * m
      BY <2>6, <2>7, <2>8, <2>9
    <2> QED
      BY <2>4, <2>5, <2>8, <2>10 DEF Distance
  <1> QED
    BY <1>1 DEF BalancesInv, Cent

(* A balance that is credited or debited. *)
LEMMA BalancesMoved ==
  ASSUME req \in [Requests -> RequestStates], user \in [Users -> [exists : BOOLEAN, balance : Nat]],
         Balance0 \in [Users -> Nat], BalancesInv,
         NEW r \in Requests, NEW s \in RequestStates, Becomes(r, s),
         NEW v \in Users, NEW d \in Int, user[v].balance + d >= 0,
         user' = [user EXCEPT ![v].balance = Cents(@ + d)],
         s.user = v, s.moved = d, req[r].moved = 0, req[r].user \in {v, Nil},
         req[r].saved => s.saved, req[r].pc \in Unmoved, s.pc \notin Unmoved
  PROVE  BalancesInv' /\ user' \in [Users -> [exists : BOOLEAN, balance : Nat]]
  <1>1. PICK b \in Nat : b = user[v].balance + d
    OBVIOUS
  <1>2. Cents(b) \in Nat /\ Distance(Cents(b), b) =< 150
    BY CentsNearby
  <1>3. PICK c \in Nat : c = Cents(b)
    BY <1>2
  <1>4. user' = [user EXCEPT ![v].balance = c]
    BY <1>1, <1>3
  <1>5. user' \in [Users -> [exists : BOOLEAN, balance : Nat]]
    BY <1>4
  <1>6. user'[v].balance = c /\ \A u \in Users \ {v} : user'[u].balance = user[u].balance
    BY <1>4
  <1>7. ASSUME NEW u \in Users, ~Edited(u)'
        PROVE  (Distance(user[u].balance, Expected(u)) =< 150 * Cardinality(Writers(u)))'
    <2>1. req[r].user = u => s.user = u
      OBVIOUS
    <2>2. ~Edited(u)
      BY <1>7, <2>1, EditedStays
    <2>3. PICK n, m, x, y : /\ n = Cardinality(Writers(u)) /\ m = Cardinality(Writers(u)')
                            /\ x = Expected(u) /\ y = Expected(u)'
      OBVIOUS
    <2>4. x \in Int /\ y = x + ((IF s.user = u THEN s.moved ELSE 0)
                                - (IF req[r].user = u THEN req[r].moved ELSE 0))
      BY <2>3, ExpectedStep
    <2>5. y = IF u = v THEN x + d ELSE x
      BY <2>4
    <2>6. n \in Nat /\ m \in Nat /\ n =< m /\ (u = v => m = n + 1)
      BY <2>1, <2>3, WritersIs
    <2>7. Distance(user[u].balance, x) =< 150 * n
      BY <2>2, <2>3 DEF BalancesInv, Cent
    <2>8. CASE u = v
      <3>1. Distance(user[v].balance, x) =< 150 * n /\ user[v].balance \in Nat
        BY <2>7, <2>8
      <3>2. Distance(c, b) =< 150
        BY <1>2, <1>3
      <3>3. Distance(c, x + d) =< 150 * n + 150
        BY <1>1, <2>4, <2>6, <3>1, <3>2 DEF Distance
      <3>4. Distance(user'[u].balance, y) =< 150 * m
        BY <1>6, <2>5, <2>6, <2>8, <3>3
      <3> QED
        BY <2>3, <3>4 DEF Distance
    <2>9. CASE u # v
      <3>1. user'[u].balance = user[u].balance /\ user[u].balance \in Nat /\ y = x
        BY <1>6, <2>5, <2>9
      <3>2. Distance(user'[u].balance, y) =< 150 * m
        BY <2>4, <2>6, <2>7, <3>1 DEF Distance
      <3> QED
        BY <2>3, <3>2 DEF Distance
    <2> QED
      BY <2>8, <2>9
  <1>8. BalancesInv'
    BY <1>7 DEF BalancesInv, Cent
  <1> QED
    BY <1>5, <1>8

(* The balance of hours asked, taken and owed. *)
Paid(T, B, O, A, C, K, P) == Distance((T - B) * P + O, A * P) =< (C * K) * P

LEMMA ChargedIs ==
  ChargedHoursArePaid <=>
    \A u \in Users : Paid(Taken(u), TakenBefore(u), Owing(u), Asked(u),
                          Cardinality(Charges(u)), Cardinality(Bought(u)), PricePerHour)
  BY DEF ChargedHoursArePaid, Paid

LEMMA PaidWider ==
  ASSUME NEW T \in Int, NEW B \in Int, NEW O \in Int, NEW A \in Int, NEW C \in Nat, NEW K \in Nat,
         NEW P \in Nat, Paid(T, B, O, A, C, K, P), NEW D \in Nat, NEW L \in Nat, C =< D, K =< L
  PROVE  Paid(T, B, O, A, D, L, P)
  <1>1. PICK i, j \in Nat : D = C + i /\ L = K + j
    <2>1. D - C \in Nat /\ L - K \in Nat /\ D = C + (D - C) /\ L = K + (L - K)
      OBVIOUS
    <2> QED
      BY <2>1
  <1>2. PICK x \in Nat : x = C * K
    BY SMT
  <1>3. PICK y \in Nat : y = (C + i) * (K + j)
    BY SMT
  <1>4. y = C * K + (C * j + i * K + i * j)
    BY <1>3
  <1>5. C * j \in Nat /\ i * K \in Nat /\ i * j \in Nat
    BY SMT
  <1>6. PICK z \in Nat : y = x + z
    BY <1>2, <1>4, <1>5
  <1>7. x * P \in Nat /\ z * P \in Nat /\ (x + z) * P = x * P + z * P
    BY SMT
  <1>8. PICK q \in Int : q = Distance((T - B) * P + O, A * P)
    <2>1. PICK a, b \in Int : a = (T - B) * P + O /\ b = A * P
      OBVIOUS
    <2>2. Distance(a, b) \in Int
      BY DEF Distance
    <2> QED
      BY <2>1, <2>2
  <1>9. q =< x * P
    BY <1>2, <1>8 DEF Paid
  <1>10. q =< (x + z) * P
    BY <1>7, <1>9
  <1>11. q =< (D * L) * P
    BY <1>1, <1>3, <1>6, <1>10
  <1> QED
    BY <1>8, <1>11 DEF Paid

(* A charge of n hours, g of them given by packages that show t, and the rest owed. *)
LEMMA PaidMore ==
  ASSUME NEW T \in Int, NEW B \in Int, NEW O \in Int, NEW A \in Int, NEW C \in Nat, NEW K \in Nat,
         NEW P \in Nat, Paid(T, B, O, A, C, K, P),
         NEW n \in Nat, NEW g \in Nat, NEW t \in Int, Distance(t, g) =< K
  PROVE  Paid(T + t, B, O + P * (n - g), A + n, C + 1, K, P)
  <1>1. PICK e \in Int : t = g + e
    <2>1. t - g \in Int /\ t = g + (t - g)
      OBVIOUS
    <2> QED
      BY <2>1
  <1>2. e =< K /\ - e =< K
    BY <1>1 DEF Distance
  <1>3. e * P =< K * P /\ - (e * P) =< K * P
    <2>1. (K - e) * P >= 0 /\ (K + e) * P >= 0
      BY <1>2, SMT
    <2>2. (K - e) * P = K * P - e * P /\ (K + e) * P = K * P + e * P
      OBVIOUS
    <2>3. K * P \in Int /\ e * P \in Int
      OBVIOUS
    <2> QED
      BY <2>1, <2>2, <2>3
  <1>4. PICK x, y, c, k, v \in Int :
          x = (T - B) * P + O /\ y = A * P /\ c = (C * K) * P /\ k = K * P /\ v = e * P
    <2>1. (T - B) * P + O \in Int /\ A * P \in Int /\ (C * K) * P \in Int /\ K * P \in Int /\ e * P \in Int
      OBVIOUS
    <2> QED
      BY <2>1
  <1>5. PICK w \in Int : w = n * P
    OBVIOUS
  <1>6. ((T + t) - B) * P + (O + P * (n - g)) = x + w + v
    <2>1. ((T + t) - B) * P = (T - B) * P + g * P + e * P
      BY <1>1
    <2>2. P * (n - g) = n * P - g * P
      OBVIOUS
    <2>3. g * P \in Int /\ (T - B) * P \in Int
      OBVIOUS
    <2> QED
      BY <1>4, <1>5, <2>1, <2>2, <2>3
  <1>7. (A + n) * P = y + w
    BY <1>4, <1>5
  <1>8. ((C + 1) * K) * P = c + k
    BY <1>4
  <1>9. Distance(x, y) =< c
    BY <1>4 DEF Paid
  <1>10. Distance(x + w + v, y + w) =< c + k
    BY <1>3, <1>4, <1>9 DEF Distance
  <1> QED
    BY <1>6, <1>7, <1>8, <1>10 DEF Paid

LEMMA BeforeIs ==
  ASSUME NEW u \in Users
  PROVE  TakenBefore(u) \in Int
  <1>1. PICK f, T : f = [p \in Owned |-> Owned0[p].total - Owned0[p].left] /\ T = Owned \cap Bought(u)
    OBVIOUS
  <1>2. Owned0 \in [Owned -> PackageRows]
    BY WalletTablesAssumption
  <1>3. IsFiniteSet(T) /\ \A p \in T : f[p] \in Int
    BY <1>1, <1>2, FS_Subset DEF PackageRows
  <1>4. SumFunctionOnSet(f, T) \in Int
    BY <1>3, SumType
  <1> QED
    BY <1>1, <1>4 DEF TakenBefore

LEMMA CountsAre ==
  ASSUME NEW u \in Users
  PROVE  /\ Charges(u) \subseteq Requests /\ IsFiniteSet(Charges(u)) /\ Cardinality(Charges(u)) \in Nat
         /\ Bought(u) \subseteq Packages /\ IsFiniteSet(Bought(u)) /\ Cardinality(Bought(u)) \in Nat
  <1>1. Charges(u) \subseteq Requests /\ Bought(u) \subseteq Packages
    BY DEF Charges, By, Bought
  <1> QED
    BY <1>1, PackagesFinite, FS_Subset, FS_CardinalityType

LEMMA TakenType ==
  ASSUME package \in [Packages -> PackageRows], NEW u \in Users
  PROVE  Taken(u) \in Int
  <1>1. PICK f, T : f = [p \in Packages |-> package[p].total - package[p].left] /\ T = Bought(u)
    OBVIOUS
  <1>2. IsFiniteSet(T) /\ \A p \in T : f[p] \in Int
    BY <1>1, CountsAre DEF PackageRows
  <1>3. SumFunctionOnSet(f, T) \in Int
    BY <1>2, SumType
  <1> QED
    BY <1>1, <1>3 DEF Taken

(* A step that charges nobody. *)
LEMMA ChargesKept ==
  ASSUME req \in [Requests -> RequestStates], package \in [Packages -> PackageRows],
         ChargedHoursArePaid, NEW r \in Requests, NEW s \in RequestStates, Becomes(r, s),
         package' = package, s.need = req[r].need,
         s.need > 0 => s.user = req[r].user /\ s.amount - s.moved = req[r].amount - req[r].moved
  PROVE  ChargedHoursArePaid'
  <1>1. ASSUME NEW u \in Users
        PROVE  Paid(Taken(u)', TakenBefore(u)', Owing(u)', Asked(u)',
                    Cardinality(Charges(u)'), Cardinality(Bought(u)'), PricePerHour)
    <2>1. Taken(u)' = Taken(u) /\ TakenBefore(u)' = TakenBefore(u) /\ Bought(u)' = Bought(u)
      BY DEF Taken, TakenBefore, Bought
    <2>2. req[r].need \in Nat /\ req[r].amount - req[r].moved \in Int
      BY DEF RequestStates
    <2>3. Asked(u)' = Asked(u) /\ Owing(u)' = Owing(u)
      <3>1. PICK a, b, o, w : /\ a = Asked(u) /\ b = Asked(u)' /\ o = Owing(u) /\ w = Owing(u)'
        OBVIOUS
      <3>2. /\ a \in Int /\ o \in Int
            /\ b = a + ((IF s.user = u THEN s.need ELSE 0) - (IF req[r].user = u THEN req[r].need ELSE 0))
            /\ w = o + ((IF s.user = u /\ s.need > 0 THEN s.amount - s.moved ELSE 0)
                 - (IF req[r].user = u /\ req[r].need > 0 THEN req[r].amount - req[r].moved ELSE 0))
        BY <3>1, ChargesStep
      <3>3. CASE s.need > 0
        BY <2>2, <3>1, <3>2, <3>3
      <3>4. CASE s.need = 0
        BY <2>2, <3>1, <3>2, <3>4
      <3> QED
        BY <2>2, <3>3, <3>4
    <2>4. Charges(u)' = Charges(u)
      <3>1. req'[r] = s /\ \A x \in Requests \ {r} : req'[x] = req[x]
        BY DEF Becomes
      <3>2. (s.user = u /\ s.need > 0) <=> (req[r].user = u /\ req[r].need > 0)
        BY <2>2
      <3> QED
        BY <3>1, <3>2 DEF Charges, By
    <2> QED
      BY <2>1, <2>3, <2>4, ChargedIs
  <1> QED
    BY <1>1 DEF ChargedHoursArePaid, Paid

(* A package granted in full. *)
LEMMA ChargesGranted ==
  ASSUME req \in [Requests -> RequestStates], package \in [Packages -> PackageRows],
         ChargedHoursArePaid, NEW r \in Requests, NEW s \in RequestStates, Becomes(r, s),
         package[r] = NoPackage,
         NEW row \in PackageRows, package' = [package EXCEPT ![r] = row], row.left = row.total,
         s.need = req[r].need, req[r].need = 0
  PROVE  ChargedHoursArePaid'
  <1>1. ASSUME NEW u \in Users
        PROVE  Paid(Taken(u)', TakenBefore(u)', Owing(u)', Asked(u)',
                    Cardinality(Charges(u)'), Cardinality(Bought(u)'), PricePerHour)
    <2>1. r \in Packages /\ package'[r] = row /\ \A p \in Packages \ {r} : package'[p] = package[p]
      BY DEF Packages
    <2>2. PICK T, V : T = Bought(u) /\ V = Bought(u)'
      OBVIOUS
    <2>3. T \subseteq Packages /\ V \subseteq Packages /\ V \subseteq T \cup {r} /\ r \notin T /\ T \subseteq V
      BY <2>1, <2>2 DEF Bought, NoPackage
    <2>4. Taken(u) \in Int /\ Taken(u)' = Taken(u)
      <3>1. PICK f, e : /\ f = [p \in Packages |-> package[p].total - package[p].left]
                        /\ e = [p \in Packages |-> (package[p].total - package[p].left)']
        OBVIOUS
      <3>2. \A p \in Packages : f[p] \in Int /\ e[p] \in Int
        <4>1. \A p \in Packages : package[p] \in PackageRows /\ package'[p] \in PackageRows
          BY <2>1
        <4> QED
          BY <3>1, <4>1 DEF PackageRows
      <3>3. (\A p \in Packages \ {r} : e[p] = f[p]) /\ e[r] = 0
        <4>1. e[r] = row.total - row.left /\ row.total \in Nat
          BY <2>1, <3>1 DEF PackageRows
        <4> QED
          BY <2>1, <3>1, <4>1
      <3>4. /\ SumFunctionOnSet(f, T) \in Int
            /\ SumFunctionOnSet(e, V) = SumFunctionOnSet(f, T)
                 + ((IF r \in V THEN e[r] ELSE 0) - (IF r \in T THEN f[r] ELSE 0))
        <4>1. T \ {r} = V \ {r}
          BY <2>3
        <4>2. /\ IsFiniteSet(Packages) /\ r \in Packages /\ T \subseteq Packages /\ V \subseteq Packages
              /\ \A p \in Packages \ {r} : e[p] = f[p]
          BY <2>1, <2>3, <3>3, PackagesFinite
        <4> HIDE WalletFiniteAssumption, WalletNamesAssumption, WalletNumbersAssumption
        <4> QED
          BY <3>2, <4>1, <4>2, SumMove, SMTT(30)
      <3>5. SumFunctionOnSet(e, V) = SumFunctionOnSet(f, T)
        BY <2>3, <3>3, <3>4
      <3> QED
        BY <2>2, <3>1, <3>4, <3>5 DEF Taken
    <2>5. TakenBefore(u)' = TakenBefore(u)
      <3>1. Owned \cap V = Owned \cap T
        BY <2>3
      <3> QED
        BY <2>2, <3>1 DEF TakenBefore
    <2>6. Cardinality(T) \in Nat /\ Cardinality(V) \in Nat /\ Cardinality(T) =< Cardinality(V)
      BY <2>3, PackagesFinite, FS_Subset, FS_CardinalityType
    <2>7. Asked(u) \in Int /\ Asked(u)' = Asked(u) /\ Owing(u) \in Int /\ Owing(u)' = Owing(u)
      <3>1. PICK a, b, o, w : /\ a = Asked(u) /\ b = Asked(u)' /\ o = Owing(u) /\ w = Owing(u)'
        OBVIOUS
      <3>2. /\ a \in Int /\ o \in Int
            /\ b = a + ((IF s.user = u THEN s.need ELSE 0) - (IF req[r].user = u THEN req[r].need ELSE 0))
            /\ w = o + ((IF s.user = u /\ s.need > 0 THEN s.amount - s.moved ELSE 0)
                 - (IF req[r].user = u /\ req[r].need > 0 THEN req[r].amount - req[r].moved ELSE 0))
        BY <3>1, ChargesStep
      <3> QED
        BY <3>1, <3>2
    <2>8. Charges(u)' = Charges(u)
      <3>1. req'[r] = s /\ \A x \in Requests \ {r} : req'[x] = req[x]
        BY DEF Becomes
      <3> QED
        BY <3>1 DEF Charges, By
    <2>9. Paid(Taken(u), TakenBefore(u), Owing(u), Asked(u),
               Cardinality(Charges(u)), Cardinality(T), PricePerHour)
      BY <2>2, ChargedIs
    <2>10. Cardinality(Charges(u)) \in Nat /\ TakenBefore(u) \in Int
      BY CountsAre, BeforeIs
    <2>11. PICK t, b, o, a, c, k, l : /\ t = Taken(u) /\ b = TakenBefore(u) /\ o = Owing(u) /\ a = Asked(u)
                                      /\ c = Cardinality(Charges(u)) /\ k = Cardinality(T) /\ l = Cardinality(V)
      OBVIOUS
    <2>12. Paid(t, b, o, a, c, l, PricePerHour)
      <3>1. /\ t \in Int /\ b \in Int /\ o \in Int /\ a \in Int /\ c \in Nat /\ k \in Nat /\ l \in Nat
            /\ c =< c /\ k =< l
        BY <2>4, <2>6, <2>7, <2>10, <2>11
      <3>2. Paid(t, b, o, a, c, k, PricePerHour)
        BY <2>9, <2>11
      <3> QED
        BY <3>1, <3>2, PaidWider
    <2> QED
      BY <2>2, <2>4, <2>5, <2>7, <2>8, <2>11, <2>12
  <1> QED
    BY <1>1 DEF ChargedHoursArePaid, Paid

(* A charge: the packages first, then a debt to the balance. *)
LEMMA ChargesMade ==
  ASSUME req \in [Requests -> RequestStates], package \in [Packages -> PackageRows],
         ChargedHoursArePaid, NEW r \in Requests, NEW s \in RequestStates, Becomes(r, s),
         NEW v \in Users, NEW turn \in SoonestFirst(v), NEW need \in Nat, need > 0,
         package' = AfterConsuming(turn, need),
         req[r].need = 0, s.user = v, s.need = need, s.amount - s.moved = BalanceCost(turn, need)
  PROVE  ChargedHoursArePaid'
  <1>1. PICK g : g = SumFunction([p \in DOMAIN turn |-> Use(turn, p, need)])
    OBVIOUS
  <1>2. g \in Nat /\ g =< need
    BY <1>1, UsesAreNeeded
  <1>3. BalanceCost(turn, need) = PricePerHour * (need - g)
    <2>1. PICK m : m = need - g
      OBVIOUS
    <2>2. m \in Int /\ m >= 0
      BY <1>2, <2>1
    <2>3. Max({0, m}) = m
      BY <2>2, MaxOfZero
    <2> QED
      BY <1>1, <2>1, <2>3 DEF BalanceCost
  <1>4. ASSUME NEW u \in Users
        PROVE  Paid(Taken(u)', TakenBefore(u)', Owing(u)', Asked(u)',
                    Cardinality(Charges(u)'), Cardinality(Bought(u)'), PricePerHour)
    <2>1. Bought(u)' = Bought(u)
      BY TakenIs
    <2>2. TakenBefore(u)' = TakenBefore(u) /\ TakenBefore(u) \in Int
      BY <2>1, BeforeIs DEF TakenBefore
    <2>3. PICK a, b, o, w : /\ a = Asked(u) /\ b = Asked(u)' /\ o = Owing(u) /\ w = Owing(u)'
      OBVIOUS
    <2>4. /\ a \in Int /\ o \in Int
          /\ b = a + ((IF s.user = u THEN s.need ELSE 0) - (IF req[r].user = u THEN req[r].need ELSE 0))
          /\ w = o + ((IF s.user = u /\ s.need > 0 THEN s.amount - s.moved ELSE 0)
                 - (IF req[r].user = u /\ req[r].need > 0 THEN req[r].amount - req[r].moved ELSE 0))
      BY <2>3, ChargesStep
    <2>5. req'[r] = s /\ \A x \in Requests \ {r} : req'[x] = req[x]
      BY DEF Becomes
    <2>6. Paid(Taken(u), TakenBefore(u), Owing(u), Asked(u),
               Cardinality(Charges(u)), Cardinality(Bought(u)), PricePerHour)
      BY ChargedIs
    <2>7. CASE u # v
      <3>1. Charges(u)' = Charges(u)
        BY <2>5, <2>7 DEF Charges, By
      <3>2. b = a /\ w = o
        BY <2>4, <2>7
      <3>3. Taken(u)' = Taken(u)
        BY <2>7, TakenIs
      <3> QED
        BY <2>1, <2>2, <2>3, <2>6, <3>1, <3>2, <3>3
    <2>8. CASE u = v
      <3>1. Cardinality(Charges(u)') = Cardinality(Charges(u)) + 1
        <4>1. PICK T, V : T = Charges(u) /\ V = Charges(u)'
          OBVIOUS
        <4>2. r \notin T /\ V = T \cup {r} /\ IsFiniteSet(T)
          BY <2>5, <2>8, <4>1, CountsAre DEF Charges, By
        <4>3. Cardinality(T \cup {r}) = Cardinality(T) + 1
          BY <4>2, FS_AddElement
        <4> QED
          BY <4>1, <4>2, <4>3
      <3>2. b = a + need /\ w = o + PricePerHour * (need - g)
        <4>1. PICK d \in Int : d = PricePerHour * (need - g)
          BY <1>2
        <4>2. s.amount - s.moved = d
          BY <1>3, <4>1
        <4> QED
          BY <2>4, <2>8, <4>1, <4>2
      <3>3. PICK x, y, k, c, z : /\ x = Taken(u) /\ y = Taken(u)' /\ k = Cardinality(Bought(u))
                                 /\ c = Cardinality(Charges(u)) /\ z = TakenBefore(u)
        OBVIOUS
      <3>4. x \in Int /\ y \in Int /\ Distance(y - x, g) =< k
        BY <1>1, <2>8, <3>3, TakenIs
      <3>5. PICK t \in Int : t = y - x
        BY <3>4
      <3>6. y = x + t
        BY <3>4, <3>5
      <3>7. k \in Nat /\ c \in Nat /\ z \in Int
        BY <2>2, <3>3, CountsAre
      <3>8. Paid(x, z, o, a, c, k, PricePerHour)
        BY <2>3, <2>6, <3>3
      <3>9. Paid(x + t, z, o + PricePerHour * (need - g), a + need, c + 1, k, PricePerHour)
        BY <1>2, <2>4, <3>4, <3>5, <3>7, <3>8, PaidMore
      <3> QED
        BY <2>1, <2>2, <2>3, <3>1, <3>2, <3>3, <3>6, <3>9
    <2> QED
      BY <2>7, <2>8
  <1> QED
    BY <1>4 DEF ChargedHoursArePaid, Paid

-----------------------------------------------------------------------------
(* Every step keeps the invariant. *)

LEMMA PackagesUntouched ==
  ASSUME package' = package
  PROVE  \A p \in Packages : /\ package'[p].user = package[p].user
                             /\ package'[p].total = package[p].total
                             /\ package'[p].status = "none" <=> package[p].status = "none"
                             /\ package[p].status # "active" => package'[p] = package[p]
  OBVIOUS

(* Steps that write no balance, no order and no package: a request reads, saves a catalogue *)
(* row, records a recharge or gives up.                                                     *)
LEMMA OwnKept ==
  ASSUME WalletInv, NEW r \in Requests, req[r].pc # "done", NEW s \in RequestStates, Becomes(r, s),
         UNCHANGED <<clock, user, package, order>>,
         product' \in [Products -> ProductRows], recharge' \in [Requests -> Nat],
         Remembers(s), s.pc # "buyGrant", s.moved = req[r].moved, s.need = req[r].need,
         s.need > 0 => s.amount = req[r].amount /\ s.user = req[r].user,
         s.user = req[r].user \/ (req[r].user = Nil /\ s.moved = 0),
         req[r].saved => s.saved, req[r].pc \notin Unmoved => s.pc \notin Unmoved
  PROVE  WalletInv'
  <1>1. TypeOK /\ RequestsInv /\ BalancesInv /\ ChargedHoursArePaid /\ GrantsAreOrderedAndPaid
    BY DEF WalletInv
  <1>2. /\ req \in [Requests -> RequestStates] /\ user \in [Users -> [exists : BOOLEAN, balance : Nat]]
        /\ package \in [Packages -> PackageRows] /\ Balance0 \in [Users -> Nat]
    BY <1>1, WalletTablesAssumption DEF TypeOK
  <1>3. TypeOK'
    <2>1. req' \in [Requests -> RequestStates]
      BY <1>2 DEF Becomes
    <2> QED
      BY <1>1, <2>1 DEF TypeOK
  <1>4. RequestsInv' /\ GrantsAreOrderedAndPaid'
    BY <1>1, <1>2, PackagesUntouched, RowsKept
  <1>5. BalancesInv'
    <2>1. \A v \in Users : (s.saved /\ s.user = v) \/ user'[v].balance = user[v].balance
      OBVIOUS
    <2> QED
      BY <1>1, <1>2, <2>1, BalancesKept
  <1>6. ChargedHoursArePaid'
    BY <1>1, <1>2, ChargesKept
  <1> QED
    BY <1>3, <1>4, <1>5, <1>6 DEF WalletInv

LEMMA AnswerKeeps ==
  ASSUME WalletInv, NEW r \in Requests, req[r].pc # "done",
         NEW answer \in {"ok", "refused", "error"}, Return(r, answer),
         UNCHANGED <<clock, user, package, order>>,
         product' \in [Products -> ProductRows], recharge' \in [Requests -> Nat]
  PROVE  WalletInv'
  <1>1. PICK q \in RequestStates : q = req[r]
    BY DEF WalletInv, TypeOK
  <1>2. PICK s : s = [q EXCEPT !.pc = "done", !.ans = answer]
    OBVIOUS
  <1>3. /\ s \in RequestStates /\ s.pc = "done" /\ s.moved = q.moved /\ s.need = q.need
        /\ s.amount = q.amount /\ s.user = q.user /\ s.saved = q.saved
    BY <1>2, ZenonT(30) DEF RequestStates
  <1>4. Becomes(r, s)
    BY <1>1, <1>2 DEF Return
  <1>5. Remembers(s) /\ s.pc \notin Unmoved
    BY <1>3 DEF Remembers, WithUser, Unmoved
  <1> QED
    BY <1>1, <1>3, <1>4, <1>5, OwnKept

LEMMA AnsweredKeeps ==
  ASSUME WalletInv, NEW r \in Requests, req[r].pc # "done",
         NEW answer \in {"ok", "refused", "error"}, Answer(r, answer)
  PROVE  WalletInv'
  <1>1. /\ Return(r, answer) /\ UNCHANGED <<clock, user, package, order>>
        /\ product' \in [Products -> ProductRows] /\ recharge' \in [Requests -> Nat]
    BY DEF Answer, tables, WalletInv, TypeOK
  <1> QED
    BY <1>1, AnswerKeeps

(* A request that is new. *)
LEMMA NewIs ==
  ASSUME WalletInv, NEW r \in Requests, req[r].pc = "new"
  PROVE  /\ req[r] \in RequestStates /\ req[r].user = Nil /\ req[r].moved = 0 /\ req[r].need = 0
         /\ req[r].amount = 0 /\ req[r].saved = FALSE
         /\ package[r] = NoPackage
  <1>1. req[r] \in RequestStates
    BY DEF WalletInv, TypeOK
  <1>2. req[r] = NewRequest /\ package[r] = NoPackage
    BY DEF WalletInv, RequestsInv, Remembers, Inserted
  <1> QED
    BY <1>1, <1>2, NewRequestIs

(* Reading: a new request remembers its member and what it read. *)
LEMMA RechargeReadKeeps ==
  ASSUME WalletInv, NEW r \in Requests, RechargeRead(r)
  PROVE  WalletInv'
  <1>1. PICK u \in Users, amount \in Amounts :
          IF user[u].exists
          THEN /\ Becomes(r, [req[r] EXCEPT !.pc = "rechargeCredit", !.user = u, !.amount = amount,
                                            !.balance = user[u].balance])
               /\ UNCHANGED <<clock, tables>>
          ELSE Answer(r, "refused")
    BY ZenonT(30) DEF RechargeRead
  <1>2. req[r].pc = "new"
    BY DEF RechargeRead
  <1>3. CASE user[u].exists
    <2>1. PICK q \in RequestStates : q = req[r] /\ q.user = Nil /\ q.moved = 0 /\ q.need = 0 /\ q.saved = FALSE
      BY <1>2, NewIs
    <2>2. PICK s : s = [q EXCEPT !.pc = "rechargeCredit", !.user = u, !.amount = amount,
                                 !.balance = user[u].balance]
      OBVIOUS
    <2>3. user[u].balance \in Nat /\ amount \in Nat
      BY DEF WalletInv, TypeOK
    <2>4. /\ s \in RequestStates /\ s.pc = "rechargeCredit" /\ s.user = u
          /\ s.moved = 0 /\ s.need = 0 /\ s.saved = FALSE
      <3>1. PICK b \in Nat : b = user[u].balance
        BY <2>3
      <3>2. PICK first \in RequestStates : first = [q EXCEPT !.amount = amount, !.balance = b]
        BY <2>3 DEF RequestStates
      <3>3. first.moved = 0 /\ first.need = 0 /\ first.saved = FALSE
        BY <2>1, <3>2 DEF RequestStates
      <3>4. s = [first EXCEPT !.pc = "rechargeCredit", !.user = u]
        BY <2>2, <3>1, <3>2, ZenonT(30) DEF RequestStates
      <3>5. s \in RequestStates /\ s.pc = "rechargeCredit" /\ s.user = u
        BY <3>4, ZenonT(30) DEF RequestStates
      <3>6. s.moved = first.moved /\ s.need = first.need /\ s.saved = first.saved
        BY <3>4 DEF RequestStates
      <3> QED
        BY <3>3, <3>5, <3>6
    <2>5. Becomes(r, s) /\ UNCHANGED <<clock, tables>>
      BY <1>1, <1>3, <2>1, <2>2
    <2>6. /\ UNCHANGED <<clock, user, package, order>>
          /\ product' \in [Products -> ProductRows] /\ recharge' \in [Requests -> Nat]
      BY <2>5 DEF tables, WalletInv, TypeOK
    <2>7. Remembers(s)
      BY <2>4 DEF Remembers, Unmoved
    <2> QED
      BY <1>2, <2>1, <2>4, <2>5, <2>6, <2>7, OwnKept DEF Unmoved
  <1>4. CASE ~user[u].exists
    BY <1>1, <1>2, <1>4, AnsweredKeeps
  <1> QED
    BY <1>3, <1>4

LEMMA BuyReadKeeps ==
  ASSUME WalletInv, NEW r \in Requests, BuyRead(r)
  PROVE  WalletInv'
  <1>1. PICK u \in Users, p \in Products, cash \in BOOLEAN :
          IF product[p].status = "active"
          THEN /\ Becomes(r, [req[r] EXCEPT !.pc = IF cash THEN "buyOrder" ELSE "buyDebit", !.user = u,
                              !.product = p, !.row = product[p], !.cash = cash,
                              !.amount = product[p].price])
               /\ UNCHANGED <<clock, tables>>
          ELSE Answer(r, "refused")
    BY ZenonT(30) DEF BuyRead
  <1>2. req[r].pc = "new"
    BY DEF BuyRead
  <1>3. CASE product[p].status = "active"
    <2>1. PICK q \in RequestStates : q = req[r] /\ q.user = Nil /\ q.moved = 0 /\ q.need = 0 /\ q.saved = FALSE
      BY <1>2, NewIs
    <2>2. PICK row \in ProductRows, price \in Nat : row = product[p] /\ price = product[p].price
      BY DEF WalletInv, TypeOK, ProductRows
    <2>3. PICK s, pc : /\ s = [q EXCEPT !.pc = pc, !.user = u, !.product = p, !.row = row,
                                        !.cash = cash, !.amount = price]
                       /\ pc = IF cash THEN "buyOrder" ELSE "buyDebit"
      OBVIOUS
    <2>4. pc \in {"buyOrder", "buyDebit"} /\ (pc = "buyOrder" => cash)
      BY <2>3
    <2>5. /\ s \in RequestStates
          /\ s.pc = pc /\ s.user = u /\ s.cash = cash
          /\ s.moved = 0 /\ s.need = 0 /\ s.saved = FALSE
      <3>1. s \in RequestStates
        <4>1. PICK s1 : s1 = [q EXCEPT !.pc = pc, !.user = u, !.product = p]
          OBVIOUS
        <4>2. s1 \in RequestStates
          BY <2>4, <4>1, ZenonT(30) DEF RequestStates
        <4>3. PICK s2 : s2 = [s1 EXCEPT !.row = row, !.cash = cash, !.amount = price]
          OBVIOUS
        <4>4. s2 \in RequestStates
          BY <4>2, <4>3, ZenonT(30) DEF RequestStates
        <4>5. s = s2
          BY <2>3, <4>1, <4>3 DEF RequestStates
        <4> QED
          BY <4>4, <4>5
      <3>2. /\ s.pc = pc /\ s.user = u /\ s.cash = cash
          /\ s.moved = 0 /\ s.need = 0 /\ s.saved = FALSE
        BY <2>1, <2>2, <2>3, <2>4 DEF RequestStates
      <3> QED
        BY <3>1, <3>2
    <2>6. Becomes(r, s) /\ UNCHANGED <<clock, tables>>
      BY <1>1, <1>3, <2>1, <2>2, <2>3
    <2>7. /\ UNCHANGED <<clock, user, package, order>>
          /\ product' \in [Products -> ProductRows] /\ recharge' \in [Requests -> Nat]
      BY <2>6 DEF tables, WalletInv, TypeOK
    <2>8. Remembers(s) /\ s.pc # "buyGrant"
      BY <2>4, <2>5 DEF Remembers, Unmoved
    <2> QED
      BY <1>2, <2>1, <2>5, <2>6, <2>7, <2>8, OwnKept DEF Unmoved
  <1>4. CASE product[p].status # "active"
    BY <1>1, <1>2, <1>4, AnsweredKeeps
  <1> QED
    BY <1>3, <1>4

LEMMA EditReadKeeps ==
  ASSUME WalletInv, NEW r \in Requests, EditRead(r)
  PROVE  WalletInv'
  <1>1. PICK u \in Users :
          IF user[u].exists
          THEN /\ Becomes(r, [req[r] EXCEPT !.pc = "editSave", !.user = u, !.balance = user[u].balance])
               /\ UNCHANGED <<clock, tables>>
          ELSE Answer(r, "refused")
    BY ZenonT(30) DEF EditRead
  <1>2. req[r].pc = "new"
    BY DEF EditRead
  <1>3. CASE user[u].exists
    <2>1. PICK q \in RequestStates : q = req[r] /\ q.user = Nil /\ q.moved = 0 /\ q.need = 0 /\ q.saved = FALSE
      BY <1>2, NewIs
    <2>2. PICK s : s = [q EXCEPT !.pc = "editSave", !.user = u, !.balance = user[u].balance]
      OBVIOUS
    <2>3. user[u].balance \in Nat
      BY DEF WalletInv, TypeOK
    <2>4. /\ s \in RequestStates
          /\ s.pc = "editSave" /\ s.user = u
          /\ s.moved = 0 /\ s.need = 0 /\ s.saved = FALSE
      <3>1. s \in RequestStates
        <4>1. PICK b \in Nat : b = user[u].balance
          BY <2>3
        <4>2. PICK first \in RequestStates : first = [q EXCEPT !.balance = b]
          BY DEF RequestStates
        <4>3. s = [first EXCEPT !.pc = "editSave", !.user = u]
          BY <2>2, <4>1, <4>2 DEF RequestStates
        <4> QED
          BY <4>3, ZenonT(30) DEF RequestStates
      <3>2. /\ s.pc = "editSave" /\ s.user = u
          /\ s.moved = 0 /\ s.need = 0 /\ s.saved = FALSE
        BY <2>1, <2>2, <2>3 DEF RequestStates
      <3> QED
        BY <3>1, <3>2
    <2>5. Becomes(r, s) /\ UNCHANGED <<clock, tables>>
      BY <1>1, <1>3, <2>1, <2>2
    <2>6. /\ UNCHANGED <<clock, user, package, order>>
          /\ product' \in [Products -> ProductRows] /\ recharge' \in [Requests -> Nat]
      BY <2>5 DEF tables, WalletInv, TypeOK
    <2>7. Remembers(s)
      BY <2>4 DEF Remembers, Unmoved
    <2> QED
      BY <1>2, <2>1, <2>4, <2>5, <2>6, <2>7, OwnKept DEF Unmoved
  <1>4. CASE ~user[u].exists
    BY <1>1, <1>2, <1>4, AnsweredKeeps
  <1> QED
    BY <1>3, <1>4

LEMMA ProductReadKeeps ==
  ASSUME WalletInv, NEW r \in Requests, ProductRead(r)
  PROVE  WalletInv'
  <1>1. PICK p \in Products, price \in Prices, status \in {"active", "disabled"} :
          IF product[p].status # "none"
          THEN /\ Becomes(r, [req[r] EXCEPT !.pc = "productSave", !.product = p,
                                !.row = [product[p] EXCEPT !.price = price, !.status = status]])
               /\ UNCHANGED <<clock, tables>>
          ELSE Answer(r, "refused")
    BY ZenonT(30) DEF ProductRead
  <1>2. req[r].pc = "new"
    BY DEF ProductRead
  <1>3. CASE product[p].status # "none"
    <2>1. PICK q \in RequestStates : q = req[r] /\ q.user = Nil /\ q.moved = 0 /\ q.need = 0 /\ q.saved = FALSE
      BY <1>2, NewIs
    <2>2. PICK old \in ProductRows : old = product[p]
      BY DEF WalletInv, TypeOK
    <2>3. PICK row : row = [old EXCEPT !.price = price, !.status = status]
      OBVIOUS
    <2>4. row \in ProductRows
      BY <2>2, <2>3, ZenonT(30) DEF ProductRows
    <2>5. PICK s : s = [q EXCEPT !.pc = "productSave", !.product = p, !.row = row]
      OBVIOUS
    <2>6. /\ s \in RequestStates
          /\ s.pc = "productSave" /\ s.product = p /\ s.user = Nil
          /\ s.moved = 0 /\ s.need = 0 /\ s.saved = FALSE
      <3>1. s \in RequestStates
        <4>1. PICK first \in RequestStates : first = [q EXCEPT !.row = row]
          BY <2>4, ZenonT(30) DEF RequestStates
        <4>2. s = [first EXCEPT !.pc = "productSave", !.product = p]
          BY <2>5, <4>1, ZenonT(30) DEF RequestStates
        <4> QED
          BY <4>2, ZenonT(30) DEF RequestStates
      <3>2. /\ s.pc = "productSave" /\ s.product = p /\ s.user = Nil
          /\ s.moved = 0 /\ s.need = 0 /\ s.saved = FALSE
        BY <2>1, <2>4, <2>5 DEF RequestStates
      <3> QED
        BY <3>1, <3>2
    <2>7. Becomes(r, s) /\ UNCHANGED <<clock, tables>>
      BY <1>1, <1>3, <2>1, <2>2, <2>3, <2>5
    <2>8. /\ UNCHANGED <<clock, user, package, order>>
          /\ product' \in [Products -> ProductRows] /\ recharge' \in [Requests -> Nat]
      BY <2>7 DEF tables, WalletInv, TypeOK
    <2>9. Remembers(s)
      BY <2>6 DEF Remembers, WithUser, Unmoved
    <2> QED
      BY <1>2, <2>1, <2>6, <2>7, <2>8, <2>9, OwnKept DEF Unmoved
  <1>4. CASE product[p].status = "none"
    BY <1>1, <1>2, <1>4, AnsweredKeeps
  <1> QED
    BY <1>3, <1>4

(* The catalogue and the recharges. *)
LEMMA RechargeRecordKeeps ==
  ASSUME WalletInv, NEW r \in Requests, RechargeRecord(r)
  PROVE  WalletInv'
  <1>1. req[r].amount \in Nat /\ recharge \in [Requests -> Nat] /\ product \in [Products -> ProductRows]
    BY DEF WalletInv, TypeOK, RequestStates
  <1>2. Cents(req[r].amount) \in Nat
    BY <1>1, CentsNearby
  <1>3. recharge' \in [Requests -> Nat]
    BY <1>1, <1>2 DEF RechargeRecord
  <1> QED
    BY <1>1, <1>3, AnswerKeeps DEF RechargeRecord

LEMMA ProductSaveKeeps ==
  ASSUME WalletInv, NEW r \in Requests, ProductSave(r)
  PROVE  WalletInv'
  <1>1. req[r].row \in ProductRows /\ recharge \in [Requests -> Nat] /\ product \in [Products -> ProductRows]
    BY DEF WalletInv, TypeOK, RequestStates
  <1>2. product' \in [Products -> ProductRows]
    BY <1>1 DEF ProductSave
  <1> QED
    BY <1>1, <1>2, AnswerKeeps DEF ProductSave

LEMMA DeleteProductKeeps ==
  ASSUME WalletInv, NEW r \in Requests, DeleteProduct(r)
  PROVE  WalletInv'
  <1>1. NoProduct \in ProductRows /\ recharge \in [Requests -> Nat] /\ product \in [Products -> ProductRows]
    BY DEF WalletInv, TypeOK, NoProduct, ProductRows
  <1>2. product' \in [Products -> ProductRows]
    BY <1>1 DEF DeleteProduct
  <1> QED
    BY <1>1, <1>2, AnswerKeeps DEF DeleteProduct

(* A credit or a debit of the balance alone. *)
LEMMA MoveKeeps ==
  ASSUME WalletInv, NEW r \in Requests, req[r].pc # "done", req[r].pc \in Unmoved, req[r].user \in Users,
         NEW d \in Int, user[req[r].user].balance + d >= 0, MoveBalance(r, d),
         NEW s \in RequestStates, Becomes(r, s), UNCHANGED <<clock, product, package, order, recharge>>,
         Remembers(s), s.pc \notin Unmoved, s.pc # "buyGrant",
         s.user = req[r].user, s.moved = d, s.need = req[r].need, s.saved = req[r].saved,
         s.need > 0 => s.amount - s.moved = req[r].amount - req[r].moved
  PROVE  WalletInv'
  <1>1. TypeOK /\ RequestsInv /\ BalancesInv /\ ChargedHoursArePaid /\ GrantsAreOrderedAndPaid
    BY DEF WalletInv
  <1>2. /\ req \in [Requests -> RequestStates] /\ user \in [Users -> [exists : BOOLEAN, balance : Nat]]
        /\ package \in [Packages -> PackageRows] /\ Balance0 \in [Users -> Nat]
    BY <1>1, WalletTablesAssumption DEF TypeOK
  <1>3. req[r].moved = 0
    BY <1>1 DEF RequestsInv, Remembers
  <1>4. BalancesInv' /\ user' \in [Users -> [exists : BOOLEAN, balance : Nat]]
    <2>1. PICK v \in Users : v = req[r].user
      OBVIOUS
    <2>2. user' = [user EXCEPT ![v].balance = Cents(@ + d)]
      BY <2>1 DEF MoveBalance
    <2> QED
      BY <1>1, <1>2, <1>3, <2>1, <2>2, BalancesMoved, ZenonT(30)
  <1>5. RequestsInv' /\ GrantsAreOrderedAndPaid'
    BY <1>1, <1>2, PackagesUntouched, RowsKept
  <1>6. ChargedHoursArePaid'
    BY <1>1, <1>2, ChargesKept
  <1>7. TypeOK'
    <2>1. req' \in [Requests -> RequestStates]
      BY <1>2 DEF Becomes
    <2> QED
      BY <1>1, <1>4, <2>1 DEF TypeOK
  <1> QED
    BY <1>4, <1>5, <1>6, <1>7 DEF WalletInv

LEMMA RechargeCreditKeeps ==
  ASSUME WalletInv, NEW r \in Requests, RechargeCredit(r)
  PROVE  WalletInv'
  <1>1. PICK q \in RequestStates : q = req[r]
    BY DEF WalletInv, TypeOK
  <1>2. q.pc = "rechargeCredit" /\ q.user \in Users /\ q.need = 0
    BY <1>1 DEF RechargeCredit, WalletInv, RequestsInv, Remembers, WithUser, RequestStates
  <1>3. CASE Answer(r, "error")
    BY <1>1, <1>2, <1>3, AnsweredKeeps
  <1>4. CASE /\ MoveBalance(r, q.amount)
             /\ Becomes(r, [q EXCEPT !.pc = "rechargeRecord", !.moved = q.amount])
             /\ UNCHANGED <<clock, product, package, order, recharge>>
    <2>1. PICK d \in Int : d = q.amount /\ q.amount \in Nat
      BY DEF RequestStates
    <2>2. PICK s : s = [q EXCEPT !.pc = "rechargeRecord", !.moved = d]
      OBVIOUS
    <2>3. /\ s \in RequestStates /\ s.pc = "rechargeRecord" /\ s.user = q.user /\ s.moved = d
          /\ s.need = 0 /\ s.saved = q.saved
      BY <1>2, <2>2, ZenonT(30) DEF RequestStates
    <2>4. Remembers(s)
      BY <1>2, <2>3 DEF Remembers, Unmoved
    <2>5. user[q.user].balance + d >= 0
      BY <1>2, <2>1 DEF WalletInv, TypeOK
    <2>6. /\ s.need = q.need /\ ~(s.need > 0) /\ q.pc # "done" /\ q.pc \in Unmoved
          /\ s.pc \notin Unmoved /\ s.pc # "buyGrant"
      BY <1>2, <2>3 DEF Unmoved
    <2>7. Becomes(r, s) /\ MoveBalance(r, d)
      BY <1>4, <2>1, <2>2
    <2> QED
      BY <1>1, <1>2, <1>4, <2>3, <2>4, <2>5, <2>6, <2>7, MoveKeeps
  <1> QED
    BY <1>1, <1>3, <1>4 DEF RechargeCredit

LEMMA BuyDebitKeeps ==
  ASSUME WalletInv, NEW r \in Requests, BuyDebit(r)
  PROVE  WalletInv'
  <1>1. PICK q \in RequestStates : q = req[r]
    BY DEF WalletInv, TypeOK
  <1>2. q.pc = "buyDebit" /\ q.user \in Users /\ q.need = 0
    BY <1>1 DEF BuyDebit, WalletInv, RequestsInv, Remembers, WithUser, RequestStates
  <1>3. CASE Answer(r, "error") \/ Answer(r, "refused")
    BY <1>1, <1>2, <1>3, AnsweredKeeps
  <1>4. CASE /\ CanPay(q.user, q.amount) /\ MoveBalance(r, - q.amount)
             /\ Becomes(r, [q EXCEPT !.pc = "buyOrder", !.moved = - q.amount])
             /\ UNCHANGED <<clock, product, package, order, recharge>>
    <2>1. PICK d \in Int : d = - q.amount /\ q.amount \in Nat
      BY DEF RequestStates
    <2>2. PICK s : s = [q EXCEPT !.pc = "buyOrder", !.moved = d]
      OBVIOUS
    <2>3. /\ s \in RequestStates /\ s.pc = "buyOrder" /\ s.user = q.user /\ s.moved = d
          /\ s.need = 0 /\ s.saved = q.saved /\ s.amount = q.amount
      BY <1>2, <2>2, ZenonT(30) DEF RequestStates
    <2>4. Remembers(s)
      BY <1>2, <2>1, <2>3 DEF Remembers, Unmoved
    <2>5. user[q.user].balance + d >= 0
      <3>1. user[q.user].balance \in Nat /\ user[q.user].balance >= q.amount
        BY <1>2, <1>4 DEF WalletInv, TypeOK, CanPay
      <3> QED
        BY <2>1, <3>1
    <2>6. /\ s.need = q.need /\ ~(s.need > 0) /\ q.pc # "done" /\ q.pc \in Unmoved
          /\ s.pc \notin Unmoved /\ s.pc # "buyGrant"
      BY <1>2, <2>3 DEF Unmoved
    <2>7. Becomes(r, s) /\ MoveBalance(r, d)
      BY <1>4, <2>1, <2>2
    <2> QED
      BY <1>1, <1>2, <1>4, <2>3, <2>4, <2>5, <2>6, <2>7, MoveKeeps
  <1> QED
    BY <1>1, <1>3, <1>4 DEF BuyDebit

LEMMA ChargeBalanceKeeps ==
  ASSUME WalletInv, NEW r \in Requests, ChargeBalance(r)
  PROVE  WalletInv'
  <1>1. PICK q \in RequestStates : q = req[r]
    BY DEF WalletInv, TypeOK
  <1>2. q.pc = "chargeBalance" /\ q.user \in Users /\ q.moved = 0
    BY <1>1 DEF ChargeBalance, WalletInv, RequestsInv, Remembers, WithUser, Unmoved
  <1>3. CASE Answer(r, "error") \/ Answer(r, "refused")
    BY <1>1, <1>2, <1>3, AnsweredKeeps
  <1>4. CASE /\ CanPay(q.user, q.amount) /\ MoveBalance(r, - q.amount)
             /\ Becomes(r, [q EXCEPT !.pc = "done", !.ans = "ok", !.moved = - q.amount, !.amount = 0])
             /\ UNCHANGED <<clock, product, package, order, recharge>>
    <2>1. PICK d \in Int : d = - q.amount /\ q.amount \in Nat
      BY DEF RequestStates
    <2>2. PICK s : s = [q EXCEPT !.pc = "done", !.ans = "ok", !.moved = d, !.amount = 0]
      OBVIOUS
    <2>3. /\ s \in RequestStates /\ s.pc = "done" /\ s.user = q.user /\ s.moved = d
          /\ s.need = q.need /\ s.saved = q.saved /\ s.amount = 0
      BY <1>2, <2>2, ZenonT(30) DEF RequestStates
    <2>4. Remembers(s)
      BY <2>3 DEF Remembers, Unmoved, WithUser
    <2>5. user[q.user].balance + d >= 0
      <3>1. user[q.user].balance \in Nat /\ user[q.user].balance >= q.amount
        BY <1>2, <1>4 DEF WalletInv, TypeOK, CanPay
      <3> QED
        BY <2>1, <3>1
    <2>6. s.amount - s.moved = q.amount - q.moved
      BY <1>2, <2>1, <2>3
    <2>7. MoveBalance(r, d) /\ Becomes(r, s)
      BY <1>4, <2>1, <2>2
    <2>8. /\ req[r].pc # "done" /\ req[r].pc \in Unmoved /\ req[r].user \in Users
          /\ s.pc \notin Unmoved /\ s.pc # "buyGrant"
      BY <1>1, <1>2, <2>3 DEF Unmoved
    <2>9. /\ user[req[r].user].balance + d >= 0
          /\ s.user = req[r].user /\ s.need = req[r].need /\ s.saved = req[r].saved
          /\ s.amount - s.moved = req[r].amount - req[r].moved
      BY <1>1, <2>3, <2>5, <2>6
    <2> QED
      BY <1>4, <2>3, <2>4, <2>7, <2>8, <2>9, MoveKeeps
  <1> QED
    BY <1>1, <1>3, <1>4 DEF ChargeBalance

(* The order and the grant. *)
LEMMA BuyOrderKeeps ==
  ASSUME WalletInv, NEW r \in Requests, BuyOrder(r)
  PROVE  WalletInv'
  <1>1. PICK q \in RequestStates : q = req[r]
    BY DEF WalletInv, TypeOK
  <1>2. TypeOK /\ RequestsInv /\ BalancesInv /\ ChargedHoursArePaid /\ GrantsAreOrderedAndPaid
    BY DEF WalletInv
  <1>3. /\ req \in [Requests -> RequestStates] /\ user \in [Users -> [exists : BOOLEAN, balance : Nat]]
        /\ package \in [Packages -> PackageRows] /\ Balance0 \in [Users -> Nat]
        /\ order \in [Requests -> OrderRows]
    BY <1>2, WalletTablesAssumption DEF TypeOK
  <1>4. /\ q.pc = "buyOrder" /\ q.user \in Users /\ q.need = 0 /\ (q.cash \/ q.moved = - q.amount)
        /\ package[r] = NoPackage
    <2>1. q.pc = "buyOrder" /\ Remembers(q) /\ Inserted(r)
      BY <1>1, <1>2 DEF BuyOrder, RequestsInv
    <2>2. q.need = 0
      BY <2>1 DEF Remembers, RequestStates
    <2>3. q.user \in Users /\ (q.cash \/ q.moved = - q.amount)
      BY <2>1 DEF Remembers, WithUser
    <2> QED
      BY <1>1, <2>1, <2>2, <2>3 DEF Inserted
  <1>5. PICK s : s = [q EXCEPT !.pc = "buyGrant"]
    OBVIOUS
  <1>6. /\ s \in RequestStates /\ s.pc = "buyGrant" /\ s.user = q.user /\ s.moved = q.moved
        /\ s.need = 0 /\ s.saved = q.saved /\ s.amount = q.amount /\ s.cash = q.cash /\ s.row = q.row
    BY <1>4, <1>5 DEF RequestStates
  <1>7. Remembers(s)
    BY <1>4, <1>6 DEF Remembers, Unmoved
  <1>8. /\ Becomes(r, s) /\ UNCHANGED <<clock, user, product, package, recharge>>
        /\ order' = [order EXCEPT ![r] = [user |-> q.user, amount |-> q.amount, hours |-> q.row.hours]]
    BY <1>1, <1>5 DEF BuyOrder
  <1>9. req'[r] = s /\ \A x \in Requests \ {r} : req'[x] = req[x] /\ order'[x] = order[x]
    BY <1>3, <1>8 DEF Becomes
  <1>10. TypeOK'
    <2>1. req' \in [Requests -> RequestStates]
      BY <1>3, <1>6, <1>8 DEF Becomes
    <2>2. q.amount \in Nat /\ q.row.hours \in Nat
      BY DEF RequestStates, ProductRows
    <2>3. order' \in [Requests -> OrderRows]
      BY <1>3, <1>4, <1>8, <2>2 DEF OrderRows
    <2> QED
      BY <1>2, <1>8, <2>1, <2>3 DEF TypeOK
  <1>11. RequestsInv'
    <2>1. ASSUME NEW x \in Requests
          PROVE  Remembers(req'[x]) /\ Inserted(x)'
      <3>1. CASE x = r
        <4>1. order'[r] = [user |-> s.user, amount |-> s.amount, hours |-> s.row.hours]
          BY <1>3, <1>6, <1>8
        <4> QED
          BY <1>4, <1>6, <1>7, <1>8, <1>9, <3>1, <4>1 DEF Inserted
      <3>2. CASE x # r
        <4>1. Remembers(req[x]) /\ Inserted(x) /\ req'[x] = req[x] /\ order'[x] = order[x] /\ package' = package
          BY <1>2, <1>8, <1>9, <3>2 DEF RequestsInv
        <4> QED
          BY <4>1 DEF Inserted
      <3> QED
        BY <3>1, <3>2
    <2> QED
      BY <2>1 DEF RequestsInv
  <1>12. GrantsAreOrderedAndPaid'
    <2>1. package[r].status = "none"
      BY <1>4 DEF NoPackage
    <2> QED
      BY <1>2, <1>8, <1>9, <2>1 DEF GrantsAreOrderedAndPaid
  <1>13. BalancesInv'
    <2>1. /\ \A v \in Users : (s.saved /\ s.user = v) \/ user'[v].balance = user[v].balance
          /\ s.pc \notin Unmoved
      BY <1>6, <1>8 DEF Unmoved
    <2> QED
      BY <1>1, <1>2, <1>3, <1>6, <1>8, <2>1, BalancesKept
  <1>14. ChargedHoursArePaid'
    BY <1>1, <1>2, <1>3, <1>4, <1>6, <1>8, ChargesKept
  <1> QED
    BY <1>10, <1>11, <1>12, <1>13, <1>14 DEF WalletInv

LEMMA BuyGrantKeeps ==
  ASSUME WalletInv, NEW r \in Requests, BuyGrant(r)
  PROVE  WalletInv'
  <1>1. PICK q \in RequestStates : q = req[r]
    BY DEF WalletInv, TypeOK
  <1>2. TypeOK /\ RequestsInv /\ BalancesInv /\ ChargedHoursArePaid /\ GrantsAreOrderedAndPaid
    BY DEF WalletInv
  <1>3. /\ req \in [Requests -> RequestStates] /\ user \in [Users -> [exists : BOOLEAN, balance : Nat]]
        /\ package \in [Packages -> PackageRows] /\ Balance0 \in [Users -> Nat]
        /\ clock \in Nat /\ r \in Packages
    BY <1>2, WalletTablesAssumption DEF TypeOK, Packages
  <1>4. /\ q.pc = "buyGrant" /\ q.user \in Users /\ q.need = 0 /\ (q.cash \/ q.moved = - q.amount)
        /\ package[r] = NoPackage
        /\ order[r] = [user |-> q.user, amount |-> q.amount, hours |-> q.row.hours]
    BY <1>1, <1>2 DEF BuyGrant, RequestsInv, Remembers, Inserted, WithUser, RequestStates
  <1>5. PICK s : s = [q EXCEPT !.pc = "done", !.ans = "ok"]
    OBVIOUS
  <1>6. /\ s \in RequestStates /\ s.pc = "done" /\ s.user = q.user /\ s.moved = q.moved
        /\ s.need = 0 /\ s.saved = q.saved /\ s.amount = q.amount /\ s.cash = q.cash
    BY <1>4, <1>5 DEF RequestStates
  <1>7. PICK row : row = [status |-> "active", user |-> q.user, total |-> q.row.hours,
                          left |-> q.row.hours, expire |-> clock + q.row.days]
    OBVIOUS
  <1>8. /\ Becomes(r, s) /\ UNCHANGED <<clock, user, product, order, recharge>>
        /\ package' = [package EXCEPT ![r] = row]
    BY <1>1, <1>5, <1>7 DEF BuyGrant, Return
  <1>9. row \in PackageRows /\ row.left = row.total /\ row.user = q.user /\ row.total = q.row.hours
    <2>1. q.row.hours \in Nat /\ q.row.days \in Nat
      BY DEF RequestStates, ProductRows
    <2> QED
      BY <1>3, <1>4, <1>7, <2>1 DEF PackageRows
  <1>10. /\ req'[r] = s /\ package'[r] = row
         /\ \A x \in Requests \ {r} : req'[x] = req[x] /\ package'[x] = package[x]
    <2>1. Requests \subseteq Packages
      BY DEF Packages
    <2> QED
      BY <1>3, <1>8, <2>1 DEF Becomes
  <1>11. TypeOK'
    <2>1. req' \in [Requests -> RequestStates] /\ package' \in [Packages -> PackageRows]
      BY <1>3, <1>6, <1>8, <1>9 DEF Becomes
    <2> QED
      BY <1>2, <1>8, <2>1 DEF TypeOK
  <1>12. RequestsInv'
    <2>1. ASSUME NEW x \in Requests
          PROVE  Remembers(req'[x]) /\ Inserted(x)'
      <3>1. CASE x = r
        BY <1>6, <1>10, <3>1 DEF Inserted, Remembers, WithUser, Unmoved
      <3>2. CASE x # r
        <4>1. Remembers(req[x]) /\ Inserted(x) /\ req'[x] = req[x] /\ package'[x] = package[x] /\ order' = order
          BY <1>2, <1>8, <1>10, <3>2 DEF RequestsInv
        <4> QED
          BY <4>1 DEF Inserted
      <3> QED
        BY <3>1, <3>2
    <2> QED
      BY <2>1 DEF RequestsInv
  <1>13. GrantsAreOrderedAndPaid'
    BY <1>2, <1>4, <1>6, <1>8, <1>9, <1>10 DEF GrantsAreOrderedAndPaid
  <1>14. BalancesInv'
    <2>1. /\ \A v \in Users : (s.saved /\ s.user = v) \/ user'[v].balance = user[v].balance
          /\ s.pc \notin Unmoved
      BY <1>6, <1>8 DEF Unmoved
    <2> QED
      BY <1>1, <1>2, <1>3, <1>6, <1>8, <2>1, BalancesKept
  <1>15. ChargedHoursArePaid'
    <2>1. s.need = req[r].need /\ req[r].need = 0
      BY <1>1, <1>4, <1>6
    <2> QED
      BY <1>2, <1>3, <1>4, <1>6, <1>8, <1>9, <2>1, ChargesGranted
  <1> QED
    BY <1>11, <1>12, <1>13, <1>14, <1>15 DEF WalletInv

(* A charge, whether the balance pays at once, later or not at all. *)
LEMMA CostIs ==
  ASSUME package \in [Packages -> PackageRows], NEW u \in Users, NEW turn \in SoonestFirst(u),
         NEW need \in Nat
  PROVE  BalanceCost(turn, need) \in Nat
  <1>1. PICK g : g = SumFunction([p \in DOMAIN turn |-> Use(turn, p, need)])
    OBVIOUS
  <1>2. g \in Nat
    BY <1>1, UsesAreNeeded
  <1>3. PICK m : m = Max({0, need - g})
    OBVIOUS
  <1>4. m \in Nat
    <2>1. PICK n \in Int : n = need - g
      BY <1>2
    <2> QED
      BY <1>3, <2>1, MaxOfZero
  <1>5. PricePerHour * m \in Nat
    BY <1>4, SMT
  <1> QED
    BY <1>1, <1>3, <1>5 DEF BalanceCost

LEMMA ChargePackagesKeeps ==
  ASSUME WalletInv, NEW r \in Requests, ChargePackages(r)
  PROVE  WalletInv'
  <1>1. TypeOK /\ RequestsInv /\ BalancesInv /\ ChargedHoursArePaid /\ GrantsAreOrderedAndPaid
    BY DEF WalletInv
  <1>2. /\ req \in [Requests -> RequestStates] /\ user \in [Users -> [exists : BOOLEAN, balance : Nat]]
        /\ package \in [Packages -> PackageRows] /\ Balance0 \in [Users -> Nat]
    BY <1>1, WalletTablesAssumption DEF TypeOK
  <1>3. req[r].pc = "new" /\ UNCHANGED <<clock, user, product, order, recharge>>
    BY DEF ChargePackages
  <1>4. PICK q \in RequestStates : /\ q = req[r] /\ q.user = Nil /\ q.moved = 0 /\ q.need = 0
                                   /\ q.amount = 0 /\ q.saved = FALSE
    BY <1>3, NewIs
  <1>5. PICK u \in Users, need \in Needs : \E turn \in SoonestFirst(u) :
          LET cost == BalanceCost(turn, need)
              paid == [req[r] EXCEPT !.user = u, !.need = need, !.amount = cost]
          IN /\ package' = AfterConsuming(turn, need)
             /\ \/ cost = 0 /\ Becomes(r, [paid EXCEPT !.pc = "done", !.ans = "ok"])
                \/ cost > 0 /\ Becomes(r, [paid EXCEPT !.pc = "chargeBalance"])
    BY ZenonT(30) DEF ChargePackages
  <1>6. PICK turn \in SoonestFirst(u) : \E cost, s :
          /\ cost = BalanceCost(turn, need) /\ package' = AfterConsuming(turn, need) /\ Becomes(r, s)
          /\ \/ s = [q EXCEPT !.user = u, !.need = need, !.amount = cost, !.pc = "done", !.ans = "ok"]
             \/ s = [q EXCEPT !.user = u, !.need = need, !.amount = cost, !.pc = "chargeBalance"]
    <2>1. PICK turn \in SoonestFirst(u) :
            LET cost == BalanceCost(turn, need)
                paid == [req[r] EXCEPT !.user = u, !.need = need, !.amount = cost]
            IN /\ package' = AfterConsuming(turn, need)
               /\ \/ cost = 0 /\ Becomes(r, [paid EXCEPT !.pc = "done", !.ans = "ok"])
                  \/ cost > 0 /\ Becomes(r, [paid EXCEPT !.pc = "chargeBalance"])
      BY <1>5, ZenonT(30)
    <2>2. PICK cost : cost = BalanceCost(turn, need)
      OBVIOUS
    <2>3. PICK paid : paid = [q EXCEPT !.user = u, !.need = need, !.amount = cost]
      OBVIOUS
    <2>4. \/ Becomes(r, [paid EXCEPT !.pc = "done", !.ans = "ok"])
          \/ Becomes(r, [paid EXCEPT !.pc = "chargeBalance"])
      BY <1>4, <2>1, <2>2, <2>3
    <2>5. /\ [paid EXCEPT !.pc = "done", !.ans = "ok"]
             = [q EXCEPT !.user = u, !.need = need, !.amount = cost, !.pc = "done", !.ans = "ok"]
          /\ [paid EXCEPT !.pc = "chargeBalance"]
             = [q EXCEPT !.user = u, !.need = need, !.amount = cost, !.pc = "chargeBalance"]
      BY <2>3 DEF RequestStates
    <2> QED
      BY <2>1, <2>2, <2>4, <2>5, ZenonT(30)
  <1>7. PICK cost, s :
          /\ cost = BalanceCost(turn, need) /\ package' = AfterConsuming(turn, need) /\ Becomes(r, s)
          /\ \/ s = [q EXCEPT !.user = u, !.need = need, !.amount = cost, !.pc = "done", !.ans = "ok"]
             \/ s = [q EXCEPT !.user = u, !.need = need, !.amount = cost, !.pc = "chargeBalance"]
    BY <1>6, ZenonT(30)
  <1>8. need \in Nat /\ need > 0
    OBVIOUS
  <1>9. cost \in Nat
    BY <1>2, <1>7, <1>8, CostIs
  <1>10. s \in RequestStates
    <2>1. CASE s = [q EXCEPT !.user = u, !.need = need, !.amount = cost, !.pc = "done", !.ans = "ok"]
      BY <1>8, <1>9, <2>1 DEF RequestStates
    <2>2. CASE s = [q EXCEPT !.user = u, !.need = need, !.amount = cost, !.pc = "chargeBalance"]
      BY <1>8, <1>9, <2>2 DEF RequestStates
    <2> QED
      BY <1>7, <2>1, <2>2
  <1>11. /\ s.pc \in {"done", "chargeBalance"} /\ s.user = u /\ s.need = need /\ s.amount = cost
         /\ s.moved = 0 /\ s.saved = FALSE
    <2>1. CASE s = [q EXCEPT !.user = u, !.need = need, !.amount = cost, !.pc = "done", !.ans = "ok"]
      <3>1. s.pc = "done" /\ s.user = u /\ s.need = need /\ s.amount = cost
        BY <2>1 DEF RequestStates
      <3>2. s.moved = q.moved /\ s.saved = q.saved
        BY <2>1 DEF RequestStates
      <3> QED
        BY <1>4, <3>1, <3>2
    <2>2. CASE s = [q EXCEPT !.user = u, !.need = need, !.amount = cost, !.pc = "chargeBalance"]
      <3>1. s.pc = "chargeBalance" /\ s.user = u /\ s.need = need /\ s.amount = cost
        BY <2>2 DEF RequestStates
      <3>2. s.moved = q.moved /\ s.saved = q.saved
        BY <2>2 DEF RequestStates
      <3> QED
        BY <1>4, <3>1, <3>2
    <2> QED
      BY <1>7, <2>1, <2>2
  <1>12. Remembers(s) /\ s.pc # "buyGrant"
    BY <1>11 DEF Remembers, Unmoved
  <1>13. /\ package' \in [Packages -> PackageRows]
         /\ \A p \in Packages : /\ package'[p].user = package[p].user
                                /\ package'[p].total = package[p].total
                                /\ package'[p].status = "none" <=> package[p].status = "none"
                                /\ package[p].status # "active" => package'[p] = package[p]
    BY <1>2, <1>7, <1>8, ConsumingIs
  <1>14. TypeOK'
    <2>1. req' \in [Requests -> RequestStates]
      BY <1>2, <1>7, <1>10 DEF Becomes
    <2> QED
      BY <1>1, <1>3, <1>13, <2>1 DEF TypeOK
  <1>15. RequestsInv' /\ GrantsAreOrderedAndPaid'
    <2>1. req[r].pc # "done" /\ order' = order
      BY <1>3
    <2> QED
      BY <1>1, <1>2, <1>7, <1>10, <1>12, <1>13, <2>1, RowsKept
  <1>16. BalancesInv'
    <2>1. /\ \A v \in Users : (s.saved /\ s.user = v) \/ user'[v].balance = user[v].balance
          /\ s.moved = req[r].moved /\ req[r].user = Nil
          /\ req[r].saved => s.saved
          /\ req[r].pc \notin Unmoved => s.pc \notin Unmoved
      BY <1>3, <1>4, <1>11 DEF Unmoved
    <2> QED
      BY <1>1, <1>2, <1>7, <1>10, <1>11, <2>1, BalancesKept
  <1>17. ChargedHoursArePaid'
    <2>1. s.amount - s.moved = BalanceCost(turn, need) /\ req[r].need = 0
      BY <1>4, <1>7, <1>9, <1>11
    <2> QED
      BY <1>1, <1>2, <1>7, <1>8, <1>10, <1>11, <2>1, ChargesMade
  <1> QED
    BY <1>14, <1>15, <1>16, <1>17 DEF WalletInv

LEMMA ScanChargeKeeps ==
  ASSUME WalletInv, NEW r \in Requests, ScanCharge(r)
  PROVE  WalletInv'
  <1>1. TypeOK /\ RequestsInv /\ BalancesInv /\ ChargedHoursArePaid /\ GrantsAreOrderedAndPaid
    BY DEF WalletInv
  <1>2. /\ req \in [Requests -> RequestStates] /\ user \in [Users -> [exists : BOOLEAN, balance : Nat]]
        /\ package \in [Packages -> PackageRows] /\ Balance0 \in [Users -> Nat]
    BY <1>1, WalletTablesAssumption DEF TypeOK
  <1>3. req[r].pc = "new"
    BY DEF ScanCharge
  <1>4. PICK q \in RequestStates : /\ q = req[r] /\ q.user = Nil /\ q.moved = 0 /\ q.need = 0
                                   /\ q.amount = 0 /\ q.saved = FALSE
    BY <1>3, NewIs
  <1>5. PICK u \in Users, need \in Needs : \E turn \in SoonestFirst(u) :
          LET cost == BalanceCost(turn, need) IN
          \/ /\ user[u].exists
             /\ cost = 0 \/ CanPay(u, cost)
             /\ package' = AfterConsuming(turn, need)
             /\ user' = IF cost = 0 THEN user ELSE [user EXCEPT ![u].balance = Cents(@ - cost)]
             /\ Becomes(r, [req[r] EXCEPT !.pc = "done", !.ans = "ok", !.user = u, !.need = need,
                                          !.moved = - cost])
             /\ UNCHANGED <<clock, product, order, recharge>>
          \/ user[u].exists /\ cost > 0 /\ ~CanPay(u, cost) /\ Answer(r, "refused")
          \/ ~user[u].exists /\ Answer(r, "error")
    BY ZenonT(30) DEF ScanCharge
  <1>6. PICK turn \in SoonestFirst(u) : \E cost :
          /\ cost = BalanceCost(turn, need)
          /\ \/ /\ cost = 0 \/ CanPay(u, cost)
                /\ package' = AfterConsuming(turn, need)
                /\ user' = IF cost = 0 THEN user ELSE [user EXCEPT ![u].balance = Cents(@ - cost)]
                /\ Becomes(r, [req[r] EXCEPT !.pc = "done", !.ans = "ok", !.user = u, !.need = need,
                                                  !.moved = - cost])
                /\ UNCHANGED <<clock, product, order, recharge>>
             \/ Answer(r, "refused") \/ Answer(r, "error")
    BY <1>5, ZenonT(30)
  <1>7. PICK cost :
          /\ cost = BalanceCost(turn, need)
          /\ \/ /\ cost = 0 \/ CanPay(u, cost)
                /\ package' = AfterConsuming(turn, need)
                /\ user' = IF cost = 0 THEN user ELSE [user EXCEPT ![u].balance = Cents(@ - cost)]
                /\ Becomes(r, [q EXCEPT !.pc = "done", !.ans = "ok", !.user = u, !.need = need,
                                        !.moved = - cost])
                /\ UNCHANGED <<clock, product, order, recharge>>
             \/ Answer(r, "refused") \/ Answer(r, "error")
    BY <1>4, <1>6, ZenonT(30)
  <1>8. need \in Nat /\ need > 0
    OBVIOUS
  <1>9. cost \in Nat
    BY <1>2, <1>7, <1>8, CostIs
  <1>10. CASE Answer(r, "refused") \/ Answer(r, "error")
    BY <1>3, <1>10, AnsweredKeeps
  <1>11. CASE /\ cost = 0 \/ CanPay(u, cost)
              /\ package' = AfterConsuming(turn, need)
              /\ user' = IF cost = 0 THEN user ELSE [user EXCEPT ![u].balance = Cents(@ - cost)]
              /\ Becomes(r, [q EXCEPT !.pc = "done", !.ans = "ok", !.user = u, !.need = need,
                                      !.moved = - cost])
              /\ UNCHANGED <<clock, product, order, recharge>>
    <2>1. PICK d \in Int : d = - cost
      BY <1>9
    <2>2. PICK s : s = [q EXCEPT !.pc = "done", !.ans = "ok", !.user = u, !.need = need, !.moved = d]
      OBVIOUS
    <2>3. Becomes(r, s)
      BY <1>11, <2>1, <2>2
    <2>4. s \in RequestStates
      BY <1>8, <2>2, ZenonT(30) DEF RequestStates
    <2>5. /\ s.pc = "done" /\ s.user = u /\ s.need = need /\ s.amount = 0 /\ s.moved = d /\ s.saved = FALSE
      BY <1>4, <2>2 DEF RequestStates
    <2>6. Remembers(s) /\ s.pc # "buyGrant" /\ s.pc \notin Unmoved
      BY <2>5 DEF Remembers, Unmoved, WithUser
    <2>7. /\ package' \in [Packages -> PackageRows]
          /\ \A p \in Packages : /\ package'[p].user = package[p].user
                                 /\ package'[p].total = package[p].total
                                 /\ package'[p].status = "none" <=> package[p].status = "none"
                                 /\ package[p].status # "active" => package'[p] = package[p]
      BY <1>2, <1>8, <1>11, ConsumingIs
    <2>8. RequestsInv' /\ GrantsAreOrderedAndPaid'
      <3>1. req[r].pc # "done" /\ order' = order
        BY <1>3, <1>11
      <3> QED
        BY <1>1, <1>2, <2>3, <2>4, <2>6, <2>7, <3>1, RowsKept
    <2>9. BalancesInv' /\ user' \in [Users -> [exists : BOOLEAN, balance : Nat]]
      <3>1. req[r].saved => s.saved
        BY <1>4, <2>5
      <3>2. CASE cost = 0
        <4>1. /\ user' = user /\ s.moved = req[r].moved /\ req[r].user = Nil /\ s.moved = 0
              /\ req[r].pc \notin Unmoved => s.pc \notin Unmoved
          <5>1. d + cost = 0
            BY <1>9, <2>1
          <5>2. d = 0
            BY <3>2, <5>1
          <5>3. user' = user
            BY <1>11, <3>2, Zenon
          <5> QED
            BY <1>4, <2>5, <2>6, <5>2, <5>3
        <4>2. \A v \in Users : (s.saved /\ s.user = v) \/ user'[v].balance = user[v].balance
          BY <4>1
        <4> QED
          BY <1>1, <1>2, <2>3, <2>4, <3>1, <4>1, <4>2, BalancesKept, ZenonT(30)
      <3>3. CASE cost # 0
        <4>1. user[u].balance \in Nat
          BY <1>2
        <4>2. user[u].balance + d >= 0
          BY <1>9, <1>11, <2>1, <3>3, <4>1 DEF CanPay
        <4>3. user' = [user EXCEPT ![u].balance = Cents(@ + d)]
          <5>1. user' = [user EXCEPT ![u].balance = Cents(@ - cost)]
            BY <1>11, <3>3
          <5>2. user[u].balance - cost = user[u].balance + d
            BY <1>9, <2>1, <4>1
          <5> QED
            BY <5>1, <5>2
        <4>4. req[r].moved = 0 /\ req[r].user \in {u, Nil} /\ req[r].pc \in Unmoved
          BY <1>3, <1>4 DEF Unmoved
        <4> QED
          BY <1>1, <1>2, <2>3, <2>4, <2>5, <2>6, <3>1, <4>2, <4>3, <4>4, BalancesMoved, ZenonT(30)
      <3> QED
        BY <3>2, <3>3
    <2>10. TypeOK'
      <3>1. req' \in [Requests -> RequestStates]
        BY <1>2, <2>3, <2>4 DEF Becomes
      <3> QED
        BY <1>1, <1>11, <2>7, <2>9, <3>1 DEF TypeOK
    <2>11. ChargedHoursArePaid'
      <3>1. s.amount - s.moved = BalanceCost(turn, need) /\ req[r].need = 0
        BY <1>4, <1>7, <1>9, <2>1, <2>5
      <3> QED
        BY <1>1, <1>2, <1>8, <1>11, <2>3, <2>4, <2>5, <3>1, ChargesMade
    <2> QED
      BY <2>8, <2>9, <2>10, <2>11 DEF WalletInv
  <1> QED
    BY <1>7, <1>10, <1>11

(* Whoever saves or deletes a whole user row is remembered. *)
LEMMA RowWrittenKeeps ==
  ASSUME WalletInv, NEW r \in Requests, req[r].pc # "done", NEW s \in RequestStates, Becomes(r, s),
         UNCHANGED <<clock, product, package, order, recharge>>,
         NEW u \in Users, NEW row \in [exists : BOOLEAN, balance : Nat], user' = [user EXCEPT ![u] = row],
         s.pc = "done", s.user = u, s.saved, req[r].user \in {u, Nil}, req[r].moved = 0, s.moved = 0,
         req[r].need = 0, s.need = 0
  PROVE  WalletInv'
  <1>1. TypeOK /\ RequestsInv /\ BalancesInv /\ ChargedHoursArePaid /\ GrantsAreOrderedAndPaid
    BY DEF WalletInv
  <1>2. /\ req \in [Requests -> RequestStates] /\ user \in [Users -> [exists : BOOLEAN, balance : Nat]]
        /\ package \in [Packages -> PackageRows] /\ Balance0 \in [Users -> Nat]
    BY <1>1, WalletTablesAssumption DEF TypeOK
  <1>3. Remembers(s) /\ s.pc \notin Unmoved
    BY DEF Remembers, WithUser, Unmoved
  <1>4. TypeOK'
    <2>1. req' \in [Requests -> RequestStates] /\ user' \in [Users -> [exists : BOOLEAN, balance : Nat]]
      BY <1>2 DEF Becomes
    <2> QED
      BY <1>1, <2>1 DEF TypeOK
  <1>5. RequestsInv' /\ GrantsAreOrderedAndPaid'
    BY <1>1, <1>2, <1>3, PackagesUntouched, RowsKept
  <1>6. BalancesInv'
    <2>1. \A v \in Users : (s.saved /\ s.user = v) \/ user'[v].balance = user[v].balance
      BY <1>2
    <2> QED
      BY <1>1, <1>2, <1>3, <2>1, BalancesKept
  <1>7. ChargedHoursArePaid'
    BY <1>1, <1>2, ChargesKept
  <1> QED
    BY <1>4, <1>5, <1>6, <1>7 DEF WalletInv

LEMMA EditSaveKeeps ==
  ASSUME WalletInv, NEW r \in Requests, EditSave(r)
  PROVE  WalletInv'
  <1>1. PICK q \in RequestStates : q = req[r]
    BY DEF WalletInv, TypeOK
  <1>2. q.pc = "editSave" /\ q.user \in Users /\ q.moved = 0
    BY <1>1 DEF EditSave, WalletInv, RequestsInv, Remembers, WithUser, Unmoved
  <1>3. q.need = 0
    BY <1>1, <1>2 DEF WalletInv, RequestsInv, Remembers, RequestStates
  <1>4. PICK s : s = [q EXCEPT !.pc = "done", !.ans = "ok", !.saved = TRUE]
    OBVIOUS
  <1>5. /\ s \in RequestStates /\ s.pc = "done" /\ s.user = q.user /\ s.saved = TRUE /\ s.moved = 0
        /\ s.need = 0
    BY <1>2, <1>3, <1>4, ZenonT(30) DEF RequestStates
  <1>6. /\ Becomes(r, s) /\ UNCHANGED <<clock, product, package, order, recharge>>
        /\ user' = [user EXCEPT ![q.user] = [exists |-> TRUE, balance |-> q.balance]]
    BY <1>1, <1>4 DEF EditSave
  <1>7. [exists |-> TRUE, balance |-> q.balance] \in [exists : BOOLEAN, balance : Nat]
    BY DEF RequestStates
  <1> QED
    BY <1>1, <1>2, <1>3, <1>5, <1>6, <1>7, RowWrittenKeeps

LEMMA DeleteUserKeeps ==
  ASSUME WalletInv, NEW r \in Requests, DeleteUser(r)
  PROVE  WalletInv'
  <1>1. req[r].pc = "new"
    BY DEF DeleteUser
  <1>2. PICK q \in RequestStates : q = req[r] /\ q.user = Nil /\ q.moved = 0 /\ q.need = 0
    BY <1>1, NewIs
  <1>3. PICK u \in Users :
          /\ user' = [user EXCEPT ![u] = [exists |-> FALSE, balance |-> 0]]
          /\ Becomes(r, [q EXCEPT !.pc = "done", !.ans = "ok", !.user = u, !.saved = TRUE])
    BY <1>2 DEF DeleteUser
  <1>4. PICK s : s = [q EXCEPT !.pc = "done", !.ans = "ok", !.user = u, !.saved = TRUE]
    OBVIOUS
  <1>5. s \in RequestStates /\ s.pc = "done" /\ s.user = u /\ s.saved = TRUE /\ s.moved = 0 /\ s.need = 0
    <2>1. PICK first \in RequestStates : first = [q EXCEPT !.pc = "done", !.ans = "ok"]
      BY ZenonT(30) DEF RequestStates
    <2>2. s = [first EXCEPT !.user = u, !.saved = TRUE]
      BY <1>4, <2>1 DEF RequestStates
    <2>3. s \in RequestStates /\ s.user = u /\ s.saved = TRUE
      BY <2>2, ZenonT(30) DEF RequestStates
    <2>4. first.pc = "done" /\ first.moved = q.moved /\ first.need = q.need
      BY <2>1 DEF RequestStates
    <2>5. s.pc = first.pc /\ s.moved = first.moved /\ s.need = first.need
      BY <2>2 DEF RequestStates
    <2> QED
      BY <1>2, <2>3, <2>4, <2>5
  <1>6. UNCHANGED <<clock, product, package, order, recharge>>
    BY DEF DeleteUser
  <1>7. [exists |-> FALSE, balance |-> 0] \in [exists : BOOLEAN, balance : Nat]
    OBVIOUS
  <1> QED
    BY <1>1, <1>2, <1>3, <1>4, <1>5, <1>6, <1>7, RowWrittenKeeps, ZenonT(30)

LEMMA TickKeeps ==
  ASSUME WalletInv, UNCHANGED <<tables, req>>, clock' \in Nat
  PROVE  WalletInv'
  <1>1. TypeOK /\ RequestsInv /\ BalancesInv /\ ChargedHoursArePaid /\ GrantsAreOrderedAndPaid
    BY DEF WalletInv
  <1>2. UNCHANGED <<user, product, package, order, recharge, req>>
    BY DEF tables
  <1>3. TypeOK'
    BY <1>1, <1>2 DEF TypeOK
  <1>4. RequestsInv' /\ GrantsAreOrderedAndPaid'
    BY <1>1, <1>2 DEF RequestsInv, Inserted, GrantsAreOrderedAndPaid
  <1>5. BalancesInv'
    BY <1>1, <1>2 DEF BalancesInv, Edited, By, Expected, Writers
  <1>6. ChargedHoursArePaid'
    BY <1>1, <1>2 DEF ChargedHoursArePaid, Taken, TakenBefore, Asked, Owing, Charges, Bought, By
  <1> QED
    BY <1>3, <1>4, <1>5, <1>6 DEF WalletInv

-----------------------------------------------------------------------------
(* The theorems. *)

LEMMA WalletStarts ==
  ASSUME WalletInit
  PROVE  WalletInv
  <1>1. /\ Balance0 \in [Users -> Nat] /\ Owned0 \in [Owned -> PackageRows] /\ Product0 \in [Products -> ProductRows]
    BY WalletTablesAssumption
  <1>2. /\ NoPackage \in PackageRows /\ NoOrder \in OrderRows /\ NewRequest \in RequestStates
        /\ NoPackage.status = "none"
    <2>1. NoPackage \in PackageRows /\ NoPackage.status = "none"
      BY DEF NoPackage, PackageRows
    <2>2. NoOrder \in OrderRows
      BY DEF NoOrder, OrderRows
    <2>3. NoProduct \in ProductRows
      BY DEF NoProduct, ProductRows
    <2>4. NewRequest \in RequestStates
      BY <2>3 DEF NewRequest, RequestStates
    <2> QED
      BY <2>1, <2>2, <2>4
  <1>3. TypeOK
    <2>1. user \in [Users -> [exists : BOOLEAN, balance : Nat]]
      BY <1>1 DEF WalletInit
    <2>2. package \in [Packages -> PackageRows]
      BY <1>1, <1>2 DEF WalletInit
    <2> QED
      BY <1>1, <1>2, <2>1, <2>2 DEF WalletInit, TypeOK
  <1>4. \A r \in Requests : req[r] = NewRequest /\ package[r] = NoPackage
    BY DEF WalletInit, Packages
  <1>5. RequestsInv
    BY <1>4, NewRequestIs DEF RequestsInv, Remembers, Inserted, WithUser
  <1>6. GrantsAreOrderedAndPaid
    BY <1>2, <1>4 DEF GrantsAreOrderedAndPaid
  <1>7. ASSUME NEW u \in Users
        PROVE  By(u) = {} /\ Charges(u) = {}
    BY <1>4, NewRequestIs DEF By, Charges
  <1>8. BalancesInv
    <2>1. ASSUME NEW u \in Users
          PROVE  Distance(user[u].balance, Expected(u)) =< 150 * Cardinality(Writers(u))
      <3>1. Expected(u) = Balance0[u] + 0
        <4>1. PICK f : f = [r \in Requests |-> req[r].moved]
          OBVIOUS
        <4>2. SumFunctionOnSet(f, {}) = 0
          BY SumEmpty
        <4> QED
          BY <1>7, <4>1, <4>2 DEF Expected
      <3>2. user[u].balance = Balance0[u] /\ Balance0[u] \in Nat
        BY <1>1 DEF WalletInit
      <3>3. Writers(u) = {}
        BY <1>7 DEF Writers
      <3>4. Cardinality(Writers(u)) = 0
        BY <3>3, FS_EmptySet
      <3> QED
        BY <3>1, <3>2, <3>4 DEF Distance
    <2> QED
      BY <2>1 DEF BalancesInv, Cent
  <1>9. ChargedHoursArePaid
    <2>1. ASSUME NEW u \in Users
          PROVE  Paid(Taken(u), TakenBefore(u), Owing(u), Asked(u),
                      Cardinality(Charges(u)), Cardinality(Bought(u)), PricePerHour)
      <3>1. Asked(u) = 0 /\ Owing(u) = 0
        <4>1. PICK f, g : f = [r \in Requests |-> req[r].need] /\ g = [r \in Requests |-> req[r].amount - req[r].moved]
          OBVIOUS
        <4>2. SumFunctionOnSet(f, {}) = 0 /\ SumFunctionOnSet(g, {}) = 0
          BY SumEmpty
        <4> QED
          BY <1>7, <4>1, <4>2 DEF Asked, Owing
      <3>2. Taken(u) = TakenBefore(u) /\ TakenBefore(u) \in Int
        <4>1. PICK f, e, S, T : /\ f = [p \in Packages |-> package[p].total - package[p].left]
                                /\ e = [p \in Owned |-> Owned0[p].total - Owned0[p].left]
                                /\ S = Bought(u) /\ T = Owned \cap Bought(u)
          OBVIOUS
        <4>2. S = T
          <5>1. \A p \in Packages \ Owned : package[p].user = Nil
            BY DEF WalletInit, NoPackage
          <5> QED
            BY <4>1, <5>1 DEF Bought
        <4>3. T \subseteq Owned /\ IsFiniteSet(T)
          BY <4>1, FS_Subset
        <4>4. \A p \in T : f[p] = e[p]
          <5>1. \A p \in Owned : p \in Packages /\ package[p] = Owned0[p]
            BY DEF WalletInit, Packages
          <5> QED
            BY <4>1, <4>3, <5>1
        <4>5. SumFunctionOnSet(f, T) = SumFunctionOnSet(e, T)
          BY <4>3, <4>4, SumCongruent
        <4> QED
          BY <4>1, <4>2, <4>5, BeforeIs DEF Taken, TakenBefore
      <3>3. Cardinality(Charges(u)) = 0 /\ Cardinality(Bought(u)) \in Nat
        BY <1>7, FS_EmptySet, CountsAre
      <3>4. PICK t, k, P : t = Taken(u) /\ k = Cardinality(Bought(u)) /\ P = PricePerHour
        OBVIOUS
      <3>5. Paid(t, t, 0, 0, 0, k, P)
        <4>1. t \in Int /\ k \in Nat /\ P \in Nat
          BY <3>2, <3>3, <3>4
        <4>2. (t - t) * P + 0 = 0 /\ 0 * P = 0 /\ (0 * k) * P = 0
          BY <4>1
        <4> QED
          BY <4>2 DEF Paid, Distance
      <3> QED
        BY <3>1, <3>2, <3>3, <3>4, <3>5
    <2> QED
      BY <2>1, ChargedIs
  <1> QED
    BY <1>3, <1>5, <1>6, <1>8, <1>9 DEF WalletInv

LEMMA WalletStep ==
  ASSUME WalletInv, [WalletNext]_vars
  PROVE  WalletInv'
  <1>1. CASE UNCHANGED vars
    <2>1. clock' = clock /\ UNCHANGED <<tables, req>> /\ clock \in Nat
      BY <1>1 DEF vars, WalletInv, TypeOK
    <2> QED
      BY <2>1, TickKeeps
  <1>2. CASE Tick
    <2>1. UNCHANGED <<tables, req>> /\ clock' \in Nat
      BY <1>2 DEF Tick, WalletInv, TypeOK
    <2> QED
      BY <2>1, TickKeeps
  <1>3. ASSUME NEW r \in Requests, Serve(r)
        PROVE  WalletInv'
    <2>1. CASE Recharge(r)
      BY <2>1, RechargeReadKeeps, RechargeCreditKeeps, RechargeRecordKeeps DEF Recharge
    <2>2. CASE BuyPackage(r)
      BY <2>2, BuyReadKeeps, BuyDebitKeeps, BuyOrderKeeps, BuyGrantKeeps DEF BuyPackage
    <2>3. CASE ChargePackages(r) \/ ChargeBalance(r)
      BY <2>3, ChargePackagesKeeps, ChargeBalanceKeeps
    <2>4. CASE ScanCharge(r)
      BY <2>4, ScanChargeKeeps
    <2>5. CASE EditUser(r)
      BY <2>5, EditReadKeeps, EditSaveKeeps DEF EditUser
    <2>6. CASE DeleteUser(r)
      BY <2>6, DeleteUserKeeps
    <2>7. CASE EditProduct(r)
      BY <2>7, ProductReadKeeps, ProductSaveKeeps DEF EditProduct
    <2>8. CASE DeleteProduct(r)
      BY <2>8, DeleteProductKeeps
    <2> QED
      BY <1>3, <2>1, <2>2, <2>3, <2>4, <2>5, <2>6, <2>7, <2>8 DEF Serve
  <1>4. ASSUME NEW r \in Requests, Fail(r)
        PROVE  WalletInv'
    BY <1>4, AnsweredKeeps DEF Fail
  <1> QED
    BY <1>1, <1>2, <1>3, <1>4 DEF WalletNext

(* Everything below about rows, requests and sums holds in every reachable state. *)
THEOREM WalletInvariant == WalletSpec => []WalletInv
  <1>1. WalletInit => WalletInv
    BY WalletStarts
  <1>2. WalletInv /\ [WalletNext]_vars => WalletInv'
    BY WalletStep
  <1> QED
    BY <1>1, <1>2, PTL DEF WalletSpec

(* No balance and no remaining hours fall below zero. *)
THEOREM WalletTypeOK == WalletSpec => []TypeOK
  <1>1. WalletInv => TypeOK
    BY DEF WalletInv
  <1> QED
    BY <1>1, WalletInvariant, PTL

(* However recharges, purchases, charges and scans interleave, the balance of a member whose *)
(* row nobody saved or deleted is what they add up to, to half a cent for each of them.      *)
THEOREM WalletBalancesAddUp == WalletSpec => []BalancesAddUp
  <1>1. WalletInv => BalancesAddUp
    <2> SUFFICES ASSUME WalletInv, NEW u \in Users, ~Edited(u)
                 PROVE  BalanceIsExact(u)
      BY DEF BalancesAddUp
    <2>1. PICK n, m : n = Cardinality(Writers(u)) /\ m = Cardinality(By(u))
      OBVIOUS
    <2>2. By(u) \subseteq Requests /\ Writers(u) \subseteq By(u)
      BY DEF By, Writers
    <2>3. IsFiniteSet(By(u))
      BY <2>2, FS_Subset
    <2>4. n \in Nat /\ m \in Nat /\ n =< m
      BY <2>1, <2>2, <2>3, FS_Subset, FS_CardinalityType
    <2>5. PICK d : d = Distance(user[u].balance, Expected(u))
      OBVIOUS
    <2>6. d \in Int
      <3>1. Expected(u) \in Int
        <4>1. PICK f, T : f = [r \in Requests |-> req[r].moved] /\ T = By(u)
          OBVIOUS
        <4>2. \A r \in T : f[r] \in Int
          BY <2>2, <4>1 DEF WalletInv, TypeOK, RequestStates
        <4>3. SumFunctionOnSet(f, T) \in Int
          BY <2>3, <4>1, <4>2, SumType
        <4>4. Balance0[u] \in Int
          BY WalletTablesAssumption
        <4> QED
          BY <4>1, <4>3, <4>4 DEF Expected
      <3>2. user[u].balance \in Nat
        BY DEF WalletInv, TypeOK
      <3> QED
        BY <2>5, <3>1, <3>2 DEF Distance
    <2>7. d =< 150 * n
      BY <2>1, <2>5 DEF WalletInv, BalancesInv, Cent
    <2>8. d =< 150 * m
      BY <2>4, <2>6, <2>7
    <2> QED
      BY <2>1, <2>5, <2>8 DEF BalanceIsExact, Cent
  <1> QED
    BY <1>1, WalletInvariant, PTL

(* Every hour charged has left a package, was taken from the balance or is still owed. *)
THEOREM WalletChargedHoursArePaid == WalletSpec => []ChargedHoursArePaid
  <1>1. WalletInv => ChargedHoursArePaid
    BY DEF WalletInv
  <1> QED
    BY <1>1, WalletInvariant, PTL

(* Every granted package has the order, and unless paid in cash the debit, that it was for. *)
THEOREM WalletGrantsAreOrderedAndPaid == WalletSpec => []GrantsAreOrderedAndPaid
  <1>1. WalletInv => GrantsAreOrderedAndPaid
    BY DEF WalletInv
  <1> QED
    BY <1>1, WalletInvariant, PTL

-----------------------------------------------------------------------------
(* The order in which packages are used up. *)

(* What comes sooner has been used up, or has expired, before anything is taken. *)
LEMMA SoonerIsSpent ==
  ASSUME package \in [Packages -> PackageRows], NEW u \in Users, NEW turn \in SoonestFirst(u),
         NEW need \in Nat, NEW p \in DOMAIN turn, NEW q \in DOMAIN turn, turn[q] < turn[p],
         StillNeeded(turn, p, need) > 0
  PROVE  RowAfter(turn, q, need).status = "expired" \/ RowAfter(turn, q, need).left = 0
  <1>1. PICK f, D, A, B : /\ f = [x \in Packages |-> package[x].left] /\ D = DOMAIN turn
                          /\ A = {x \in DOMAIN turn : turn[x] < turn[p] /\ ~Expired(x)}
                          /\ B = {x \in DOMAIN turn : turn[x] < turn[q] /\ ~Expired(x)}
    OBVIOUS
  <1>2. D \subseteq Packages /\ IsFiniteSet(D) /\ \A x \in D : turn[x] \in Nat
    BY <1>1, TurnIs
  <1>3. A \subseteq D /\ B \subseteq A /\ q \notin B /\ IsFiniteSet(A) /\ IsFiniteSet(B)
    BY <1>1, <1>2, FS_Subset
  <1>4. \A x \in A : f[x] \in Nat
    BY <1>1, <1>2, <1>3 DEF PackageRows
  <1>5. PICK a, b : a = SumFunctionOnSet(f, A) /\ b = SumFunctionOnSet(f, B)
    OBVIOUS
  <1>6. a \in Nat /\ b \in Nat /\ b =< a
    BY <1>3, <1>4, <1>5, SumOfPart
  <1>7. StillNeeded(turn, p, need) = need - a /\ StillNeeded(turn, q, need) = need - b
    BY <1>1, <1>5 DEF StillNeeded
  <1>8. need - a > 0 /\ need - b > 0
    BY <1>6, <1>7
  <1>9. PICK row, after : row = package[q] /\ after = RowAfter(turn, q, need)
    OBVIOUS
  <1>10. CASE Expired(q)
    <2>1. after = [row EXCEPT !.status = "expired"]
      BY <1>7, <1>8, <1>9, <1>10, RowIs
    <2>2. row \in PackageRows
      BY <1>1, <1>2, <1>9
    <2>3. after.status = "expired"
      BY <2>1, <2>2 DEF PackageRows
    <2> QED
      BY <1>9, <2>3
  <1>11. CASE ~Expired(q)
    <2>1. q \in A /\ f[q] = row.left /\ row.left \in Nat
      BY <1>1, <1>2, <1>9, <1>11 DEF PackageRows
    <2>2. b + f[q] =< a
      <3>1. PICK Bq : Bq = B \cup {q}
        OBVIOUS
      <3>2. Bq \subseteq A
        BY <1>3, <2>1, <3>1
      <3>3. SumFunctionOnSet(f, Bq) =< a
        BY <1>3, <1>4, <1>5, <3>2, SumOfPart
      <3>4. \A x \in B \cup {q} : f[x] \in Int
        BY <1>3, <1>4, <2>1
      <3>5. SumFunctionOnSet(f, B \cup {q}) = SumFunctionOnSet(f, B) + f[q]
        BY <1>3, <3>4, SumAdd
      <3> QED
        BY <1>5, <3>1, <3>3, <3>5
    <2>3. Use(turn, q, need) = row.left
      <3>1. Use(turn, q, need) = IF Expired(q) \/ need - b =< 0 THEN 0
                                 ELSE IF need - b =< row.left THEN need - b ELSE row.left
        BY <1>7, <1>9, UseIs
      <3>2. need - b > row.left
        BY <1>6, <1>8, <2>1, <2>2
      <3> QED
        BY <1>6, <1>8, <1>11, <2>1, <3>1, <3>2
    <2>4. after.left = 0
      BY <1>7, <1>8, <1>9, <1>11, <2>3, RowIs
    <2> QED
      BY <1>9, <2>4
  <1> QED
    BY <1>10, <1>11

LEMMA ConsumingIsInOrder ==
  ASSUME package \in [Packages -> PackageRows], NEW u \in Users, NEW turn \in SoonestFirst(u),
         NEW need \in Nat, package' = AfterConsuming(turn, need), NEW p \in Packages
  PROVE  /\ package'[p].left < package[p].left =>
              /\ ~Expired(p)
              /\ \A q \in Spendable(package[p].user) :
                   package[q].expire < package[p].expire =>
                     \/ package'[q].status = "expired"
                     \/ package'[q].left = 0
         /\ package[p].status \in {"expired", "used"} => package'[p] = package[p]
  <1>1. package[p].status # "active" => package'[p] = package[p]
    BY ConsumingIs
  <1>2. ASSUME package'[p].left < package[p].left
        PROVE  /\ p \in DOMAIN turn /\ ~Expired(p) /\ StillNeeded(turn, p, need) > 0
    <2>1. package[p] \in PackageRows /\ package[p].left \in Nat
      BY DEF PackageRows
    <2>2. p \in DOMAIN turn
      BY <1>2, <2>1, ConsumingIs
    <2>3. package'[p] = RowAfter(turn, p, need)
      BY <2>2, ConsumingIs
    <2>4. StillNeeded(turn, p, need) \in Int
      BY <2>2, UseIs
    <2>5. StillNeeded(turn, p, need) > 0
      <3>1. CASE StillNeeded(turn, p, need) =< 0
        <4>1. RowAfter(turn, p, need) = package[p]
          BY <2>2, <3>1, RowIs
        <4> QED
          BY <1>2, <2>1, <2>3, <4>1
      <3> QED
        BY <2>4, <3>1
    <2>6. ~Expired(p)
      <3>1. CASE Expired(p)
        <4>1. PICK row : row = package[p]
          OBVIOUS
        <4>2. package'[p] = [row EXCEPT !.status = "expired"]
          BY <2>2, <2>3, <2>5, <3>1, <4>1, RowIs
        <4>3. package'[p].left = row.left
          BY <2>1, <4>1, <4>2 DEF PackageRows
        <4> QED
          BY <1>2, <2>1, <4>1, <4>3
      <3> QED
        BY <3>1
    <2> QED
      BY <2>2, <2>5, <2>6
  <1>3. ASSUME package'[p].left < package[p].left,
               NEW q \in Spendable(package[p].user), package[q].expire < package[p].expire
        PROVE  package'[q].status = "expired" \/ package'[q].left = 0
    <2>1. p \in DOMAIN turn /\ StillNeeded(turn, p, need) > 0 /\ package[p].user = u
      BY <1>2, <1>3, InTurn
    <2>2. q \in DOMAIN turn
      BY <1>3, <2>1, TurnIs
    <2>3. turn[q] < turn[p]
      <3>1. q # p
        <4>1. package[p].expire \in Nat
          BY DEF PackageRows
        <4> QED
          BY <1>3, <4>1
      <3> QED
        BY <1>3, <2>1, <2>2, <3>1, TurnIs
    <2>4. package'[q] = RowAfter(turn, q, need)
      BY <2>2, ConsumingIs
    <2> QED
      BY <2>1, <2>2, <2>3, <2>4, SoonerIsSpent
  <1> QED
    BY <1>1, <1>2, <1>3

(* Packages are used up in the order in which they expire, and a package that has expired or *)
(* is used up stays as it is: of every step.                                                 *)
THEOREM WalletSoonestExpiryIsSpentFirst == WalletSpec => SoonestExpiryIsSpentFirst
  <1> DEFINE InOrder(p) ==
        /\ package'[p].left < package[p].left =>
             /\ ~Expired(p)
             /\ \A q \in Spendable(package[p].user) :
                  package[q].expire < package[p].expire =>
                    \/ package'[q].status = "expired"
                    \/ package'[q].left = 0
        /\ package[p].status \in {"expired", "used"} => package'[p] = package[p]
  <1>1. ASSUME WalletInv, [WalletNext]_vars, NEW p \in Packages
        PROVE  InOrder(p)
    <2>1. package \in [Packages -> PackageRows] /\ package[p].left \in Nat
      BY <1>1 DEF WalletInv, TypeOK, PackageRows
    <2>2. CASE package' = package
      BY <2>1, <2>2
    <2>3. ASSUME NEW r \in Requests, BuyGrant(r)
          PROVE  InOrder(p)
      <3>1. CASE p = r
        <4>1. package[p] = NoPackage
          BY <1>1, <2>3, <3>1 DEF WalletInv, RequestsInv, Inserted, BuyGrant
        <4>2. package'[p].left = req[r].row.hours /\ req[r].row.hours \in Nat
          BY <1>1, <2>1, <2>3, <3>1 DEF BuyGrant, WalletInv, TypeOK, RequestStates, ProductRows
        <4> QED
          BY <4>1, <4>2 DEF NoPackage
      <3>2. CASE p # r
        <4>1. package'[p] = package[p]
          BY <2>1, <2>3, <3>2 DEF BuyGrant
        <4> QED
          BY <2>1, <4>1
      <3> QED
        BY <3>1, <3>2
    <2>4. ASSUME NEW r \in Requests, ChargePackages(r) \/ ScanCharge(r)
          PROVE  InOrder(p)
      <3>1. CASE package' = package
        BY <2>2, <3>1
      <3>2. CASE package' # package
        <4>1. PICK u \in Users, need \in Needs : \E turn \in SoonestFirst(u) : package' = AfterConsuming(turn, need)
          BY <2>4, <3>2, ZenonT(30) DEF ChargePackages, ScanCharge, Answer, tables
        <4>2. PICK turn \in SoonestFirst(u) : package' = AfterConsuming(turn, need)
          BY <4>1
        <4>3. need \in Nat
          OBVIOUS
        <4> QED
          BY <2>1, <4>2, <4>3, ConsumingIsInOrder
      <3> QED
        BY <3>1, <3>2
    <2>5. ASSUME NEW r \in Requests, Serve(r)
          PROVE  package' = package \/ BuyGrant(r) \/ ChargePackages(r) \/ ScanCharge(r)
      <3>1. CASE Recharge(r)
        BY <3>1, ZenonT(30) DEF Recharge, RechargeRead, RechargeCredit, RechargeRecord, Answer, tables
      <3>2. CASE BuyPackage(r)
        BY <3>2, ZenonT(30) DEF BuyPackage, BuyRead, BuyDebit, BuyOrder, Answer, tables
      <3>3. CASE ChargeBalance(r)
        BY <3>3 DEF ChargeBalance, Answer, tables
      <3>4. CASE EditUser(r) \/ DeleteUser(r)
        BY <3>4 DEF EditUser, EditRead, EditSave, DeleteUser, Answer, tables
      <3>5. CASE EditProduct(r) \/ DeleteProduct(r)
        BY <3>5, ZenonT(30) DEF EditProduct, ProductRead, ProductSave, DeleteProduct, Answer, tables
      <3> QED
        BY <2>5, <3>1, <3>2, <3>3, <3>4, <3>5 DEF Serve
    <2>6. ASSUME NEW r \in Requests, Fail(r)
          PROVE  package' = package
      BY <2>6 DEF Fail, Answer, tables
    <2>7. CASE Tick \/ UNCHANGED vars
      <3>1. package' = package
        BY <2>7 DEF Tick, vars, tables
      <3> QED
        BY <2>2, <3>1
    <2> HIDE DEF InOrder
    <2> QED
      BY <1>1, <2>2, <2>3, <2>4, <2>5, <2>6, <2>7 DEF WalletNext
  <1>2. WalletInv /\ [WalletNext]_vars => [\A p \in Packages : InOrder(p)]_vars
    BY <1>1
  <1>3. [][\A p \in Packages : InOrder(p)]_vars => SoonestExpiryIsSpentFirst
    BY DEF SoonestExpiryIsSpentFirst
  <1> QED
    BY <1>2, <1>3, WalletInvariant, PTL DEF WalletSpec
=============================================================================
