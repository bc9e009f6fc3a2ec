------------------------------ MODULE Charging ------------------------------
(***************************************************************************)
(* ChargeWithinTx: the minutes are taken from the time packages first, the *)
(* rest is paid from the balance.  Boot codes charge inside their own      *)
(* transaction; renewing and ending a session charge in two transactions   *)
(* of the repositories, each committed on its own.                         *)
(***************************************************************************)
EXTENDS HallStore

Larger(a, b)  == IF a < b THEN b ELSE a
Smaller(a, b) == IF a < b THEN a ELSE b

(* Faulty: takes the minutes whether or not the packages have them. *)
TakesAll(u, minutes) == minutes

(* ConsumeHoursTx: what the packages cover. *)
FromPackages(u, minutes) == Smaller(pkg[u], minutes)
(* Faulty: the balance pays for the covered minutes too. *)
ChargesTwice(minutes, covered) == minutes * Price

(* Faulty: packages that cover a part are taken to cover all. *)
PartIsEnough(minutes, covered) == IF covered > 0 THEN 0 ELSE minutes * Price

(* splitBilling: what is left for the balance. *)
BalanceCost(minutes, covered) == (minutes - covered) * Price
(* UpdateBalanceTx refuses to go below zero; it is not called for nothing. *)
Affordable(u, cost) == cost = 0 \/ cost =< user[u].balance

(* ConsumeHours, committed on its own. *)
ChargePackages(r) ==
  LET u    == req[r].user
      cost == BalanceCost(req[r].minutes, FromPackages(u, req[r].minutes))
  IN  /\ req[r].pc = "chargePackages"
      /\ CanLock(r, Wanted(r))
      /\ pkg' = [pkg EXCEPT ![u] = @ - FromPackages(u, req[r].minutes)]
      /\ req' = [req EXCEPT ![r] = [@ EXCEPT !.due = cost,
                   !.pc = IF cost = 0 THEN req[r].next ELSE "chargeBalance"]]
      /\ UNCHANGED <<clock, station, resv, boot, sess, user, held>>

(* UpdateBalance, committed on its own; a refusal leaves the packages consumed. *)
ChargeBalance(r) ==
  LET u == req[r].user
  IN  /\ req[r].pc = "chargeBalance"
      /\ CanLock(r, Wanted(r))
      /\ \/ /\ Affordable(u, req[r].due)
            /\ user' = [user EXCEPT ![u].balance = @ - req[r].due]
            /\ Goto(r, req[r].next)
            /\ UNCHANGED <<clock, station, resv, boot, sess, pkg, held>>
         \/ ~Affordable(u, req[r].due) /\ Refuse(r)
=============================================================================
