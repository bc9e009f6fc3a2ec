------------------------------ MODULE BootCode ------------------------------
(***************************************************************************)
(* Dynamic boot codes.  A member with a confirmed reservation asks for a   *)
(* code (Generate); the staff scan it (Verify), which in one transaction   *)
(* seats the member: station in use, reservation checked in, session       *)
(* opened and prepaid, code used.                                          *)
(***************************************************************************)
EXTENDS Charging, Functions

BootInit ==
  /\ clock = 0
  /\ station \in [Stations -> {"idle", "reserved", "fault"}]
  /\ \E who \in [Booked -> Users], where \in [Booked -> Stations], when \in [Booked -> Slots] :
       resv = [i \in Reservations |->
                 IF i \in Booked
                 THEN [status |-> "confirmed", user |-> who[i], station |-> where[i],
                       start |-> when[i][1], end |-> when[i][2]]
                 ELSE NoReservation]
  /\ boot = [c \in Codes |-> NoBootCode]
  /\ sess = [r \in Requests |-> NoSession]
  /\ \E may \in [Users -> BOOLEAN] :
       user = [u \in Users |-> [balance |-> Balance0[u], eligible |-> may[u]]]
  /\ pkg = Package0
  /\ held = [r \in Requests |-> {}]
  /\ req = [r \in Requests |-> NewRequest]

-----------------------------------------------------------------------------
(* Generate: the member asks for a code. *)

(* Faulty: any time before the reservation is over. *)
NotOver(now, row) == now =< row.end

InArrivalWindow(now, row) == row.start - Early =< now /\ now =< row.end

(* FindByID without a lock, the owner, the status and the arrival window. *)
GenerateRead(r) ==
  /\ req[r].pc = "new"
  /\ \E u \in Users, i \in Reservations :
       \/ /\ resv[i].status = "confirmed" /\ resv[i].user = u
          /\ InArrivalWindow(clock, resv[i])
          /\ req' = [req EXCEPT ![r] = [@ EXCEPT !.pc = "genStation", !.res = i, !.at = clock]]
          /\ UNCHANGED <<clock, tables, held>>
       \/ /\ resv[i].status # "confirmed" \/ resv[i].user # u \/ ~InArrivalWindow(clock, resv[i])
          /\ Refuse(r)

(* GetByID without a lock. *)
GenerateStation(r) ==
  /\ req[r].pc = "genStation"
  /\ \/ /\ station[resv[req[r].res].station] \in {"idle", "reserved"}
        /\ Goto(r, "genLock")
        /\ UNCHANGED <<clock, tables, held>>
     \/ /\ station[resv[req[r].res].station] \notin {"idle", "reserved"}
        /\ Refuse(r)

(* Faulty: FindByID instead of FindByIDForUpdate. *)
GenerateLockless(r) ==
  /\ req[r].pc = "genLock"
  /\ \/ /\ resv[req[r].res].status = "confirmed"
        /\ Goto(r, "genRevoke")
        /\ UNCHANGED <<clock, tables, held>>
     \/ resv[req[r].res].status # "confirmed" /\ Refuse(r)

(* BEGIN; lock the reservation and look at its status again. *)
GenerateLock(r) ==
  /\ req[r].pc = "genLock"
  /\ CanLock(r, Wanted(r))
  /\ \/ /\ resv[req[r].res].status = "confirmed"
        /\ Lock(r, Wanted(r))
        /\ Goto(r, "genRevoke")
        /\ UNCHANGED <<clock, tables>>
     \/ /\ resv[req[r].res].status # "confirmed"
        /\ Refuse(r)

(* Faulty: the old codes are left alone. *)
GenerateNoRevoke(r) ==
  /\ req[r].pc = "genRevoke"
  /\ Goto(r, "genInsert")
  /\ UNCHANGED <<clock, tables, held>>

(* UPDATE boot_codes SET status = cancelled: the rows it matches are fixed now, *)
(* and every code of the reservation is locked.                                 *)
GenerateRevoke(r) ==
  /\ req[r].pc = "genRevoke"
  /\ CanLock(r, Wanted(r))
  /\ Lock(r, Wanted(r))
  /\ req' = [req EXCEPT ![r] = [@ EXCEPT !.pc = "genInsert",
               !.revoked = {c \in CodesOf(req[r].res) : boot[c].status = "active"}]]
  /\ UNCHANGED <<clock, tables>>

(* Faulty: only the active codes are looked at. *)
NotActive(c) == boot[c].status # "active"

(* uniqueCodeTx: a number no row of any status has, or five collisions in a row. *)
UniqueCode(c)   == boot[c].status = "none"
CodesExhausted  == \E c \in Codes : ~UniqueCode(c)

(* INSERT the new code; COMMIT publishes it with the revocation. *)
GenerateInsert(r) ==
  /\ req[r].pc = "genInsert"
  /\ \E c \in Codes :
       /\ UniqueCode(c)
       /\ boot' = [b \in Codes |->
            IF b = c THEN [status |-> "active", res |-> req[r].res, session |-> Nil,
                           user |-> resv[req[r].res].user,
                           station |-> resv[req[r].res].station, expire |-> req[r].at + TTL]
            ELSE IF b \in req[r].revoked THEN [boot[b] EXCEPT !.status = "cancelled"]
            ELSE boot[b]]
  /\ Commit(r)
  /\ UNCHANGED <<clock, station, resv, sess, user, pkg>>

GenerateExhausted(r) == /\ req[r].pc = "genInsert"
                        /\ CodesExhausted
                        /\ Refuse(r)

-----------------------------------------------------------------------------
(* Verify: the staff scan a code. *)

(* checkBootCodeStatus *)
Redeemable(c) == boot[c].status = "active" /\ clock < boot[c].expire

(* Only staff may scan; ask is the station code scanned along with the boot code, if any. *)
VerifyBegin(r) ==
  /\ req[r].pc = "new"
  /\ \/ /\ \E c \in Codes, ask \in Stations \cup {Nil} :
            req' = [req EXCEPT ![r] = [@ EXCEPT !.pc = "scanCode", !.code = c, !.ask = ask]]
        /\ UNCHANGED <<clock, tables, held>>
     \/ Refuse(r)

(* BEGIN; lock the code.  An expired code is marked after the rollback. *)
VerifyCode(r) ==
  LET c == req[r].code
  IN  /\ req[r].pc = "scanCode"
      /\ CanLock(r, Wanted(r))
      /\ \/ /\ Redeemable(c)
            /\ Lock(r, Wanted(r))
            /\ req' = [req EXCEPT ![r] = [@ EXCEPT !.pc = "scanReservation",
                         !.res = boot[c].res, !.user = boot[c].user, !.station = boot[c].station]]
            /\ UNCHANGED <<clock, tables>>
         \/ /\ boot[c].status \notin {"none", "used"} /\ ~Redeemable(c)
            /\ Goto(r, "scanExpire")
            /\ UNCHANGED <<clock, tables, held>>
         \/ /\ boot[c].status \in {"none", "used"}
            /\ Refuse(r)

(* Faulty: the same checks on an unlocked row. *)
VerifyReservationLockless(r) ==
  /\ req[r].pc = "scanReservation"
  /\ \/ /\ resv[req[r].res].status = "confirmed" /\ clock =< resv[req[r].res].end
        /\ Goto(r, "scanStation")
        /\ UNCHANGED <<clock, tables, held>>
     \/ /\ resv[req[r].res].status # "confirmed" \/ clock > resv[req[r].res].end
        /\ Refuse(r)

(* Lock the reservation: it must match the code, be confirmed and not be over. *)
VerifyReservation(r) ==
  LET row == resv[req[r].res]
      ok  == /\ row.user = boot[req[r].code].user
             /\ row.station = boot[req[r].code].station
             /\ row.status = "confirmed"
             /\ clock =< row.end
  IN  /\ req[r].pc = "scanReservation"
      /\ CanLock(r, Wanted(r))
      /\ \/ /\ ok
            /\ Lock(r, Wanted(r))
            /\ Goto(r, "scanStation")
            /\ UNCHANGED <<clock, tables>>
         \/ ~ok /\ Refuse(r)

(* Faulty: GetByID instead of LockForUpdate. *)
VerifyStationLockless(r) ==
  /\ req[r].pc = "scanStation"
  /\ \/ /\ station[req[r].station] \in {"idle", "reserved"}
        /\ Goto(r, "scanSession")
        /\ UNCHANGED <<clock, tables, held>>
     \/ station[req[r].station] \notin {"idle", "reserved"} /\ Refuse(r)

(* Lock the station: the one scanned, if the staff scanned one, neither in use nor broken. *)
VerifyStation(r) ==
  LET s  == req[r].station
      ok == req[r].ask \in {Nil, s} /\ station[s] \in {"idle", "reserved"}
  IN  /\ req[r].pc = "scanStation"
      /\ CanLock(r, Wanted(r))
      /\ \/ /\ ok
            /\ Lock(r, Wanted(r))
            /\ Goto(r, "scanSession")
            /\ UNCHANGED <<clock, tables>>
         \/ ~ok /\ Refuse(r)

(* FindActiveByStation through the pool: no session of the station is open.  A read that *)
(* fails counts as none found.                                                            *)
VerifyNoSession(r) ==
  LET open == OpenSessions(req[r].station)
  IN  /\ req[r].pc = "scanSession"
      /\ \E failed \in BOOLEAN :
           \/ /\ failed \/ open = {}
              /\ Goto(r, "scanMember")
              /\ UNCHANGED <<clock, tables, held>>
           \/ ~failed /\ open # {} /\ Refuse(r)

(* Lock the member, an active member account; the session starts now. *)
VerifyMember(r) ==
  LET u == req[r].user
  IN  /\ req[r].pc = "scanMember"
      /\ CanLock(r, Wanted(r))
      /\ \/ /\ user[u].eligible
            /\ Lock(r, Wanted(r))
            /\ req' = [req EXCEPT ![r] = [@ EXCEPT !.pc = "scanCharge", !.at = clock]]
            /\ UNCHANGED <<clock, tables>>
         \/ ~user[u].eligible /\ Refuse(r)

(* Charge the minutes up to the end of the reservation, write the four rows, COMMIT. *)
VerifyCommit(r) ==
  LET c       == req[r].code
      u       == req[r].user
      i       == req[r].res
      end     == Larger(resv[i].end, req[r].at)
      prepaid == end - req[r].at
      cost    == BalanceCost(prepaid, FromPackages(u, prepaid))
  IN  /\ req[r].pc = "scanCharge"
      /\ CanLock(r, Wanted(r))
      /\ \/ /\ Affordable(u, cost)
            /\ pkg' = [pkg EXCEPT ![u] = @ - FromPackages(u, prepaid)]
            /\ user' = [user EXCEPT ![u].balance = @ - cost]
            /\ station' = [station EXCEPT ![req[r].station] = "using"]
            /\ resv' = [resv EXCEPT ![i].status = "checked_in"]
            /\ sess' = [sess EXCEPT ![r] = [status |-> "active", user |-> u, station |-> req[r].station,
                          res |-> i, start |-> req[r].at, end |-> end, prepaid |-> prepaid]]
            /\ boot' = [boot EXCEPT ![c].status = "used", ![c].session = r]
            /\ Commit(r)
            /\ UNCHANGED clock
         \/ ~Affordable(u, cost) /\ Refuse(r)

(* Faulty: the update has no WHERE status = active. *)
MarkExpiredBlindly(r) ==
  /\ req[r].pc = "scanExpire"
  /\ CanLock(r, Wanted(r))
  /\ boot' = [boot EXCEPT ![req[r].code].status = "expired"]
  /\ Return(r, "refused")
  /\ UNCHANGED <<clock, station, resv, sess, user, pkg>>

(* MarkExpiredByCode, after the rollback, in a transaction of its own. *)
MarkExpired(r) ==
  LET c == req[r].code
  IN  /\ req[r].pc = "scanExpire"
      /\ CanLock(r, Wanted(r))
      /\ boot' = IF boot[c].status = "active" /\ boot[c].expire =< clock
                 THEN [boot EXCEPT ![c].status = "expired"] ELSE boot
      /\ Return(r, "refused")
      /\ UNCHANGED <<clock, station, resv, sess, user, pkg>>

-----------------------------------------------------------------------------
(* POST /boot-codes *)
Generate(r) == \/ GenerateRead(r) \/ GenerateStation(r) \/ GenerateLock(r)
               \/ GenerateRevoke(r) \/ GenerateInsert(r) \/ GenerateExhausted(r)

(* POST /boot-codes/verify *)
Verify(r)   == \/ VerifyBegin(r) \/ VerifyCode(r) \/ VerifyReservation(r) \/ VerifyStation(r)
               \/ VerifyNoSession(r) \/ VerifyMember(r) \/ VerifyCommit(r) \/ MarkExpired(r)

BootNext == \/ \E r \in Requests : Generate(r) \/ Verify(r) \/ Fail(r) \/ DeadlockVictim(r)
            \/ Tick

BootSpec == BootInit /\ [][BootNext]_vars

-----------------------------------------------------------------------------
(* Rows and requests have the shape of their tables; time packages never go below *)
(* nothing (ConsumeHoursTx takes at most what remains).                           *)
TypeOK ==
  /\ clock \in Nat
  /\ station \in [Stations -> StationStatuses]
  /\ resv \in [Reservations -> ReservationRows]
  /\ boot \in [Codes -> BootCodeRows]
  /\ sess \in [Requests -> SessionRows]
  /\ user \in [Users -> UserRows]
  /\ pkg \in [Users -> Nat]
  /\ held \in [Requests -> SUBSET Rows]
  /\ req \in [Requests -> RequestStates]

(* A reservation has at most one code waiting to be scanned, however many times and *)
(* however concurrently its member asks (Generate revokes the old ones).            *)
AtMostOneActiveCode ==
  \A b, c \in Codes : /\ boot[b].status = "active" /\ boot[c].status = "active"
                      /\ boot[b].res = boot[c].res
                      => b = c

(* used, expired and cancelled are final, and a code never changes hands: no late scan, *)
(* expiry mark or regeneration rewrites the outcome of a code.                           *)
CodesAreFinal ==
  [][\A c \in Codes : boot[c].status # "none" =>
       /\ boot[c].status # "active" => boot'[c] = boot[c]
       /\ boot'[c].status # "none"
       /\ boot'[c].res = boot[c].res /\ boot'[c].expire = boot[c].expire]_vars

(* The used codes and the sessions opened from a code correspond one to one and agree on *)
(* the reservation, the member and the station: duplicate scans open one session.        *)
UsedCodesMatchSessions ==
  /\ \A c \in Codes : boot[c].status = "used" =>
       /\ boot[c].session # Nil
       /\ LET k == sess[boot[c].session] IN
            /\ k.status # "none" /\ k.res = boot[c].res
            /\ k.user = boot[c].user /\ k.station = boot[c].station
  /\ \A k \in Requests : sess[k].status # "none" =>
       \E c \in Codes : /\ boot[c].status = "used" /\ boot[c].session = k
                        /\ \A b \in Codes : boot[b].session = k => b = c

(* A reservation is booted at most once, even through different codes. *)
OneSessionPerReservation ==
  \A j, k \in Requests : /\ sess[j].status # "none" /\ sess[k].status # "none"
                         /\ sess[j].res = sess[k].res
                         => j = k

(* While nothing but boot codes seats members, a station is in use exactly when one open *)
(* session sits at it, also when several reservations of the station are scanned at once. *)
StationInUseIffOneSession ==
  \A s \in Stations : /\ Cardinality(OpenSessions(s)) =< 1
                      /\ station[s] = "using" <=> OpenSessions(s) # {}

(* Every prepaid minute was paid for once, from the packages or from the balance, and a  *)
(* scan that was refused, failed or rolled back took nothing; balances stay non-negative. *)
Prepaid(u)    == LET mine == {k \in Requests : sess[k].status # "none" /\ sess[k].user = u}
                 IN  SumFunctionOnSet([k \in Requests |-> sess[k].prepaid], mine)
BooksBalance ==
  \A u \in Users : /\ user[u].balance >= 0
                   /\ Balance0[u] - user[u].balance = Price * (Prepaid(u) - (Package0[u] - pkg[u]))

(* Nobody is seated before the arrival window of the reservation opens, however old the *)
(* unlocked read was that let the code be made.                                          *)
NoEarlyBoot ==
  \A k \in Requests : sess[k].status # "none" =>
    sess[k].start >= resv[sess[k].res].start - Early

(* The codes keep the promise of BootTicket: issuing replaces every live code at once and *)
(* redeeming is indivisible.                                                              *)
TicketOf == [c \in Codes |-> [life |-> boot[c].status, for |-> boot[c].res]]
Bookable == {i \in Reservations : resv[i].status = "confirmed"}
VisitOf  == [k \in Requests |-> sess[k].res]

Ticket == INSTANCE BootTicket WITH Visits <- Requests, Reservations <- Booked, Nobody <- Nil,
            ticket <- TicketOf, bookable <- Bookable, visit <- VisitOf
KeepsTicketPromise == Ticket!TicketSpec
=============================================================================
