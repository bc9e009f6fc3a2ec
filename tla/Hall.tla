-------------------------------- MODULE Hall --------------------------------
(***************************************************************************)
(* The whole hall: boot codes, reservations, sessions and stations serve   *)
(* requests over the same tables, concurrently.                            *)
(***************************************************************************)
EXTENDS BootCode, Reservation, Session, Station

CONSTANT Ops   \* the operations requests may ask for
ASSUME OpsAssumption ==
  Ops \subseteq {"Generate", "Verify", "Create", "Confirm", "Cancel", "CheckIn", "Start", "Renew",
                 "End", "UpdateStatus", "Update", "Delete"}

HallInit == BootInit

(* The router: one service function per request. *)
Serve(r) ==
  \/ "Generate" \in Ops /\ Generate(r)
  \/ "Verify"   \in Ops /\ Verify(r)
  \/ "Create"   \in Ops /\ Create(r)
  \/ "Confirm"  \in Ops /\ Confirm(r)
  \/ "Cancel"   \in Ops /\ Cancel(r)
  \/ "CheckIn"  \in Ops /\ CheckIn(r)
  \/ "Start"    \in Ops /\ Start(r)
  \/ "Renew"    \in Ops /\ (Renew(r) \/ Charge(r))
  \/ "End"      \in Ops /\ (End(r) \/ Charge(r))
  \/ "UpdateStatus" \in Ops /\ UpdateStatus(r)
  \/ "Update"       \in Ops /\ Update(r)
  \/ "Delete"       \in Ops /\ DeleteStation(r)

HallNext == \/ \E r \in Requests : Serve(r) \/ Fail(r) \/ DeadlockVictim(r)
            \/ Tick

HallSpec == HallInit /\ [][HallNext]_vars

-----------------------------------------------------------------------------
(* A scan seats the member only if, at the very moment the code is used, the reservation *)
(* is confirmed, the station idle or reserved and the account in order: no Confirm,      *)
(* Cancel, CheckIn, Start or status change that ran since the checks can have changed    *)
(* them.  Station and reservation change with the code.                                  *)
SeatedOnlyWhenReady ==
  [][\A c \in Codes :
       LET i == boot[c].res  s == boot[c].station IN
       boot[c].status = "active" /\ boot'[c].status = "used" =>
         /\ resv[i].status = "confirmed"  /\ resv'[i].status = "checked_in"
         /\ station[s] \in {"idle", "reserved"} /\ station'[s] = "using"
         /\ user[boot[c].user].eligible]_vars

(* A used code keeps the one session it opened, whatever renewals and ends later save *)
(* over the session row.                                                               *)
UsedCodesKeepTheirSession ==
  \A b, c \in Codes : boot[c].status = "used" =>
    /\ boot[c].session \in Requests
    /\ LET k == sess[boot[c].session] IN
         /\ k.status # "none" /\ k.res = boot[c].res
         /\ k.user = boot[c].user /\ k.station = boot[c].station
    /\ boot[b].status = "used" /\ boot[b].session = boot[c].session => b = c

(* Minutes marked as prepaid were paid for, whatever scans, renewals and ends interleave: *)
(* stale saves may lose prepaid minutes but never credit minutes nobody paid.             *)
PaidMinutes    == SumFunction([u \in Users |-> Price * (Package0[u] - pkg[u])
                                                 + (Balance0[u] - user[u].balance)])
PrepaidMinutes == SumFunction([k \in Requests |-> Price * sess[k].prepaid])
PrepaidIsPaid  == PrepaidMinutes =< PaidMinutes

-----------------------------------------------------------------------------
(* What the documentation says of the hall and the code does not do. *)

(* README: the conflict check of a booking is protected by SELECT ... FOR UPDATE, so *)
(* that live reservations of a station never overlap.                                *)
LiveReservationsDoNotOverlap ==
  \A i, j \in Reservations :
    /\ i # j /\ LiveReservation(i) /\ LiveReservation(j)
    /\ resv[i].station = resv[j].station
    => ~Overlaps(i, resv[j].start, resv[j].end)

AllAnswered(answers) == \A r \in Requests : req[r].ans \in answers

(* session_service.go: what a renewal charged is counted into the prepaid minutes.  Here *)
(* every request has been answered ok, so nothing was refused and nothing failed.        *)
RenewalsAreCredited == AllAnswered({"ok"}) => PaidMinutes = PrepaidMinutes
=============================================================================
