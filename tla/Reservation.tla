----------------------------- MODULE Reservation -----------------------------
(***************************************************************************)
(* ReservationService.  Every function reads without a lock, decides, and  *)
(* then saves; the reservation row is saved through the pool, committed at *)
(* once, while the station row is locked and saved by the transaction.     *)
(***************************************************************************)
EXTENDS HallStore

Overlaps(i, start, end) == resv[i].start < end /\ resv[i].end > start
LiveReservation(i) == resv[i].status \in {"pending", "confirmed", "checked_in"}

(* CountConflict *)
Conflicts(s, start, end) ==
  {i \in Reservations : LiveReservation(i) /\ resv[i].station = s /\ Overlaps(i, start, end)}

(* Create: the station is looked up without a lock... *)
CreateRead(r) ==
  /\ req[r].pc = "new"
  /\ \E u \in Users, s \in Stations, slot \in Slots :
       \/ /\ station[s] \in {"idle", "reserved"}
          /\ req' = [req EXCEPT ![r] = [@ EXCEPT !.pc = "bookConflict", !.user = u, !.res = r,
                       !.station = s, !.at = slot[1], !.until = slot[2]]]
          /\ UNCHANGED <<clock, tables, held>>
       \/ station[s] \notin {"idle", "reserved"} /\ Refuse(r)

(* ... the conflicting reservations are counted outside the transaction... *)
CreateCountConflict(r) ==
  LET found == Conflicts(req[r].station, req[r].at, req[r].until)
  IN  /\ req[r].pc = "bookConflict"
      /\ \/ found = {} /\ Goto(r, "bookLock") /\ UNCHANGED <<clock, tables, held>>
         \/ found # {} /\ Refuse(r)

(* ... BEGIN, lock the station... *)
CreateLock(r) ==
  /\ req[r].pc = "bookLock"
  /\ CanLock(r, Wanted(r))
  /\ \/ /\ station[req[r].station] # "none"
        /\ Lock(r, Wanted(r))
        /\ Goto(r, "bookInsert")
        /\ UNCHANGED <<clock, tables>>
     \/ station[req[r].station] = "none" /\ Refuse(r)

(* ... INSERT the reservation through the pool, visible at once... *)
CreateInsert(r) ==
  /\ req[r].pc = "bookInsert"
  /\ resv' = [resv EXCEPT ![r] = [status |-> "confirmed", user |-> req[r].user,
                station |-> req[r].station, start |-> req[r].at, end |-> req[r].until]]
  /\ Goto(r, "bookCommit")
  /\ UNCHANGED <<clock, station, boot, sess, user, pkg, held>>

(* ... and COMMIT the station, reserved if it was idle. *)
CreateCommit(r) ==
  /\ req[r].pc = "bookCommit"
  /\ station' = IF station[req[r].station] = "idle"
                THEN [station EXCEPT ![req[r].station] = "reserved"] ELSE station
  /\ Commit(r)
  /\ UNCHANGED <<clock, resv, boot, sess, user, pkg>>

-----------------------------------------------------------------------------
(* Confirm, Cancel and CheckIn look the reservation up without a lock... *)
ReadReservation(r, statuses, label) ==
  /\ req[r].pc = "new"
  /\ \E i \in Reservations :
       \/ /\ resv[i].status \in statuses
          /\ req' = [req EXCEPT ![r] = [@ EXCEPT !.pc = label, !.res = i,
                                          !.station = resv[i].station]]
          /\ UNCHANGED <<clock, tables, held>>
       \/ resv[i].status \notin statuses /\ Refuse(r)

ConfirmRead(r) == ReadReservation(r, {"pending", "confirmed"}, "confirmSave")
CancelRead(r)  == ReadReservation(r, {"pending", "confirmed", "checked_in"}, "cancelSave")
CheckInRead(r) == ReadReservation(r, {"confirmed"}, "checkInSave")

(* ... and save the row they read with its new status, whatever it is by now. *)
SaveReservation(r, status) ==
  /\ CanLock(r, Wanted(r))
  /\ resv' = [resv EXCEPT ![req[r].res].status = status]
  /\ UNCHANGED <<clock, station, boot, sess, user, pkg>>

ConfirmSave(r) == /\ req[r].pc = "confirmSave"
                  /\ SaveReservation(r, "confirmed")
                  /\ Commit(r)
CancelSave(r)  == /\ req[r].pc = "cancelSave"
                  /\ SaveReservation(r, "cancelled")
                  /\ Goto(r, "cancelStation")
                  /\ UNCHANGED held
CheckInSave(r) == /\ req[r].pc = "checkInSave"
                  /\ SaveReservation(r, "checked_in")
                  /\ Goto(r, "checkInStation")
                  /\ UNCHANGED held

(* The transaction of the station: lock it, save it, COMMIT.  It may be gone. *)
SaveLockedStation(r, status) ==
  /\ CanLock(r, Wanted(r))
  /\ \/ /\ station[req[r].station] # "none"
        /\ station' = [station EXCEPT ![req[r].station] = status]
        /\ Commit(r)
        /\ UNCHANGED <<clock, resv, boot, sess, user, pkg>>
     \/ station[req[r].station] = "none" /\ Refuse(r)

(* releaseStationReserved *)
CancelStation(r) ==
  /\ req[r].pc = "cancelStation"
  /\ SaveLockedStation(r, IF station[req[r].station] = "reserved" THEN "idle"
                          ELSE station[req[r].station])
CheckInStation(r) == req[r].pc = "checkInStation" /\ SaveLockedStation(r, "using")

-----------------------------------------------------------------------------
(* POST /reservations; /confirm, /cancel and /checkin under /reservations/:id *)
Create(r)  == \/ CreateRead(r) \/ CreateCountConflict(r) \/ CreateLock(r)
              \/ CreateInsert(r) \/ CreateCommit(r)
Confirm(r) == ConfirmRead(r) \/ ConfirmSave(r)
Cancel(r)  == CancelRead(r) \/ CancelSave(r) \/ CancelStation(r)
CheckIn(r) == CheckInRead(r) \/ CheckInSave(r) \/ CheckInStation(r)
=============================================================================
