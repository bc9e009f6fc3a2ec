------------------------------- MODULE Session -------------------------------
(***************************************************************************)
(* SessionService: walk-in start, renewal and end of a session.  Renew and *)
(* End read the session without a lock, charge, and save the whole row     *)
(* they read.                                                              *)
(***************************************************************************)
EXTENDS Charging

CONSTANT Renewals   \* minutes a renewal may add
ASSUME RenewalsAssumption == Renewals \subseteq Nat \ {0}

(* Start: the station must look idle or reserved... *)
StartRead(r) ==
  /\ req[r].pc = "new"
  /\ \E u \in Users, s \in Stations, i \in Reservations \cup {Nil} :
       \/ /\ station[s] \in {"idle", "reserved"}
          /\ req' = [req EXCEPT ![r] = [@ EXCEPT !.pc = "startLock", !.user = u, !.station = s,
                                          !.res = i, !.at = clock]]
          /\ UNCHANGED <<clock, tables, held>>
       \/ station[s] \notin {"idle", "reserved"} /\ Refuse(r)

(* ... and, locked, must not be in use; its save is buffered. *)
StartLock(r) ==
  /\ req[r].pc = "startLock"
  /\ CanLock(r, Wanted(r))
  /\ \/ /\ station[req[r].station] \notin {"using", "none"}
        /\ Lock(r, Wanted(r))
        /\ Goto(r, IF req[r].res = Nil THEN "startInsert" ELSE "startReservation")
        /\ UNCHANGED <<clock, tables>>
     \/ station[req[r].station] \in {"using", "none"} /\ Refuse(r)

(* The reservation named by the request is read through the pool, and passed over when *)
(* the read fails...                                                                    *)
StartReservation(r) ==
  /\ req[r].pc = "startReservation"
  /\ \E failed \in BOOLEAN :
       Goto(r, IF ~failed /\ resv[req[r].res].status = "confirmed"
               THEN "startCheckIn" ELSE "startInsert")
  /\ UNCHANGED <<clock, tables, held>>

(* ... and saved in the transaction if it was confirmed. *)
StartCheckIn(r) ==
  /\ req[r].pc = "startCheckIn"
  /\ CanLock(r, Wanted(r))
  /\ Lock(r, Wanted(r))
  /\ Goto(r, "startInsert")
  /\ UNCHANGED <<clock, tables>>

(* INSERT the session through the pool, visible at once: no end, nothing prepaid... *)
StartInsert(r) ==
  /\ req[r].pc = "startInsert"
  /\ sess' = [sess EXCEPT ![r] = [status |-> "active", user |-> req[r].user,
                station |-> req[r].station, res |-> req[r].res, start |-> req[r].at,
                end |-> Nil, prepaid |-> 0]]
  /\ Goto(r, "startCommit")
  /\ UNCHANGED <<clock, station, resv, boot, user, pkg, held>>

(* ... and COMMIT the station and the reservation saved before. *)
StartCommit(r) ==
  /\ req[r].pc = "startCommit"
  /\ station' = [station EXCEPT ![req[r].station] = "using"]
  /\ resv' = IF ReservationRow(req[r].res) \in held[r]
             THEN [resv EXCEPT ![req[r].res].status = "checked_in"] ELSE resv
  /\ Commit(r)
  /\ UNCHANGED <<clock, boot, sess, user, pkg>>

-----------------------------------------------------------------------------
(* The caller is charged, not the owner of the session. *)
RenewRead(r) ==
  /\ req[r].pc = "new"
  /\ \E u \in Users, k \in Requests, m \in Renewals :
       \/ /\ sess[k].status = "active"
          /\ station[sess[k].station] # "none"
          /\ req' = [req EXCEPT ![r] = [@ EXCEPT !.pc = "chargePackages", !.next = "renewSave",
                       !.user = u, !.session = k, !.row = sess[k], !.minutes = m]]
          /\ UNCHANGED <<clock, tables, held>>
       \/ /\ sess[k].status = "active" => station[sess[k].station] = "none"
          /\ Refuse(r)

(* The row as it was read, extended. *)
RenewSave(r) ==
  LET row  == req[r].row
      from == IF row.end = Nil THEN clock ELSE row.end
  IN  /\ req[r].pc = "renewSave"
      /\ sess' = [sess EXCEPT ![req[r].session] =
                    [row EXCEPT !.end = from + req[r].minutes,
                                !.prepaid = row.prepaid + req[r].minutes]]
      /\ Commit(r)
      /\ UNCHANGED <<clock, station, resv, boot, user, pkg>>

(* End: minutes beyond the prepaid ones are charged to the caller. *)
EndRead(r) ==
  /\ req[r].pc = "new"
  /\ \E u \in Users, k \in Requests :
       LET row  == sess[k]
           end  == IF row.end = Nil THEN clock ELSE Larger(clock, row.end)
           bill == Larger(0, end - row.start - row.prepaid)
       IN \/ /\ row.status = "active"
             /\ station[row.station] # "none"
             /\ req' = [req EXCEPT ![r] = [@ EXCEPT !.user = u, !.session = k, !.row = row,
                          !.until = end, !.minutes = bill, !.station = row.station,
                          !.next = "endSave", !.pc = IF bill > 0 THEN "chargePackages" ELSE "endSave"]]
             /\ UNCHANGED <<clock, tables, held>>
          \/ /\ row.status = "active" => station[row.station] = "none"
             /\ Refuse(r)

(* Faulty: the row saved has lost its reservation. *)
EndSaveDetached(r) ==
  /\ req[r].pc = "endSave"
  /\ sess' = [sess EXCEPT ![req[r].session] =
                [req[r].row EXCEPT !.status = "completed", !.end = req[r].until, !.res = Nil]]
  /\ Goto(r, "endStation")
  /\ UNCHANGED <<clock, station, resv, boot, user, pkg, held>>

(* BEGIN; the session is saved through the pool, committed at once... *)
EndSave(r) ==
  /\ req[r].pc = "endSave"
  /\ sess' = [sess EXCEPT ![req[r].session] =
                [req[r].row EXCEPT !.status = "completed", !.end = req[r].until]]
  /\ Goto(r, "endStation")
  /\ UNCHANGED <<clock, station, resv, boot, user, pkg, held>>

(* ... then the station is locked and becomes idle whatever it was; COMMIT. *)
EndStation(r) ==
  /\ req[r].pc = "endStation"
  /\ CanLock(r, Wanted(r))
  /\ \/ /\ station[req[r].station] # "none"
        /\ station' = [station EXCEPT ![req[r].station] = "idle"]
        /\ Commit(r)
        /\ UNCHANGED <<clock, resv, boot, sess, user, pkg>>
     \/ station[req[r].station] = "none" /\ Refuse(r)

-----------------------------------------------------------------------------
(* POST /sessions, /sessions/:id/renew and /sessions/:id/end *)
Start(r)  == \/ StartRead(r) \/ StartLock(r) \/ StartReservation(r) \/ StartCheckIn(r)
             \/ StartInsert(r) \/ StartCommit(r)
Renew(r)  == RenewRead(r) \/ RenewSave(r)
End(r)    == EndRead(r) \/ EndSave(r) \/ EndStation(r)
Charge(r) == ChargePackages(r) \/ ChargeBalance(r)
=============================================================================
