------------------------------- MODULE Station -------------------------------
(***************************************************************************)
(* StationService as staff use it: change a status, edit a profile, delete *)
(* a station.  Each reads the row without a lock and saves the whole row,  *)
(* status included.                                                        *)
(***************************************************************************)
EXTENDS HallStore

(* allowedStationTransition *)
AllowedStationTransition(from, to) ==
  \/ from = to
  \/ from = "idle" /\ to \in {"fault", "reserved", "using"}
  \/ from = "fault" /\ to = "idle"
  \/ from = "reserved" /\ to \in {"idle", "using"}
  \/ from = "using" /\ to = "idle"

UpdateStatusRead(r) ==
  /\ req[r].pc = "new"
  /\ \E s \in Stations, to \in StationStatuses \ {"none"} :
       \/ /\ station[s] # "none" /\ AllowedStationTransition(station[s], to)
          /\ req' = [req EXCEPT ![r] = [@ EXCEPT !.pc = "stationSave", !.station = s, !.status = to]]
          /\ UNCHANGED <<clock, tables, held>>
       \/ /\ station[s] = "none" \/ ~AllowedStationTransition(station[s], to)
          /\ Refuse(r)

(* Update changes the name, area or price, and keeps the status it read. *)
UpdateRead(r) ==
  /\ req[r].pc = "new"
  /\ \E s \in Stations :
       \/ /\ station[s] # "none"
          /\ req' = [req EXCEPT ![r] = [@ EXCEPT !.pc = "stationSave", !.station = s,
                                          !.status = station[s]]]
          /\ UNCHANGED <<clock, tables, held>>
       \/ station[s] = "none" /\ Refuse(r)

(* Save: UPDATE, or INSERT if the row is gone. *)
StationSave(r) ==
  /\ req[r].pc = "stationSave"
  /\ CanLock(r, Wanted(r))
  /\ station' = [station EXCEPT ![req[r].station] = req[r].status]
  /\ Commit(r)
  /\ UNCHANGED <<clock, resv, boot, sess, user, pkg>>

DeleteRead(r) ==
  /\ req[r].pc = "new"
  /\ \E s \in Stations :
       \/ /\ station[s] \notin {"none", "using"}
          /\ req' = [req EXCEPT ![r] = [@ EXCEPT !.pc = "stationDelete", !.station = s]]
          /\ UNCHANGED <<clock, tables, held>>
       \/ station[s] = "using" /\ Refuse(r)
       \/ station[s] = "none" /\ Return(r, "ok") /\ UNCHANGED <<clock, tables>>

StationDelete(r) ==
  /\ req[r].pc = "stationDelete"
  /\ CanLock(r, Wanted(r))
  /\ station' = [station EXCEPT ![req[r].station] = "none"]
  /\ Commit(r)
  /\ UNCHANGED <<clock, resv, boot, sess, user, pkg>>

-----------------------------------------------------------------------------
(* PUT /stations/:id/status, PUT and DELETE /stations/:id *)
UpdateStatus(r)  == UpdateStatusRead(r) \/ StationSave(r)
Update(r)        == UpdateRead(r) \/ StationSave(r)
DeleteStation(r) == DeleteRead(r) \/ StationDelete(r)
=============================================================================
