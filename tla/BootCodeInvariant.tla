--------------------------- MODULE BootCodeInvariant ---------------------------
(***************************************************************************)
(* The inductive invariant of BootCode: what each program counter of       *)
(* Generate and Verify has read, which rows it has locked since, and what  *)
(* those locks keep true until the transaction ends.                       *)
(***************************************************************************)
EXTENDS BootCode

Generating == {"genStation", "genLock", "genRevoke", "genInsert"}
Scanning   == {"scanReservation", "scanStation", "scanSession", "scanMember", "scanCharge"}
(* From here on the transaction has the row of its reservation, of its station. *)
HoldsReservation ==
  {"genRevoke", "genInsert", "scanStation", "scanSession", "scanMember", "scanCharge"}
HoldsStation == {"scanSession", "scanMember", "scanCharge"}

-----------------------------------------------------------------------------
(* Foreign keys of the rows that exist. *)
ReservationsComplete ==
  \A i \in Reservations : resv[i].status # "none" =>
    resv[i].user \in Users /\ resv[i].station \in Stations
CodesComplete ==
  \A c \in Codes : boot[c].status # "none" =>
    /\ boot[c].res \in Reservations /\ resv[boot[c].res].status # "none"
    /\ boot[c].user \in Users /\ boot[c].station \in Stations

(* The variables a function has assigned before each statement. *)
GeneratingComplete ==
  \A r \in Requests : req[r].pc \in Generating =>
    /\ req[r].res \in Reservations
    /\ resv[req[r].res].status # "none"
    /\ req[r].pc = "genInsert" => \A c \in req[r].revoked : boot[c].status # "none"
ScanningComplete ==
  \A r \in Requests :
    /\ req[r].pc \in Scanning => /\ req[r].res \in Reservations /\ resv[req[r].res].status # "none"
                                 /\ req[r].user \in Users /\ req[r].station \in Stations
    /\ req[r].pc \in Scanning \cup {"scanCode", "scanExpire"} => req[r].code \in Codes
    /\ req[r].pc \in Scanning \cup {"scanExpire"} => boot[req[r].code].status # "none"

TypeInv == /\ TypeOK
           /\ ReservationsComplete /\ CodesComplete
           /\ GeneratingComplete /\ ScanningComplete

-----------------------------------------------------------------------------
(* A row is locked by one transaction at a time... *)
RowsLockedOnce == \A q, r \in Requests : q # r => held[q] \cap held[r] = {}

(* ... and a transaction keeps the locks it took. *)
LocksTaken(r) ==
  /\ req[r].pc \in HoldsReservation => ReservationRow(req[r].res) \in held[r]
  /\ req[r].pc \in Scanning => BootCodeRow(req[r].code) \in held[r]
  /\ req[r].pc \in HoldsStation => StationRow(req[r].station) \in held[r]
  /\ req[r].pc = "genInsert" => \A c \in req[r].revoked : BootCodeRow(c) \in held[r]

(* Between the revocation and the commit no other code of the reservation goes live. *)
RevocationComplete(r) ==
  /\ req[r].pc \in {"genRevoke", "genInsert"} => resv[req[r].res].status = "confirmed"
  /\ req[r].pc = "genInsert" => \A c \in Codes :
       c \in req[r].revoked <=> boot[c].status = "active" /\ boot[c].res = req[r].res

(* What a scan has checked of the rows it holds is still so. *)
ScanIsFresh(r) ==
  /\ req[r].pc \in Scanning => LET c == boot[req[r].code] IN
       /\ c.status = "active" /\ c.res = req[r].res
       /\ c.user = req[r].user /\ c.station = req[r].station
  /\ req[r].pc \in Scanning \cap HoldsReservation => resv[req[r].res].status = "confirmed"
  /\ req[r].pc \in HoldsStation => station[req[r].station] \in {"idle", "reserved"}
  /\ req[r].pc = "scanCharge" => user[req[r].user].eligible

RequestInv(r) == LocksTaken(r) /\ RevocationComplete(r) /\ ScanIsFresh(r)

CodeInv == /\ TypeInv /\ RowsLockedOnce
           /\ \A r \in Requests : RequestInv(r)
           /\ AtMostOneActiveCode

-----------------------------------------------------------------------------
(* A session belongs to a request that is over, and has closed its reservation. *)
SessionsClose ==
  \A k \in Requests : sess[k].status # "none" =>
    /\ req[k].pc = "done"
    /\ sess[k].res \in Reservations /\ resv[sess[k].res].status = "checked_in"
SessionsComeFromUsedCodes ==
  \A c \in Codes : boot[c].session # Nil => boot[c].status = "used"

(* Nothing happens for a reservation before its arrival window opens. *)
WindowOpen(i) == clock >= resv[i].start - Early
NothingEarly ==
  /\ \A c \in Codes : boot[c].status # "none" => WindowOpen(boot[c].res)
  /\ \A r \in Requests : req[r].pc \in Generating \cup Scanning => WindowOpen(req[r].res)
  /\ \A r \in Requests : req[r].pc = "scanCharge" => req[r].at >= resv[req[r].res].start - Early

(* Rows that were never written are empty, and only booked reservations exist. *)
EmptyRows ==
  /\ \A i \in Reservations : resv[i].status # "none" => i \in Booked
  /\ \A c \in Codes : boot[c].status = "none" => boot[c].res = Nil
  /\ \A k \in Requests : sess[k].status = "none" => sess[k].res = Nil

SeatInv == /\ SessionsClose /\ SessionsComeFromUsedCodes /\ UsedCodesMatchSessions
           /\ OneSessionPerReservation /\ StationInUseIffOneSession
           /\ NothingEarly /\ NoEarlyBoot
           /\ EmptyRows

BootInv == CodeInv /\ SeatInv
=============================================================================
