------------------------------ MODULE HallProofs ------------------------------
(***************************************************************************)
(* The boot codes among everything the desk does: the types, the locks and *)
(* the promises of the codes hold in the whole hall, although bookings,    *)
(* starts, renewals, ends and station edits save stale rows, and nobody    *)
(* gets minutes that nobody paid for.  On a pool of connections the hall   *)
(* is the same hall, and the pool gets its connections back.               *)
(***************************************************************************)
EXTENDS HallPool, BootCodeProofs

-----------------------------------------------------------------------------
(* The inductive invariant: that of the boot codes, and what the desk has read and locked *)

(* The statements of the desk that save a reservation looked up before, and those after *)
(* which a renewal or an end saves the session row it has in hand.                      *)
Saving  == {"confirmSave", "cancelSave", "checkInSave", "startCheckIn"}
Booking == {"bookConflict", "bookLock", "bookInsert", "bookCommit"}
Billing == {"chargePackages", "chargeBalance", "renewSave", "endSave"}

(* A request inserts its reservation and its session once. *)
OwnRows(r) ==
  /\ req[r].pc \notin {"bookCommit", "done"}  => resv[r].status = "none"
  /\ req[r].pc \notin {"startCommit", "done"} => sess[r].status = "none"

(* The variables a function of the desk has assigned before each statement; the session  *)
(* row in hand may be stale, but not in what it was opened for.                           *)
DeskComplete(r) ==
  /\ req[r].pc \in Booking => req[r].user \in Users /\ req[r].station \in Stations /\ req[r].res = r
  /\ req[r].pc \in Saving => /\ req[r].res \in Reservations /\ resv[req[r].res].status # "none"
  /\ req[r].pc = "startLock" => req[r].station \in Stations
  /\ req[r].pc = "startReservation" => req[r].res \in Reservations
  /\ req[r].pc \in Billing =>
       LET k == sess[req[r].session]  row == req[r].row IN
       /\ req[r].user \in Users /\ req[r].session \in Requests
       /\ k.status # "none" /\ row.status = "active"
       /\ row.res = k.res /\ row.user = k.user /\ row.station = k.station
       /\ req[r].next \in {"renewSave", "endSave"}
       /\ req[r].pc \in {"renewSave", "endSave"} => req[r].next = req[r].pc
       /\ req[r].pc = "chargeBalance" => req[r].due =< Price * req[r].minutes

(* A booking and a start keep the station they locked, a start also the reservation. *)
DeskLocks(r) ==
  /\ req[r].pc \in {"new", "startLock"} => held[r] = {}
  /\ req[r].pc \in {"startReservation", "startCheckIn"} => held[r] = {StationRow(req[r].station)}
  /\ req[r].pc \in {"bookInsert", "bookCommit", "startInsert", "startCommit"} =>
       StationRow(req[r].station) \in held[r]
  /\ req[r].pc \in {"startInsert", "startCommit"} /\ ReservationRow(req[r].res) \in held[r] =>
       req[r].res \in Reservations /\ resv[req[r].res].status # "none"

DeskInv(r) == OwnRows(r) /\ DeskComplete(r) /\ DeskLocks(r)

(* What a renewal has paid for and not yet saved. *)
Credit(q) == IF q.pc = "renewSave" THEN Price * q.minutes
             ELSE IF q.pc = "chargeBalance" /\ q.next = "renewSave"
             THEN Price * q.minutes - q.due
             ELSE 0

(* The minutes ever credited to each session, cap: no row, in the table or in hand, has   *)
(* more, and together with what is still to be saved they were paid for.                   *)
Credited(cap) ==
  /\ \A k \in Requests : sess[k].prepaid =< cap[k]
  /\ \A r \in Requests : req[r].pc \in Billing => req[r].row.prepaid =< cap[req[r].session]
  /\ SumFunction([k \in Requests |-> Price * cap[k]]) + SumFunction([r \in Requests |-> Credit(req[r])])
       =< PaidMinutes
CreditInv == \E cap \in [Requests -> Nat] : Credited(cap)

HallInv == /\ CodeInv
           /\ \A r \in Requests : DeskInv(r)
           /\ UsedCodesKeepTheirSession

-----------------------------------------------------------------------------
(* Any step of the desk: what it may do to rows that others hold *)

(* Reservations and sessions stay and keep what they were opened for, only r adds rows, *)
(* of its own; reservations and stations that others have locked do not change.         *)
ReservationsPersist(r) ==
  \A i \in Reservations :
    \/ resv'[i] = resv[i]
    \/ /\ resv'[i].status # "none"
       /\ resv[i].status = "none" => i = r
       /\ resv'[i].user \in Users /\ resv'[i].station \in Stations
       /\ resv[i].status # "none" => \A q \in Requests \ {r} : ReservationRow(i) \notin held[q]
StationsPersist(r) ==
  \A s \in Stations :
    station'[s] = station[s] \/ \A q \in Requests \ {r} : StationRow(s) \notin held[q]
SessionsPersist(r) ==
  \A k \in Requests :
    /\ sess[k].status = "none" => k = r \/ sess'[k].status = "none"
    /\ sess[k].status # "none" =>
         /\ sess'[k].status # "none" /\ sess'[k].res = sess[k].res
         /\ sess'[k].user = sess[k].user /\ sess'[k].station = sess[k].station

DeskStep(r) ==
  /\ TypeOK' /\ LocksOnlyFree(r)
  /\ \A q \in Requests \ {r} : req'[q] = req[q]
  /\ req'[r].pc \notin Generating \cup Scanning \cup {"scanCode", "scanExpire"}
  /\ boot' = boot /\ \A u \in Users : user'[u].eligible = user[u].eligible
  /\ ReservationsPersist(r) /\ StationsPersist(r) /\ SessionsPersist(r)
  /\ DeskInv(r)'

(* A step of one request disturbs what another has read and locked only if it ends rows. *)
LEMMA OthersKeepDesk ==
  ASSUME TypeOK, NEW r \in Requests, LocksOnlyFree(r),
         \A q \in Requests \ {r} : req'[q] = req[q],
         \A i \in Reservations : /\ resv[i].status # "none" => resv'[i].status # "none"
                                 /\ resv[i].status = "none" => i = r \/ resv'[i].status = "none",
         SessionsPersist(r), NEW q \in Requests \ {r}, DeskInv(q)
  PROVE  DeskInv(q)'
  <1>1. req'[q] = req[q] /\ held'[q] = held[q]
    BY DEF LocksOnlyFree
  <1>2. OwnRows(q)'
    BY <1>1 DEF DeskInv, OwnRows, SessionsPersist, Reservations
  <1>3. DeskComplete(q)'
    BY <1>1 DEF DeskInv, DeskComplete, SessionsPersist
  <1>4. DeskLocks(q)'
    BY <1>1 DEF DeskInv, DeskLocks
  <1> QED
    BY <1>2, <1>3, <1>4, SMTT(30) DEF DeskInv

(* A step of the desk leaves the types of all the others complete... *)
LEMMA DeskKeepsTypes ==
  ASSUME CodeInv, NEW r \in Requests, DeskStep(r)
  PROVE  TypeInv'
  <1> USE DEF CodeInv, TypeInv, DeskStep
  <1>0. \A i \in Reservations : resv[i].status # "none" => resv'[i].status # "none"
    BY DEF ReservationsPersist
  <1>1. ReservationsComplete'
    BY DEF ReservationsComplete, ReservationsPersist
  <1>2. CodesComplete'
    BY <1>0 DEF CodesComplete
  <1>3. GeneratingComplete'
    BY <1>0 DEF GeneratingComplete
  <1>4. ScanningComplete'
    BY <1>0 DEF ScanningComplete
  <1> QED
    BY <1>1, <1>2, <1>3, <1>4

(* ... and what they have checked of the rows they hold. *)
LEMMA DeskKeepsCodes ==
  ASSUME CodeInv, NEW r \in Requests, DeskStep(r)
  PROVE  CodeInv'
  <1>1. TypeInv'
    BY DeskKeepsTypes
  <1>2. RowsLockedOnce'
    BY RowsStayLockedOnce DEF CodeInv, DeskStep
  <1>3. AtMostOneActiveCode'
    BY DEF CodeInv, AtMostOneActiveCode, DeskStep
  <1>4. ASSUME NEW q \in Requests
        PROVE  RequestInv(q)'
    <2>1. CASE q = r
      BY <2>1 DEF DeskStep, RequestInv, LocksTaken, RevocationComplete, ScanIsFresh,
                  HoldsReservation, HoldsStation, Scanning, Generating
    <2>2. CASE q # r
      <3>1. req'[q] = req[q] /\ held'[q] = held[q] /\ boot' = boot
        BY <2>2 DEF DeskStep, LocksOnlyFree
      <3>2. RequestInv(q) /\ TypeInv
        BY DEF CodeInv
      <3>3. LocksTaken(q)'
        BY <3>1, <3>2 DEF RequestInv, LocksTaken
      <3>4. ASSUME req[q].pc \in HoldsReservation
            PROVE  resv'[req[q].res] = resv[req[q].res]
        <4>1. ReservationRow(req[q].res) \in held[q]
          BY <3>2, <3>4 DEF RequestInv, LocksTaken
        <4>2. req[q].res \in Reservations /\ resv[req[q].res].status # "none"
          BY <3>2, <3>4 DEF TypeInv, GeneratingComplete, ScanningComplete, HoldsReservation,
                            Generating, Scanning
        <4> QED
          BY <2>2, <4>1, <4>2 DEF DeskStep, ReservationsPersist
      <3>5. ASSUME req[q].pc \in HoldsStation
            PROVE  station'[req[q].station] = station[req[q].station]
        <4>1. StationRow(req[q].station) \in held[q]
          BY <3>2, <3>5 DEF RequestInv, LocksTaken
        <4>2. req[q].station \in Stations
          BY <3>2, <3>5 DEF TypeInv, ScanningComplete, HoldsStation, Scanning
        <4> QED
          BY <2>2, <4>1, <4>2 DEF DeskStep, StationsPersist
      <3>6. RevocationComplete(q)'
        BY <3>1, <3>2, <3>4 DEF RequestInv, RevocationComplete, HoldsReservation
      <3>7. req[q].pc = "scanCharge" => user'[req[q].user].eligible = user[req[q].user].eligible
        BY <3>2 DEF DeskStep, TypeInv, ScanningComplete, Scanning
      <3>8. ScanIsFresh(q)'
        BY <3>1, <3>2, <3>4, <3>5, <3>7 DEF RequestInv, ScanIsFresh
      <3> QED
        BY <3>3, <3>6, <3>8 DEF RequestInv
    <2> QED
      BY <2>1, <2>2
  <1> QED
    BY <1>1, <1>2, <1>3, <1>4 DEF CodeInv

(* So a step of the desk keeps the whole invariant. *)
LEMMA DeskKeepsHall ==
  ASSUME HallInv, NEW r \in Requests, DeskStep(r)
  PROVE  HallInv'
  <1>1. CodeInv'
    BY DeskKeepsCodes DEF HallInv
  <1>2. ASSUME NEW q \in Requests
        PROVE  DeskInv(q)'
    <2>1. TypeOK
      BY DEF HallInv, CodeInv, TypeInv
    <2>2. \A i \in Reservations : /\ resv[i].status # "none" => resv'[i].status # "none"
                                  /\ resv[i].status = "none" => i = r \/ resv'[i].status = "none"
      BY DEF DeskStep, ReservationsPersist
    <2> QED
      BY <2>1, <2>2, OthersKeepDesk DEF DeskStep, HallInv
  <1>3. UsedCodesKeepTheirSession'
    BY DEF HallInv, UsedCodesKeepTheirSession, DeskStep, SessionsPersist
  <1> QED
    BY <1>1, <1>2, <1>3 DEF HallInv

-----------------------------------------------------------------------------
(* Steps of the boot codes in the hall *)

(* What every step of Generate and Verify but the commit of a scan leaves alone. *)
Booting == Generating \cup Scanning \cup {"scanCode", "scanExpire"}
BootFrame(r) ==
  /\ LocksOnlyFree(r) /\ \A q \in Requests \ {r} : req'[q] = req[q]
  /\ req[r].pc \in {"new"} \cup Booting /\ req'[r].pc \in {"done"} \cup Booting
  /\ UNCHANGED <<resv, sess, user, pkg>>
  /\ \A c \in Codes : boot'[c].status = "used" => boot'[c] = boot[c]

(* An answer without a write frees the rows of r and changes nothing else. *)
LEMMA RefuseFrame ==
  ASSUME TypeOK, NEW r \in Requests, req[r].pc \in {"new"} \cup Booting, Refuse(r)
  PROVE  BootFrame(r)
  <1>1. UNCHANGED tables /\ Return(r, "refused")
    BY DEF Refuse
  <1> QED
    BY <1>1, ReturnIsFree DEF BootFrame, tables

(* A statement that moves on within its function, and reads or locks. *)
LEMMA GotoFrame ==
  ASSUME TypeOK, NEW r \in Requests, req[r].pc \in {"new"} \cup Booting,
         NEW label \in Booting, Goto(r, label), UNCHANGED tables, LocksOnlyFree(r)
  PROVE  BootFrame(r)
  <1>1. label \in Labels
    BY DEF Booting, Generating, Scanning, Labels
  <1>2. req'[r].pc = label /\ \A q \in Requests \ {r} : req'[q] = req[q]
    BY <1>1, GotoFields
  <1> QED
    BY <1>2 DEF BootFrame, tables

LEMMA GenerateFrame ==
  ASSUME TypeInv, NEW r \in Requests, Generate(r)
  PROVE  BootFrame(r)
  <1>0. TypeOK
    BY DEF TypeInv
  <1>1. req[r].pc \in {"new"} \cup Booting
    BY ZenonT(30) DEF Generate, GenerateRead, GenerateStation, GenerateLock, GenerateRevoke,
           GenerateInsert, GenerateExhausted, Booting, Generating
  <1>2. CASE Refuse(r)
    BY <1>0, <1>1, <1>2, RefuseFrame
  <1>3. CASE GenerateRead(r) /\ ~Refuse(r)
    <2>1. PICK i \in Reservations :
            /\ req' = [req EXCEPT ![r] = [@ EXCEPT !.pc = "genStation", !.res = i, !.at = clock]]
            /\ UNCHANGED <<clock, tables, held>>
      BY <1>3 DEF GenerateRead
    <2>2. req'[r].pc = "genStation" /\ \A q \in Requests \ {r} : req'[q] = req[q]
      BY <1>0, <2>1 DEF TypeOK, RequestStates
    <2> QED
      BY <1>1, <2>1, <2>2, NoLockIsFree DEF BootFrame, tables, Booting, Generating
  <1>4. CASE GenerateStation(r) /\ ~Refuse(r)
    <2>1. Goto(r, "genLock") /\ UNCHANGED <<clock, tables, held>>
      BY <1>4 DEF GenerateStation
    <2> QED
      BY <1>0, <1>1, <2>1, NoLockIsFree, GotoFrame DEF Booting, Generating
  <1>5. CASE GenerateLock(r) /\ ~Refuse(r)
    <2>1. Goto(r, "genRevoke") /\ UNCHANGED tables /\ Lock(r, Wanted(r)) /\ CanLock(r, Wanted(r))
      BY <1>5 DEF GenerateLock
    <2> QED
      BY <1>0, <1>1, <2>1, LockIsFree, GotoFrame DEF Booting, Generating
  <1>6. CASE GenerateRevoke(r)
    <2>1. /\ UNCHANGED tables /\ Lock(r, Wanted(r)) /\ CanLock(r, Wanted(r))
          /\ req'[r].pc = "genInsert" /\ \A q \in Requests \ {r} : req'[q] = req[q]
      BY <1>0, <1>6 DEF GenerateRevoke, TypeOK, RequestStates
    <2> QED
      BY <1>0, <1>1, <2>1, LockIsFree DEF BootFrame, tables, Booting, Generating
  <1>7. CASE GenerateInsert(r)
    <2>1. UNCHANGED <<resv, sess, user, pkg>> /\ Commit(r)
      BY <1>7 DEF GenerateInsert
    <2>2. LocksOnlyFree(r) /\ req'[r].pc = "done" /\ \A q \in Requests \ {r} : req'[q] = req[q]
      BY <1>0, <2>1, ReturnIsFree DEF Commit
    <2>3. \A c \in Codes : boot'[c].status = "used" => boot'[c] = boot[c]
      <3>1. boot \in [Codes -> BootCodeRows]
        BY <1>0 DEF TypeOK
      <3> QED
        BY <1>7, <3>1 DEF GenerateInsert, BootCodeRows
    <2> QED
      BY <1>1, <2>1, <2>2, <2>3 DEF BootFrame
  <1> QED
    BY <1>2, <1>3, <1>4, <1>5, <1>6, <1>7 DEF Generate, GenerateExhausted

LEMMA VerifyFrame ==
  ASSUME TypeInv, NEW r \in Requests, Verify(r), Refuse(r) \/ ~VerifyCommit(r)
  PROVE  BootFrame(r)
  <1>0. TypeOK
    BY DEF TypeInv
  <1>1. req[r].pc \in {"new"} \cup Booting
    BY ZenonT(30) DEF Verify, VerifyBegin, VerifyCode, VerifyReservation, VerifyStation, VerifyNoSession,
           VerifyMember, VerifyCommit, MarkExpired, Booting, Scanning
  <1>2. CASE Refuse(r)
    BY <1>0, <1>1, <1>2, RefuseFrame
  <1>3. CASE VerifyCode(r) /\ ~Refuse(r)
    <2>1. /\ req'[r].pc \in {"scanReservation", "scanExpire"} /\ UNCHANGED tables
          /\ \A q \in Requests \ {r} : req'[q] = req[q]
          /\ (CanLock(r, Wanted(r)) /\ Lock(r, Wanted(r))) \/ UNCHANGED held
      BY <1>3, VerifyCodeFields
    <2>2. LocksOnlyFree(r)
      BY <1>0, <2>1, LockIsFree, NoLockIsFree
    <2> QED
      BY <1>1, <2>1, <2>2 DEF BootFrame, tables, Booting, Scanning
  <1>4. CASE VerifyReservation(r) /\ ~Refuse(r)
    <2>1. Goto(r, "scanStation") /\ UNCHANGED tables /\ Lock(r, Wanted(r)) /\ CanLock(r, Wanted(r))
      BY <1>4 DEF VerifyReservation
    <2> QED
      BY <1>0, <1>1, <2>1, LockIsFree, GotoFrame DEF Booting, Scanning
  <1>5. CASE VerifyStation(r) /\ ~Refuse(r)
    <2>1. Goto(r, "scanSession") /\ UNCHANGED tables /\ Lock(r, Wanted(r)) /\ CanLock(r, Wanted(r))
      BY <1>5 DEF VerifyStation
    <2> QED
      BY <1>0, <1>1, <2>1, LockIsFree, GotoFrame DEF Booting, Scanning
  <1>6. CASE VerifyNoSession(r) /\ ~Refuse(r)
    <2>1. Goto(r, "scanMember") /\ UNCHANGED <<clock, tables, held>>
      BY <1>6 DEF VerifyNoSession
    <2> QED
      BY <1>0, <1>1, <2>1, NoLockIsFree, GotoFrame DEF Booting, Scanning
  <1>7. CASE VerifyMember(r) /\ ~Refuse(r)
    <2>1. /\ UNCHANGED tables /\ Lock(r, Wanted(r)) /\ CanLock(r, Wanted(r))
          /\ req' = [req EXCEPT ![r] = [@ EXCEPT !.pc = "scanCharge", !.at = clock]]
      BY <1>7 DEF VerifyMember
    <2>2. req'[r].pc = "scanCharge" /\ \A q \in Requests \ {r} : req'[q] = req[q]
      BY <1>0, <2>1 DEF TypeOK, RequestStates
    <2> QED
      BY <1>0, <1>1, <2>1, <2>2, LockIsFree DEF BootFrame, tables, Booting, Scanning
  <1>8. CASE MarkExpired(r)
    <2>1. UNCHANGED <<resv, sess, user, pkg>> /\ Return(r, "refused")
      BY <1>8 DEF MarkExpired
    <2>2. LocksOnlyFree(r) /\ req'[r].pc = "done" /\ \A q \in Requests \ {r} : req'[q] = req[q]
      BY <1>0, <2>1, ReturnIsFree
    <2>3. \A c \in Codes : boot'[c].status = "used" => boot'[c] = boot[c]
      BY <1>0, <1>8 DEF MarkExpired, TypeOK, BootCodeRows
    <2> QED
      BY <1>1, <2>1, <2>2, <2>3 DEF BootFrame
  <1>9. CASE VerifyBegin(r) /\ ~Refuse(r)
    <2>1. /\ req'[r].pc = "scanCode" /\ UNCHANGED <<clock, tables, held>>
          /\ \A q \in Requests \ {r} : req'[q] = req[q]
      BY <1>9, VerifyBeginFields
    <2> QED
      BY <1>0, <1>1, <2>1, NoLockIsFree DEF BootFrame, tables, Booting
  <1> QED
    BY <1>2, <1>3, <1>4, <1>5, <1>6, <1>7, <1>8, <1>9 DEF Verify

(* Such a step keeps what the desk knows and all used codes. *)
LEMMA FrameKeepsHall ==
  ASSUME HallInv, CodeInv', NEW r \in Requests, BootFrame(r)
  PROVE  HallInv'
  <1>1. TypeOK /\ DeskInv(r) /\ UNCHANGED <<resv, sess>>
    BY DEF HallInv, CodeInv, TypeInv, BootFrame
  <1>2. SessionsPersist(r)
    BY <1>1 DEF SessionsPersist
  <1>3. ASSUME NEW q \in Requests
        PROVE  DeskInv(q)'
    <2>1. CASE q = r
      <3>1. OwnRows(r)'
        BY <1>1 DEF BootFrame, DeskInv, OwnRows, Booting, Generating, Scanning
      <3>2. DeskComplete(r)' /\ DeskLocks(r)'
        BY DEF BootFrame, DeskComplete, DeskLocks, Booting, Generating, Scanning, Booking, Saving,
               Billing
      <3> QED
        BY <2>1, <3>1, <3>2 DEF DeskInv
    <2>2. CASE q # r
      BY <1>1, <1>2, <2>2, OthersKeepDesk DEF BootFrame, HallInv
    <2> QED
      BY <2>1, <2>2
  <1>4. UsedCodesKeepTheirSession'
    BY <1>1 DEF HallInv, UsedCodesKeepTheirSession, BootFrame
  <1> QED
    BY <1>3, <1>4 DEF HallInv

(* The commit of a scan opens the one session of its code. *)
LEMMA VerifyCommitKeepsHall ==
  ASSUME HallInv, CodeInv', NEW r \in Requests, VerifyCommit(r), ~Refuse(r)
  PROVE  HallInv'
  <1>0. TypeInv /\ TypeOK /\ DeskInv(r)
    BY DEF HallInv, CodeInv, TypeInv
  <1>1. CommitWrites(r) /\ req[r].pc = "scanCharge"
    BY <1>0, VerifyCommitWrites
  <1>2. LocksOnlyFree(r) /\ req'[r].pc = "done" /\ \A q \in Requests \ {r} : req'[q] = req[q]
    BY <1>0, ReturnIsFree, ZenonT(30) DEF VerifyCommit, Commit
  <1>3. sess[r].status = "none"
    BY <1>0, <1>1 DEF DeskInv, OwnRows
  <1>4. SessionsPersist(r)
    BY <1>1, <1>3 DEF SessionsPersist, CommitWrites
  <1>5. \A i \in Reservations : /\ resv[i].status # "none" => resv'[i].status # "none"
                                /\ resv[i].status = "none" => i = r \/ resv'[i].status = "none"
    <2>1. req[r].res \in Reservations /\ resv[req[r].res].status # "none"
      BY <1>0, <1>1 DEF TypeInv, ScanningComplete, Scanning
    <2> QED
      BY <1>1, <2>1 DEF CommitWrites
  <1>6. ASSUME NEW q \in Requests
        PROVE  DeskInv(q)'
    <2>1. CASE q = r
      BY <1>2, <2>1 DEF DeskInv, OwnRows, DeskComplete, DeskLocks, Booking, Saving, Billing
    <2>2. CASE q # r
      BY <1>0, <1>2, <1>4, <1>5, <2>2, OthersKeepDesk DEF HallInv
    <2> QED
      BY <2>1, <2>2
  <1>7. UsedCodesKeepTheirSession'
    <2>1. req[r].code \in Codes /\ boot[req[r].code].res = req[r].res
          /\ boot[req[r].code].user = req[r].user /\ boot[req[r].code].station = req[r].station
      BY <1>0, <1>1, SMTT(30) DEF HallInv, CodeInv, TypeInv, ScanningComplete, RequestInv, ScanIsFresh, Scanning
    <2>2. \A c \in Codes : boot[c].status = "used" =>
            boot[c].session \in Requests \ {r} /\ sess'[boot[c].session] = sess[boot[c].session]
      <3>1. UsedCodesKeepTheirSession
        BY DEF HallInv
      <3>2. \A k \in Requests : k # r => sess'[k] = sess[k]
        BY <1>1 DEF CommitWrites
      <3> QED
        BY <1>3, <3>1, <3>2 DEF UsedCodesKeepTheirSession
    <2>3. UsedCodesKeepTheirSession
      BY DEF HallInv
    <2>4. ASSUME NEW b \in Codes, NEW c \in Codes, boot'[c].status = "used"
          PROVE  /\ boot'[c].session \in Requests
                 /\ LET k == sess'[boot'[c].session] IN
                      /\ k.status # "none" /\ k.res = boot'[c].res
                      /\ k.user = boot'[c].user /\ k.station = boot'[c].station
                 /\ boot'[b].status = "used" /\ boot'[b].session = boot'[c].session => b = c
      <3>1. \A d \in Codes : d # req[r].code => boot'[d] = boot[d]
        BY <1>1 DEF CommitWrites
      <3>2. /\ boot'[req[r].code].status = "used" /\ boot'[req[r].code].session = r
            /\ boot'[req[r].code].res = boot[req[r].code].res
            /\ boot'[req[r].code].user = boot[req[r].code].user
            /\ boot'[req[r].code].station = boot[req[r].code].station
        BY <1>1 DEF CommitWrites
      <3>3. CASE c = req[r].code
        <4>1. /\ sess'[r].status # "none" /\ sess'[r].res = req[r].res
              /\ sess'[r].user = req[r].user /\ sess'[r].station = req[r].station
          BY <1>1 DEF CommitWrites
        <4>2. boot'[b].status = "used" /\ boot'[b].session = r => b = req[r].code
          BY <2>2, <3>1
        <4> QED
          BY <2>1, <3>2, <3>3, <4>1, <4>2
      <3>4. CASE c # req[r].code
        <4>1. boot'[c] = boot[c] /\ boot[c].status = "used"
          BY <2>4, <3>1, <3>4
        <4>2. boot[c].session \in Requests \ {r} /\ sess'[boot[c].session] = sess[boot[c].session]
          BY <2>2, <4>1
        <4>3. boot'[b].status = "used" /\ boot'[b].session = boot[c].session => boot'[b] = boot[b]
          BY <3>1, <3>2, <4>2
        <4> QED
          BY <2>3, <4>1, <4>2, <4>3 DEF UsedCodesKeepTheirSession
      <3> QED
        BY <3>3, <3>4
    <2> QED
      BY <2>4 DEF UsedCodesKeepTheirSession
  <1> QED
    BY <1>6, <1>7 DEF HallInv

(* Requests for codes and scans keep the invariant of the hall. *)
LEMMA GenerateKeepsHall ==
  ASSUME HallInv, NEW r \in Requests, Generate(r)
  PROVE  HallInv'
  <1>1. TypeInv /\ CodeInv
    BY DEF HallInv, CodeInv
  <1>2. CodeInv'
    BY <1>1, GenerateType, GenerateKeepsCodes
  <1> QED
    BY <1>1, <1>2, GenerateFrame, FrameKeepsHall

LEMMA VerifyKeepsHall ==
  ASSUME HallInv, NEW r \in Requests, Verify(r)
  PROVE  HallInv'
  <1>1. TypeInv /\ CodeInv
    BY DEF HallInv, CodeInv
  <1>2. CodeInv'
    BY <1>1, VerifyType, VerifyKeepsCodes
  <1>3. CASE VerifyCommit(r) /\ ~Refuse(r)
    BY <1>2, <1>3, VerifyCommitKeepsHall
  <1>4. CASE Refuse(r) \/ ~VerifyCommit(r)
    BY <1>1, <1>2, <1>4, VerifyFrame, FrameKeepsHall
  <1> QED
    BY <1>3, <1>4

(* Whoever is answered without a write frees what they held. *)
LEMMA AnswerKeepsHall ==
  ASSUME HallInv, NEW r \in Requests, NEW answer \in Answers,
         Return(r, answer), UNCHANGED <<clock, tables>>
  PROVE  HallInv'
  <1>0. TypeOK /\ UNCHANGED <<resv, boot, sess>>
    BY DEF HallInv, CodeInv, TypeInv, tables
  <1>1. CodeInv'
    BY RefuseKeepsCodes DEF HallInv
  <1>2. LocksOnlyFree(r) /\ req'[r].pc = "done" /\ \A q \in Requests \ {r} : req'[q] = req[q]
    BY <1>0, ReturnIsFree
  <1>3. SessionsPersist(r)
    BY <1>0 DEF SessionsPersist
  <1>4. ASSUME NEW q \in Requests
        PROVE  DeskInv(q)'
    <2>1. CASE q = r
      BY <1>2, <2>1 DEF DeskInv, OwnRows, DeskComplete, DeskLocks, Booking, Saving, Billing
    <2>2. CASE q # r
      BY <1>0, <1>2, <1>3, <2>2, OthersKeepDesk DEF HallInv
    <2> QED
      BY <2>1, <2>2
  <1>5. UsedCodesKeepTheirSession'
    BY <1>0 DEF HallInv, UsedCodesKeepTheirSession
  <1> QED
    BY <1>1, <1>4, <1>5 DEF HallInv

-----------------------------------------------------------------------------
(* Steps of the desk in general *)

(* A statement that only moves on. *)
LEMMA GotoState ==
  ASSUME TypeOK, NEW r \in Requests, NEW label \in Labels, Goto(r, label)
  PROVE  /\ req' \in [Requests -> RequestStates]
         /\ req'[r] = [req[r] EXCEPT !.pc = label] /\ req'[r].pc = label
         /\ \A q \in Requests \ {r} : req'[q] = req[q]
         /\ req'[r].user = req[r].user /\ req'[r].res = req[r].res
         /\ req'[r].station = req[r].station /\ req'[r].session = req[r].session
         /\ req'[r].row = req[r].row /\ req'[r].next = req[r].next
         /\ req'[r].minutes = req[r].minutes /\ req'[r].due = req[r].due
  <1>1. req[r] \in RequestStates /\ DOMAIN req = Requests
    BY DEF TypeOK
  <1> QED
    BY <1>1, GotoType, ZenonT(30) DEF Goto, RequestStates

(* A statement of the desk that reads, and may lock. *)
LEMMA DeskReads ==
  ASSUME TypeOK, NEW r \in Requests, UNCHANGED <<clock, tables>>,
         req' \in [Requests -> RequestStates], held' \in [Requests -> SUBSET Rows],
         LocksOnlyFree(r), \A q \in Requests \ {r} : req'[q] = req[q],
         req'[r].pc \notin Booting, DeskInv(r)'
  PROVE  DeskStep(r)
  <1>1. TypeOK'
    BY DEF TypeOK, tables
  <1>2. ReservationsPersist(r) /\ StationsPersist(r) /\ SessionsPersist(r)
    BY DEF ReservationsPersist, StationsPersist, SessionsPersist, tables
  <1> QED
    BY <1>1, <1>2 DEF DeskStep, tables, Booting

(* A statement of the desk that writes through the pool and moves on. *)
LEMMA DeskWrites ==
  ASSUME TypeOK, NEW r \in Requests, NEW label \in Labels \ Booting, Goto(r, label),
         UNCHANGED <<clock, boot, held>>,
         station' \in [Stations -> StationStatuses], resv' \in [Reservations -> ReservationRows],
         sess' \in [Requests -> SessionRows], user' \in [Users -> UserRows], pkg' \in [Users -> Nat],
         \A u \in Users : user'[u].eligible = user[u].eligible,
         ReservationsPersist(r), StationsPersist(r), SessionsPersist(r), DeskInv(r)'
  PROVE  DeskStep(r)
  <1>1. /\ req' \in [Requests -> RequestStates] /\ req'[r].pc = label
        /\ \A q \in Requests \ {r} : req'[q] = req[q]
    BY GotoState, ZenonT(30)
  <1>2. TypeOK'
    BY <1>1 DEF TypeOK
  <1> QED
    BY <1>1, <1>2, NoLockIsFree DEF DeskStep, Booting

(* A transaction of the desk that commits. *)
LEMMA DeskCommits ==
  ASSUME TypeOK, NEW r \in Requests, Commit(r), UNCHANGED <<clock, boot, user, pkg>>,
         station' \in [Stations -> StationStatuses], resv' \in [Reservations -> ReservationRows],
         sess' \in [Requests -> SessionRows],
         ReservationsPersist(r), StationsPersist(r), SessionsPersist(r)
  PROVE  DeskStep(r)
  <1>1. PICK answer \in {"ok", "error"} : Return(r, answer)
    BY DEF Commit
  <1>2. held' \in [Requests -> SUBSET Rows] /\ req' \in [Requests -> RequestStates]
    BY <1>1, ReturnType DEF Answers
  <1>3. /\ LocksOnlyFree(r) /\ req'[r].pc = "done"
        /\ \A q \in Requests \ {r} : req'[q] = req[q]
    BY <1>1, ReturnIsFree
  <1>4. TypeOK'
    BY <1>2 DEF TypeOK
  <1>5. DeskInv(r)'
    BY <1>3 DEF DeskInv, OwnRows, DeskComplete, DeskLocks, Booking, Saving, Billing
  <1> QED
    BY <1>3, <1>4, <1>5 DEF DeskStep, Generating, Scanning

(* A write to a station row that nobody else has locked. *)
LEMMA StationWrite ==
  ASSUME TypeOK, NEW r \in Requests, NEW s, NEW status,
         s \in Stations => status \in StationStatuses,
         \A q \in Requests \ {r} : StationRow(s) \notin held[q],
         station' = [station EXCEPT ![s] = status]
  PROVE  station' \in [Stations -> StationStatuses] /\ StationsPersist(r)
  BY DEF TypeOK, StationsPersist

(* A write to a reservation that exists and nobody else has locked. *)
LEMMA ReservationWrite ==
  ASSUME TypeInv, NEW r \in Requests, NEW i \in Reservations, resv[i].status # "none",
         NEW status \in ReservationStatuses \ {"none"},
         \A q \in Requests \ {r} : ReservationRow(i) \notin held[q],
         resv' = [resv EXCEPT ![i].status = status]
  PROVE  resv' \in [Reservations -> ReservationRows] /\ ReservationsPersist(r)
  <1>1. resv \in [Reservations -> ReservationRows] /\ resv[i].user \in Users /\ resv[i].station \in Stations
    BY DEF TypeInv, TypeOK, ReservationsComplete
  <1>2. resv' \in [Reservations -> ReservationRows]
    BY <1>1 DEF ReservationRows
  <1>3. /\ resv'[i].status = status /\ resv'[i].user = resv[i].user /\ resv'[i].station = resv[i].station
        /\ \A j \in Reservations \ {i} : resv'[j] = resv[j]
    BY <1>1 DEF ReservationRows
  <1> QED
    BY <1>1, <1>2, <1>3 DEF ReservationsPersist

(* What r has locked nobody else has. *)
LEMMA LockedOnce ==
  ASSUME CodeInv, NEW r \in Requests, NEW row \in held[r]
  PROVE  \A q \in Requests \ {r} : row \notin held[q]
  BY DEF CodeInv, RowsLockedOnce

(* What r may lock nobody else has. *)
LEMMA FreeToLock ==
  ASSUME NEW r \in Requests, NEW row, CanLock(r, {row})
  PROVE  \A q \in Requests \ {r} : row \notin held[q]
  BY DEF CanLock

-----------------------------------------------------------------------------
(* Reservations *)

LEMMA CreateReadStep ==
  ASSUME HallInv, NEW r \in Requests, CreateRead(r), ~Refuse(r)
  PROVE  DeskStep(r)
  <1>0. TypeOK /\ DeskInv(r) /\ req[r].pc = "new"
    BY DEF HallInv, CodeInv, TypeInv, CreateRead
  <1>1. PICK u \in Users, s \in Stations, slot \in Slots :
          /\ req' = [req EXCEPT ![r] = [@ EXCEPT !.pc = "bookConflict", !.user = u, !.res = r,
                       !.station = s, !.at = slot[1], !.until = slot[2]]]
          /\ UNCHANGED <<clock, tables, held>>
    BY ZenonT(30) DEF CreateRead
  <1>2. req[r] \in RequestStates /\ DOMAIN req = Requests /\ slot[1] \in Nat /\ slot[2] \in Nat
    BY <1>0, SlotsAssumption DEF TypeOK
  <1>3. [req[r] EXCEPT !.pc = "bookConflict", !.user = u, !.res = r,
           !.station = s, !.at = slot[1], !.until = slot[2]] \in RequestStates
    <2>1. PICK at \in Nat, until \in Nat : at = slot[1] /\ until = slot[2]
      BY <1>2
    <2>2. r \in Reservations /\ "bookConflict" \in Labels
      BY DEF Reservations, Labels
    <2>3. [req[r] EXCEPT !.pc = "bookConflict", !.user = u, !.res = r,
             !.station = s, !.at = at, !.until = until] \in RequestStates
      BY <1>2, <2>2, ZenonT(30) DEF RequestStates
    <2> QED
      BY <2>1, <2>3
  <1>4. req' \in [Requests -> RequestStates] /\ \A q \in Requests \ {r} : req'[q] = req[q]
    BY <1>0, <1>1, <1>3 DEF TypeOK
  <1>5. /\ req'[r].pc = "bookConflict" /\ req'[r].user = u /\ req'[r].res = r /\ req'[r].station = s
    BY <1>1, <1>2 DEF RequestStates
  <1>6. DeskInv(r)'
    BY <1>0, <1>1, <1>5
    DEF DeskInv, OwnRows, DeskComplete, DeskLocks, Booking, Saving, Billing, tables
  <1>7. held' \in [Requests -> SUBSET Rows] /\ LocksOnlyFree(r)
    BY <1>0, <1>1, NoLockIsFree DEF TypeOK
  <1> QED
    BY <1>0, <1>1, <1>4, <1>5, <1>6, <1>7, DeskReads DEF Booting, Generating, Scanning

LEMMA CreateStep ==
  ASSUME HallInv, NEW r \in Requests, Create(r), ~Refuse(r)
  PROVE  DeskStep(r)
  <1>0. TypeOK /\ TypeInv /\ CodeInv /\ DeskInv(r) /\ req[r] \in RequestStates
    BY DEF HallInv, CodeInv, TypeInv, TypeOK
  <1>1. CASE CreateRead(r)
    BY <1>1, CreateReadStep
  <1>2. CASE CreateCountConflict(r)
    <2>1. req[r].pc = "bookConflict" /\ Goto(r, "bookLock") /\ UNCHANGED <<clock, tables, held>>
      BY <1>2 DEF CreateCountConflict
    <2>2. /\ req' \in [Requests -> RequestStates] /\ req'[r].pc = "bookLock"
          /\ \A q \in Requests \ {r} : req'[q] = req[q]
          /\ req'[r].user = req[r].user /\ req'[r].res = req[r].res /\ req'[r].station = req[r].station
      BY <1>0, <2>1, GotoState, ZenonT(30) DEF Labels
    <2>3. DeskInv(r)'
      BY <1>0, <2>1, <2>2
      DEF DeskInv, OwnRows, DeskComplete, DeskLocks, Booking, Saving, Billing, tables
    <2>4. held' \in [Requests -> SUBSET Rows] /\ LocksOnlyFree(r)
      BY <1>0, <2>1, NoLockIsFree DEF TypeOK
    <2> QED
      BY <1>0, <2>1, <2>2, <2>3, <2>4, DeskReads DEF Booting, Generating, Scanning
  <1>3. CASE CreateLock(r)
    <2>1. /\ req[r].pc = "bookLock" /\ Goto(r, "bookInsert") /\ UNCHANGED <<clock, tables>>
          /\ CanLock(r, Wanted(r)) /\ Lock(r, Wanted(r))
      BY <1>3 DEF CreateLock
    <2>2. /\ req' \in [Requests -> RequestStates] /\ req'[r].pc = "bookInsert"
          /\ \A q \in Requests \ {r} : req'[q] = req[q]
          /\ req'[r].user = req[r].user /\ req'[r].res = req[r].res /\ req'[r].station = req[r].station
      BY <1>0, <2>1, GotoState, ZenonT(30) DEF Labels
    <2>3. Wanted(r) = {StationRow(req[r].station)} /\ req[r].station \in Stations
      BY <1>0, <2>1 DEF Wanted, DeskInv, DeskComplete, Booking
    <2>4. held' \in [Requests -> SUBSET Rows]
      <3>1. {StationRow(req[r].station)} \in SUBSET Rows
        BY <2>3 DEF Rows
      <3> QED
        BY <1>0, <2>1, <2>3, <3>1, LockType
    <2>5. LocksOnlyFree(r) /\ held'[r] = held[r] \cup {StationRow(req[r].station)}
      BY <1>0, <2>1, <2>3, LockIsFree
    <2>6. DeskInv(r)'
      BY <1>0, <2>1, <2>2, <2>5
      DEF DeskInv, OwnRows, DeskComplete, DeskLocks, Booking, Saving, Billing, tables
    <2> QED
      BY <1>0, <2>1, <2>2, <2>4, <2>5, <2>6, DeskReads DEF Booting, Generating, Scanning
  <1>4. CASE CreateInsert(r)
    <2>1. /\ req[r].pc = "bookInsert" /\ Goto(r, "bookCommit")
          /\ UNCHANGED <<clock, station, boot, sess, user, pkg, held>>
          /\ resv' = [resv EXCEPT ![r] = [status |-> "confirmed", user |-> req[r].user,
                station |-> req[r].station, start |-> req[r].at, end |-> req[r].until]]
      BY <1>4 DEF CreateInsert
    <2>2. /\ req[r].user \in Users /\ req[r].station \in Stations /\ r \in Reservations
          /\ resv[r].status = "none" /\ sess[r].status = "none"
          /\ StationRow(req[r].station) \in held[r]
      BY <1>0, <2>1 DEF DeskInv, DeskComplete, DeskLocks, OwnRows, Booking, Reservations
    <2>3. [status |-> "confirmed", user |-> req[r].user, station |-> req[r].station,
           start |-> req[r].at, end |-> req[r].until] \in ReservationRows
      BY <1>0, <2>2 DEF RequestStates, ReservationRows, ReservationStatuses
    <2>4. resv' \in [Reservations -> ReservationRows] /\ ReservationsPersist(r)
      BY <1>0, <2>1, <2>2, <2>3 DEF TypeOK, ReservationsPersist
    <2>5. StationsPersist(r) /\ SessionsPersist(r)
      BY <2>1 DEF StationsPersist, SessionsPersist
    <2>6. /\ req'[r].pc = "bookCommit" /\ req'[r].user = req[r].user /\ req'[r].res = req[r].res
          /\ req'[r].station = req[r].station
      BY <1>0, <2>1, GotoState, ZenonT(30) DEF Labels
    <2>7. DeskInv(r)'
      BY <1>0, <2>1, <2>2, <2>6
      DEF DeskInv, OwnRows, DeskComplete, DeskLocks, Booking, Saving, Billing
    <2>8. /\ station' \in [Stations -> StationStatuses] /\ sess' \in [Requests -> SessionRows]
          /\ user' \in [Users -> UserRows] /\ pkg' \in [Users -> Nat]
          /\ \A u \in Users : user'[u].eligible = user[u].eligible
      BY <1>0, <2>1 DEF TypeOK
    <2>9. "bookCommit" \in Labels \ Booting
      BY DEF Labels, Booting, Generating, Scanning
    <2> QED
      BY <1>0, <2>1, <2>4, <2>5, <2>7, <2>8, <2>9, DeskWrites
  <1>5. CASE CreateCommit(r)
    <2>1. /\ req[r].pc = "bookCommit" /\ Commit(r) /\ UNCHANGED <<clock, resv, boot, sess, user, pkg>>
          /\ \/ station' = station
             \/ station' = [station EXCEPT ![req[r].station] = "reserved"]
      BY <1>5 DEF CreateCommit
    <2>2. \A q \in Requests \ {r} : StationRow(req[r].station) \notin held[q]
      BY <1>0, <2>1, LockedOnce DEF DeskInv, DeskLocks
    <2>3. station' \in [Stations -> StationStatuses] /\ StationsPersist(r)
      <3>1. CASE station' = station
        BY <1>0, <3>1 DEF TypeOK, StationsPersist
      <3>2. CASE station' = [station EXCEPT ![req[r].station] = "reserved"]
        BY <1>0, <2>2, <3>2, StationWrite DEF StationStatuses
      <3> QED
        BY <2>1, <3>1, <3>2
    <2>4. ReservationsPersist(r) /\ SessionsPersist(r)
      BY <2>1 DEF ReservationsPersist, SessionsPersist
    <2> QED
      BY <1>0, <2>1, <2>3, <2>4, DeskCommits DEF TypeOK
  <1> QED
    BY <1>1, <1>2, <1>3, <1>4, <1>5 DEF Create

(* Confirm, Cancel and CheckIn remember a reservation that exists... *)
LEMMA ReadReservationStep ==
  ASSUME HallInv, NEW r \in Requests, NEW label \in {"confirmSave", "cancelSave", "checkInSave"},
         NEW statuses, "none" \notin statuses, ReadReservation(r, statuses, label), ~Refuse(r)
  PROVE  DeskStep(r)
  <1>0. TypeOK /\ DeskInv(r) /\ req[r].pc = "new"
    BY DEF HallInv, CodeInv, TypeInv, ReadReservation
  <1>1. PICK i \in Reservations :
          /\ resv[i].status # "none"
          /\ req' = [req EXCEPT ![r] = [@ EXCEPT !.pc = label, !.res = i,
                                          !.station = resv[i].station]]
          /\ UNCHANGED <<clock, tables, held>>
    BY DEF ReadReservation
  <1>2. /\ req[r] \in RequestStates /\ DOMAIN req = Requests
        /\ label \in Labels /\ resv[i].station \in Stations \cup {Nil}
    BY <1>0 DEF TypeOK, Labels, ReservationRows
  <1>3. [req[r] EXCEPT !.pc = label, !.res = i, !.station = resv[i].station] \in RequestStates
    BY <1>2, ZenonT(30) DEF RequestStates
  <1>4. req' \in [Requests -> RequestStates] /\ \A q \in Requests \ {r} : req'[q] = req[q]
    BY <1>0, <1>1, <1>3 DEF TypeOK
  <1>5. req'[r].pc = label /\ req'[r].res = i
    BY <1>1, <1>2 DEF RequestStates
  <1>6. DeskInv(r)'
    BY <1>0, <1>1, <1>5
    DEF DeskInv, OwnRows, DeskComplete, DeskLocks, Booking, Saving, Billing, tables
  <1>7. held' \in [Requests -> SUBSET Rows] /\ LocksOnlyFree(r)
    BY <1>0, <1>1, NoLockIsFree DEF TypeOK
  <1> QED
    BY <1>0, <1>1, <1>4, <1>5, <1>6, <1>7, DeskReads DEF Booting, Generating, Scanning

(* ... save it, and go on to the station or commit... *)
LEMMA SaveReservationWrite ==
  ASSUME HallInv, NEW r \in Requests, req[r].pc \in {"confirmSave", "cancelSave", "checkInSave"},
         NEW status \in ReservationStatuses \ {"none"}, SaveReservation(r, status)
  PROVE  /\ resv' \in [Reservations -> ReservationRows] /\ ReservationsPersist(r)
         /\ StationsPersist(r) /\ SessionsPersist(r)
         /\ UNCHANGED <<clock, station, boot, sess, user, pkg>>
  <1>1. req[r].res \in Reservations /\ resv[req[r].res].status # "none" /\ TypeInv
    BY DEF HallInv, CodeInv, DeskInv, DeskComplete, Saving
  <1>2. Wanted(r) = {ReservationRow(req[r].res)}
    BY DEF Wanted
  <1>3. \A q \in Requests \ {r} : ReservationRow(req[r].res) \notin held[q]
    BY <1>2, FreeToLock DEF SaveReservation
  <1>4. resv' \in [Reservations -> ReservationRows] /\ ReservationsPersist(r)
    BY <1>1, <1>3, ReservationWrite DEF SaveReservation
  <1> QED
    BY <1>4 DEF SaveReservation, StationsPersist, SessionsPersist

LEMMA SaveReservationStep ==
  ASSUME HallInv, NEW r \in Requests, req[r].pc \in {"cancelSave", "checkInSave"},
         NEW status \in ReservationStatuses \ {"none"}, SaveReservation(r, status),
         NEW label \in {"cancelStation", "checkInStation"}, Goto(r, label), UNCHANGED held
  PROVE  DeskStep(r)
  <1>0. TypeOK /\ DeskInv(r)
    BY DEF HallInv, CodeInv, TypeInv
  <1>1. /\ resv' \in [Reservations -> ReservationRows] /\ ReservationsPersist(r)
        /\ StationsPersist(r) /\ SessionsPersist(r)
        /\ UNCHANGED <<clock, station, boot, sess, user, pkg>>
    BY SaveReservationWrite
  <1>2. label \in Labels \ Booting
    BY DEF Labels, Booting, Generating, Scanning
  <1>3. req'[r].pc = label
    BY <1>0, <1>2, GotoState, ZenonT(30)
  <1>4. resv[r].status = "none" => resv'[r].status = "none"
    <2>1. req[r].res \in Reservations /\ resv[req[r].res].status # "none"
      BY <1>0 DEF DeskInv, DeskComplete, Saving
    <2> QED
      BY <1>0, <2>1 DEF SaveReservation, TypeOK, Reservations
  <1>5. DeskInv(r)'
    BY <1>0, <1>1, <1>3, <1>4, SMTT(30)
    DEF DeskInv, OwnRows, DeskComplete, DeskLocks, Booking, Saving, Billing
  <1>6. /\ station' \in [Stations -> StationStatuses] /\ sess' \in [Requests -> SessionRows]
        /\ user' \in [Users -> UserRows] /\ pkg' \in [Users -> Nat]
        /\ \A u \in Users : user'[u].eligible = user[u].eligible
    BY <1>0, <1>1 DEF TypeOK
  <1> QED
    BY <1>0, <1>1, <1>2, <1>5, <1>6, DeskWrites

(* ... which is locked, saved and committed. *)
LEMMA StationCommit ==
  ASSUME HallInv, NEW r \in Requests, NEW s, NEW status, CanLock(r, {StationRow(s)}),
         s \in Stations => status \in StationStatuses,
         station' = [station EXCEPT ![s] = status],
         Commit(r), UNCHANGED <<clock, resv, boot, sess, user, pkg>>
  PROVE  DeskStep(r)
  <1>0. TypeOK
    BY DEF HallInv, CodeInv, TypeInv
  <1>1. \A q \in Requests \ {r} : StationRow(s) \notin held[q]
    BY FreeToLock
  <1>2. station' \in [Stations -> StationStatuses] /\ StationsPersist(r)
    BY <1>0, <1>1, StationWrite
  <1>3. ReservationsPersist(r) /\ SessionsPersist(r)
    BY DEF ReservationsPersist, SessionsPersist
  <1> QED
    BY <1>0, <1>2, <1>3, DeskCommits DEF TypeOK

LEMMA SaveLockedStationStep ==
  ASSUME HallInv, NEW r \in Requests, NEW status,
         req[r].pc \in {"cancelStation", "checkInStation"},
         req[r].station \in Stations => status \in StationStatuses,
         SaveLockedStation(r, status), ~Refuse(r)
  PROVE  DeskStep(r)
  <1>1. PICK s : s = req[r].station
    OBVIOUS
  <1>2. CanLock(r, {StationRow(s)})
    BY <1>1 DEF SaveLockedStation, Wanted
  <1> QED
    BY <1>1, <1>2, StationCommit DEF SaveLockedStation

LEMMA ReservationStep ==
  ASSUME HallInv, NEW r \in Requests, Confirm(r) \/ Cancel(r) \/ CheckIn(r), ~Refuse(r)
  PROVE  DeskStep(r)
  <1>0. TypeOK
    BY DEF HallInv, CodeInv, TypeInv
  <1>1. CASE ConfirmRead(r) \/ CancelRead(r) \/ CheckInRead(r)
    BY <1>1, ReadReservationStep DEF ConfirmRead, CancelRead, CheckInRead
  <1>2. CASE ConfirmSave(r)
    <2>1. req[r].pc = "confirmSave" /\ SaveReservation(r, "confirmed") /\ Commit(r)
      BY <1>2 DEF ConfirmSave
    <2>2. /\ resv' \in [Reservations -> ReservationRows] /\ ReservationsPersist(r)
          /\ StationsPersist(r) /\ SessionsPersist(r)
          /\ UNCHANGED <<clock, station, boot, sess, user, pkg>>
      BY <2>1, SaveReservationWrite DEF ReservationStatuses
    <2> QED
      BY <1>0, <2>1, <2>2, DeskCommits DEF TypeOK
  <1>3. CASE CancelSave(r)
    BY <1>3, SaveReservationStep DEF CancelSave, ReservationStatuses
  <1>4. CASE CheckInSave(r)
    BY <1>4, SaveReservationStep DEF CheckInSave, ReservationStatuses
  <1>5. CASE CancelStation(r)
    <2>1. PICK status :
            /\ status = IF station[req[r].station] = "reserved" THEN "idle"
                        ELSE station[req[r].station]
            /\ SaveLockedStation(r, status)
      BY <1>5 DEF CancelStation
    <2>2. req[r].station \in Stations => status \in StationStatuses
      BY <1>0, <2>1 DEF TypeOK, StationStatuses
    <2> QED
      BY <1>5, <2>1, <2>2, SaveLockedStationStep DEF CancelStation
  <1>6. CASE CheckInStation(r)
    BY <1>6, SaveLockedStationStep DEF CheckInStation, StationStatuses
  <1> QED
    BY <1>1, <1>2, <1>3, <1>4, <1>5, <1>6 DEF Confirm, Cancel, CheckIn

-----------------------------------------------------------------------------
(* Stations *)

(* A request remembers one more thing of the right kind. *)
LEMMA RequestField ==
  ASSUME NEW q \in RequestStates
  PROVE  /\ \A x \in Labels : [q EXCEPT !.pc = x] \in RequestStates
         /\ \A x \in Labels : [q EXCEPT !.next = x] \in RequestStates
         /\ \A x \in Users : [q EXCEPT !.user = x] \in RequestStates
         /\ \A x \in Requests : [q EXCEPT !.session = x] \in RequestStates
         /\ \A x \in SessionRows : [q EXCEPT !.row = x] \in RequestStates
         /\ \A x \in Nat : [q EXCEPT !.minutes = x] \in RequestStates
         /\ \A x \in Nat : [q EXCEPT !.until = x] \in RequestStates
         /\ \A x \in Stations \cup {Nil} : [q EXCEPT !.station = x] \in RequestStates
         /\ \A x \in StationStatuses : [q EXCEPT !.status = x] \in RequestStates
  <1>1. \A x \in Labels : [q EXCEPT !.pc = x] \in RequestStates
    BY DEF RequestStates
  <1>2. \A x \in Labels : [q EXCEPT !.next = x] \in RequestStates
    BY DEF RequestStates
  <1>3. \A x \in Users : [q EXCEPT !.user = x] \in RequestStates
    BY DEF RequestStates
  <1>4. \A x \in Requests : [q EXCEPT !.session = x] \in RequestStates
    BY DEF RequestStates
  <1>5. \A x \in SessionRows : [q EXCEPT !.row = x] \in RequestStates
    BY DEF RequestStates
  <1>6. \A x \in Nat : [q EXCEPT !.minutes = x] \in RequestStates
    BY DEF RequestStates
  <1>7. \A x \in Nat : [q EXCEPT !.until = x] \in RequestStates
    BY DEF RequestStates
  <1>8. \A x \in Stations \cup {Nil} : [q EXCEPT !.station = x] \in RequestStates
    BY DEF RequestStates
  <1>9. \A x \in StationStatuses : [q EXCEPT !.status = x] \in RequestStates
    BY DEF RequestStates
  <1> QED
    BY <1>1, <1>2, <1>3, <1>4, <1>5, <1>6, <1>7, <1>8, <1>9

(* What UpdateStatus, Update and Delete remember of the station they read. *)
LEMMA StationStates ==
  ASSUME NEW q \in RequestStates, NEW label \in Labels, NEW s \in Stations,
         NEW status \in StationStatuses
  PROVE  /\ [q EXCEPT !.pc = label, !.station = s, !.status = status] \in RequestStates
         /\ [q EXCEPT !.pc = label, !.station = s] \in RequestStates
  <1>1. PICK moved : moved = [q EXCEPT !.pc = label]
    OBVIOUS
  <1>2. moved \in RequestStates
    BY <1>1, RequestField
  <1>3. PICK known : known = [moved EXCEPT !.station = s]
    OBVIOUS
  <1>4. known \in RequestStates
    BY <1>3, <1>2, RequestField
  <1>5. known = [q EXCEPT !.pc = label, !.station = s]
    BY <1>1, <1>3
  <1>6. PICK first : first = [q EXCEPT !.pc = label]
    OBVIOUS
  <1>7. first \in RequestStates
    BY <1>6, RequestField
  <1>8. PICK second : second = [first EXCEPT !.station = s]
    OBVIOUS
  <1>9. second \in RequestStates
    BY <1>8, <1>7, RequestField
  <1>10. PICK third : third = [second EXCEPT !.status = status]
    OBVIOUS
  <1>11. third \in RequestStates
    BY <1>10, <1>9, RequestField
  <1>12. third = [q EXCEPT !.pc = label, !.station = s, !.status = status]
    BY <1>6, <1>8, <1>10
  <1> QED
    BY <1>4, <1>5, <1>11, <1>12

LEMMA StationReadStep ==
  ASSUME HallInv, NEW r \in Requests, req[r].pc = "new", NEW label \in {"stationSave", "stationDelete"},
         NEW s \in Stations, NEW status \in StationStatuses,
         \/ req' = [req EXCEPT ![r] = [@ EXCEPT !.pc = label, !.station = s, !.status = status]]
         \/ req' = [req EXCEPT ![r] = [@ EXCEPT !.pc = label, !.station = s]],
         UNCHANGED <<clock, tables, held>>
  PROVE  DeskStep(r)
  <1>0. TypeOK /\ DeskInv(r) /\ req[r] \in RequestStates /\ DOMAIN req = Requests
    BY DEF HallInv, CodeInv, TypeInv, TypeOK
  <1>1. /\ [req[r] EXCEPT !.pc = label, !.station = s, !.status = status] \in RequestStates
        /\ [req[r] EXCEPT !.pc = label, !.station = s] \in RequestStates
    <2>1. label \in Labels
      BY DEF Labels
    <2> QED
      BY <1>0, <2>1, StationStates, ZenonT(30)
  <1>2. req' \in [Requests -> RequestStates] /\ \A q \in Requests \ {r} : req'[q] = req[q]
    BY <1>0, <1>1 DEF TypeOK
  <1>3. req'[r].pc = label
    <2>1. \/ req'[r] = [req[r] EXCEPT !.pc = label, !.station = s, !.status = status]
          \/ req'[r] = [req[r] EXCEPT !.pc = label, !.station = s]
      BY <1>0
    <2>2. CASE req'[r] = [req[r] EXCEPT !.pc = label, !.station = s, !.status = status]
      BY <1>0, <2>2 DEF RequestStates
    <2>3. CASE req'[r] = [req[r] EXCEPT !.pc = label, !.station = s]
      BY <1>0, <2>3 DEF RequestStates
    <2> QED
      BY <2>1, <2>2, <2>3
  <1>4. DeskInv(r)'
    BY <1>0, <1>3
    DEF DeskInv, OwnRows, DeskComplete, DeskLocks, Booking, Saving, Billing, tables
  <1>5. held' \in [Requests -> SUBSET Rows] /\ LocksOnlyFree(r)
    BY <1>0, NoLockIsFree DEF TypeOK
  <1> QED
    BY <1>0, <1>2, <1>3, <1>4, <1>5, DeskReads DEF Booting, Generating, Scanning

LEMMA StationSaveStep ==
  ASSUME HallInv, NEW r \in Requests, StationSave(r) \/ StationDelete(r)
  PROVE  DeskStep(r)
  <1>1. PICK s, status : /\ s = req[r].station
                         /\ status = IF StationSave(r) THEN req[r].status ELSE "none"
    OBVIOUS
  <1>2. status \in StationStatuses
    BY <1>1 DEF HallInv, CodeInv, TypeInv, TypeOK, RequestStates, StationStatuses
  <1>3. CanLock(r, {StationRow(s)})
    BY <1>1 DEF StationSave, StationDelete, Wanted
  <1>4. /\ station' = [station EXCEPT ![s] = status] /\ Commit(r)
        /\ UNCHANGED <<clock, resv, boot, sess, user, pkg>>
    BY <1>1 DEF StationSave, StationDelete
  <1> QED
    BY <1>2, <1>3, <1>4, StationCommit

LEMMA StationStep ==
  ASSUME HallInv, NEW r \in Requests, UpdateStatus(r) \/ Update(r) \/ DeleteStation(r), ~Refuse(r)
  PROVE  DeskStep(r) \/ (Return(r, "ok") /\ UNCHANGED <<clock, tables>>)
  <1>1. CASE UpdateStatusRead(r)
    BY <1>1, StationReadStep, ZenonT(30) DEF UpdateStatusRead
  <1>2. CASE UpdateRead(r)
    <2>1. station \in [Stations -> StationStatuses]
      BY DEF HallInv, CodeInv, TypeInv, TypeOK
    <2> QED
      BY <1>2, <2>1, StationReadStep, ZenonT(30) DEF UpdateRead
  <1>3. CASE DeleteRead(r)
    BY <1>3, StationReadStep, ZenonT(30) DEF DeleteRead, StationStatuses
  <1>4. CASE StationSave(r) \/ StationDelete(r)
    BY <1>4, StationSaveStep
  <1> QED
    BY <1>1, <1>2, <1>3, <1>4 DEF UpdateStatus, Update, DeleteStation

-----------------------------------------------------------------------------
(* Sessions: starting *)

LEMMA StartReadStep ==
  ASSUME HallInv, NEW r \in Requests, StartRead(r), ~Refuse(r)
  PROVE  DeskStep(r)
  <1>0. /\ TypeOK /\ DeskInv(r) /\ req[r].pc = "new"
        /\ req[r] \in RequestStates /\ DOMAIN req = Requests /\ clock \in Nat
    BY DEF HallInv, CodeInv, TypeInv, TypeOK, StartRead
  <1>1. PICK u \in Users, s \in Stations, i \in Reservations \cup {Nil} :
          /\ req' = [req EXCEPT ![r] = [@ EXCEPT !.pc = "startLock", !.user = u, !.station = s,
                                          !.res = i, !.at = clock]]
          /\ UNCHANGED <<clock, tables, held>>
    BY DEF StartRead
  <1>2. [req[r] EXCEPT !.pc = "startLock", !.user = u, !.station = s, !.res = i, !.at = clock]
          \in RequestStates
    <2>1. "startLock" \in Labels
      BY DEF Labels
    <2> QED
      BY <1>0, <2>1, ZenonT(30) DEF RequestStates
  <1>3. req' \in [Requests -> RequestStates] /\ \A q \in Requests \ {r} : req'[q] = req[q]
    BY <1>0, <1>1, <1>2 DEF TypeOK
  <1>4. req'[r].pc = "startLock" /\ req'[r].station = s
    BY <1>0, <1>1 DEF RequestStates
  <1>5. DeskInv(r)'
    BY <1>0, <1>1, <1>4
    DEF DeskInv, OwnRows, DeskComplete, DeskLocks, Booking, Saving, Billing, tables
  <1>6. held' \in [Requests -> SUBSET Rows] /\ LocksOnlyFree(r)
    BY <1>0, <1>1, NoLockIsFree DEF TypeOK
  <1> QED
    BY <1>0, <1>1, <1>3, <1>4, <1>5, <1>6, DeskReads DEF Booting, Generating, Scanning

(* The station, then the reservation, are locked; the reservation only if it was confirmed. *)
LEMMA StartLockStep ==
  ASSUME HallInv, NEW r \in Requests, StartLock(r), ~Refuse(r)
  PROVE  DeskStep(r)
  <1>0. /\ TypeOK /\ DeskInv(r) /\ req[r].pc = "startLock" /\ station \in [Stations -> StationStatuses]
        /\ req[r] \in RequestStates
    BY DEF HallInv, CodeInv, TypeInv, TypeOK, StartLock
  <1>1. PICK label \in {"startInsert", "startReservation"} :
          /\ Goto(r, label) /\ UNCHANGED <<clock, tables>>
          /\ req[r].res = Nil \/ label = "startReservation"
          /\ req[r].res = Nil => label = "startInsert"
          /\ CanLock(r, Wanted(r)) /\ Lock(r, Wanted(r))
    BY DEF StartLock
  <1>2. Wanted(r) = {StationRow(req[r].station)}
    BY <1>0 DEF Wanted
  <1>3. LocksOnlyFree(r) /\ held'[r] = {StationRow(req[r].station)}
    BY <1>0, <1>1, <1>2, LockIsFree DEF DeskInv, DeskLocks
  <1>4. label \in Labels
    BY DEF Labels
  <1>5. /\ req' \in [Requests -> RequestStates] /\ req'[r].pc = label
        /\ \A q \in Requests \ {r} : req'[q] = req[q]
        /\ req'[r].res = req[r].res /\ req'[r].station = req[r].station
    BY <1>0, <1>1, <1>4, GotoState
  <1>6. ReservationRow(req[r].res) \notin held'[r]
    BY <1>3 DEF ReservationRow, StationRow
  <1>7. req[r].res # Nil => req[r].res \in Reservations
    BY <1>0 DEF RequestStates
  <1>8. DeskInv(r)'
    BY <1>0, <1>1, <1>3, <1>5, <1>6, <1>7
    DEF DeskInv, OwnRows, DeskComplete, DeskLocks, Booking, Saving, Billing, tables
  <1>9. held' \in [Requests -> SUBSET Rows]
    <2>1. req[r].station \in Stations
      BY <1>0, <1>1 DEF DeskInv, DeskComplete
    <2>2. Wanted(r) \in SUBSET Rows
      BY <1>2, <2>1 DEF Rows
    <2> QED
      BY <1>0, <1>1, <2>2, LockType
  <1> QED
    BY <1>0, <1>1, <1>3, <1>5, <1>8, <1>9, DeskReads DEF Booting, Generating, Scanning

LEMMA StartReservationStep ==
  ASSUME HallInv, NEW r \in Requests, StartReservation(r)
  PROVE  DeskStep(r)
  <1>0. TypeOK /\ DeskInv(r) /\ req[r].pc = "startReservation"
    BY DEF HallInv, CodeInv, TypeInv, StartReservation
  <1>1. PICK label \in {"startCheckIn", "startInsert"} :
          /\ Goto(r, label) /\ UNCHANGED <<clock, tables, held>>
          /\ label = "startCheckIn" => resv[req[r].res].status = "confirmed"
    BY DEF StartReservation
  <1>2. label \in Labels
    BY DEF Labels
  <1>3. /\ req' \in [Requests -> RequestStates] /\ req'[r].pc = label
        /\ \A q \in Requests \ {r} : req'[q] = req[q]
        /\ req'[r].res = req[r].res /\ req'[r].station = req[r].station
    BY <1>0, <1>1, <1>2, GotoState
  <1>4. ReservationRow(req[r].res) \notin held[r] /\ held[r] = {StationRow(req[r].station)}
    BY <1>0 DEF DeskInv, DeskLocks, ReservationRow, StationRow
  <1>5. DeskInv(r)'
    BY <1>0, <1>1, <1>3, <1>4
    DEF DeskInv, OwnRows, DeskComplete, DeskLocks, Booking, Saving, Billing, tables
  <1>6. held' \in [Requests -> SUBSET Rows] /\ LocksOnlyFree(r)
    BY <1>0, <1>1, NoLockIsFree DEF TypeOK
  <1> QED
    BY <1>0, <1>1, <1>3, <1>5, <1>6, DeskReads DEF Booting, Generating, Scanning

LEMMA StartCheckInStep ==
  ASSUME HallInv, NEW r \in Requests, StartCheckIn(r)
  PROVE  DeskStep(r)
  <1>0. TypeOK /\ DeskInv(r) /\ req[r].pc = "startCheckIn"
    BY DEF HallInv, CodeInv, TypeInv, StartCheckIn
  <1>1. /\ Goto(r, "startInsert") /\ UNCHANGED <<clock, tables>>
        /\ CanLock(r, Wanted(r)) /\ Lock(r, Wanted(r))
    BY DEF StartCheckIn
  <1>2. /\ Wanted(r) = {ReservationRow(req[r].res)}
        /\ req[r].res \in Reservations /\ resv[req[r].res].status # "none"
        /\ held[r] = {StationRow(req[r].station)}
    BY <1>0 DEF Wanted, DeskInv, DeskComplete, DeskLocks, Saving
  <1>3. /\ req' \in [Requests -> RequestStates] /\ req'[r].pc = "startInsert"
        /\ \A q \in Requests \ {r} : req'[q] = req[q]
        /\ req'[r].res = req[r].res /\ req'[r].station = req[r].station
    BY <1>0, <1>1, GotoState, ZenonT(30) DEF Labels
  <1>4. LocksOnlyFree(r) /\ held'[r] = held[r] \cup Wanted(r)
    BY <1>0, <1>1, LockIsFree
  <1>5. DeskInv(r)'
    BY <1>0, <1>1, <1>2, <1>3, <1>4
    DEF DeskInv, OwnRows, DeskComplete, DeskLocks, Booking, Saving, Billing, tables
  <1>6. held' \in [Requests -> SUBSET Rows]
    <2>1. Wanted(r) \in SUBSET Rows
      BY <1>2 DEF Rows
    <2> QED
      BY <1>0, <1>1, <2>1, LockType
  <1> QED
    BY <1>0, <1>1, <1>3, <1>4, <1>5, <1>6, DeskReads DEF Booting, Generating, Scanning

(* The session is inserted, once. *)
LEMMA StartInsertStep ==
  ASSUME HallInv, NEW r \in Requests, StartInsert(r)
  PROVE  DeskStep(r)
  <1>0. /\ TypeOK /\ DeskInv(r) /\ req[r].pc = "startInsert" /\ req[r] \in RequestStates
        /\ sess[r].status = "none"
    BY DEF HallInv, CodeInv, TypeInv, TypeOK, StartInsert, DeskInv, OwnRows
  <1>1. /\ Goto(r, "startCommit") /\ UNCHANGED <<clock, station, resv, boot, user, pkg, held>>
        /\ sess' = [sess EXCEPT ![r] = [status |-> "active", user |-> req[r].user,
              station |-> req[r].station, res |-> req[r].res, start |-> req[r].at,
              end |-> Nil, prepaid |-> 0]]
    BY DEF StartInsert
  <1>2. [status |-> "active", user |-> req[r].user, station |-> req[r].station, res |-> req[r].res,
         start |-> req[r].at, end |-> Nil, prepaid |-> 0] \in SessionRows
    BY <1>0 DEF RequestStates, SessionRows, SessionStatuses
  <1>3. sess' \in [Requests -> SessionRows] /\ SessionsPersist(r)
    BY <1>0, <1>1, <1>2 DEF TypeOK, SessionsPersist
  <1>4. ReservationsPersist(r) /\ StationsPersist(r)
    BY <1>1 DEF ReservationsPersist, StationsPersist
  <1>5. "startCommit" \in Labels \ Booting
    BY DEF Labels, Booting, Generating, Scanning
  <1>6. req'[r].pc = "startCommit" /\ req'[r].res = req[r].res /\ req'[r].station = req[r].station
    BY <1>0, <1>1, <1>5, GotoState
  <1>7. DeskInv(r)'
    BY <1>0, <1>1, <1>6
    DEF DeskInv, OwnRows, DeskComplete, DeskLocks, Booking, Saving, Billing
  <1>8. /\ station' \in [Stations -> StationStatuses] /\ resv' \in [Reservations -> ReservationRows]
        /\ user' \in [Users -> UserRows] /\ pkg' \in [Users -> Nat]
        /\ \A u \in Users : user'[u].eligible = user[u].eligible
    BY <1>0, <1>1 DEF TypeOK
  <1> QED
    BY <1>0, <1>1, <1>3, <1>4, <1>5, <1>7, <1>8, DeskWrites

LEMMA StartCommitStep ==
  ASSUME HallInv, NEW r \in Requests, StartCommit(r)
  PROVE  DeskStep(r)
  <1>0. TypeOK /\ TypeInv /\ CodeInv /\ DeskInv(r) /\ req[r].pc = "startCommit"
    BY DEF HallInv, CodeInv, TypeInv, StartCommit
  <1>1. PICK s : s = req[r].station /\ station' = [station EXCEPT ![s] = "using"]
    BY DEF StartCommit
  <1>2. \A q \in Requests \ {r} : StationRow(s) \notin held[q]
    BY <1>0, <1>1, LockedOnce DEF DeskInv, DeskLocks
  <1>3. station' \in [Stations -> StationStatuses] /\ StationsPersist(r)
    BY <1>0, <1>1, <1>2, StationWrite DEF StationStatuses
  <1>4. resv' \in [Reservations -> ReservationRows] /\ ReservationsPersist(r)
    <2>1. CASE ReservationRow(req[r].res) \in held[r]
      <3>1. req[r].res \in Reservations /\ resv[req[r].res].status # "none"
        BY <1>0, <2>1 DEF DeskInv, DeskLocks
      <3>2. PICK i \in Reservations : i = req[r].res /\ resv[i].status # "none"
        BY <3>1
      <3>3. \A q \in Requests \ {r} : ReservationRow(i) \notin held[q]
        BY <1>0, <2>1, <3>2, LockedOnce
      <3>4. resv' = [resv EXCEPT ![i].status = "checked_in"]
        BY <2>1, <3>2 DEF StartCommit
      <3>5. "checked_in" \in ReservationStatuses \ {"none"}
        BY DEF ReservationStatuses
      <3> QED
        BY <1>0, <3>2, <3>3, <3>4, <3>5, ReservationWrite
    <2>2. CASE ReservationRow(req[r].res) \notin held[r]
      BY <1>0, <2>2 DEF StartCommit, TypeOK, ReservationsPersist
    <2> QED
      BY <2>1, <2>2
  <1>5. /\ Commit(r) /\ UNCHANGED <<clock, boot, sess, user, pkg>>
        /\ sess' \in [Requests -> SessionRows] /\ SessionsPersist(r)
    BY <1>0 DEF StartCommit, TypeOK, SessionsPersist
  <1> QED
    BY <1>0, <1>3, <1>4, <1>5, DeskCommits

LEMMA StartStep ==
  ASSUME HallInv, NEW r \in Requests, Start(r), ~Refuse(r)
  PROVE  DeskStep(r)
  BY StartReadStep, StartLockStep, StartReservationStep, StartCheckInStep, StartInsertStep,
     StartCommitStep DEF Start

-----------------------------------------------------------------------------
(* Sessions: renewing and ending *)

(* A renewal remembers an open session; its row in hand is the one in the table. *)
RenewReads(r, u, k, m) ==
  /\ u \in Users /\ k \in Requests /\ m \in Nat \ {0}
  /\ sess[k].status = "active" /\ sess[k] \in SessionRows
  /\ req'[r].pc = "chargePackages" /\ req'[r].next = "renewSave" /\ req'[r].user = u
  /\ req'[r].session = k /\ req'[r].row = sess[k] /\ req'[r].minutes = m
  /\ \A q \in Requests \ {r} : req'[q] = req[q]
  /\ req' \in [Requests -> RequestStates] /\ UNCHANGED <<clock, tables, held>>

(* What Renew and End remember of the session they read. *)
LEMMA RenewState ==
  ASSUME NEW q \in RequestStates, NEW label \in Labels, NEW next \in Labels, NEW u \in Users,
         NEW k \in Requests, NEW row \in SessionRows, NEW m \in Nat
  PROVE  [q EXCEPT !.pc = label, !.next = next, !.user = u, !.session = k, !.row = row,
                   !.minutes = m] \in RequestStates
  <1>1. PICK s1 : s1 = [q EXCEPT !.pc = label]
    OBVIOUS
  <1>2. s1 \in RequestStates
    BY <1>1, RequestField
  <1>3. PICK s2 : s2 = [s1 EXCEPT !.next = next]
    OBVIOUS
  <1>4. s2 \in RequestStates
    BY <1>3, <1>2, RequestField
  <1>5. PICK s3 : s3 = [s2 EXCEPT !.user = u]
    OBVIOUS
  <1>6. s3 \in RequestStates
    BY <1>5, <1>4, RequestField
  <1>7. PICK s4 : s4 = [s3 EXCEPT !.session = k]
    OBVIOUS
  <1>8. s4 \in RequestStates
    BY <1>7, <1>6, RequestField
  <1>9. PICK s5 : s5 = [s4 EXCEPT !.row = row]
    OBVIOUS
  <1>10. s5 \in RequestStates
    BY <1>9, <1>8, RequestField
  <1>11. PICK s6 : s6 = [s5 EXCEPT !.minutes = m]
    OBVIOUS
  <1>12. s6 \in RequestStates
    BY <1>11, <1>10, RequestField
  <1>13. s6 = [q EXCEPT !.pc = label, !.next = next, !.user = u, !.session = k, !.row = row, !.minutes = m]
    BY <1>1, <1>3, <1>5, <1>7, <1>9, <1>11
  <1> QED
    BY <1>12, <1>13

LEMMA EndReadState ==
  ASSUME NEW q \in RequestStates, NEW u \in Users, NEW k \in Requests, NEW row \in SessionRows,
         NEW end \in Nat
  PROVE  [q EXCEPT !.user = u, !.session = k, !.row = row, !.until = end] \in RequestStates
  <1>1. PICK s1 : s1 = [q EXCEPT !.user = u]
    OBVIOUS
  <1>2. s1 \in RequestStates
    BY <1>1, RequestField
  <1>3. PICK s2 : s2 = [s1 EXCEPT !.session = k]
    OBVIOUS
  <1>4. s2 \in RequestStates
    BY <1>3, <1>2, RequestField
  <1>5. PICK s3 : s3 = [s2 EXCEPT !.row = row]
    OBVIOUS
  <1>6. s3 \in RequestStates
    BY <1>5, <1>4, RequestField
  <1>7. PICK s4 : s4 = [s3 EXCEPT !.until = end]
    OBVIOUS
  <1>8. s4 \in RequestStates
    BY <1>7, <1>6, RequestField
  <1>9. s4 = [q EXCEPT !.user = u, !.session = k, !.row = row, !.until = end]
    BY <1>1, <1>3, <1>5, <1>7
  <1> QED
    BY <1>8, <1>9

LEMMA EndBillState ==
  ASSUME NEW q \in RequestStates, NEW bill \in Nat, NEW s \in Stations \cup {Nil},
         NEW next \in Labels, NEW label \in Labels
  PROVE  [q EXCEPT !.minutes = bill, !.station = s, !.next = next, !.pc = label] \in RequestStates
  <1>1. PICK s1 : s1 = [q EXCEPT !.minutes = bill]
    OBVIOUS
  <1>2. s1 \in RequestStates
    BY <1>1, RequestField
  <1>3. PICK s2 : s2 = [s1 EXCEPT !.station = s]
    OBVIOUS
  <1>4. s2 \in RequestStates
    BY <1>3, <1>2, RequestField
  <1>5. PICK s3 : s3 = [s2 EXCEPT !.next = next]
    OBVIOUS
  <1>6. s3 \in RequestStates
    BY <1>5, <1>4, RequestField
  <1>7. PICK s4 : s4 = [s3 EXCEPT !.pc = label]
    OBVIOUS
  <1>8. s4 \in RequestStates
    BY <1>7, <1>6, RequestField
  <1>9. s4 = [q EXCEPT !.minutes = bill, !.station = s, !.next = next, !.pc = label]
    BY <1>1, <1>3, <1>5, <1>7
  <1> QED
    BY <1>8, <1>9

LEMMA RenewReadFields ==
  ASSUME TypeOK, NEW r \in Requests, RenewRead(r), ~Refuse(r)
  PROVE  \E u \in Users, k \in Requests, m \in Nat \ {0} : RenewReads(r, u, k, m)
  <1>1. PICK u \in Users, k \in Requests, m \in Renewals :
          /\ sess[k].status = "active"
          /\ req' = [req EXCEPT ![r] = [@ EXCEPT !.pc = "chargePackages", !.next = "renewSave",
                       !.user = u, !.session = k, !.row = sess[k], !.minutes = m]]
          /\ UNCHANGED <<clock, tables, held>>
    BY ZenonT(30) DEF RenewRead
  <1>2. PICK row \in SessionRows : row = sess[k]
    BY DEF TypeOK
  <1>3. /\ req[r] \in RequestStates /\ DOMAIN req = Requests /\ m \in Nat \ {0}
        /\ "chargePackages" \in Labels /\ "renewSave" \in Labels
    BY RenewalsAssumption DEF TypeOK, Labels
  <1>4. [req[r] EXCEPT !.pc = "chargePackages", !.next = "renewSave", !.user = u, !.session = k,
                       !.row = row, !.minutes = m] \in RequestStates
    BY <1>3, RenewState, ZenonT(30)
  <1>5. req' \in [Requests -> RequestStates] /\ \A q \in Requests \ {r} : req'[q] = req[q]
    BY <1>1, <1>2, <1>4 DEF TypeOK
  <1>6. /\ req'[r].pc = "chargePackages" /\ req'[r].next = "renewSave" /\ req'[r].user = u
        /\ req'[r].session = k /\ req'[r].row = sess[k] /\ req'[r].minutes = m
    BY <1>1, <1>3 DEF RequestStates
  <1> QED
    BY <1>1, <1>2, <1>3, <1>5, <1>6 DEF RenewReads

LEMMA RenewReadStep ==
  ASSUME HallInv, NEW r \in Requests, RenewRead(r), ~Refuse(r)
  PROVE  DeskStep(r)
  <1>0. TypeOK /\ DeskInv(r) /\ req[r].pc = "new"
    BY DEF HallInv, CodeInv, TypeInv, RenewRead
  <1>1. PICK u \in Users, k \in Requests, m \in Nat \ {0} : RenewReads(r, u, k, m)
    BY <1>0, RenewReadFields
  <1>2. DeskInv(r)'
    BY <1>0, <1>1
    DEF RenewReads, DeskInv, OwnRows, DeskComplete, DeskLocks, Booking, Saving, Billing, tables
  <1>3. held' \in [Requests -> SUBSET Rows] /\ LocksOnlyFree(r)
    BY <1>0, <1>1, NoLockIsFree DEF TypeOK, RenewReads
  <1> QED
    BY <1>0, <1>1, <1>2, <1>3, DeskReads DEF RenewReads, Booting, Generating, Scanning

(* Ending remembers it likewise, and what is still to be billed. *)
EndReads(r, u, k) ==
  /\ u \in Users /\ k \in Requests /\ sess[k].status = "active" /\ sess[k] \in SessionRows
  /\ req'[r].pc \in {"chargePackages", "endSave"} /\ req'[r].next = "endSave"
  /\ req'[r].user = u /\ req'[r].session = k /\ req'[r].row = sess[k]
  /\ \A q \in Requests \ {r} : req'[q] = req[q]
  /\ req' \in [Requests -> RequestStates] /\ UNCHANGED <<clock, tables, held>>

LEMMA EndReadFields ==
  ASSUME TypeOK, NEW r \in Requests, EndRead(r), ~Refuse(r)
  PROVE  \E u \in Users, k \in Requests : EndReads(r, u, k)
  <1> DEFINE EndOf(k)  == IF sess[k].end = Nil THEN clock ELSE Larger(clock, sess[k].end)
             BillOf(k) == Larger(0, EndOf(k) - sess[k].start - sess[k].prepaid)
  <1>0. PICK u \in Users, k \in Requests :
          /\ sess[k].status = "active"
          /\ req' = [req EXCEPT ![r] = [@ EXCEPT !.user = u, !.session = k, !.row = sess[k],
                       !.until = EndOf(k), !.minutes = BillOf(k), !.station = sess[k].station,
                       !.next = "endSave",
                       !.pc = IF BillOf(k) > 0 THEN "chargePackages" ELSE "endSave"]]
          /\ UNCHANGED <<clock, tables, held>>
    BY ZenonT(30) DEF EndRead
  <1>1. PICK end, bill : end = EndOf(k) /\ bill = BillOf(k)
    OBVIOUS
  <1>2. PICK row \in SessionRows : row = sess[k]
    BY DEF TypeOK
  <1>3. end \in Nat
    BY <1>1, <1>2 DEF TypeOK, SessionRows, Larger
  <1>4. bill \in Nat
    BY <1>1, <1>2, <1>3 DEF SessionRows, Larger
  <1> HIDE DEF EndOf, BillOf
  <1>5. PICK label \in {"chargePackages", "endSave"} :
          label = IF bill > 0 THEN "chargePackages" ELSE "endSave"
    OBVIOUS
  <1>6. PICK s \in Stations \cup {Nil} : s = sess[k].station
    BY <1>2 DEF SessionRows
  <1>7. /\ req[r] \in RequestStates /\ DOMAIN req = Requests
        /\ label \in Labels /\ "endSave" \in Labels
    BY DEF TypeOK, Labels
  <1>8. PICK state \in RequestStates :
          state = [req[r] EXCEPT !.user = u, !.session = k, !.row = row, !.until = end]
    BY <1>3, <1>7, EndReadState
  <1>9. [state EXCEPT !.minutes = bill, !.station = s, !.next = "endSave", !.pc = label]
          \in RequestStates
    BY <1>4, <1>7, <1>8, EndBillState, ZenonT(30)
  <1>10. req'[r] = [state EXCEPT !.minutes = bill, !.station = s, !.next = "endSave", !.pc = label]
    BY <1>0, <1>1, <1>2, <1>5, <1>6, <1>7, <1>8 DEF RequestStates
  <1>11. req' \in [Requests -> RequestStates] /\ \A q \in Requests \ {r} : req'[q] = req[q]
    <2>1. /\ DOMAIN req' = Requests /\ \A q \in Requests \ {r} : req'[q] = req[q]
          /\ req' = [q \in Requests |-> req'[q]]
      BY <1>0, <1>7
    <2> QED
      BY <1>9, <1>10, <2>1 DEF TypeOK
  <1>12. /\ req'[r].pc = label /\ req'[r].next = "endSave" /\ req'[r].user = u
         /\ req'[r].session = k /\ req'[r].row = row
    BY <1>7, <1>8, <1>10 DEF RequestStates
  <1> QED
    BY <1>0, <1>2, <1>5, <1>11, <1>12 DEF EndReads

LEMMA EndReadStep ==
  ASSUME HallInv, NEW r \in Requests, EndRead(r), ~Refuse(r)
  PROVE  DeskStep(r)
  <1>0. TypeOK /\ DeskInv(r) /\ req[r].pc = "new"
    BY DEF HallInv, CodeInv, TypeInv, EndRead
  <1>1. PICK u \in Users, k \in Requests : EndReads(r, u, k)
    BY <1>0, EndReadFields
  <1>2. DeskInv(r)'
    BY <1>0, <1>1
    DEF EndReads, DeskInv, OwnRows, DeskComplete, DeskLocks, Booking, Saving, Billing, tables
  <1>3. held' \in [Requests -> SUBSET Rows] /\ LocksOnlyFree(r)
    BY <1>0, <1>1, NoLockIsFree DEF TypeOK, EndReads
  <1> QED
    BY <1>0, <1>1, <1>2, <1>3, DeskReads DEF EndReads, Booting, Generating, Scanning

(* The row that is saved is stale at worst in its end and its prepaid minutes. *)
LEMMA SessionWrite ==
  ASSUME HallInv, NEW r \in Requests, NEW k \in Requests, NEW row \in SessionRows,
         sess[k].status # "none", row.status # "none", row.res = sess[k].res,
         row.user = sess[k].user, row.station = sess[k].station,
         sess' = [sess EXCEPT ![k] = row]
  PROVE  sess' \in [Requests -> SessionRows] /\ SessionsPersist(r)
  BY DEF HallInv, CodeInv, TypeInv, TypeOK, SessionsPersist

(* Renewing moves the end of a session and what is prepaid. *)
Renewed(row, end, prepaid) == [row EXCEPT !.end = end, !.prepaid = prepaid]

LEMMA RenewedRow ==
  ASSUME NEW row \in SessionRows, NEW end \in Nat, NEW prepaid \in Nat
  PROVE  LET new == Renewed(row, end, prepaid) IN
         /\ new \in SessionRows
         /\ new.status = row.status /\ new.res = row.res /\ new.user = row.user
         /\ new.station = row.station /\ new.prepaid = prepaid
  <1>1. PICK new : new = [row EXCEPT !.end = end, !.prepaid = prepaid]
    OBVIOUS
  <1>2. new \in SessionRows
    BY <1>1 DEF SessionRows
  <1>3. new.status = row.status /\ new.res = row.res
    BY <1>1 DEF SessionRows
  <1>4. new.user = row.user /\ new.station = row.station /\ new.prepaid = prepaid
    BY <1>1 DEF SessionRows
  <1>5. Renewed(row, end, prepaid) = new
    BY <1>1 DEF Renewed
  <1> QED
    BY <1>2, <1>3, <1>4, <1>5

(* What a renewal saves. *)
RenewSaves(r, k, prepaid) ==
  /\ k = req[r].session /\ k \in Requests /\ prepaid = req[r].row.prepaid + req[r].minutes
  /\ sess' \in [Requests -> SessionRows] /\ SessionsPersist(r)
  /\ sess'[k].prepaid = prepaid /\ \A j \in Requests \ {k} : sess'[j] = sess[j]

LEMMA RenewSaveFields ==
  ASSUME HallInv, NEW r \in Requests, RenewSave(r)
  PROVE  \E k \in Requests, prepaid \in Nat : RenewSaves(r, k, prepaid)
  <1>0. TypeOK /\ DeskInv(r) /\ req[r].pc = "renewSave" /\ req[r] \in RequestStates
    BY DEF HallInv, CodeInv, TypeInv, TypeOK, RenewSave
  <1>1. PICK k \in Requests, row \in SessionRows, minutes \in Nat :
          /\ k = req[r].session /\ row = req[r].row /\ minutes = req[r].minutes
          /\ sess[k].status # "none" /\ row.status = "active" /\ row.res = sess[k].res
          /\ row.user = sess[k].user /\ row.station = sess[k].station
    BY <1>0 DEF DeskInv, DeskComplete, Billing, RequestStates
  <1>2. PICK from \in Nat : from = IF row.end = Nil THEN clock ELSE row.end
    BY <1>0 DEF TypeOK, SessionRows
  <1>3. PICK end \in Nat, prepaid \in Nat : end = from + minutes /\ prepaid = row.prepaid + minutes
    BY DEF SessionRows
  <1>4. sess' = [sess EXCEPT ![k] = Renewed(row, end, prepaid)]
    BY <1>1, <1>2, <1>3 DEF RenewSave, Renewed
  <1>5. PICK new : new = Renewed(row, end, prepaid)
    OBVIOUS
  <1>6. /\ new \in SessionRows
        /\ new.status = row.status /\ new.res = row.res /\ new.user = row.user
        /\ new.station = row.station /\ new.prepaid = prepaid
    BY <1>5, RenewedRow, SMTT(30)
  <1>7. sess' \in [Requests -> SessionRows] /\ SessionsPersist(r)
    <2>1. sess' = [sess EXCEPT ![k] = new]
      BY <1>4, <1>5
    <2>2. /\ sess[k].status # "none" /\ new.status # "none" /\ new.res = sess[k].res
          /\ new.user = sess[k].user /\ new.station = sess[k].station
      BY <1>1, <1>6
    <2> QED
      BY <1>6, <2>1, <2>2, SessionWrite
  <1>8. sess'[k].prepaid = prepaid /\ \A j \in Requests \ {k} : sess'[j] = sess[j]
    BY <1>0, <1>4, <1>5, <1>6 DEF TypeOK
  <1> QED
    BY <1>1, <1>3, <1>7, <1>8 DEF RenewSaves

LEMMA RenewSaveStep ==
  ASSUME HallInv, NEW r \in Requests, RenewSave(r)
  PROVE  DeskStep(r)
  <1>0. TypeOK
    BY DEF HallInv, CodeInv, TypeInv
  <1>1. sess' \in [Requests -> SessionRows] /\ SessionsPersist(r)
    BY RenewSaveFields DEF RenewSaves
  <1>2. Commit(r) /\ UNCHANGED <<clock, station, resv, boot, user, pkg>>
    BY DEF RenewSave
  <1> QED
    BY <1>0, <1>1, <1>2, DeskCommits DEF TypeOK, ReservationsPersist, StationsPersist

(* What an end saves. *)
EndSaves(r, k) ==
  /\ k = req[r].session /\ sess' \in [Requests -> SessionRows] /\ SessionsPersist(r)
  /\ sess'[k].prepaid = req[r].row.prepaid /\ \A j \in Requests \ {k} : sess'[j] = sess[j]

LEMMA EndSaveFields ==
  ASSUME HallInv, NEW r \in Requests, EndSave(r)
  PROVE  \E k \in Requests : EndSaves(r, k)
  <1>0. TypeOK /\ DeskInv(r) /\ req[r].pc = "endSave" /\ req[r] \in RequestStates
    BY DEF HallInv, CodeInv, TypeInv, TypeOK, EndSave
  <1>1. PICK k \in Requests, row \in SessionRows, until \in Nat :
          /\ k = req[r].session /\ row = req[r].row /\ until = req[r].until
          /\ sess[k].status # "none" /\ row.res = sess[k].res
          /\ row.user = sess[k].user /\ row.station = sess[k].station
    BY <1>0 DEF DeskInv, DeskComplete, Billing, RequestStates
  <1>2. PICK new \in SessionRows : new = [row EXCEPT !.status = "completed", !.end = until]
    BY DEF SessionRows, SessionStatuses
  <1>3. /\ new.status = "completed" /\ new.res = row.res /\ new.user = row.user
        /\ new.station = row.station /\ new.prepaid = row.prepaid
    BY <1>2 DEF SessionRows
  <1>4. sess' = [sess EXCEPT ![k] = new]
    BY <1>1, <1>2 DEF EndSave
  <1>5. sess' \in [Requests -> SessionRows] /\ SessionsPersist(r)
    BY <1>1, <1>3, <1>4, SessionWrite, ZenonT(30)
  <1>6. sess'[k].prepaid = row.prepaid /\ \A j \in Requests \ {k} : sess'[j] = sess[j]
    BY <1>0, <1>3, <1>4 DEF TypeOK
  <1> QED
    BY <1>1, <1>5, <1>6 DEF EndSaves

LEMMA EndSaveStep ==
  ASSUME HallInv, NEW r \in Requests, EndSave(r)
  PROVE  DeskStep(r)
  <1>0. TypeOK /\ DeskInv(r) /\ req[r].pc = "endSave"
    BY DEF HallInv, CodeInv, TypeInv, EndSave
  <1>1. sess' \in [Requests -> SessionRows] /\ SessionsPersist(r)
    BY EndSaveFields DEF EndSaves
  <1>2. Goto(r, "endStation") /\ UNCHANGED <<clock, station, resv, boot, user, pkg, held>>
    BY DEF EndSave
  <1>3. "endStation" \in Labels \ Booting
    BY DEF Labels, Booting, Generating, Scanning
  <1>4. req'[r].pc = "endStation"
    BY <1>0, <1>2, <1>3, GotoState
  <1>5. sess[r].status = "none" => sess'[r].status = "none"
    <2>1. PICK k \in Requests : EndSaves(r, k)
      BY EndSaveFields
    <2>2. sess[k].status # "none"
      BY <1>0, <2>1 DEF EndSaves, DeskInv, DeskComplete, Billing
    <2> QED
      BY <2>1, <2>2 DEF EndSaves
  <1>6. DeskInv(r)'
    BY <1>0, <1>2, <1>4, <1>5
    DEF DeskInv, OwnRows, DeskComplete, DeskLocks, Booking, Saving, Billing
  <1>7. /\ station' \in [Stations -> StationStatuses] /\ resv' \in [Reservations -> ReservationRows]
        /\ user' \in [Users -> UserRows] /\ pkg' \in [Users -> Nat]
        /\ \A u \in Users : user'[u].eligible = user[u].eligible
        /\ ReservationsPersist(r) /\ StationsPersist(r)
    BY <1>0, <1>2 DEF TypeOK, ReservationsPersist, StationsPersist
  <1> QED
    BY <1>0, <1>1, <1>2, <1>3, <1>6, <1>7, DeskWrites

LEMMA EndStationStep ==
  ASSUME HallInv, NEW r \in Requests, EndStation(r), ~Refuse(r)
  PROVE  DeskStep(r)
  <1>1. PICK s : s = req[r].station
    OBVIOUS
  <1>2. CanLock(r, {StationRow(s)})
    BY <1>1 DEF EndStation, Wanted
  <1> QED
    BY <1>1, <1>2, StationCommit DEF EndStation, StationStatuses

(* What is taken from the packages, and what that leaves for the balance. *)
PackagesPay(r, covered, cost) ==
  LET u == req[r].user IN
  /\ Price * req[r].minutes = Price * covered + cost
  /\ pkg' \in [Users -> Nat] /\ pkg'[u] = pkg[u] - covered
  /\ \A v \in Users \ {u} : pkg'[v] = pkg[v]
  /\ req'[r].pc = (IF cost = 0 THEN req[r].next ELSE "chargeBalance") /\ req'[r].due = cost
  /\ req'[r].user = u /\ req'[r].session = req[r].session /\ req'[r].row = req[r].row
  /\ req'[r].next = req[r].next /\ req'[r].minutes = req[r].minutes
  /\ req' \in [Requests -> RequestStates] /\ \A q \in Requests \ {r} : req'[q] = req[q]
  /\ UNCHANGED <<clock, station, resv, boot, sess, user, held>>

LEMMA ChargePackagesFields ==
  ASSUME HallInv, NEW r \in Requests, ChargePackages(r)
  PROVE  \E covered, cost \in Nat : PackagesPay(r, covered, cost)
  <1>0. /\ TypeOK /\ DeskInv(r) /\ req[r].pc = "chargePackages"
        /\ req[r] \in RequestStates /\ DOMAIN req = Requests
    BY DEF HallInv, CodeInv, TypeInv, TypeOK, ChargePackages
  <1>1. PICK u \in Users, minutes \in Nat, next \in {"renewSave", "endSave"} :
          u = req[r].user /\ minutes = req[r].minutes /\ next = req[r].next
    BY <1>0 DEF DeskInv, DeskComplete, Billing, RequestStates
  <1>2. PICK covered, cost : covered = FromPackages(u, minutes) /\ cost = BalanceCost(minutes, covered)
    OBVIOUS
  <1>3. /\ covered \in Nat /\ covered =< pkg[u] /\ cost \in Nat
        /\ Price * minutes = Price * covered + cost
    BY <1>0, <1>2, ChargeIsExact
  <1>4. /\ pkg' = [pkg EXCEPT ![u] = @ - covered]
        /\ req' = [req EXCEPT ![r] = [@ EXCEPT !.due = cost,
                     !.pc = IF cost = 0 THEN next ELSE "chargeBalance"]]
        /\ UNCHANGED <<clock, station, resv, boot, sess, user, held>>
    BY <1>1, <1>2 DEF ChargePackages
  <1>5. pkg \in [Users -> Nat] /\ pkg[u] - covered \in Nat
    BY <1>0, <1>3 DEF TypeOK
  <1>6. PICK label \in Labels : label = IF cost = 0 THEN next ELSE "chargeBalance"
    BY DEF Labels
  <1>7. [req[r] EXCEPT !.due = cost, !.pc = label] \in RequestStates
    BY <1>0, <1>3, ZenonT(30) DEF RequestStates
  <1>8. req' \in [Requests -> RequestStates] /\ \A q \in Requests \ {r} : req'[q] = req[q]
    BY <1>0, <1>4, <1>6, <1>7 DEF TypeOK
  <1>9. /\ req'[r].pc = label /\ req'[r].due = cost
        /\ req'[r].user = req[r].user /\ req'[r].session = req[r].session
        /\ req'[r].row = req[r].row
        /\ req'[r].next = req[r].next /\ req'[r].minutes = req[r].minutes
    BY <1>0, <1>4, <1>6 DEF RequestStates
  <1> QED
    BY <1>1, <1>3, <1>4, <1>5, <1>6, <1>8, <1>9 DEF PackagesPay

LEMMA ChargePackagesStep ==
  ASSUME HallInv, NEW r \in Requests, ChargePackages(r)
  PROVE  DeskStep(r)
  <1>0. TypeOK /\ DeskInv(r) /\ req[r].pc = "chargePackages" /\ req[r] \in RequestStates
    BY DEF HallInv, CodeInv, TypeInv, TypeOK, ChargePackages
  <1>1. PICK covered \in Nat, cost \in Nat : PackagesPay(r, covered, cost)
    BY ChargePackagesFields
  <1>2. cost =< Price * req[r].minutes
    <2>1. Price * covered \in Nat
      BY NumbersAssumption
    <2> QED
      BY <1>1, <2>1 DEF PackagesPay
  <1>3. TypeOK'
    BY <1>0, <1>1 DEF PackagesPay, TypeOK
  <1>4. /\ req[r].user \in Users /\ req[r].session \in Requests
        /\ sess[req[r].session].status # "none" /\ req[r].row.status = "active"
        /\ req[r].row.res = sess[req[r].session].res /\ req[r].row.user = sess[req[r].session].user
        /\ req[r].row.station = sess[req[r].session].station
        /\ req[r].next \in {"renewSave", "endSave"}
        /\ resv[r].status = "none" /\ sess[r].status = "none"
    BY <1>0 DEF DeskInv, DeskComplete, OwnRows, Billing
  <1>5. req'[r].pc \in {"renewSave", "endSave"} => req'[r].next = req'[r].pc
    BY <1>1, <1>4 DEF PackagesPay
  <1>6. req'[r].pc \in {"renewSave", "endSave", "chargeBalance"}
    BY <1>1, <1>4 DEF PackagesPay
  <1>7. DeskInv(r)'
    BY <1>1, <1>2, <1>4, <1>5, <1>6
    DEF PackagesPay, DeskInv, OwnRows, DeskComplete, DeskLocks, Booking, Saving, Billing
  <1>8. ReservationsPersist(r) /\ StationsPersist(r) /\ SessionsPersist(r) /\ LocksOnlyFree(r)
    BY <1>1, NoLockIsFree DEF PackagesPay, ReservationsPersist, StationsPersist, SessionsPersist
  <1> QED
    BY <1>1, <1>3, <1>6, <1>7, <1>8 DEF PackagesPay, DeskStep, Generating, Scanning

(* What is taken from the balance. *)
BalancePays(r) ==
  LET u == req[r].user IN
  /\ user' \in [Users -> UserRows] /\ user'[u].balance = user[u].balance - req[r].due
  /\ \A v \in Users : user'[v].eligible = user[v].eligible
  /\ \A v \in Users \ {u} : user'[v] = user[v]
  /\ Goto(r, req[r].next)
  /\ UNCHANGED <<clock, station, resv, boot, sess, pkg, held>>

LEMMA ChargeBalanceFields ==
  ASSUME HallInv, NEW r \in Requests, ChargeBalance(r), ~Refuse(r)
  PROVE  BalancePays(r)
  <1>0. /\ TypeOK /\ DeskInv(r) /\ req[r].pc = "chargeBalance"
        /\ req[r] \in RequestStates
    BY DEF HallInv, CodeInv, TypeInv, TypeOK, ChargeBalance
  <1>1. PICK u \in Users, due \in Nat : u = req[r].user /\ due = req[r].due
    BY <1>0 DEF DeskInv, DeskComplete, Billing, RequestStates
  <1>2. /\ user' = [user EXCEPT ![u].balance = @ - due]
        /\ Goto(r, req[r].next)
        /\ UNCHANGED <<clock, station, resv, boot, sess, pkg, held>>
    BY <1>1 DEF ChargeBalance
  <1>3. user \in [Users -> UserRows]
    BY <1>0 DEF TypeOK
  <1>4. /\ user' \in [Users -> UserRows] /\ user'[u].balance = user[u].balance - due
        /\ \A v \in Users : user'[v].eligible = user[v].eligible
        /\ \A v \in Users \ {u} : user'[v] = user[v]
    BY <1>2, <1>3 DEF UserRows
  <1> QED
    BY <1>1, <1>2, <1>4, ZenonT(30) DEF BalancePays

LEMMA ChargeBalanceStep ==
  ASSUME HallInv, NEW r \in Requests, ChargeBalance(r), ~Refuse(r)
  PROVE  DeskStep(r)
  <1>0. TypeOK /\ DeskInv(r) /\ req[r].pc = "chargeBalance" /\ BalancePays(r)
    BY ChargeBalanceFields DEF HallInv, CodeInv, TypeInv, ChargeBalance
  <1>1. PICK label \in {"renewSave", "endSave"} : label = req[r].next
    BY <1>0 DEF DeskInv, DeskComplete, Billing
  <1>2. label \in Labels \ Booting
    BY DEF Labels, Booting, Generating, Scanning
  <1>3. /\ req'[r].pc = label /\ req'[r].user = req[r].user /\ req'[r].session = req[r].session
        /\ req'[r].row = req[r].row /\ req'[r].next = req[r].next
    BY <1>0, <1>1, <1>2, GotoState DEF BalancePays
  <1>4. DeskInv(r)'
    BY <1>0, <1>1, <1>3
    DEF BalancePays, DeskInv, OwnRows, DeskComplete, DeskLocks, Booking, Saving, Billing
  <1>5. ReservationsPersist(r) /\ StationsPersist(r) /\ SessionsPersist(r)
    BY <1>0 DEF BalancePays, ReservationsPersist, StationsPersist, SessionsPersist
  <1>6. /\ station' \in [Stations -> StationStatuses] /\ resv' \in [Reservations -> ReservationRows]
        /\ sess' \in [Requests -> SessionRows] /\ pkg' \in [Users -> Nat]
    BY <1>0 DEF TypeOK, BalancePays
  <1> QED
    BY <1>0, <1>1, <1>2, <1>4, <1>5, <1>6, DeskWrites DEF BalancePays

LEMMA SessionStep ==
  ASSUME HallInv, NEW r \in Requests, Renew(r) \/ End(r) \/ Charge(r), ~Refuse(r)
  PROVE  DeskStep(r)
  <1>1. CASE Renew(r)
    BY <1>1, RenewReadStep, RenewSaveStep DEF Renew
  <1>2. CASE End(r)
    BY <1>2, EndReadStep, EndSaveStep, EndStationStep DEF End
  <1>3. CASE Charge(r)
    BY <1>3, ChargePackagesStep, ChargeBalanceStep DEF Charge
  <1> QED
    BY <1>1, <1>2, <1>3

-----------------------------------------------------------------------------
(* The invariant of the hall *)

(* Any step of any service is one of the boot codes, one of the desk, or an answer. *)
LEMMA ServeCases ==
  ASSUME HallInv, NEW r \in Requests, Serve(r) \/ Fail(r) \/ DeadlockVictim(r)
  PROVE  \/ Generate(r) \/ Verify(r)
         \/ DeskStep(r)
         \/ \E answer \in Answers : Return(r, answer) /\ UNCHANGED <<clock, tables>>
  <1>1. CASE Refuse(r)
    BY <1>1 DEF Refuse, Answers
  <1>2. CASE Fail(r) \/ DeadlockVictim(r)
    BY <1>2 DEF Fail, DeadlockVictim, Answers
  <1>3. CASE Serve(r) /\ ~Refuse(r)
    <2>1. CASE Create(r)
      BY <1>3, <2>1, CreateStep
    <2>2. CASE Confirm(r) \/ Cancel(r) \/ CheckIn(r)
      BY <1>3, <2>2, ReservationStep
    <2>3. CASE Start(r)
      BY <1>3, <2>3, StartStep
    <2>4. CASE Renew(r) \/ End(r) \/ Charge(r)
      BY <1>3, <2>4, SessionStep
    <2>5. CASE UpdateStatus(r) \/ Update(r) \/ DeleteStation(r)
      BY <1>3, <2>5, StationStep DEF Answers
    <2> QED
      BY <1>3, <2>1, <2>2, <2>3, <2>4, <2>5 DEF Serve
  <1> QED
    BY <1>1, <1>2, <1>3

LEMMA HallStart == HallInit => HallInv
  <1> SUFFICES ASSUME HallInit PROVE HallInv
    OBVIOUS
  <1>1. CodeInv
    BY InitCodes DEF HallInit
  <1>2. ASSUME NEW r \in Requests
        PROVE  DeskInv(r)
    <2>1. req[r].pc = "new" /\ held[r] = {} /\ sess[r].status = "none"
      BY DEF HallInit, BootInit, NewRequest, NoSession
    <2>2. resv[r].status = "none"
      BY KeysAssumption DEF HallInit, BootInit, Reservations, NoReservation
    <2> QED
      BY <2>1, <2>2 DEF DeskInv, OwnRows, DeskComplete, DeskLocks, Booking, Saving, Billing
  <1>3. UsedCodesKeepTheirSession
    BY DEF HallInit, BootInit, NoBootCode, UsedCodesKeepTheirSession
  <1> QED
    BY <1>1, <1>2, <1>3 DEF HallInv

LEMMA HallStutter ==
  ASSUME HallInv, Tick \/ UNCHANGED vars
  PROVE  HallInv'
  <1>1. UNCHANGED <<tables, held, req>>
    BY DEF Tick, vars
  <1>2. CodeInv'
    <2>1. TypeInv'
      BY BootNextType DEF HallInv, CodeInv, BootNext
    <2> QED
      BY <1>1, <2>1, StutterKeepsCodes DEF HallInv
  <1>3. ASSUME NEW r \in Requests
        PROVE  DeskInv(r)'
    BY <1>1 DEF HallInv, DeskInv, OwnRows, DeskComplete, DeskLocks, tables
  <1>4. UsedCodesKeepTheirSession'
    BY <1>1 DEF HallInv, UsedCodesKeepTheirSession, tables
  <1> QED
    BY <1>2, <1>3, <1>4 DEF HallInv

LEMMA HallNextKeeps == HallInv /\ [HallNext]_vars => HallInv'
  <1> SUFFICES ASSUME HallInv, [HallNext]_vars PROVE HallInv'
    OBVIOUS
  <1>1. ASSUME NEW r \in Requests, Serve(r) \/ Fail(r) \/ DeadlockVictim(r)
        PROVE  HallInv'
    BY <1>1, ServeCases, GenerateKeepsHall, VerifyKeepsHall, DeskKeepsHall, AnswerKeepsHall
  <1>2. CASE Tick \/ UNCHANGED vars
    BY <1>2, HallStutter
  <1> QED
    BY <1>1, <1>2 DEF HallNext

(* The invariant above holds in every state the services can bring about. *)
THEOREM HallInvariant == HallSpec => []HallInv
  BY HallStart, HallNextKeeps, PTL DEF HallSpec

(* Rows and requests keep their shapes in the whole hall. *)
THEOREM HallTypeOK == HallSpec => []TypeOK
  <1>1. HallInv => TypeOK
    BY DEF HallInv, CodeInv, TypeInv
  <1> QED
    BY <1>1, HallInvariant, PTL

(* A reservation has one active code at most, whatever the desk does to it meanwhile. *)
THEOREM HallAtMostOneActiveCode == HallSpec => []AtMostOneActiveCode
  <1>1. HallInv => AtMostOneActiveCode
    BY DEF HallInv, CodeInv
  <1> QED
    BY <1>1, HallInvariant, PTL

(* A used code keeps the one session it opened, whatever stale rows are saved over it. *)
THEOREM HallUsedCodesKeepTheirSession == HallSpec => []UsedCodesKeepTheirSession
  <1>1. HallInv => UsedCodesKeepTheirSession
    BY DEF HallInv
  <1> QED
    BY <1>1, HallInvariant, PTL

(* No service of the desk touches the outcome of a code. *)
THEOREM HallCodesAreFinal == HallSpec => CodesAreFinal
  <1>1. HallInv /\ [HallNext]_vars => [CodeStep]_vars
    <2> SUFFICES ASSUME HallInv, HallNext PROVE CodeStep
      OBVIOUS
    <2>1. CodeInv
      BY DEF HallInv
    <2>2. ASSUME NEW r \in Requests, Serve(r) \/ Fail(r) \/ DeadlockVictim(r)
          PROVE  CodeStep
      <3>1. CASE Generate(r) \/ Verify(r)
        BY <2>1, <3>1, GenerateKeepsOutcomes, VerifyKeepsOutcomes
      <3>2. CASE boot' = boot
        BY <3>2 DEF CodeStep
      <3> QED
        BY <2>2, <3>1, <3>2, ServeCases DEF DeskStep, tables
    <2>3. CASE Tick
      BY <2>3 DEF Tick, CodeStep, tables
    <2> QED
      BY <2>2, <2>3 DEF HallNext
  <1> QED
    BY <1>1, HallInvariant, PTL DEF HallSpec, CodesAreFinal, CodeStep

(* A code is used only when its reservation is confirmed, its station free and its member *)
(* in order, at that very moment: the scan has them locked, and nobody writes past a lock. *)
SeatStep ==
  \A c \in Codes :
    LET i == boot[c].res  s == boot[c].station IN
    boot[c].status = "active" /\ boot'[c].status = "used" =>
      /\ resv[i].status = "confirmed"  /\ resv'[i].status = "checked_in"
      /\ station[s] \in {"idle", "reserved"} /\ station'[s] = "using"
      /\ user[boot[c].user].eligible

LEMMA VerifyCommitSeats ==
  ASSUME CodeInv, NEW r \in Requests, VerifyCommit(r), ~Refuse(r)
  PROVE  SeatStep
  <1>1. TypeInv
    BY DEF CodeInv
  <1>2. CommitWrites(r) /\ req[r].pc = "scanCharge"
    BY <1>1, VerifyCommitWrites
  <1>3. /\ boot[req[r].code].res = req[r].res /\ boot[req[r].code].station = req[r].station
        /\ boot[req[r].code].user = req[r].user
        /\ resv[req[r].res].status = "confirmed"
        /\ station[req[r].station] \in {"idle", "reserved"}
        /\ user[req[r].user].eligible
    BY <1>2 DEF CodeInv, RequestInv, ScanIsFresh, Scanning, HoldsReservation, HoldsStation
  <1>4. station'[req[r].station] = "using"
    <2>1. req[r].station \in Stations
      BY <1>1, <1>2 DEF TypeInv, ScanningComplete, Scanning
    <2> QED
      BY <1>1, <1>2, <2>1 DEF CommitWrites, TypeInv, TypeOK
  <1>5. ASSUME NEW c \in Codes, boot[c].status = "active", boot'[c].status = "used"
        PROVE  c = req[r].code
    BY <1>2, <1>5 DEF CommitWrites
  <1> QED
    BY <1>2, <1>3, <1>4, <1>5 DEF SeatStep, CommitWrites

THEOREM HallSeatedOnlyWhenReady == HallSpec => SeatedOnlyWhenReady
  <1>1. HallInv /\ [HallNext]_vars => [SeatStep]_vars
    <2> SUFFICES ASSUME HallInv, HallNext PROVE SeatStep
      OBVIOUS
    <2>1. CodeInv /\ TypeInv
      BY DEF HallInv, CodeInv
    <2>2. ASSUME NEW r \in Requests, Serve(r) \/ Fail(r) \/ DeadlockVictim(r)
          PROVE  SeatStep
      <3>1. CASE \A c \in Codes : boot'[c].status = "used" => boot'[c] = boot[c]
        BY <3>1 DEF SeatStep
      <3>2. CASE Generate(r) \/ (Verify(r) /\ (Refuse(r) \/ ~VerifyCommit(r)))
        BY <2>1, <3>1, <3>2, GenerateFrame, VerifyFrame DEF BootFrame
      <3>3. CASE VerifyCommit(r) /\ ~Refuse(r)
        BY <2>1, <3>3, VerifyCommitSeats
      <3>4. CASE boot' = boot
        BY <3>1, <3>4
      <3> QED
        BY <2>2, <3>2, <3>3, <3>4, ServeCases DEF DeskStep, tables
    <2>3. CASE Tick
      BY <2>3 DEF Tick, SeatStep, tables
    <2> QED
      BY <2>2, <2>3 DEF HallNext
  <1> QED
    BY <1>1, HallInvariant, PTL DEF HallSpec, SeatedOnlyWhenReady, SeatStep

-----------------------------------------------------------------------------
(* Prepaid minutes *)

(* The money of a member that has gone somewhere, with p minutes and balance b left. *)
Spent(u, p, b) == Price * (Package0[u] - p) + (Balance0[u] - b)

LEMMA SpentType ==
  ASSUME NEW u \in Users, NEW p \in Nat, NEW b \in Int
  PROVE  Spent(u, p, b) \in Int
  <1>1. Package0[u] \in Nat /\ Balance0[u] \in Nat /\ Price \in Nat
    BY WalletAssumption, NumbersAssumption
  <1>2. PICK used \in Int, gone \in Int : used = Package0[u] - p /\ gone = Balance0[u] - b
    BY <1>1
  <1>3. Price * used + gone \in Int
    BY <1>1, <1>2
  <1> QED
    BY <1>2, <1>3 DEF Spent

LEMMA CreditType ==
  ASSUME NEW q \in RequestStates, q.pc = "chargeBalance" => q.due =< Price * q.minutes
  PROVE  Credit(q) \in Nat
  <1>1. Price \in Nat
    BY NumbersAssumption
  <1>2. PICK minutes \in Nat, due \in Nat : minutes = q.minutes /\ due = q.due
    BY DEF RequestStates
  <1>3. Price * minutes \in Nat
    BY <1>1
  <1> QED
    BY <1>2, <1>3 DEF Credit

(* What was paid, as a sum of whole numbers over the members. *)
PaidBy == [u \in Users |-> Spent(u, pkg[u], user[u].balance)]

LEMMA PaidType ==
  ASSUME TypeOK
  PROVE  /\ PaidMinutes = SumFunctionOnSet(PaidBy, Users) /\ PaidMinutes \in Int
         /\ \A u \in Users : PaidBy[u] \in Int
  <1>1. PaidMinutes = SumFunctionOnSet(PaidBy, Users)
    BY DEF PaidMinutes, PaidBy, Spent, SumFunction
  <1>2. ASSUME NEW u \in Users PROVE PaidBy[u] \in Int
    <2>1. pkg[u] \in Nat /\ user[u].balance \in Int
      BY DEF TypeOK, UserRows
    <2> QED
      BY <2>1, SpentType DEF PaidBy
  <1> QED
    BY <1>1, <1>2, SumType, FiniteAssumption

(* A payment of one member raises what was paid by as much. *)
LEMMA PaymentIsPaid ==
  ASSUME TypeOK, TypeOK', NEW u \in Users, NEW covered \in Nat, NEW cost \in Nat,
         pkg'[u] = pkg[u] - covered, user'[u].balance = user[u].balance - cost,
         \A v \in Users \ {u} : pkg'[v] = pkg[v] /\ user'[v].balance = user[v].balance
  PROVE  PaidMinutes' = PaidMinutes + (Price * covered + cost)
  <1>1. PICK f : f = PaidBy
    OBVIOUS
  <1>2. PICK e : e = [v \in Users |-> Spent(v, pkg'[v], user'[v].balance)]
    OBVIOUS
  <1>3. PaidMinutes = SumFunctionOnSet(f, Users) /\ \A v \in Users : f[v] \in Int
    BY <1>1, PaidType
  <1>4. PaidMinutes' = SumFunctionOnSet(e, Users)
    BY <1>2 DEF PaidMinutes, Spent, SumFunction
  <1>5. \A v \in Users : e[v] \in Int
    <2>1. \A v \in Users : pkg'[v] \in Nat /\ user'[v].balance \in Int
      BY DEF TypeOK, UserRows
    <2> QED
      BY <1>2, <2>1, SpentType
  <1>6. \A v \in Users \ {u} : e[v] = f[v]
    BY <1>1, <1>2 DEF PaidBy
  <1>7. e[u] - f[u] = Price * covered + cost
    <2>1. pkg[u] \in Nat /\ user[u].balance \in Int /\ Package0[u] \in Nat /\ Balance0[u] \in Nat
          /\ Price \in Nat
      BY WalletAssumption, NumbersAssumption DEF TypeOK, UserRows
    <2>2. PICK used \in Int, gone \in Int :
            used = Package0[u] - pkg[u] /\ gone = Balance0[u] - user[u].balance
      BY <2>1
    <2>3. Package0[u] - pkg'[u] = used + covered /\ Balance0[u] - user'[u].balance = gone + cost
      BY <2>1, <2>2
    <2>4. e[u] = Price * (used + covered) + (gone + cost) /\ f[u] = Price * used + gone
      BY <1>1, <1>2, <2>2, <2>3 DEF PaidBy, Spent
    <2>5. Price * (used + covered) = Price * used + Price * covered
      BY <2>1
    <2>6. Price * used \in Int /\ Price * covered \in Int
      BY <2>1
    <2> QED
      BY <2>4, <2>5, <2>6
  <1> QED
    BY <1>3, <1>4, <1>5, <1>6, <1>7, SumChange, FiniteAssumption

(* What a step may do to the account: r is credited extra minutes of session k for what *)
(* it has paid, now or before.                                                           *)
CreditMoves(r, cap, k, extra, paid) ==
  /\ \A q \in Requests \ {r} : req'[q] = req[q]
  /\ \A j \in Requests : sess'[j].prepaid =< (IF j = k THEN cap[j] + extra ELSE cap[j])
  /\ req'[r].pc \in Billing => /\ req'[r].session \in Requests
                               /\ req'[r].row.prepaid =< cap[req'[r].session]
  /\ Credit(req'[r]) + Price * extra =< Credit(req[r]) + paid
  /\ PaidMinutes' = PaidMinutes + paid

LEMMA CreditedAgain ==
  ASSUME HallInv, HallInv', NEW r \in Requests, NEW cap \in [Requests -> Nat], Credited(cap),
         NEW k \in Requests, NEW extra \in Nat, NEW paid \in Nat,
         CreditMoves(r, cap, k, extra, paid)
  PROVE  CreditInv'
  <1>0. TypeOK /\ TypeOK' /\ Price \in Nat
    BY NumbersAssumption DEF HallInv, CodeInv, TypeInv
  <1>1. PICK new \in [Requests -> Nat] : new = [cap EXCEPT ![k] = cap[k] + extra]
    <2>1. cap[k] + extra \in Nat
      OBVIOUS
    <2> QED
      BY <2>1
  <1>2. /\ \A j \in Requests : new[j] = (IF j = k THEN cap[j] + extra ELSE cap[j])
        /\ \A j \in Requests : cap[j] =< new[j] /\ cap[j] \in Nat /\ new[j] \in Nat
    BY <1>1
  <1>3. \A j \in Requests : sess'[j].prepaid =< new[j]
    BY <1>2 DEF CreditMoves
  <1>4. ASSUME NEW q \in Requests, req'[q].pc \in Billing
        PROVE  req'[q].row.prepaid =< new[req'[q].session]
    <2>1. req'[q].session \in Requests /\ req'[q].row.prepaid =< cap[req'[q].session]
      <3>1. CASE q = r
        BY <1>4, <3>1 DEF CreditMoves
      <3>2. CASE q # r
        BY <1>4, <3>2 DEF CreditMoves, Credited, HallInv, DeskInv, DeskComplete
      <3> QED
        BY <3>1, <3>2
    <2>2. req'[q].row.prepaid \in Nat
      BY <1>0 DEF TypeOK, RequestStates, SessionRows
    <2> QED
      BY <1>2, <2>1, <2>2
  <1>5. PICK caps, news, credits, newCredits :
          /\ caps = [j \in Requests |-> Price * cap[j]]
          /\ news = [j \in Requests |-> Price * new[j]]
          /\ credits = [q \in Requests |-> Credit(req[q])]
          /\ newCredits = [q \in Requests |-> Credit(req'[q])]
    OBVIOUS
  <1>6. SumFunctionOnSet(news, Requests) = SumFunctionOnSet(caps, Requests) + Price * extra
    <2>1. \A j \in Requests : caps[j] \in Int /\ news[j] \in Int
      BY <1>0, <1>2, <1>5
    <2>2. \A j \in Requests \ {k} : news[j] = caps[j]
      BY <1>2, <1>5
    <2>3. news[k] = Price * (cap[k] + extra) /\ caps[k] = Price * cap[k]
      BY <1>2, <1>5
    <2>4. Price * (cap[k] + extra) = Price * cap[k] + Price * extra
      BY <1>0
    <2>5. Price * cap[k] \in Int /\ Price * extra \in Int
      BY <1>0
    <2>6. news[k] - caps[k] = Price * extra
      BY <2>3, <2>4, <2>5
    <2> QED
      BY <2>1, <2>2, <2>6, SumChange, FiniteAssumption
  <1>7. \A q \in Requests : credits[q] \in Int /\ newCredits[q] \in Int
    <2>1. \A q \in Requests : Credit(req[q]) \in Nat
      BY <1>0, CreditType DEF TypeOK, HallInv, DeskInv, DeskComplete, Billing
    <2>2. \A q \in Requests : Credit(req'[q]) \in Nat
      BY <1>0, CreditType DEF TypeOK, HallInv, DeskInv, DeskComplete, Billing
    <2> QED
      BY <1>5, <2>1, <2>2
  <1>8. SumFunctionOnSet(newCredits, Requests)
          = SumFunctionOnSet(credits, Requests) + (newCredits[r] - credits[r])
    <2>1. \A q \in Requests \ {r} : newCredits[q] = credits[q]
      BY <1>5 DEF CreditMoves
    <2> QED
      BY <1>7, <2>1, SumChange, FiniteAssumption
  <1>9. SumFunctionOnSet(caps, Requests) + SumFunctionOnSet(credits, Requests) =< PaidMinutes
    BY <1>5 DEF Credited, SumFunction
  <1>10. /\ SumFunctionOnSet(caps, Requests) \in Int /\ SumFunctionOnSet(credits, Requests) \in Int
         /\ PaidMinutes \in Int /\ Price * extra \in Int
    <2>1. \A j \in Requests : caps[j] \in Int
      BY <1>0, <1>2, <1>5
    <2> QED
      BY <1>0, <1>7, <2>1, SumType, PaidType, FiniteAssumption
  <1>11. newCredits[r] + Price * extra =< credits[r] + paid /\ PaidMinutes' = PaidMinutes + paid
    BY <1>5 DEF CreditMoves
  <1>12. SumFunctionOnSet(news, Requests) + SumFunctionOnSet(newCredits, Requests) =< PaidMinutes'
    BY <1>6, <1>7, <1>8, <1>9, <1>10, <1>11
  <1>13. SumFunction([j \in Requests |-> Price * new[j]])
           + SumFunction([q \in Requests |-> Credit(req'[q])]) =< PaidMinutes'
    BY <1>5, <1>12 DEF SumFunction
  <1>14. Credited(new)'
    BY <1>3, <1>4, <1>13 DEF Credited
  <1> QED
    BY <1>14 DEF CreditInv

(* A step that bills nobody. *)
Unbilled(r) ==
  /\ \A q \in Requests \ {r} : req'[q] = req[q]
  /\ req'[r].pc \notin Billing /\ UNCHANGED <<user, pkg>>
  /\ \A k \in Requests : sess'[k].prepaid =< sess[k].prepaid

LEMMA UnbilledKeepsCredit ==
  ASSUME HallInv, HallInv', CreditInv, NEW r \in Requests, Unbilled(r)
  PROVE  CreditInv'
  <1>0. TypeOK
    BY DEF HallInv, CodeInv, TypeInv
  <1>1. PICK cap \in [Requests -> Nat] : Credited(cap)
    BY DEF CreditInv
  <1>2. \A j \in Requests : sess'[j].prepaid =< (IF j = r THEN cap[j] + 0 ELSE cap[j])
    <2>1. \A j \in Requests : /\ sess[j].prepaid \in Nat /\ sess'[j].prepaid \in Nat /\ cap[j] \in Nat
                              /\ sess[j].prepaid =< cap[j]
      BY <1>0, <1>1 DEF Credited, TypeOK, SessionRows, HallInv, CodeInv, TypeInv
    <2> QED
      BY <2>1 DEF Unbilled
  <1>3. Credit(req'[r]) + Price * 0 =< Credit(req[r]) + 0
    <2>1. Credit(req[r]) \in Nat
      BY <1>0, CreditType DEF TypeOK, HallInv, DeskInv, DeskComplete, Billing
    <2>2. Credit(req'[r]) = 0
      BY DEF Credit, Unbilled, Billing
    <2> QED
      BY <2>1, <2>2, NumbersAssumption
  <1>4. PaidMinutes' = PaidMinutes + 0
    <2>1. PaidMinutes' = PaidMinutes
      BY DEF PaidMinutes, Unbilled
    <2> QED
      BY <1>0, <2>1, PaidType
  <1>5. CreditMoves(r, cap, r, 0, 0)
    BY <1>2, <1>3, <1>4 DEF CreditMoves, Unbilled
  <1> QED
    BY <1>1, <1>5, CreditedAgain

(* It is enough that the sessions, the members and their packages stay as they are. *)
LEMMA UnbilledIf ==
  ASSUME TypeOK, NEW r \in Requests, \A q \in Requests \ {r} : req'[q] = req[q],
         req'[r].pc \notin Billing, UNCHANGED <<sess, user, pkg>>
  PROVE  Unbilled(r)
  BY DEF TypeOK, SessionRows, Unbilled

LEMMA LabelAfter ==
  ASSUME TypeOK, NEW r \in Requests, NEW label \in Labels \ Billing, Goto(r, label)
  PROVE  req'[r].pc \notin Billing /\ \A q \in Requests \ {r} : req'[q] = req[q]
  BY GotoState

LEMMA AfterCommit ==
  ASSUME TypeOK, NEW r \in Requests, Commit(r) \/ Refuse(r)
  PROVE  req'[r].pc \notin Billing /\ \A q \in Requests \ {r} : req'[q] = req[q]
  BY ReturnIsFree DEF Commit, Refuse, Billing

(* Bookings, starts and stations bill nobody. *)
LEMMA CreateUnbilled ==
  ASSUME TypeOK, NEW r \in Requests, Create(r)
  PROVE  Unbilled(r)
  <1>0. req[r] \in RequestStates /\ DOMAIN req = Requests
    BY DEF TypeOK
  <1>1. UNCHANGED <<sess, user, pkg>>
    BY ZenonT(30) DEF Create, CreateRead, CreateCountConflict, CreateLock, CreateInsert, CreateCommit, Refuse,
           tables
  <1>2. CASE Commit(r) \/ Refuse(r)
    BY <1>1, <1>2, AfterCommit, UnbilledIf
  <1>3. CASE CreateRead(r) /\ ~Refuse(r)
    <2>1. req'[r].pc = "bookConflict" /\ \A q \in Requests \ {r} : req'[q] = req[q]
      <3>1. PICK u \in Users, s \in Stations, slot \in Slots :
              req' = [req EXCEPT ![r] = [@ EXCEPT !.pc = "bookConflict", !.user = u, !.res = r,
                        !.station = s, !.at = slot[1], !.until = slot[2]]]
        BY <1>3, ZenonT(30) DEF CreateRead
      <3>2. /\ req'[r] = [req[r] EXCEPT !.pc = "bookConflict", !.user = u, !.res = r,
                             !.station = s, !.at = slot[1], !.until = slot[2]]
            /\ \A q \in Requests \ {r} : req'[q] = req[q]
        BY <1>0, <3>1
      <3> QED
        BY <1>0, <3>2 DEF RequestStates
    <2> QED
      BY <1>1, <2>1, UnbilledIf DEF Billing
  <1>4. CASE \E label \in {"bookLock", "bookInsert", "bookCommit"} : Goto(r, label)
    BY <1>1, <1>4, LabelAfter, UnbilledIf DEF Labels, Billing
  <1> QED
    BY <1>2, <1>3, <1>4
    DEF Create, CreateCountConflict, CreateLock, CreateInsert, CreateCommit

LEMMA ReservationUnbilled ==
  ASSUME TypeOK, NEW r \in Requests, Confirm(r) \/ Cancel(r) \/ CheckIn(r)
  PROVE  Unbilled(r)
  <1>0. req[r] \in RequestStates /\ DOMAIN req = Requests
    BY DEF TypeOK
  <1>1. UNCHANGED <<sess, user, pkg>>
    BY ZenonT(30) DEF Confirm, Cancel, CheckIn, ConfirmRead, CancelRead, CheckInRead, ReadReservation,
           ConfirmSave, CancelSave, CheckInSave, SaveReservation, CancelStation, CheckInStation,
           SaveLockedStation, Refuse, tables
  <1>2. CASE Commit(r) \/ Refuse(r)
    BY <1>1, <1>2, AfterCommit, UnbilledIf
  <1>3. CASE (ConfirmRead(r) \/ CancelRead(r) \/ CheckInRead(r)) /\ ~Refuse(r)
    <2>1. PICK label \in {"confirmSave", "cancelSave", "checkInSave"}, i \in Reservations :
            req' = [req EXCEPT ![r] = [@ EXCEPT !.pc = label, !.res = i,
                                                 !.station = resv[i].station]]
      BY <1>3, ZenonT(30) DEF ConfirmRead, CancelRead, CheckInRead, ReadReservation
    <2>2. req'[r].pc = label /\ \A q \in Requests \ {r} : req'[q] = req[q]
      BY <1>0, <2>1 DEF RequestStates
    <2> QED
      BY <1>1, <2>2, UnbilledIf DEF Billing
  <1>4. CASE \E label \in {"cancelStation", "checkInStation"} : Goto(r, label)
    BY <1>1, <1>4, LabelAfter, UnbilledIf DEF Labels, Billing
  <1> QED
    BY <1>2, <1>3, <1>4
    DEF Confirm, Cancel, CheckIn, ConfirmSave, CancelSave, CheckInSave, CancelStation,
        CheckInStation, SaveLockedStation

LEMMA StationUnbilled ==
  ASSUME TypeOK, NEW r \in Requests, UpdateStatus(r) \/ Update(r) \/ DeleteStation(r)
  PROVE  Unbilled(r)
  <1>0. req[r] \in RequestStates /\ DOMAIN req = Requests
    BY DEF TypeOK
  <1>1. ASSUME req'[r].pc \notin Billing, \A q \in Requests \ {r} : req'[q] = req[q],
               UNCHANGED <<sess, user, pkg>>
        PROVE  Unbilled(r)
    BY <1>1, UnbilledIf
  <1>2. ASSUME NEW answer, Return(r, answer), UNCHANGED <<sess, user, pkg>>
        PROVE  Unbilled(r)
    <2>1. req'[r].pc = "done" /\ \A q \in Requests \ {r} : req'[q] = req[q]
      BY <1>2, ReturnIsFree
    <2> QED
      BY <1>1, <1>2, <2>1 DEF Billing
  <1>3. CASE Refuse(r)
    BY <1>2, <1>3 DEF Refuse, tables
  <1>4. CASE UpdateStatusRead(r) /\ ~Refuse(r)
    <2>1. PICK s \in Stations, to \in StationStatuses :
            /\ req' = [req EXCEPT ![r] = [@ EXCEPT !.pc = "stationSave", !.station = s, !.status = to]]
            /\ UNCHANGED tables
      BY <1>4 DEF UpdateStatusRead
    <2>2. req'[r].pc = "stationSave" /\ \A q \in Requests \ {r} : req'[q] = req[q]
      BY <1>0, <2>1 DEF RequestStates
    <2> QED
      BY <1>1, <2>1, <2>2 DEF Billing, tables
  <1>5. CASE UpdateRead(r) /\ ~Refuse(r)
    <2>1. PICK s \in Stations :
            /\ req' = [req EXCEPT ![r] = [@ EXCEPT !.pc = "stationSave", !.station = s,
                                                   !.status = station[s]]]
            /\ UNCHANGED tables
      BY <1>5 DEF UpdateRead
    <2>2. req'[r].pc = "stationSave" /\ \A q \in Requests \ {r} : req'[q] = req[q]
      BY <1>0, <2>1 DEF RequestStates
    <2> QED
      BY <1>1, <2>1, <2>2 DEF Billing, tables
  <1>6. CASE DeleteRead(r) /\ ~Refuse(r)
    <2>1. CASE Return(r, "ok") /\ UNCHANGED tables
      BY <1>2, <2>1 DEF tables
    <2>2. CASE \E s \in Stations :
                 /\ req' = [req EXCEPT ![r] = [@ EXCEPT !.pc = "stationDelete", !.station = s]]
                 /\ UNCHANGED tables
      <3>1. req'[r].pc = "stationDelete" /\ \A q \in Requests \ {r} : req'[q] = req[q]
        BY <1>0, <2>2 DEF RequestStates
      <3> QED
        BY <1>1, <2>2, <3>1 DEF Billing, tables
    <2> QED
      BY <1>6, <2>1, <2>2 DEF DeleteRead
  <1>7. CASE StationSave(r) \/ StationDelete(r)
    BY <1>2, <1>7 DEF StationSave, StationDelete, Commit
  <1> QED
    BY <1>3, <1>4, <1>5, <1>6, <1>7 DEF UpdateStatus, Update, DeleteStation

LEMMA StartUnbilled ==
  ASSUME TypeOK, NEW r \in Requests, Start(r)
  PROVE  Unbilled(r)
  <1>0. req[r] \in RequestStates /\ DOMAIN req = Requests
    BY DEF TypeOK
  <1>1. UNCHANGED <<user, pkg>> /\ (sess' = sess \/ StartInsert(r))
    BY ZenonT(30) DEF Start, StartRead, StartLock, StartReservation, StartCheckIn, StartInsert, StartCommit,
           Refuse, tables
  <1>2. /\ req'[r].pc \notin Billing /\ \A q \in Requests \ {r} : req'[q] = req[q]
    <2>1. CASE Commit(r) \/ Refuse(r)
      BY <2>1, AfterCommit
    <2>2. CASE StartRead(r) /\ ~Refuse(r)
      <3>1. req'[r].pc = "startLock" /\ \A q \in Requests \ {r} : req'[q] = req[q]
        <4>1. PICK u \in Users, s \in Stations, i \in Reservations \cup {Nil} :
                req' = [req EXCEPT ![r] = [@ EXCEPT !.pc = "startLock", !.user = u, !.station = s,
                                             !.res = i, !.at = clock]]
          BY <2>2 DEF StartRead
        <4>2. /\ req'[r] = [req[r] EXCEPT !.pc = "startLock", !.user = u, !.station = s,
                               !.res = i, !.at = clock]
              /\ \A q \in Requests \ {r} : req'[q] = req[q]
          BY <1>0, <4>1
        <4> QED
          BY <1>0, <4>2 DEF RequestStates
      <3> QED
        BY <3>1 DEF Billing
    <2>3. CASE \E label \in {"startInsert", "startReservation", "startCheckIn", "startCommit"} :
                 Goto(r, label)
      BY <2>3, LabelAfter DEF Labels, Billing
    <2>4. StartLock(r) \/ StartReservation(r) \/ StartCheckIn(r) \/ StartInsert(r) =>
            \/ Refuse(r)
            \/ \E label \in {"startInsert", "startReservation", "startCheckIn", "startCommit"} :
                 Goto(r, label)
      BY DEF StartLock, StartReservation, StartCheckIn, StartInsert
    <2> QED
      BY <2>1, <2>2, <2>3, <2>4 DEF Start, StartCommit
  <1>3. CASE sess' = sess
    BY <1>1, <1>2, <1>3, UnbilledIf
  <1>4. CASE StartInsert(r)
    <2>1. sess'[r].prepaid = 0 /\ \A k \in Requests \ {r} : sess'[k] = sess[k]
      BY <1>4 DEF StartInsert, TypeOK
    <2>2. \A k \in Requests : sess[k].prepaid \in Nat
      BY DEF TypeOK, SessionRows
    <2> QED
      BY <1>1, <1>2, <2>1, <2>2 DEF Unbilled
  <1> QED
    BY <1>1, <1>3, <1>4

(* Nobody has more prepaid minutes than were ever credited. *)
LEMMA CapsHold ==
  ASSUME TypeOK, NEW cap \in [Requests -> Nat], Credited(cap), NEW k \in Requests
  PROVE  cap[k] \in Nat /\ sess[k].prepaid \in Nat /\ sess[k].prepaid =< cap[k]
  BY DEF Credited, TypeOK, SessionRows

LEMMA CreditOf ==
  ASSUME HallInv, NEW r \in Requests
  PROVE  Credit(req[r]) \in Nat
  BY CreditType DEF HallInv, DeskInv, DeskComplete, Billing, CodeInv, TypeInv, TypeOK

(* A step that takes nothing and credits nothing, and leaves r with a row it has read. *)
LEMMA NothingPaid ==
  ASSUME HallInv, NEW r \in Requests, NEW cap \in [Requests -> Nat], Credited(cap),
         NEW k \in Requests, UNCHANGED <<user, pkg>>,
         \A q \in Requests \ {r} : req'[q] = req[q],
         \A j \in Requests : sess'[j].prepaid =< cap[j],
         req'[r].pc \in Billing => /\ req'[r].session = k /\ req'[r].row.prepaid =< cap[k],
         Credit(req'[r]) = 0
  PROVE  CreditMoves(r, cap, k, 0, 0)
  <1>1. \A j \in Requests : cap[j] + 0 = cap[j]
    OBVIOUS
  <1>2. Credit(req'[r]) + Price * 0 =< Credit(req[r]) + 0
    BY CreditOf, NumbersAssumption
  <1>3. PaidMinutes' = PaidMinutes + 0
    <2>1. PaidMinutes' = PaidMinutes
      BY DEF PaidMinutes
    <2> QED
      BY <2>1, PaidType DEF HallInv, CodeInv, TypeInv
  <1> QED
    BY <1>1, <1>2, <1>3 DEF CreditMoves

(* Renewals and ends that have read the session have at most what it was credited. *)
LEMMA ReadMoves ==
  ASSUME HallInv, NEW r \in Requests, (RenewRead(r) \/ EndRead(r)) /\ ~Refuse(r),
         NEW cap \in [Requests -> Nat], Credited(cap)
  PROVE  \E k \in Requests : CreditMoves(r, cap, k, 0, 0)
  <1>0. TypeOK
    BY DEF HallInv, CodeInv, TypeInv
  <1>1. PICK k \in Requests :
          /\ req'[r].pc \in {"chargePackages", "endSave"}
          /\ req'[r].session = k /\ req'[r].row = sess[k]
          /\ \A q \in Requests \ {r} : req'[q] = req[q]
          /\ UNCHANGED tables
    <2>1. CASE RenewRead(r)
      BY <1>0, <2>1, RenewReadFields DEF RenewReads
    <2>2. CASE EndRead(r)
      BY <1>0, <2>2, EndReadFields DEF EndReads
    <2> QED
      BY <2>1, <2>2
  <1>2. Credit(req'[r]) = 0
    BY <1>1 DEF Credit
  <1>3. \A j \in Requests : sess'[j].prepaid =< cap[j]
    BY <1>0, <1>1, CapsHold DEF tables
  <1>4. req'[r].row.prepaid =< cap[k]
    BY <1>0, <1>1, CapsHold
  <1>5. UNCHANGED <<user, pkg>>
    BY <1>1 DEF tables
  <1> QED
    BY <1>1, <1>2, <1>3, <1>4, <1>5, NothingPaid

(* An end saves no more than it read. *)
LEMMA EndSaveMoves ==
  ASSUME HallInv, NEW r \in Requests, EndSave(r), NEW cap \in [Requests -> Nat], Credited(cap)
  PROVE  \E k \in Requests : CreditMoves(r, cap, k, 0, 0)
  <1>0. TypeOK /\ DeskInv(r) /\ req[r].pc = "endSave" /\ "endStation" \in Labels
    BY DEF HallInv, CodeInv, TypeInv, EndSave, Labels
  <1>1. PICK k \in Requests : EndSaves(r, k)
    BY EndSaveFields
  <1>2. Goto(r, "endStation") /\ UNCHANGED <<user, pkg>>
    BY DEF EndSave
  <1>3. req'[r].pc = "endStation" /\ \A q \in Requests \ {r} : req'[q] = req[q]
    BY <1>0, <1>2, GotoState
  <1>4. \A j \in Requests : sess'[j].prepaid =< cap[j]
    <2>1. req[r].row.prepaid =< cap[k]
      BY <1>0, <1>1 DEF Credited, Billing, EndSaves
    <2> QED
      BY <1>0, <1>1, <2>1, CapsHold DEF EndSaves
  <1>5. Credit(req'[r]) = 0 /\ req'[r].pc \notin Billing
    BY <1>3 DEF Credit, Billing
  <1> QED
    BY <1>2, <1>3, <1>4, <1>5, NothingPaid

(* A renewal saves what it read and the minutes it has paid for. *)
LEMMA RenewSaveMoves ==
  ASSUME HallInv, NEW r \in Requests, RenewSave(r), NEW cap \in [Requests -> Nat], Credited(cap)
  PROVE  \E k \in Requests, extra \in Nat : CreditMoves(r, cap, k, extra, 0)
  <1>0. TypeOK /\ req[r].pc = "renewSave" /\ req[r] \in RequestStates
    BY DEF HallInv, CodeInv, TypeInv, TypeOK, RenewSave
  <1>1. PICK k \in Requests, prepaid \in Nat : RenewSaves(r, k, prepaid)
    BY RenewSaveFields
  <1>2. PICK minutes \in Nat, before \in Nat : minutes = req[r].minutes /\ before = req[r].row.prepaid
    BY <1>0 DEF RequestStates, SessionRows
  <1>3. Commit(r) /\ UNCHANGED <<user, pkg>>
    BY DEF RenewSave
  <1>4. req'[r].pc = "done" /\ \A q \in Requests \ {r} : req'[q] = req[q]
    BY <1>0, <1>3, ReturnIsFree DEF Commit
  <1>5. \A j \in Requests : sess'[j].prepaid =< (IF j = k THEN cap[j] + minutes ELSE cap[j])
    <2>1. before =< cap[k] /\ cap[k] \in Nat
      BY <1>0, <1>1, <1>2 DEF Credited, Billing, RenewSaves
    <2>2. sess'[k].prepaid = before + minutes /\ \A j \in Requests \ {k} : sess'[j] = sess[j]
      BY <1>1, <1>2 DEF RenewSaves
    <2>3. sess'[k].prepaid =< cap[k] + minutes
      BY <2>1, <2>2
    <2> QED
      BY <1>0, <2>2, <2>3, CapsHold
  <1>6. Credit(req'[r]) + Price * minutes =< Credit(req[r]) + 0
    <2>1. Credit(req'[r]) = 0 /\ Credit(req[r]) = Price * minutes
      BY <1>0, <1>2, <1>4 DEF Credit
    <2>2. Price * minutes \in Nat
      BY NumbersAssumption
    <2> QED
      BY <2>1, <2>2
  <1>7. PaidMinutes' = PaidMinutes + 0
    <2>1. PaidMinutes' = PaidMinutes
      BY <1>3 DEF PaidMinutes
    <2> QED
      BY <1>0, <2>1, PaidType
  <1>8. CreditMoves(r, cap, k, minutes, 0)
    BY <1>4, <1>5, <1>6, <1>7 DEF CreditMoves, Billing
  <1> QED
    BY <1>8

(* What the packages give goes to the account; what they do not is still due. *)
LEMMA ChargePackagesMoves ==
  ASSUME HallInv, HallInv', NEW r \in Requests, ChargePackages(r),
         NEW cap \in [Requests -> Nat], Credited(cap)
  PROVE  \E k \in Requests, paid \in Nat : CreditMoves(r, cap, k, 0, paid)
  <1>0. TypeOK /\ TypeOK' /\ DeskInv(r) /\ req[r].pc = "chargePackages" /\ req[r] \in RequestStates
    BY DEF HallInv, CodeInv, TypeInv, TypeOK, ChargePackages
  <1>1. PICK covered \in Nat, cost \in Nat : PackagesPay(r, covered, cost)
    BY ChargePackagesFields
  <1>2. PICK u \in Users, k \in Requests, minutes \in Nat, next \in {"renewSave", "endSave"} :
          /\ u = req[r].user /\ k = req[r].session
          /\ minutes = req[r].minutes /\ next = req[r].next
    BY <1>0 DEF DeskInv, DeskComplete, Billing, RequestStates
  <1>3. PICK paid \in Nat : paid = Price * covered
    BY NumbersAssumption
  <1>4. Price * minutes = paid + cost /\ Price * minutes \in Nat
    BY <1>1, <1>2, <1>3, NumbersAssumption DEF PackagesPay
  <1>5. PaidMinutes' = PaidMinutes + paid
    <2>1. /\ pkg'[u] = pkg[u] - covered /\ \A v \in Users \ {u} : pkg'[v] = pkg[v]
          /\ \A v \in Users : user'[v].balance = user[v].balance
      BY <1>1, <1>2 DEF PackagesPay
    <2>2. user'[u].balance = user[u].balance - 0
      BY <1>0, <2>1 DEF TypeOK, UserRows
    <2>3. PaidMinutes' = PaidMinutes + (Price * covered + 0)
      BY <1>0, <2>1, <2>2, PaymentIsPaid
    <2> QED
      BY <1>3, <2>3
  <1>6. /\ req'[r].pc = (IF cost = 0 THEN next ELSE "chargeBalance") /\ req'[r].due = cost
        /\ req'[r].next = next /\ req'[r].minutes = minutes
        /\ req'[r].session = k /\ req'[r].row = req[r].row
        /\ sess' = sess /\ \A q \in Requests \ {r} : req'[q] = req[q]
    BY <1>1, <1>2 DEF PackagesPay
  <1>7. Credit(req'[r]) =< paid
    <2>1. CASE next = "endSave"
      BY <1>6, <2>1 DEF Credit
    <2>2. CASE next = "renewSave" /\ cost = 0
      <3>1. Credit(req'[r]) = Price * minutes
        BY <1>6, <2>2 DEF Credit
      <3> QED
        BY <1>4, <2>2, <3>1
    <2>3. CASE next = "renewSave" /\ cost # 0
      <3>1. Credit(req'[r]) = Price * minutes - cost
        BY <1>6, <2>3 DEF Credit
      <3> QED
        BY <1>4, <3>1
    <2> QED
      BY <2>1, <2>2, <2>3
  <1>8. Credit(req'[r]) + Price * 0 =< Credit(req[r]) + paid
    <2>1. Credit(req[r]) = 0
      BY <1>0 DEF Credit
    <2>2. Credit(req'[r]) \in Nat
      BY <1>0, CreditType, ZenonT(30) DEF HallInv, DeskInv, DeskComplete, Billing, TypeOK
    <2> QED
      BY <1>7, <2>1, <2>2, NumbersAssumption
  <1>9. \A j \in Requests : sess'[j].prepaid =< (IF j = k THEN cap[j] + 0 ELSE cap[j])
    BY <1>0, <1>6, CapsHold
  <1>10. req'[r].row.prepaid =< cap[k]
    BY <1>0, <1>2, <1>6 DEF Credited, Billing
  <1>11. CreditMoves(r, cap, k, 0, paid)
    BY <1>5, <1>6, <1>8, <1>9, <1>10 DEF CreditMoves
  <1> QED
    BY <1>11

(* The balance pays what was due. *)
LEMMA ChargeBalanceMoves ==
  ASSUME HallInv, HallInv', NEW r \in Requests, ChargeBalance(r), ~Refuse(r),
         NEW cap \in [Requests -> Nat], Credited(cap)
  PROVE  \E k \in Requests, paid \in Nat : CreditMoves(r, cap, k, 0, paid)
  <1>0. /\ TypeOK /\ TypeOK' /\ DeskInv(r) /\ req[r].pc = "chargeBalance" /\ req[r] \in RequestStates
        /\ BalancePays(r)
    BY ChargeBalanceFields DEF HallInv, CodeInv, TypeInv, TypeOK, ChargeBalance
  <1>1. PICK u \in Users, k \in Requests, minutes \in Nat, next \in {"renewSave", "endSave"},
             paid \in Nat :
          /\ u = req[r].user /\ k = req[r].session
          /\ minutes = req[r].minutes /\ next = req[r].next /\ paid = req[r].due
          /\ paid =< Price * minutes
    BY <1>0 DEF DeskInv, DeskComplete, Billing, RequestStates
  <1>2. Price * minutes \in Nat
    BY NumbersAssumption
  <1>3. PaidMinutes' = PaidMinutes + paid
    <2>1. /\ user'[u].balance = user[u].balance - paid /\ pkg' = pkg
          /\ \A v \in Users \ {u} : user'[v].balance = user[v].balance
      BY <1>0, <1>1 DEF BalancePays
    <2>2. pkg'[u] = pkg[u] - 0 /\ \A v \in Users \ {u} : pkg'[v] = pkg[v]
      BY <1>0, <2>1 DEF TypeOK
    <2>3. PaidMinutes' = PaidMinutes + (Price * 0 + paid)
      BY <1>0, <2>1, <2>2, PaymentIsPaid, ZenonT(30)
    <2>4. Price * 0 + paid = paid
      BY NumbersAssumption
    <2> QED
      BY <2>3, <2>4
  <1>4. /\ req'[r].pc = next /\ req'[r].minutes = minutes
        /\ req'[r].session = k /\ req'[r].row = req[r].row
        /\ sess' = sess /\ \A q \in Requests \ {r} : req'[q] = req[q]
    <2>1. next \in Labels /\ Goto(r, next) /\ sess' = sess
      BY <1>0, <1>1 DEF BalancePays, Labels
    <2> QED
      BY <1>0, <1>1, <2>1, GotoState
  <1>5. Credit(req'[r]) + Price * 0 =< Credit(req[r]) + paid
    <2>1. CASE next = "endSave"
      <3>1. Credit(req'[r]) = 0
        BY <1>4, <2>1 DEF Credit
      <3> QED
        BY <3>1, CreditOf, NumbersAssumption
    <2>2. CASE next = "renewSave"
      <3>1. Credit(req'[r]) = Price * minutes /\ Credit(req[r]) = Price * minutes - paid
        BY <1>0, <1>1, <1>4, <2>2 DEF Credit
      <3> QED
        BY <1>2, <3>1, NumbersAssumption
    <2> QED
      BY <2>1, <2>2
  <1>6. \A j \in Requests : sess'[j].prepaid =< (IF j = k THEN cap[j] + 0 ELSE cap[j])
    BY <1>0, <1>4, CapsHold
  <1>7. req'[r].row.prepaid =< cap[k]
    BY <1>0, <1>1, <1>4 DEF Credited, Billing
  <1>8. CreditMoves(r, cap, k, 0, paid)
    BY <1>3, <1>4, <1>5, <1>6, <1>7 DEF CreditMoves
  <1> QED
    BY <1>8

(* A scan opens its session with the minutes it charges. *)
LEMMA VerifyCommitMoves ==
  ASSUME HallInv, HallInv', NEW r \in Requests, VerifyCommit(r), ~Refuse(r),
         NEW cap \in [Requests -> Nat], Credited(cap)
  PROVE  \E extra, paid \in Nat : CreditMoves(r, cap, r, extra, paid)
  <1>0. TypeInv /\ TypeOK /\ TypeOK' /\ req[r].pc = "scanCharge"
    BY ZenonT(30) DEF HallInv, CodeInv, TypeInv, VerifyCommit
  <1>1. PICK u \in Users : u = req[r].user
    BY <1>0 DEF TypeInv, ScanningComplete, Scanning
  <1>2. PICK prepaid \in Nat, covered \in Nat, cost \in Nat :
          /\ Price * prepaid = Price * covered + cost
          /\ sess'[r].prepaid = prepaid /\ \A k \in Requests \ {r} : sess'[k] = sess[k]
          /\ pkg'[u] = pkg[u] - covered /\ user'[u].balance = user[u].balance - cost
          /\ \A v \in Users \ {u} : pkg'[v] = pkg[v] /\ user'[v].balance = user[v].balance
    BY <1>0, <1>1, VerifyCommitPays
  <1>3. PICK paid \in Nat : paid = Price * covered + cost
    BY NumbersAssumption
  <1>4. PaidMinutes' = PaidMinutes + paid
    BY <1>0, <1>2, <1>3, PaymentIsPaid
  <1>5. req'[r].pc = "done" /\ \A q \in Requests \ {r} : req'[q] = req[q]
    BY <1>0, ReturnIsFree, ZenonT(30) DEF VerifyCommit, Commit
  <1>6. \A j \in Requests : sess'[j].prepaid =< (IF j = r THEN cap[j] + prepaid ELSE cap[j])
    <2>1. sess'[r].prepaid =< cap[r] + prepaid
      BY <1>2
    <2> QED
      BY <1>0, <1>2, <2>1, CapsHold
  <1>7. Credit(req'[r]) + Price * prepaid =< Credit(req[r]) + paid
    <2>1. Credit(req'[r]) = 0 /\ Credit(req[r]) = 0
      BY <1>0, <1>5 DEF Credit
    <2> QED
      BY <1>2, <1>3, <2>1
  <1>8. CreditMoves(r, cap, r, prepaid, paid)
    BY <1>4, <1>5, <1>6, <1>7 DEF CreditMoves, Billing
  <1> QED
    BY <1>8

(* Every step of every service keeps the account. *)
LEMMA AnswerUnbilled ==
  ASSUME TypeOK, NEW r \in Requests, NEW answer \in Answers,
         Return(r, answer), UNCHANGED <<sess, user, pkg>>
  PROVE  Unbilled(r)
  <1>1. req'[r].pc = "done" /\ \A q \in Requests \ {r} : req'[q] = req[q]
    BY ReturnIsFree
  <1> QED
    BY <1>1, UnbilledIf DEF Billing

LEMMA BootUnbilled ==
  ASSUME TypeInv, NEW r \in Requests, Generate(r) \/ (Verify(r) /\ (Refuse(r) \/ ~VerifyCommit(r)))
  PROVE  Unbilled(r)
  <1>1. TypeOK /\ BootFrame(r)
    BY GenerateFrame, VerifyFrame DEF TypeInv
  <1>2. req'[r].pc \notin Billing
    BY <1>1 DEF BootFrame, Booting, Generating, Scanning, Billing
  <1> QED
    BY <1>1, <1>2, UnbilledIf DEF BootFrame

LEMMA ServeBills ==
  ASSUME HallInv, NEW r \in Requests, Serve(r) \/ Fail(r) \/ DeadlockVictim(r)
  PROVE  \/ Unbilled(r)
         \/ ~Refuse(r) /\ (VerifyCommit(r) \/ RenewRead(r) \/ EndRead(r) \/ ChargeBalance(r))
         \/ RenewSave(r) \/ EndSave(r) \/ ChargePackages(r)
  <1>0. TypeOK /\ TypeInv
    BY DEF HallInv, CodeInv, TypeInv
  <1>1. CASE \E answer \in Answers : Return(r, answer) /\ UNCHANGED <<sess, user, pkg>>
    BY <1>0, <1>1, AnswerUnbilled
  <1>2. CASE Refuse(r) \/ Fail(r) \/ DeadlockVictim(r) \/ (EndStation(r) /\ ~Refuse(r))
    <2>1. \E answer \in Answers : Return(r, answer) /\ UNCHANGED <<sess, user, pkg>>
      BY <1>2 DEF Refuse, Fail, DeadlockVictim, EndStation, Commit, Answers, tables
    <2> QED
      BY <1>1, <2>1
  <1>3. CASE Serve(r)
    <2>1. CASE Generate(r) \/ (Verify(r) /\ ~VerifyCommit(r))
      BY <1>0, <2>1, BootUnbilled
    <2>2. CASE Create(r) \/ Confirm(r) \/ Cancel(r) \/ CheckIn(r) \/ Start(r)
               \/ UpdateStatus(r) \/ Update(r) \/ DeleteStation(r)
      BY <1>0, <2>2, CreateUnbilled, ReservationUnbilled, StartUnbilled, StationUnbilled
    <2>3. CASE Renew(r) \/ End(r) \/ Charge(r)
      BY <1>2, <2>3 DEF Renew, End, Charge
    <2> QED
      BY <1>2, <1>3, <2>1, <2>2, <2>3 DEF Serve
  <1> QED
    BY <1>2, <1>3

LEMMA ServeKeepsCredit ==
  ASSUME HallInv, HallInv', CreditInv, NEW r \in Requests, Serve(r) \/ Fail(r) \/ DeadlockVictim(r)
  PROVE  CreditInv'
  <1>1. CASE Unbilled(r)
    BY <1>1, UnbilledKeepsCredit
  <1>2. CASE ~Unbilled(r)
    <2>1. PICK cap \in [Requests -> Nat] : Credited(cap)
      BY DEF CreditInv
    <2>2. \E k \in Requests, extra, paid \in Nat : CreditMoves(r, cap, k, extra, paid)
      <3>1. CASE ~Refuse(r) /\ VerifyCommit(r)
        BY <2>1, <3>1, VerifyCommitMoves
      <3>2. CASE ~Refuse(r) /\ (RenewRead(r) \/ EndRead(r))
        BY <2>1, <3>2, ReadMoves
      <3>3. CASE ~Refuse(r) /\ ChargeBalance(r)
        BY <2>1, <3>3, ChargeBalanceMoves
      <3>4. CASE RenewSave(r)
        BY <2>1, <3>4, RenewSaveMoves
      <3>5. CASE EndSave(r)
        BY <2>1, <3>5, EndSaveMoves
      <3>6. CASE ChargePackages(r)
        BY <2>1, <3>6, ChargePackagesMoves
      <3> QED
        BY <1>2, <3>1, <3>2, <3>3, <3>4, <3>5, <3>6, ServeBills
    <2> QED
      BY <2>1, <2>2, CreditedAgain
  <1> QED
    BY <1>1, <1>2

LEMMA HallNextKeepsCredit ==
  HallInv /\ CreditInv /\ [HallNext]_vars => HallInv' /\ CreditInv'
  <1> SUFFICES ASSUME HallInv, CreditInv, [HallNext]_vars PROVE HallInv' /\ CreditInv'
    OBVIOUS
  <1>1. HallInv'
    BY HallNextKeeps
  <1>2. CASE \E r \in Requests : Serve(r) \/ Fail(r) \/ DeadlockVictim(r)
    BY <1>1, <1>2, ServeKeepsCredit
  <1>3. CASE UNCHANGED <<sess, user, pkg, req>>
    <2>1. PICK cap \in [Requests -> Nat] : Credited(cap)
      BY DEF CreditInv
    <2>2. Credited(cap)'
      <3>1. PaidMinutes' = PaidMinutes
        BY <1>3 DEF PaidMinutes
      <3>2. [r \in Requests |-> Credit(req[r])]' = [r \in Requests |-> Credit(req[r])]
        BY <1>3 DEF Credit
      <3> QED
        BY <1>3, <2>1, <3>1, <3>2 DEF Credited
    <2> QED
      BY <1>1, <2>2 DEF CreditInv
  <1> QED
    BY <1>1, <1>2, <1>3 DEF HallNext, Tick, vars, tables

(* At the start nobody has paid and nothing is prepaid. *)
LEMMA HallStartCredit == HallInit => CreditInv
  <1> SUFFICES ASSUME HallInit PROVE CreditInv
    OBVIOUS
  <1>0. Price \in Nat /\ Balance0 \in [Users -> Nat] /\ Package0 \in [Users -> Nat]
    BY NumbersAssumption, WalletAssumption
  <1>1. PICK cap \in [Requests -> Nat] : \A k \in Requests : cap[k] = 0
    <2>1. [k \in Requests |-> 0] \in [Requests -> Nat]
      OBVIOUS
    <2> QED
      BY <2>1
  <1>2. \A k \in Requests : sess[k].prepaid = 0 /\ req[k].pc = "new"
    BY DEF HallInit, BootInit, NoSession, NewRequest
  <1>3. PICK caps, credits, paid :
          /\ caps = [k \in Requests |-> Price * cap[k]]
          /\ credits = [r \in Requests |-> Credit(req[r])]
          /\ paid = [u \in Users |-> Price * (Package0[u] - pkg[u]) + (Balance0[u] - user[u].balance)]
    OBVIOUS
  <1>4. SumFunctionOnSet(caps, Requests) = 0
    <2>1. \A k \in Requests : caps[k] = 0
      BY <1>0, <1>1, <1>3
    <2> QED
      BY <2>1, SumOfZeros, FiniteAssumption
  <1>5. SumFunctionOnSet(credits, Requests) = 0
    <2>1. \A k \in Requests : credits[k] = 0
      BY <1>2, <1>3 DEF Credit
    <2> QED
      BY <2>1, SumOfZeros, FiniteAssumption
  <1>6. SumFunctionOnSet(paid, Users) = 0
    <2>1. pkg = Package0 /\ \A u \in Users : user[u].balance = Balance0[u]
      BY DEF HallInit, BootInit
    <2>2. \A u \in Users : Package0[u] - pkg[u] = 0 /\ Balance0[u] - user[u].balance = 0
      BY <1>0, <2>1
    <2>3. \A u \in Users : paid[u] = 0
      BY <1>0, <1>3, <2>2
    <2> QED
      BY <2>3, SumOfZeros, FiniteAssumption
  <1>7. /\ SumFunction([k \in Requests |-> Price * cap[k]]) = 0
        /\ SumFunction([r \in Requests |-> Credit(req[r])]) = 0
        /\ PaidMinutes = 0
    BY <1>3, <1>4, <1>5, <1>6 DEF SumFunction, PaidMinutes
  <1>8. Credited(cap)
    BY <1>1, <1>2, <1>7 DEF Credited, Billing
  <1> QED
    BY <1>8 DEF CreditInv

(* What was credited bounds what is prepaid. *)
LEMMA CreditIsEnough ==
  ASSUME HallInv, CreditInv
  PROVE  PrepaidIsPaid
  <1>0. TypeOK /\ Price \in Nat
    BY NumbersAssumption DEF HallInv, CodeInv, TypeInv
  <1>1. PICK cap \in [Requests -> Nat] : Credited(cap)
    BY DEF CreditInv
  <1>2. PICK caps, credits, prepaids :
          /\ caps = [k \in Requests |-> Price * cap[k]]
          /\ credits = [r \in Requests |-> Credit(req[r])]
          /\ prepaids = [k \in Requests |-> Price * sess[k].prepaid]
    OBVIOUS
  <1>3. SumFunctionOnSet(caps, Requests) + SumFunctionOnSet(credits, Requests) =< PaidMinutes
    BY <1>1, <1>2 DEF Credited, SumFunction
  <1>4. \A k \in Requests : caps[k] \in Nat /\ prepaids[k] \in Nat /\ prepaids[k] =< caps[k]
    <2>1. ASSUME NEW k \in Requests
          PROVE  caps[k] \in Nat /\ prepaids[k] \in Nat /\ prepaids[k] =< caps[k]
      <3>1. PICK have \in Nat, more \in Nat : sess[k].prepaid = have /\ cap[k] = have + more
        <4>1. cap[k] \in Nat /\ sess[k].prepaid \in Nat /\ sess[k].prepaid =< cap[k]
          BY <1>0, <1>1, CapsHold
        <4>2. cap[k] - sess[k].prepaid \in Nat
                /\ cap[k] = sess[k].prepaid + (cap[k] - sess[k].prepaid)
          BY <4>1
        <4> QED
          BY <4>1, <4>2
      <3>2. Price * (have + more) = Price * have + Price * more
        BY <1>0
      <3>3. Price * have \in Nat /\ Price * more \in Nat
        BY <1>0
      <3>4. caps[k] = Price * (have + more) /\ prepaids[k] = Price * have
        BY <1>2, <3>1
      <3> QED
        BY <3>2, <3>3, <3>4
    <2> QED
      BY <2>1
  <1>5. SumFunctionOnSet(prepaids, Requests) =< SumFunctionOnSet(caps, Requests)
    BY <1>4, SumLessOrEqual, FiniteAssumption
  <1>6. SumFunctionOnSet(credits, Requests) \in Nat
    <2>1. \A r \in Requests : credits[r] \in Nat
      BY <1>2, CreditOf
    <2> QED
      BY <2>1, SumOfPart, FiniteAssumption
  <1>7. /\ SumFunctionOnSet(caps, Requests) \in Int /\ SumFunctionOnSet(prepaids, Requests) \in Int
        /\ PaidMinutes \in Int
    BY <1>0, <1>4, SumType, PaidType, FiniteAssumption
  <1>8. PrepaidMinutes = SumFunctionOnSet(prepaids, Requests)
    BY <1>2 DEF PrepaidMinutes, SumFunction
  <1> QED
    BY <1>3, <1>5, <1>6, <1>7, <1>8 DEF PrepaidIsPaid

(* However scans, renewals and ends interleave, save stale rows or fail half way, the    *)
(* prepaid minutes of all sessions were paid for from packages and balances.              *)
THEOREM HallPrepaidIsPaid == HallSpec => []PrepaidIsPaid
  <1>1. HallInit => HallInv /\ CreditInv
    BY HallStart, HallStartCredit
  <1>2. (HallInv /\ CreditInv) /\ [HallNext]_vars => (HallInv /\ CreditInv)'
    BY HallNextKeepsCredit
  <1>3. HallInv /\ CreditInv => PrepaidIsPaid
    BY CreditIsEnough
  <1> QED
    BY <1>1, <1>2, <1>3, PTL DEF HallSpec
-----------------------------------------------------------------------------
(* The pool of connections *)

(* Only an open transaction has rows locked. *)
LocksNeedTransaction(r) == held[r] # {} => InTransaction(req[r].pc)

(* Never more connections than the pool has; a request has no more of them than its next *)
(* statement needs, that of its transaction while this is open, and none before it       *)
(* begins and after it is answered; whoever has rows locked has a connection.            *)
Connections(r) == /\ conns[r] =< Needed(r)
                  /\ InTransaction(req[r].pc) => conns[r] >= 1
                  /\ req[r].pc \in {"new", "done"} => conns[r] = 0
                  /\ LocksNeedTransaction(r) /\ (held[r] # {} => conns[r] >= 1)
PoolInv == /\ conns \in [Requests -> Nat]
           /\ InUse =< MaxOpenConns
           /\ \A r \in Requests : Connections(r)

(* The functions of one request write no variable of another. *)
LEMMA ServeMovesOne ==
  ASSUME HallInv, NEW r \in Requests, Serve(r) \/ Fail(r)
  PROVE  /\ req'[r].pc \in Labels /\ LocksOnlyFree(r)
         /\ \A q \in Requests \ {r} : req'[q] = req[q]
  <1>0. TypeOK /\ TypeInv
    BY DEF HallInv, CodeInv, TypeInv
  <1>1. req'[r].pc \in Labels
    <2>1. TypeOK'
      BY HallNextKeeps DEF HallNext, HallInv, CodeInv, TypeInv
    <2> QED
      BY <2>1 DEF TypeOK, RequestStates
  <1>2. CASE Generate(r) \/ (Verify(r) /\ (Refuse(r) \/ ~VerifyCommit(r)))
    BY <1>0, <1>1, <1>2, GenerateFrame, VerifyFrame DEF BootFrame
  <1>3. CASE VerifyCommit(r) /\ ~Refuse(r)
    <2>1. \E answer \in Answers : Return(r, answer)
      BY <1>3, ZenonT(30) DEF VerifyCommit, Commit, Answers
    <2> QED
      BY <1>0, <1>1, <2>1, ReturnIsFree
  <1>4. CASE DeskStep(r)
    BY <1>1, <1>4 DEF DeskStep
  <1>5. CASE \E answer \in Answers : Return(r, answer) /\ UNCHANGED <<clock, tables>>
    BY <1>0, <1>1, <1>5, ReturnIsFree
  <1> QED
    BY <1>2, <1>3, <1>4, <1>5, ServeCases

(* How a statement may leave the locks of its request: it ends the request, it belongs to a *)
(* transaction that stays open, or it neither is in one nor locks a row.                    *)
LocksEnd(r) == \/ \E answer \in Answers : Return(r, answer)
               \/ InTransaction(req'[r].pc)
               \/ ~InTransaction(req[r].pc) /\ UNCHANGED held

LEMMA EndsLocks ==
  ASSUME NEW r \in Requests, Refuse(r) \/ Commit(r) \/ Return(r, "ok") \/ Return(r, "refused")
  PROVE  LocksEnd(r)
  BY DEF LocksEnd, Refuse, Commit, Answers

LEMMA OpensTransaction ==
  ASSUME TypeOK, NEW r \in Requests, NEW label \in Labels, Goto(r, label), InTransaction(label)
  PROVE  LocksEnd(r)
  BY GotoFields, ZenonT(30) DEF LocksEnd

LEMMA TakesNoRow ==
  ASSUME NEW r \in Requests, ~InTransaction(req[r].pc), UNCHANGED held
  PROVE  LocksEnd(r)
  BY DEF LocksEnd

LEMMA GenerateLocks ==
  ASSUME TypeOK, NEW r \in Requests, Generate(r)
  PROVE  LocksEnd(r)
  <1>1. CASE Refuse(r) \/ GenerateInsert(r)
    BY <1>1, EndsLocks, ZenonT(30) DEF GenerateInsert
  <1>2. CASE (GenerateRead(r) \/ GenerateStation(r)) /\ ~Refuse(r)
    <2>1. req[r].pc \in {"new", "genStation"} /\ UNCHANGED held
      BY <1>2 DEF GenerateRead, GenerateStation
    <2> QED
      BY <2>1, TakesNoRow, ZenonT(30) DEF InTransaction
  <1>3. CASE GenerateLock(r) /\ ~Refuse(r)
    BY <1>3, OpensTransaction DEF GenerateLock, Labels, InTransaction
  <1>4. CASE GenerateRevoke(r)
    <2>1. req'[r].pc = "genInsert"
      BY <1>4 DEF GenerateRevoke, TypeOK, RequestStates
    <2> QED
      BY <2>1 DEF LocksEnd, InTransaction
  <1> QED
    BY <1>1, <1>2, <1>3, <1>4, ZenonT(30) DEF Generate, GenerateExhausted

LEMMA VerifyLocks ==
  ASSUME TypeInv, NEW r \in Requests, Verify(r)
  PROVE  LocksEnd(r)
  <1>0. TypeOK
    BY DEF TypeInv
  <1>1. CASE Refuse(r)
    BY <1>1, EndsLocks
  <1>2. CASE VerifyBegin(r) /\ ~Refuse(r)
    BY <1>2, VerifyBeginFields, TakesNoRow DEF InTransaction
  <1>3. CASE VerifyCode(r) /\ ~Refuse(r)
    <2>1. CASE req'[r].pc = "scanReservation"
      BY <2>1 DEF LocksEnd, InTransaction
    <2>2. CASE req'[r].pc = "scanExpire"
      BY <1>3, <2>2, VerifyCodeFields, TakesNoRow DEF InTransaction
    <2> QED
      BY <1>3, <2>1, <2>2, VerifyCodeFields
  <1>4. CASE (VerifyReservation(r) \/ VerifyStation(r) \/ VerifyNoSession(r)) /\ ~Refuse(r)
    <2>1. PICK label \in {"scanStation", "scanSession", "scanMember"} : Goto(r, label)
      BY <1>4, ZenonT(30) DEF VerifyReservation, VerifyStation, VerifyNoSession
    <2> QED
      BY <1>0, <2>1, OpensTransaction DEF Labels, InTransaction
  <1>5. CASE VerifyMember(r) /\ ~Refuse(r)
    <2>0. req' = [req EXCEPT ![r] = [@ EXCEPT !.pc = "scanCharge", !.at = clock]]
      BY <1>5 DEF VerifyMember
    <2>1. req'[r].pc = "scanCharge"
      BY <1>0, <2>0 DEF TypeOK, RequestStates
    <2> QED
      BY <2>1 DEF LocksEnd, InTransaction
  <1>6. CASE (VerifyCommit(r) /\ ~Refuse(r)) \/ MarkExpired(r)
    <2>1. Commit(r) \/ Return(r, "refused")
      BY <1>6, ZenonT(30) DEF VerifyCommit, MarkExpired
    <2> QED
      BY <2>1, EndsLocks
  <1> QED
    BY <1>1, <1>2, <1>3, <1>4, <1>5, <1>6, ZenonT(30) DEF Verify

LEMMA ReservationLocks ==
  ASSUME TypeOK, NEW r \in Requests, Create(r) \/ Confirm(r) \/ Cancel(r) \/ CheckIn(r)
  PROVE  LocksEnd(r)
  <1>1. CASE Refuse(r) \/ Commit(r)
    BY <1>1, EndsLocks
  <1>2. CASE req[r].pc \in {"new", "bookConflict"} /\ UNCHANGED held
    BY <1>2, TakesNoRow DEF InTransaction
  <1>3. CASE \E label \in {"bookInsert", "bookCommit", "cancelStation", "checkInStation"} : Goto(r, label)
    BY <1>3, OpensTransaction DEF Labels, InTransaction
  <1>4. Create(r) => \/ Refuse(r) \/ Commit(r) \/ Goto(r, "bookInsert") \/ Goto(r, "bookCommit")
                     \/ req[r].pc \in {"new", "bookConflict"} /\ UNCHANGED held
    BY ZenonT(30) DEF Create, CreateRead, CreateCountConflict, CreateLock, CreateInsert, CreateCommit
  <1>5. Confirm(r) \/ Cancel(r) \/ CheckIn(r) =>
          \/ Refuse(r) \/ Commit(r) \/ Goto(r, "cancelStation") \/ Goto(r, "checkInStation")
          \/ req[r].pc = "new" /\ UNCHANGED held
    BY ZenonT(30)
    DEF Confirm, Cancel, CheckIn, ConfirmRead, CancelRead, CheckInRead, ReadReservation, ConfirmSave,
        CancelSave, CheckInSave, CancelStation, CheckInStation, SaveLockedStation
  <1> QED
    BY <1>1, <1>2, <1>3, <1>4, <1>5

LEMMA SessionLocks ==
  ASSUME TypeOK, NEW r \in Requests, Start(r) \/ Renew(r) \/ End(r) \/ Charge(r)
  PROVE  LocksEnd(r)
  <1>1. CASE Refuse(r) \/ Commit(r)
    BY <1>1, EndsLocks
  <1>2. CASE req[r].pc \in {"new", "chargePackages", "chargeBalance"} /\ UNCHANGED held
    BY <1>2, TakesNoRow, ZenonT(30) DEF InTransaction
  <1>3. CASE \E label \in {"startReservation", "startCheckIn", "startInsert", "startCommit", "endStation"} :
               Goto(r, label)
    BY <1>3, OpensTransaction, ZenonT(30) DEF Labels, InTransaction
  <1>4. Start(r) => \/ Refuse(r) \/ Commit(r)
                    \/ req[r].pc = "new" /\ UNCHANGED held
                    \/ \E label \in {"startReservation", "startCheckIn", "startInsert", "startCommit"} :
                         Goto(r, label)
    BY DEF Start, StartRead, StartLock, StartReservation, StartCheckIn, StartInsert, StartCommit
  <1>5. Renew(r) \/ End(r) => \/ Refuse(r) \/ Commit(r) \/ Goto(r, "endStation")
                              \/ req[r].pc = "new" /\ UNCHANGED held
    BY ZenonT(30) DEF Renew, End, RenewRead, RenewSave, EndRead, EndSave, EndStation
  <1>6. Charge(r) => \/ Refuse(r)
                     \/ req[r].pc \in {"chargePackages", "chargeBalance"} /\ UNCHANGED held
    BY ZenonT(30) DEF Charge, ChargePackages, ChargeBalance
  <1> QED
    BY <1>1, <1>2, <1>3, <1>4, <1>5, <1>6

LEMMA StationLocks ==
  ASSUME NEW r \in Requests, UpdateStatus(r) \/ Update(r) \/ DeleteStation(r)
  PROVE  LocksEnd(r)
  <1>1. CASE Refuse(r) \/ Commit(r) \/ Return(r, "ok")
    BY <1>1, EndsLocks
  <1>2. CASE req[r].pc = "new" /\ UNCHANGED held
    BY <1>2, TakesNoRow DEF InTransaction
  <1>3. \/ Refuse(r) \/ Commit(r) \/ Return(r, "ok")
        \/ req[r].pc = "new" /\ UNCHANGED held
    BY ZenonT(30)
    DEF UpdateStatus, Update, DeleteStation, UpdateStatusRead, UpdateRead, DeleteRead, StationSave,
        StationDelete
  <1> QED
    BY <1>1, <1>2, <1>3

(* After any statement only an open transaction has rows locked. *)
LEMMA ServeKeepsLocks ==
  ASSUME HallInv, NEW r \in Requests, Serve(r) \/ Fail(r), LocksNeedTransaction(r)
  PROVE  LocksNeedTransaction(r)'
  <1>0. TypeOK /\ TypeInv
    BY DEF HallInv, CodeInv, TypeInv
  <1>1. LocksEnd(r)
    BY <1>0, GenerateLocks, VerifyLocks, ReservationLocks, SessionLocks, StationLocks, ZenonT(30)
    DEF Serve, Fail, LocksEnd, Answers
  <1>2. ASSUME NEW answer \in Answers, Return(r, answer)
        PROVE  held'[r] = {}
    BY <1>0, <1>2 DEF Return, TypeOK
  <1> QED
    BY <1>1, <1>2 DEF LocksEnd, LocksNeedTransaction

(* A pool of the connections that one request changes. *)
LEMMA InUseChange ==
  ASSUME conns \in [Requests -> Nat], NEW r \in Requests, NEW n \in Nat,
         conns' = [conns EXCEPT ![r] = n]
  PROVE  InUse \in Int /\ InUse' = InUse + (n - conns[r])
  <1>1. /\ \A q \in Requests : conns[q] \in Int /\ conns'[q] \in Int
        /\ \A q \in Requests \ {r} : conns'[q] = conns[q]
        /\ conns'[r] = n /\ DOMAIN conns = Requests /\ DOMAIN conns' = Requests
    OBVIOUS
  <1>2. SumFunctionOnSet(conns', Requests)
          = SumFunctionOnSet(conns, Requests) + (conns'[r] - conns[r])
    BY <1>1, SumChange, FiniteAssumption
  <1>3. SumFunctionOnSet(conns, Requests) \in Int
    BY <1>1, SumType, FiniteAssumption
  <1> QED
    BY <1>1, <1>2, <1>3 DEF InUse, SumFunction

(* A request that has run its statement keeps the connection of its transaction only. *)
LEMMA ReleaseKeepsPool ==
  ASSUME PoolInv, NEW r \in Requests, ReleaseConnection(r), req'[r].pc \in Labels,
         \A q \in Requests \ {r} : req'[q] = req[q],
         LocksOnlyFree(r), LocksNeedTransaction(r)',
         \/ conns[r] >= 1 \/ InUse < MaxOpenConns \/ req'[r].pc = "done"
  PROVE  PoolInv'
  <1>1. PICK n \in {0, 1} :
          /\ conns' = [conns EXCEPT ![r] = n]
          /\ n = 1 <=> InTransaction(req'[r].pc)
    <2>1. CASE InTransaction(req'[r].pc)
      BY <2>1 DEF ReleaseConnection
    <2>2. CASE ~InTransaction(req'[r].pc)
      BY <2>2 DEF ReleaseConnection
    <2> QED
      BY <2>1, <2>2
  <1>2. conns' \in [Requests -> Nat]
    BY <1>1 DEF PoolInv
  <1>3. InUse' =< MaxOpenConns
    <2>1. InUse \in Int /\ InUse' = InUse + (n - conns[r])
      BY <1>1, InUseChange DEF PoolInv
    <2>2. req'[r].pc = "done" => n = 0
      BY <1>1 DEF InTransaction
    <2> QED
      BY <2>1, <2>2, PoolAssumption DEF PoolInv
  <1>4. ASSUME NEW q \in Requests
        PROVE  Connections(q)'
    <2>1. CASE q = r
      <3>1. conns'[r] = n /\ conns[r] \in Nat
        BY <1>1 DEF PoolInv
      <3>2. n = 1 => Needed(r)' = 1 /\ req'[r].pc \notin {"new", "done"}
        BY <1>1 DEF InTransaction, Needed
      <3>3. Needed(r)' \in {0, 1, 2}
        BY DEF Needed
      <3> QED
        BY <1>1, <2>1, <3>1, <3>2, <3>3 DEF Connections, LocksNeedTransaction
    <2>2. CASE q # r
      BY <1>1, <2>2 DEF PoolInv, Connections, Needed, LocksNeedTransaction, LocksOnlyFree
    <2> QED
      BY <2>1, <2>2
  <1> QED
    BY <1>2, <1>3, <1>4 DEF PoolInv

(* Every step of the pool keeps the connections in order. *)
LEMMA PoolStep ==
  ASSUME HallInv, PoolInv, NEW r \in Requests,
         TakeConnection(r) \/ Execute(r) \/ LockWaitTimeout(r) \/ (Fail(r) /\ ReleaseConnection(r))
  PROVE  PoolInv'
  <1>0. LocksNeedTransaction(r)
    BY DEF PoolInv, Connections
  <1>1. CASE TakeConnection(r)
    <2>0. conns[r] \in Nat
      BY DEF PoolInv
    <2>1. PICK n \in Nat : /\ conns' = [conns EXCEPT ![r] = n] /\ n = conns[r] + 1
                           /\ UNCHANGED <<req, held>>
      <3>1. conns' = [conns EXCEPT ![r] = conns[r] + 1] /\ UNCHANGED <<req, held>>
        BY <1>1 DEF TakeConnection, vars
      <3>2. conns[r] + 1 \in Nat
        BY <2>0
      <3> QED
        BY <3>1, <3>2
    <2>2. conns' \in [Requests -> Nat]
      BY <2>1 DEF PoolInv
    <2>3. InUse' =< MaxOpenConns
      <3>1. InUse \in Int /\ InUse' = InUse + (n - conns[r])
        BY <2>1, InUseChange DEF PoolInv
      <3>2. InUse < MaxOpenConns
        BY <1>1 DEF TakeConnection
      <3> QED
        BY <2>0, <2>1, <3>1, <3>2, PoolAssumption
    <2>4. ASSUME NEW q \in Requests
          PROVE  Connections(q)'
      <3>1. /\ Needed(q)' = Needed(q) /\ Needed(q) \in {0, 1, 2} /\ req'[q] = req[q]
            /\ held'[q] = held[q]
        BY <2>1 DEF Needed
      <3>2. CASE q = r
        <4>1. conns[r] < Needed(r) /\ req[r].pc \notin {"new", "done"}
          BY <1>1 DEF TakeConnection, InFlight
        <4>2. conns'[r] = conns[r] + 1 /\ conns[r] \in Nat
          BY <2>1 DEF PoolInv
        <4>3. Connections(r)
          BY DEF PoolInv
        <4> QED
          BY <3>1, <3>2, <4>1, <4>2, <4>3 DEF Connections, LocksNeedTransaction
      <3>3. CASE q # r
        BY <2>1, <3>1, <3>3 DEF PoolInv, Connections, LocksNeedTransaction
      <3> QED
        BY <3>2, <3>3
    <2> QED
      BY <2>2, <2>3, <2>4 DEF PoolInv
  <1>2. CASE Execute(r)
    <2>1. conns[r] >= 1 \/ InUse < MaxOpenConns
      BY <1>2 DEF Execute, Needed, Momentary
    <2> QED
      BY <1>0, <1>2, <2>1, ServeMovesOne, ServeKeepsLocks, ReleaseKeepsPool DEF Execute
  <1>3. CASE Fail(r) /\ ReleaseConnection(r)
    <2>1. req'[r].pc = "done"
      BY <1>3, ReturnIsFree DEF Fail, Answers, HallInv, CodeInv, TypeInv
    <2> QED
      BY <1>0, <1>3, <2>1, ServeMovesOne, ServeKeepsLocks, ReleaseKeepsPool
  <1> QED
    BY <1>1, <1>2, <1>3 DEF LockWaitTimeout

(* With its connections to wait for, the hall does nothing it would not do without: what *)
(* is proved of the hall holds on any pool.                                               *)
THEOREM PoolImplementsHall == PoolSpec => HallSpec
  <1>1. PoolInit => HallInit
    BY DEF PoolInit
  <1>2. [PoolNext]_poolVars => [HallNext]_vars
    BY DEF PoolNext, poolVars, TakeConnection, Execute, LockWaitTimeout, HallNext
  <1> QED
    BY <1>1, <1>2, PTL DEF PoolSpec, HallSpec

(* However statements fail, wait and time out: the pool never hands out more connections *)
(* than it has, an open transaction has one, nobody keeps a row locked without one, and  *)
(* who is answered has given all back.                                                   *)
THEOREM PoolKeepsConnections == PoolSpec => []PoolInv
  <1>1. PoolInit => PoolInv
    <2> SUFFICES ASSUME PoolInit PROVE PoolInv
      OBVIOUS
    <2>1. /\ conns \in [Requests -> Nat]
          /\ \A r \in Requests : conns[r] = 0 /\ req[r].pc = "new" /\ held[r] = {}
      BY DEF PoolInit, HallInit, BootInit, NewRequest
    <2>2. InUse = 0
      BY <2>1, SumOfZeros, FiniteAssumption DEF InUse, SumFunction
    <2> QED
      BY <2>1, <2>2, PoolAssumption
      DEF PoolInv, Connections, Needed, InTransaction, LocksNeedTransaction
  <1>2. HallInv /\ PoolInv /\ [PoolNext]_poolVars => PoolInv'
    <2> SUFFICES ASSUME HallInv, PoolInv, [PoolNext]_poolVars PROVE PoolInv'
      OBVIOUS
    <2>1. CASE UNCHANGED <<req, held, conns>>
      BY <2>1 DEF PoolInv, Connections, InUse, Needed, LocksNeedTransaction
    <2> QED
      BY <2>1, PoolStep DEF PoolNext, poolVars, vars, Tick
  <1>3. PoolSpec => []HallInv
    BY PoolImplementsHall, HallInvariant, PTL
  <1> QED
    BY <1>1, <1>2, <1>3, PTL DEF PoolSpec
=============================================================================
