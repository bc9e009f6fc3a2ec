---------------------------- MODULE BootCodeProofs ----------------------------
(***************************************************************************)
(* Proofs about boot codes, for any number of requests, codes,             *)
(* reservations, stations and members, in five layers.                     *)
(*                                                                         *)
(* Types: rows and requests keep the shape of their tables, and each       *)
(* statement runs with the variables it needs assigned.                    *)
(*                                                                         *)
(* Locks: what a transaction has read under a row lock cannot change       *)
(* before it ends, because every action that would change it has to take   *)
(* the same lock.                                                          *)
(*                                                                         *)
(* Seats: when boot codes alone seat members, used codes and sessions      *)
(* match, a reservation is booted once, a station in use has exactly one   *)
(* open session, and nobody is seated early.                               *)
(*                                                                         *)
(* Books: what was prepaid was paid, minute by minute.                     *)
(*                                                                         *)
(* Refinement: the commit of Generate is Issue of BootTicket, the commit   *)
(* of Verify is Redeem, the late mark is Lapse, and every other step is    *)
(* invisible.                                                              *)
(***************************************************************************)
EXTENDS BootCodeInvariant, Sums

-----------------------------------------------------------------------------
(* Types *)

(* A request that moves on, having read more, is still a request. *)
LEMMA GotoType ==
  ASSUME TypeOK, NEW r \in Requests, NEW label \in Labels
  PROVE  Goto(r, label) => req' \in [Requests -> RequestStates]
  <1>1. req[r] \in RequestStates
    BY DEF TypeOK
  <1>2. [req[r] EXCEPT !.pc = label] \in RequestStates
    BY <1>1 DEF RequestStates
  <1> QED
    BY <1>2 DEF TypeOK, Goto

(* A request that is answered holds nothing and remembers nothing. *)
LEMMA ReturnType ==
  ASSUME TypeOK, NEW r \in Requests, NEW answer \in Answers
  PROVE  Return(r, answer) => /\ held' \in [Requests -> SUBSET Rows]
                              /\ req' \in [Requests -> RequestStates]
  <1>1. NewRequest \in RequestStates
    BY DEF NewRequest, RequestStates, Labels, Answers, SessionRows, NoSession, SessionStatuses, StationStatuses
  <1>2. [NewRequest EXCEPT !.pc = "done"] \in RequestStates
    BY <1>1 DEF RequestStates, Labels
  <1>3. [[NewRequest EXCEPT !.pc = "done"] EXCEPT !.ans = answer] \in RequestStates
    BY <1>2, ZenonT(30) DEF RequestStates
  <1>4. [NewRequest EXCEPT !.pc = "done", !.ans = answer] \in RequestStates
    BY <1>3
  <1> QED
    BY <1>4 DEF TypeOK, Return

(* The database at the start: confirmed reservations, and nothing in flight. *)
LEMMA BootInitType == BootInit => TypeInv
  <1> SUFFICES ASSUME BootInit PROVE TypeInv
    OBVIOUS
  <1>1. clock \in Nat /\ station \in [Stations -> StationStatuses]
    BY DEF BootInit, StationStatuses
  <1>2. resv \in [Reservations -> ReservationRows] /\ ReservationsComplete
    <2>1. PICK who \in [Booked -> Users], where \in [Booked -> Stations], when \in [Booked -> Slots] :
            resv = [i \in Reservations |->
                     IF i \in Booked
                     THEN [status |-> "confirmed", user |-> who[i], station |-> where[i],
                           start |-> when[i][1], end |-> when[i][2]]
                     ELSE NoReservation]
      BY DEF BootInit
    <2>2. \A i \in Booked : when[i][1] \in Nat /\ when[i][2] \in Nat
      BY SlotsAssumption
    <2>3. NoReservation \in ReservationRows
      BY DEF NoReservation, ReservationRows, ReservationStatuses
    <2> QED
      BY <2>1, <2>2, <2>3
      DEF Reservations, ReservationsComplete, NoReservation, ReservationRows, ReservationStatuses
  <1>3. boot \in [Codes -> BootCodeRows] /\ CodesComplete
    BY DEF BootInit, NoBootCode, BootCodeRows, BootCodeStatuses, CodesComplete
  <1>4. sess \in [Requests -> SessionRows]
    BY DEF BootInit, NoSession, SessionRows, SessionStatuses
  <1>5. user \in [Users -> UserRows] /\ pkg \in [Users -> Nat]
    BY WalletAssumption DEF BootInit, UserRows
  <1>6. held \in [Requests -> SUBSET Rows]
    BY DEF BootInit
  <1>7. req \in [Requests -> RequestStates]
    BY DEF BootInit, NewRequest, RequestStates, Labels, Answers, SessionRows, NoSession,
           SessionStatuses, StationStatuses
  <1>8. GeneratingComplete /\ ScanningComplete
    BY DEF BootInit, NewRequest, GeneratingComplete, ScanningComplete, Generating, Scanning
  <1> QED
    BY <1>1, <1>2, <1>3, <1>4, <1>5, <1>6, <1>7, <1>8 DEF TypeInv, TypeOK

-----------------------------------------------------------------------------
(* Statements that only read, and every error branch, write no table. *)
LEMMA ReadType ==
  ASSUME TypeInv, NEW r \in Requests, UNCHANGED <<clock, tables>>,
         held' \in [Requests -> SUBSET Rows], req' \in [Requests -> RequestStates],
         \A q \in Requests \ {r} : req'[q] = req[q],
         req'[r].pc \in Generating => /\ req'[r].res \in Reservations
                                      /\ resv[req'[r].res].status # "none",
         req'[r].pc = "genInsert" => \A c \in req'[r].revoked : boot[c].status # "none",
         req'[r].pc \in Scanning => /\ req'[r].res \in Reservations
                                    /\ resv[req'[r].res].status # "none"
                                    /\ req'[r].user \in Users /\ req'[r].station \in Stations,
         req'[r].pc \in Scanning \cup {"scanCode", "scanExpire"} => req'[r].code \in Codes,
         req'[r].pc \in Scanning \cup {"scanExpire"} => boot[req'[r].code].status # "none"
  PROVE  TypeInv'
  <1>1. TypeOK'
    BY DEF TypeInv, TypeOK, tables
  <1>2. ReservationsComplete' /\ CodesComplete'
    BY DEF TypeInv, ReservationsComplete, CodesComplete, tables
  <1>3. GeneratingComplete' /\ ScanningComplete'
    BY DEF TypeInv, GeneratingComplete, ScanningComplete, tables
  <1> QED
    BY <1>1, <1>2, <1>3 DEF TypeInv

(* An error branch writes no table, and the request remembers nothing. *)
LEMMA RefuseType ==
  ASSUME TypeInv, NEW r \in Requests, NEW answer \in Answers,
         Return(r, answer), UNCHANGED <<clock, tables>>
  PROVE  TypeInv'
  <1>1. req'[r].pc = "done" /\ \A q \in Requests \ {r} : req'[q] = req[q]
    BY DEF TypeInv, TypeOK, Return, RequestStates, NewRequest
  <1> QED
    BY <1>1, ReturnType, ReadType DEF TypeInv, Generating, Scanning

(* The request moves to label and keeps what it has read. *)
LEMMA GotoFields ==
  ASSUME TypeOK, NEW r \in Requests, NEW label \in Labels, Goto(r, label)
  PROVE  /\ req' \in [Requests -> RequestStates]
         /\ req'[r].pc = label
         /\ req'[r].res = req[r].res /\ req'[r].user = req[r].user
         /\ req'[r].station = req[r].station /\ req'[r].code = req[r].code
         /\ req'[r].revoked = req[r].revoked /\ req'[r].at = req[r].at
         /\ \A q \in Requests \ {r} : req'[q] = req[q]
  <1>1. req[r] \in RequestStates /\ DOMAIN req = Requests
    BY DEF TypeOK
  <1>2. req' = [req EXCEPT ![r] = [req[r] EXCEPT !.pc = label]]
    BY <1>1 DEF Goto
  <1>3. req'[r] = [req[r] EXCEPT !.pc = label] /\ \A q \in Requests \ {r} : req'[q] = req[q]
    BY <1>1, <1>2
  <1>4. req' \in [Requests -> RequestStates]
    BY GotoType
  <1> QED
    BY <1>1, <1>3, <1>4 DEF RequestStates

(* Locking rows of the store keeps the lock table well formed. *)
LEMMA LockType ==
  ASSUME TypeOK, NEW r \in Requests, NEW rows \in SUBSET Rows, Lock(r, rows)
  PROVE  held' \in [Requests -> SUBSET Rows]
  BY DEF TypeOK, Lock

(* A statement that moves on within Generate. *)
LEMMA GenerateGotoType ==
  ASSUME TypeInv, NEW r \in Requests, req[r].pc \in Generating,
         NEW label \in Generating \ {"genInsert"}, Goto(r, label),
         UNCHANGED <<clock, tables>>, held' \in [Requests -> SUBSET Rows]
  PROVE  TypeInv'
  <1>1. label \in Labels /\ label \notin Scanning \cup {"scanCode", "scanExpire"}
    BY DEF Generating, Scanning, Labels
  <1>2. req[r].res \in Reservations /\ resv[req[r].res].status # "none"
    BY DEF TypeInv, GeneratingComplete
  <1> QED
    BY <1>1, <1>2, GotoFields, ReadType DEF TypeInv

(* The first read of Generate leaves the request with a reservation that exists. *)
LEMMA GenerateReadType ==
  ASSUME TypeInv, NEW r \in Requests, GenerateRead(r), ~Refuse(r)
  PROVE  TypeInv'
  <1>1. PICK i \in Reservations :
          /\ resv[i].status = "confirmed"
          /\ req' = [req EXCEPT ![r] = [@ EXCEPT !.pc = "genStation", !.res = i, !.at = clock]]
          /\ UNCHANGED <<clock, tables, held>>
    BY DEF GenerateRead
  <1>2. req' \in [Requests -> RequestStates]
    <2>1. req[r] \in RequestStates /\ clock \in Nat /\ "genStation" \in Labels
      BY DEF TypeInv, TypeOK, Labels
    <2>2. [req[r] EXCEPT !.pc = "genStation", !.res = i, !.at = clock] \in RequestStates
      BY <2>1, ZenonT(30) DEF RequestStates
    <2> QED
      BY <1>1, <2>2 DEF TypeInv, TypeOK
  <1>3. /\ req'[r].pc = "genStation" /\ req'[r].res = i
        /\ \A q \in Requests \ {r} : req'[q] = req[q]
    BY <1>1 DEF TypeInv, TypeOK, RequestStates
  <1>4. req'[r].pc \notin Scanning \cup {"scanCode", "scanExpire"}
    BY <1>3 DEF Scanning
  <1>5. held' \in [Requests -> SUBSET Rows]
    BY <1>1 DEF TypeInv, TypeOK
  <1> QED
    BY <1>1, <1>2, <1>3, <1>4, <1>5, ReadType

(* The end of a request disturbs no other: rows never cease to exist. *)
LEMMA AnsweredKeepsReads ==
  ASSUME TypeInv, NEW r \in Requests, NEW answer \in Answers, Return(r, answer),
         \A i \in Reservations : resv[i].status # "none" => resv'[i].status # "none",
         \A c \in Codes : boot[c].status # "none" => boot'[c].status # "none"
  PROVE  GeneratingComplete' /\ ScanningComplete'
  <1>1. req'[r].pc = "done" /\ \A q \in Requests \ {r} : req'[q] = req[q]
    BY DEF TypeInv, TypeOK, Return, RequestStates, NewRequest
  <1>2. \A q \in Requests : req[q].revoked \in SUBSET Codes
    BY DEF TypeInv, TypeOK, RequestStates
  <1>3. GeneratingComplete'
    BY <1>1, <1>2 DEF TypeInv, GeneratingComplete, Generating
  <1>4. ScanningComplete'
    BY <1>1 DEF TypeInv, ScanningComplete, Scanning
  <1> QED
    BY <1>3, <1>4

(* Every statement of Generate keeps the types; only its commit writes codes. *)
LEMMA GenerateType ==
  ASSUME TypeInv, NEW r \in Requests, Generate(r)
  PROVE  TypeInv'
  <1> USE DEF TypeInv
  <1>1. CASE Refuse(r)
    BY <1>1, RefuseType DEF Refuse, Answers
  <1>2. CASE GenerateRead(r) /\ ~Refuse(r)
    BY <1>2, GenerateReadType
  <1>3. CASE GenerateStation(r) /\ ~Refuse(r)
    BY <1>3, GenerateGotoType DEF GenerateStation, Generating, TypeOK
  <1>4. CASE GenerateLock(r) /\ ~Refuse(r)
    <2>1. Wanted(r) \in SUBSET Rows
      BY <1>4 DEF GenerateLock, Wanted, Rows, GeneratingComplete, Generating
    <2> QED
      BY <1>4, <2>1, LockType, GenerateGotoType DEF GenerateLock, Generating
  <1>5. CASE GenerateRevoke(r)
    <2>1. Wanted(r) \in SUBSET Rows
      BY <1>5 DEF GenerateRevoke, Wanted, Rows, CodesOf
    <2>2. req' \in [Requests -> RequestStates]
      <3> DEFINE active == {c \in CodesOf(req[r].res) : boot[c].status = "active"}
      <3>1. req[r] \in RequestStates /\ active \in SUBSET Codes /\ "genInsert" \in Labels
        BY DEF TypeOK, Labels, CodesOf
      <3>2. [req[r] EXCEPT !.pc = "genInsert", !.revoked = active] \in RequestStates
        BY <3>1, ZenonT(30) DEF RequestStates
      <3> QED
        BY <1>5, <3>2 DEF GenerateRevoke, TypeOK
    <2>3. /\ req'[r].pc = "genInsert" /\ req'[r].res = req[r].res
          /\ \A q \in Requests \ {r} : req'[q] = req[q]
      BY <1>5 DEF GenerateRevoke, TypeOK, RequestStates
    <2>4. req'[r].pc \notin Scanning \cup {"scanCode", "scanExpire"}
      BY <2>3 DEF Scanning
    <2>5. req[r].res \in Reservations /\ resv[req[r].res].status # "none"
      BY <1>5 DEF GenerateRevoke, GeneratingComplete, Generating
    <2>6. held' \in [Requests -> SUBSET Rows] /\ UNCHANGED <<clock, tables>>
      BY <1>5, <2>1, LockType DEF GenerateRevoke
    <2>7. \A c \in req'[r].revoked : boot[c].status # "none"
      BY <1>5 DEF GenerateRevoke, TypeOK, RequestStates, CodesOf
    <2> QED
      BY <2>2, <2>3, <2>4, <2>5, <2>6, <2>7, ReadType
  <1>6. CASE GenerateInsert(r)
    <2>1. PICK c \in Codes, answer \in Answers :
            /\ UniqueCode(c)
            /\ boot' = [b \in Codes |->
                 IF b = c THEN [status |-> "active", res |-> req[r].res, session |-> Nil,
                                user |-> resv[req[r].res].user,
                                station |-> resv[req[r].res].station, expire |-> req[r].at + TTL]
                 ELSE IF b \in req[r].revoked THEN [boot[b] EXCEPT !.status = "cancelled"]
                 ELSE boot[b]]
            /\ Return(r, answer)
      BY <1>6 DEF GenerateInsert, Commit, Answers
    <2>2. /\ req[r].res \in Reservations /\ req[r].at + TTL \in Nat
          /\ resv[req[r].res].user \in Users /\ resv[req[r].res].station \in Stations
      BY <1>6, NumbersAssumption
      DEF GenerateInsert, GeneratingComplete, Generating, ReservationsComplete, TypeOK, RequestStates
    <2>3. boot' \in [Codes -> BootCodeRows]
      BY <2>1, <2>2, SMTT(30) DEF TypeOK, BootCodeRows, BootCodeStatuses
    <2>4. TypeOK'
      BY <1>6, <2>1, <2>3, ReturnType DEF GenerateInsert, TypeOK
    <2>5. CodesComplete' /\ \A d \in Codes : boot[d].status # "none" => boot'[d].status # "none"
      BY <1>6, <2>1, <2>2
      DEF GenerateInsert, CodesComplete, GeneratingComplete, Generating, TypeOK, BootCodeRows
    <2>6. ReservationsComplete'
      BY <1>6 DEF GenerateInsert, ReservationsComplete
    <2>7. GeneratingComplete' /\ ScanningComplete'
      BY <1>6, <2>1, <2>5, AnsweredKeepsReads DEF GenerateInsert
    <2> QED
      BY <2>4, <2>5, <2>6, <2>7
  <1> QED
    BY <1>1, <1>2, <1>3, <1>4, <1>5, <1>6 DEF Generate, GenerateExhausted

(* A scan arrives with the code it was asked to redeem. *)
LEMMA VerifyBeginFields ==
  ASSUME TypeInv, NEW r \in Requests, VerifyBegin(r), ~Refuse(r)
  PROVE  /\ req[r].pc = "new" /\ req'[r].pc = "scanCode" /\ req'[r].code \in Codes
         /\ req' \in [Requests -> RequestStates]
         /\ \A q \in Requests \ {r} : req'[q] = req[q]
         /\ UNCHANGED <<clock, tables, held>>
  <1>1. PICK c \in Codes, ask \in Stations \cup {Nil} :
          /\ req[r].pc = "new"
          /\ req' = [req EXCEPT ![r] = [@ EXCEPT !.pc = "scanCode", !.code = c, !.ask = ask]]
          /\ UNCHANGED <<clock, tables, held>>
    BY DEF VerifyBegin
  <1>2. req[r] \in RequestStates /\ DOMAIN req = Requests /\ "scanCode" \in Labels
    BY DEF TypeInv, TypeOK, Labels
  <1>3. [req[r] EXCEPT !.pc = "scanCode", !.code = c, !.ask = ask] \in RequestStates
    BY <1>2, ZenonT(30) DEF RequestStates
  <1>4. req' \in [Requests -> RequestStates]
    BY <1>1, <1>3 DEF TypeInv, TypeOK
  <1> QED
    BY <1>1, <1>2, <1>4 DEF RequestStates

(* An arriving scan has read nothing yet. *)
LEMMA VerifyBeginType ==
  ASSUME TypeInv, NEW r \in Requests, VerifyBegin(r), ~Refuse(r)
  PROVE  TypeInv'
  <1>1. req'[r].pc = "scanCode" /\ "scanCode" \notin Generating \cup Scanning \cup {"scanExpire"}
    BY VerifyBeginFields DEF Generating, Scanning
  <1>2. held' \in [Requests -> SUBSET Rows]
    BY VerifyBeginFields DEF TypeInv, TypeOK
  <1> QED
    BY <1>1, <1>2, VerifyBeginFields, ReadType, ZenonT(30) DEF Generating

(* The first locking read of Verify: the code can be redeemed and the row is locked, or it *)
(* is left to be marked as expired.                                                        *)
LEMMA VerifyCodeFields ==
  ASSUME TypeInv, NEW r \in Requests, VerifyCode(r), ~Refuse(r)
  PROVE  LET c == req[r].code IN
         /\ req[r].pc = "scanCode" /\ c \in Codes /\ Wanted(r) = {BootCodeRow(c)}
         /\ req' \in [Requests -> RequestStates] /\ req'[r].code = c
         /\ \A q \in Requests \ {r} : req'[q] = req[q]
         /\ UNCHANGED <<clock, tables>>
         /\ \/ /\ req'[r].pc = "scanReservation" /\ Redeemable(c)
               /\ req'[r].res = boot[c].res /\ req'[r].user = boot[c].user
               /\ req'[r].station = boot[c].station
               /\ CanLock(r, Wanted(r)) /\ Lock(r, Wanted(r))
            \/ /\ req'[r].pc = "scanExpire" /\ boot[c].status # "none"
               /\ UNCHANGED held
  <1> DEFINE c == req[r].code
  <1>1. /\ req[r].pc = "scanCode" /\ c \in Codes
        /\ req[r] \in RequestStates /\ DOMAIN req = Requests
    BY DEF VerifyCode, TypeInv, TypeOK, ScanningComplete
  <1>2. Wanted(r) = {BootCodeRow(c)}
    BY <1>1 DEF Wanted
  <1>3. CASE /\ Redeemable(c) /\ CanLock(r, Wanted(r)) /\ Lock(r, Wanted(r))
             /\ req' = [req EXCEPT ![r] = [@ EXCEPT !.pc = "scanReservation", !.res = boot[c].res,
                          !.user = boot[c].user, !.station = boot[c].station]]
             /\ UNCHANGED <<clock, tables>>
    <2>1. /\ boot[c].res \in Reservations /\ boot[c].user \in Users /\ boot[c].station \in Stations
          /\ "scanReservation" \in Labels
      BY <1>1, <1>3 DEF Redeemable, TypeInv, CodesComplete, Labels
    <2>2. [req[r] EXCEPT !.pc = "scanReservation", !.res = boot[c].res, !.user = boot[c].user,
             !.station = boot[c].station] \in RequestStates
      BY <1>1, <2>1, ZenonT(30) DEF RequestStates
    <2>3. req' \in [Requests -> RequestStates]
      BY <1>3, <2>2 DEF TypeInv, TypeOK
    <2> QED
      BY <1>1, <1>2, <1>3, <2>3 DEF RequestStates
  <1>4. CASE /\ boot[c].status \notin {"none", "used"}
             /\ Goto(r, "scanExpire") /\ UNCHANGED <<clock, tables, held>>
    <2>1. "scanExpire" \in Labels
      BY DEF Labels
    <2> QED
      BY <1>1, <1>2, <1>4, <2>1, GotoFields, ZenonT(30) DEF TypeInv
  <1> QED
    BY <1>3, <1>4, ZenonT(30) DEF VerifyCode

(* A scan that goes on has filled its variables from the row of the code. *)
LEMMA VerifyCodeType ==
  ASSUME TypeInv, NEW r \in Requests, VerifyCode(r), ~Refuse(r)
  PROVE  TypeInv'
  <1> DEFINE c == req[r].code
  <1>1. {BootCodeRow(c)} \in SUBSET Rows
    BY VerifyCodeFields DEF Rows
  <1>2. held' \in [Requests -> SUBSET Rows]
    BY <1>1, VerifyCodeFields, LockType DEF TypeInv, TypeOK
  <1>3. CASE req'[r].pc = "scanReservation"
    <2>1. /\ boot[c].status # "none" /\ req'[r].res = boot[c].res
          /\ req'[r].user = boot[c].user /\ req'[r].station = boot[c].station
      BY <1>3, VerifyCodeFields DEF Redeemable
    <2>2. /\ boot[c].res \in Reservations /\ resv[boot[c].res].status # "none"
          /\ boot[c].user \in Users /\ boot[c].station \in Stations
      BY <2>1, VerifyCodeFields DEF TypeInv, CodesComplete
    <2> QED
      BY <1>2, <1>3, <2>1, <2>2, VerifyCodeFields, ReadType, ZenonT(30) DEF Generating
  <1>4. CASE req'[r].pc = "scanExpire"
    <2>1. boot[c].status # "none" /\ "scanExpire" \notin Generating \cup Scanning
      BY <1>4, VerifyCodeFields DEF Generating, Scanning
    <2> QED
      BY <1>2, <1>4, <2>1, VerifyCodeFields, ReadType, ZenonT(30) DEF Generating
  <1> QED
    BY <1>3, <1>4, VerifyCodeFields

(* A statement that moves on within Verify. *)
LEMMA VerifyGotoType ==
  ASSUME TypeInv, NEW r \in Requests, req[r].pc \in Scanning,
         NEW label \in Scanning, Goto(r, label),
         UNCHANGED <<clock, tables>>, held' \in [Requests -> SUBSET Rows]
  PROVE  TypeInv'
  <1>1. label \in Labels /\ label \notin Generating
    BY DEF Generating, Scanning, Labels
  <1>2. /\ req[r].res \in Reservations /\ req[r].code \in Codes
        /\ resv[req[r].res].status # "none" /\ boot[req[r].code].status # "none"
        /\ req[r].user \in Users /\ req[r].station \in Stations
    BY DEF TypeInv, ScanningComplete
  <1> QED
    BY <1>1, <1>2, GotoFields, ReadType DEF TypeInv, Generating

(* Verify waits for rows that exist. *)
LEMMA WantedByVerify ==
  ASSUME TypeInv, NEW r \in Requests, req[r].pc \in Scanning
  PROVE  Wanted(r) \in SUBSET Rows
  BY DEF TypeInv, ScanningComplete, Scanning, Wanted, Rows

(* Locking the member records when the session starts. *)
LEMMA VerifyMemberType ==
  ASSUME TypeInv, NEW r \in Requests, VerifyMember(r), ~Refuse(r)
  PROVE  TypeInv'
  <1>1. /\ req' = [req EXCEPT ![r] = [@ EXCEPT !.pc = "scanCharge", !.at = clock]]
        /\ req[r].pc = "scanMember" /\ Lock(r, Wanted(r)) /\ UNCHANGED <<clock, tables>>
    BY DEF VerifyMember
  <1>2. req[r].pc \in Scanning /\ "scanCharge" \notin Generating /\ "scanCharge" \in Labels
    BY <1>1 DEF Scanning, Generating, Labels
  <1>3. /\ req[r].res \in Reservations /\ req[r].code \in Codes
        /\ resv[req[r].res].status # "none" /\ boot[req[r].code].status # "none"
        /\ req[r].user \in Users /\ req[r].station \in Stations
    BY <1>2 DEF TypeInv, ScanningComplete
  <1>4. held' \in [Requests -> SUBSET Rows]
    BY <1>1, <1>2, WantedByVerify, LockType DEF TypeInv
  <1>5. req' \in [Requests -> RequestStates]
    <2>1. req[r] \in RequestStates /\ clock \in Nat
      BY DEF TypeInv, TypeOK
    <2>2. [req[r] EXCEPT !.pc = "scanCharge", !.at = clock] \in RequestStates
      BY <2>1, <1>2, ZenonT(30) DEF RequestStates
    <2> QED
      BY <1>1, <2>2 DEF TypeInv, TypeOK
  <1>6. /\ req'[r].pc = "scanCharge" /\ req'[r].code = req[r].code /\ req'[r].res = req[r].res
        /\ req'[r].user = req[r].user /\ req'[r].station = req[r].station
        /\ \A q \in Requests \ {r} : req'[q] = req[q]
    BY <1>1 DEF TypeInv, TypeOK, RequestStates
  <1> QED
    BY <1>1, <1>2, <1>3, <1>4, <1>5, <1>6, ReadType

(* The rows of the commit, and the minutes and money it takes. *)
LEMMA VerifyCommitType ==
  ASSUME TypeInv, NEW r \in Requests, VerifyCommit(r), ~Refuse(r)
  PROVE  TypeInv'
  <1> USE DEF TypeInv
  <1> DEFINE c       == req[r].code
             u       == req[r].user
             i       == req[r].res
             end     == Larger(resv[i].end, req[r].at)
             prepaid == end - req[r].at
             covered == FromPackages(u, prepaid)
             cost    == BalanceCost(prepaid, covered)
  <1>1. /\ pkg' = [pkg EXCEPT ![u] = @ - covered]
        /\ user' = [user EXCEPT ![u].balance = @ - cost]
        /\ station' = [station EXCEPT ![req[r].station] = "using"]
        /\ resv' = [resv EXCEPT ![i].status = "checked_in"]
        /\ sess' = [sess EXCEPT ![r] = [status |-> "active", user |-> u, station |-> req[r].station,
                      res |-> i, start |-> req[r].at, end |-> end, prepaid |-> prepaid]]
        /\ boot' = [boot EXCEPT ![c].status = "used", ![c].session = r]
        /\ clock' = clock /\ req[r].pc = "scanCharge"
    BY ZenonT(30) DEF VerifyCommit
  <1>2. PICK answer \in Answers : Return(r, answer)
    BY ZenonT(30) DEF VerifyCommit, Commit, Answers
  <1>3. i \in Reservations /\ c \in Codes /\ u \in Users /\ req[r].station \in Stations
    BY <1>1, ZenonT(30) DEF ScanningComplete, Scanning
  <1>4. end \in Nat /\ req[r].at \in Nat /\ prepaid \in Nat
    <2>1. resv[i].end \in Nat /\ req[r].at \in Nat
      BY <1>3 DEF TypeOK, ReservationRows, RequestStates
    <2> QED
      BY <2>1 DEF Larger
  <1>5. covered \in Nat /\ covered =< pkg[u] /\ pkg[u] \in Nat /\ cost \in Int
    <2>1. pkg[u] \in Nat
      BY <1>3 DEF TypeOK
    <2>2. covered \in Nat /\ covered =< pkg[u]
      BY <2>1, <1>4 DEF FromPackages, Smaller
    <2> QED
      BY <2>1, <2>2, <1>4, NumbersAssumption DEF BalanceCost
  <1>6. pkg' \in [Users -> Nat]
    BY <1>1, <1>3, <1>5, SMTT(30) DEF TypeOK
  <1>7. user' \in [Users -> UserRows]
    <2>1. user[u] \in UserRows
      BY <1>3 DEF TypeOK
    <2>2. PICK d \in Int : user' = [user EXCEPT ![u].balance = @ - d]
      BY <1>1, <1>5, ZenonT(30)
    <2>3. [user[u] EXCEPT !.balance = @ - d] \in UserRows
      BY <2>1 DEF UserRows
    <2>4. user \in [Users -> UserRows]
      BY DEF TypeOK
    <2> HIDE DEF u
    <2> QED
      BY <1>3, <2>2, <2>3, <2>4
  <1>8. station' \in [Stations -> StationStatuses]
    BY <1>1 DEF TypeOK, StationStatuses
  <1>9. /\ resv' \in [Reservations -> ReservationRows]
        /\ \A j \in Reservations : /\ resv'[j].user = resv[j].user
                                   /\ resv'[j].station = resv[j].station
                                   /\ resv[j].status # "none" => resv'[j].status # "none"
    <2>1. resv[i] \in ReservationRows
      BY <1>3 DEF TypeOK
    <2>2. [resv[i] EXCEPT !.status = "checked_in"] \in ReservationRows
      BY <2>1 DEF ReservationRows, ReservationStatuses
    <2> QED
      BY <1>1, <1>3, <2>1, <2>2, ZenonT(30) DEF TypeOK, ReservationRows
  <1>10. sess' \in [Requests -> SessionRows]
    BY <1>1, <1>3, <1>4, ZenonT(30) DEF TypeOK, SessionRows, SessionStatuses
  <1>11. /\ boot' \in [Codes -> BootCodeRows]
         /\ \A d \in Codes : /\ boot'[d].res = boot[d].res /\ boot'[d].user = boot[d].user
                             /\ boot'[d].station = boot[d].station
                             /\ boot[d].status # "none" => boot'[d].status # "none"
         /\ \A d \in Codes \ {c} : boot'[d] = boot[d]
    <2> DEFINE row == [[boot[c] EXCEPT !.status = "used"] EXCEPT !.session = r]
    <2>1. boot[c] \in BootCodeRows
      BY <1>3 DEF TypeOK
    <2>2. row \in BootCodeRows
      BY <2>1, ZenonT(30) DEF BootCodeRows, BootCodeStatuses
    <2>3. /\ row.res = boot[c].res /\ row.user = boot[c].user
          /\ row.station = boot[c].station /\ row.status = "used"
      BY <2>1 DEF BootCodeRows
    <2>4. boot' = [boot EXCEPT ![c] = row]
      BY <1>1, <1>3, ZenonT(30) DEF TypeOK
    <2> HIDE DEF row
    <2> QED
      BY <1>3, <2>2, <2>3, <2>4 DEF TypeOK
  <1>12. TypeOK'
    BY <1>1, <1>2, <1>6, <1>7, <1>8, <1>9, <1>10, <1>11, ReturnType, ZenonT(30) DEF TypeOK
  <1>13. ReservationsComplete'
    <2>1. resv[i].status # "none"
      BY <1>1, ZenonT(30) DEF ScanningComplete, Scanning
    <2>2. \A j \in Reservations \ {i} : resv'[j] = resv[j]
      BY <1>1 DEF TypeOK
    <2> QED
      BY <1>9, <2>1, <2>2 DEF ReservationsComplete
  <1>14. CodesComplete'
    <2>1. boot[c].status # "none"
      BY <1>1, ZenonT(30) DEF ScanningComplete, Scanning
    <2> QED
      BY <1>9, <1>11, <2>1 DEF CodesComplete
  <1>15. GeneratingComplete' /\ ScanningComplete'
    BY <1>2, <1>9, <1>11, AnsweredKeepsReads
  <1> QED
    BY <1>12, <1>13, <1>14, <1>15

(* The late expiry mark writes a status of the column. *)
LEMMA MarkExpiredType ==
  ASSUME TypeInv, NEW r \in Requests, MarkExpired(r)
  PROVE  TypeInv'
  <1> USE DEF TypeInv
  <1>1. /\ boot' \in [Codes -> BootCodeRows]
        /\ \A d \in Codes : /\ boot'[d].res = boot[d].res /\ boot'[d].user = boot[d].user
                            /\ boot'[d].station = boot[d].station
                            /\ boot[d].status # "none" <=> boot'[d].status # "none"
    <2> DEFINE c   == req[r].code
               row == [boot[c] EXCEPT !.status = "expired"]
    <2>1. \A d \in Codes : boot[d] \in BootCodeRows
      BY DEF TypeOK
    <2>2. c \in Codes /\ boot[c].status # "none"
      BY DEF MarkExpired, ScanningComplete
    <2>3. /\ row \in BootCodeRows
          /\ row.res = boot[c].res /\ row.user = boot[c].user
          /\ row.station = boot[c].station /\ row.status # "none"
      BY <2>1, <2>2 DEF BootCodeRows, BootCodeStatuses
    <2>4. boot' = [boot EXCEPT ![c] = row] \/ boot' = boot
      BY DEF MarkExpired
    <2> HIDE DEF row
    <2> QED
      BY <2>1, <2>2, <2>3, <2>4 DEF TypeOK
  <1>2. TypeOK'
    BY <1>1, ReturnType DEF MarkExpired, TypeOK, Answers
  <1>3. CodesComplete'
    BY <1>1, ZenonT(30) DEF MarkExpired, CodesComplete
  <1>4. ReservationsComplete'
    BY DEF MarkExpired, ReservationsComplete
  <1>5. GeneratingComplete' /\ ScanningComplete'
    BY <1>1, AnsweredKeepsReads, ZenonT(30) DEF MarkExpired, Answers
  <1> QED
    BY <1>2, <1>3, <1>4, <1>5

(* Every statement of Verify keeps the types. *)
LEMMA VerifyType ==
  ASSUME TypeInv, NEW r \in Requests, Verify(r)
  PROVE  TypeInv'
  <1> USE DEF TypeInv
  <1>1. CASE Refuse(r)
    BY <1>1, RefuseType DEF Refuse, Answers
  <1>2. CASE VerifyCode(r) /\ ~Refuse(r)
    BY <1>2, VerifyCodeType
  <1>3. CASE VerifyReservation(r) /\ ~Refuse(r)
    BY <1>3, WantedByVerify, LockType, VerifyGotoType DEF VerifyReservation, Scanning
  <1>4. CASE VerifyStation(r) /\ ~Refuse(r)
    BY <1>4, WantedByVerify, LockType, VerifyGotoType DEF VerifyStation, Scanning
  <1>5. CASE VerifyNoSession(r) /\ ~Refuse(r)
    BY <1>5, VerifyGotoType DEF VerifyNoSession, Scanning, TypeOK
  <1>6. CASE VerifyMember(r) /\ ~Refuse(r)
    BY <1>6, VerifyMemberType
  <1>7. CASE VerifyCommit(r) /\ ~Refuse(r)
    BY <1>7, VerifyCommitType
  <1>8. CASE MarkExpired(r)
    BY <1>8, MarkExpiredType
  <1>9. CASE VerifyBegin(r) /\ ~Refuse(r)
    BY <1>9, VerifyBeginType
  <1> QED
    BY <1>1, <1>2, <1>3, <1>4, <1>5, <1>6, <1>7, <1>8, <1>9 DEF Verify

(* Every step keeps the types. *)
LEMMA BootNextType == TypeInv /\ [BootNext]_vars => TypeInv'
  <1> SUFFICES ASSUME TypeInv, [BootNext]_vars PROVE TypeInv'
    OBVIOUS
  <1>1. ASSUME NEW r \in Requests, Generate(r) PROVE TypeInv'
    BY <1>1, GenerateType
  <1>2. ASSUME NEW r \in Requests, Verify(r) PROVE TypeInv'
    BY <1>2, VerifyType
  <1>3. ASSUME NEW r \in Requests, Fail(r) \/ DeadlockVictim(r) PROVE TypeInv'
    BY <1>3, RefuseType DEF Fail, DeadlockVictim, Answers
  <1>4. CASE Tick
    BY <1>4
    DEF Tick, tables, TypeInv, TypeOK, ReservationsComplete, CodesComplete, GeneratingComplete,
        ScanningComplete
  <1>5. CASE UNCHANGED vars
    BY <1>5
    DEF vars, tables, TypeInv, TypeOK, ReservationsComplete, CodesComplete, GeneratingComplete,
        ScanningComplete
  <1> QED
    BY <1>1, <1>2, <1>3, <1>4, <1>5 DEF BootNext

(* Every row and every request has the shape of its table, whatever the interleaving; in *)
(* particular time packages never go below nothing.                                      *)
THEOREM BootTypeOK == BootSpec => []TypeOK
  <1>1. BootInit => TypeInv
    BY BootInitType
  <1>2. TypeInv /\ [BootNext]_vars => TypeInv'
    BY BootNextType
  <1>3. TypeInv => TypeOK
    BY DEF TypeInv
  <1> QED
    BY <1>1, <1>2, <1>3, PTL DEF BootSpec

-----------------------------------------------------------------------------
(* Locks *)

(* Rows of different keys are different rows. *)
LEMMA RowsAreKeyed ==
  /\ \A i, j : ReservationRow(i) = ReservationRow(j) => i = j
  /\ \A s, t : StationRow(s) = StationRow(t) => s = t
  /\ \A b, c : BootCodeRow(b) = BootCodeRow(c) => b = c
  /\ \A u, v : UserRow(u) = UserRow(v) => u = v
  BY DEF ReservationRow, StationRow, BootCodeRow, UserRow

(* What r does to the locks: it takes free rows, or drops all of its own. *)
LocksOnlyFree(r) ==
  /\ \A q \in Requests \ {r} : held'[q] = held[q]
  /\ held'[r] = {} \/ \E rows : CanLock(r, rows) /\ held'[r] = held[r] \cup rows

(* CanLock: the rows r takes are held by nobody else. *)
LEMMA LockIsFree ==
  ASSUME TypeOK, NEW r \in Requests, NEW rows, CanLock(r, rows), Lock(r, rows)
  PROVE  LocksOnlyFree(r) /\ held'[r] = held[r] \cup rows
  BY DEF TypeOK, Lock, LocksOnlyFree

(* A request that returns gives all its rows back and nobody else any. *)
LEMMA ReturnIsFree ==
  ASSUME TypeOK, NEW r \in Requests, NEW answer, Return(r, answer)
  PROVE  /\ LocksOnlyFree(r) /\ held'[r] = {}
         /\ req'[r].pc = "done" /\ \A q \in Requests \ {r} : req'[q] = req[q]
  BY DEF TypeOK, Return, LocksOnlyFree, RequestStates, NewRequest

(* A statement without a lock keeps every row where it is. *)
LEMMA NoLockIsFree ==
  ASSUME NEW r \in Requests, UNCHANGED held
  PROVE  LocksOnlyFree(r)
  <1>1. CanLock(r, {}) /\ held'[r] = held[r] \cup {}
    BY DEF CanLock
  <1> QED
    BY <1>1 DEF LocksOnlyFree

(* A step that gives r only free rows, and nobody else any, keeps rows locked once. *)
LEMMA RowsStayLockedOnce ==
  ASSUME RowsLockedOnce, NEW r \in Requests, LocksOnlyFree(r)
  PROVE  RowsLockedOnce'
  <1>1. CASE held'[r] = {}
    BY <1>1 DEF RowsLockedOnce, LocksOnlyFree
  <1>2. CASE held'[r] # {}
    <2>1. PICK rows : CanLock(r, rows) /\ held'[r] = held[r] \cup rows
      BY <1>2 DEF LocksOnlyFree
    <2> QED
      BY <2>1 DEF RowsLockedOnce, LocksOnlyFree, CanLock
  <1> QED
    BY <1>1, <1>2

(* A request that is over asks nothing of the tables. *)
LEMMA DoneIsFree ==
  ASSUME NEW r \in Requests, req'[r].pc = "done"
  PROVE  RequestInv(r)'
  BY DEF RequestInv, LocksTaken, RevocationComplete, ScanIsFresh, Scanning, HoldsReservation, HoldsStation

(* A step of r that writes no table keeps what the others have read. *)
LEMMA ReadKeepsCodes ==
  ASSUME CodeInv, TypeInv', NEW r \in Requests, UNCHANGED tables, LocksOnlyFree(r),
         \A q \in Requests \ {r} : req'[q] = req[q],
         RequestInv(r)'
  PROVE  CodeInv'
  <1>1. RowsLockedOnce'
    BY RowsStayLockedOnce DEF CodeInv
  <1>2. ASSUME NEW q \in Requests \ {r} PROVE RequestInv(q)'
    <2>1. RequestInv(q)
      BY DEF CodeInv
    <2> QED
      BY <2>1 DEF RequestInv, LocksTaken, RevocationComplete, ScanIsFresh, tables, LocksOnlyFree
  <1>3. AtMostOneActiveCode'
    BY DEF CodeInv, AtMostOneActiveCode, tables
  <1> QED
    BY <1>1, <1>2, <1>3 DEF CodeInv

(* A rollback disturbs no other request. *)
LEMMA RefuseKeepsCodes ==
  ASSUME CodeInv, NEW r \in Requests, NEW answer \in Answers,
         Return(r, answer), UNCHANGED <<clock, tables>>
  PROVE  CodeInv'
  <1>1. TypeInv'
    BY RefuseType DEF CodeInv
  <1>2. /\ LocksOnlyFree(r) /\ req'[r].pc = "done"
        /\ \A q \in Requests \ {r} : req'[q] = req[q]
    BY ReturnIsFree DEF CodeInv, TypeInv
  <1>3. RequestInv(r)'
    BY <1>2, DoneIsFree
  <1> QED
    BY <1>1, <1>2, <1>3, ReadKeepsCodes

-----------------------------------------------------------------------------
(* Generate publishes its code and its revocations in one step: no other request can hold *)
(* the reservation, and none of the revoked codes is being scanned.                       *)
LEMMA GenerateInsertKeepsCodes ==
  ASSUME CodeInv, TypeInv', NEW r \in Requests, GenerateInsert(r)
  PROVE  CodeInv'
  <1> USE DEF CodeInv
  <1>1. PICK c \in Codes, answer \in Answers :
          /\ UniqueCode(c)
          /\ boot' = [b \in Codes |->
               IF b = c THEN [status |-> "active", res |-> req[r].res, session |-> Nil,
                              user |-> resv[req[r].res].user,
                              station |-> resv[req[r].res].station, expire |-> req[r].at + TTL]
               ELSE IF b \in req[r].revoked THEN [boot[b] EXCEPT !.status = "cancelled"]
               ELSE boot[b]]
          /\ Return(r, answer)
    BY DEF GenerateInsert, Commit, Answers
  <1>2. /\ LocksOnlyFree(r) /\ req'[r].pc = "done"
        /\ \A q \in Requests \ {r} : req'[q] = req[q]
    BY <1>1, ReturnIsFree DEF TypeInv
  <1>3. /\ req[r].pc = "genInsert" /\ ReservationRow(req[r].res) \in held[r]
        /\ \A b \in req[r].revoked : BootCodeRow(b) \in held[r]
        /\ \A b \in Codes : b \in req[r].revoked <=> boot[b].status = "active" /\ boot[b].res = req[r].res
    BY DEF GenerateInsert, RequestInv, LocksTaken, RevocationComplete, HoldsReservation
  <1>4. /\ boot[c].status = "none"
        /\ boot'[c].status = "active" /\ boot'[c].res = req[r].res
        /\ \A b \in Codes : b # c /\ b \in req[r].revoked =>
             boot'[b].status = "cancelled" /\ boot'[b].res = boot[b].res
        /\ \A b \in Codes : b # c /\ b \notin req[r].revoked => boot'[b] = boot[b]
    BY <1>1 DEF UniqueCode, TypeInv, TypeOK, BootCodeRows
  <1>5. UNCHANGED <<station, resv, user>>
    BY DEF GenerateInsert
  <1>6. AtMostOneActiveCode'
    <2> SUFFICES ASSUME NEW b \in Codes, NEW d \in Codes,
                        boot'[b].status = "active", boot'[d].status = "active",
                        boot'[b].res = boot'[d].res, b # d
                 PROVE  FALSE
      BY DEF AtMostOneActiveCode
    <2>1. ASSUME NEW e \in Codes \ {c}, boot'[e].status = "active"
          PROVE  boot'[e] = boot[e] /\ boot[e].res # req[r].res
      BY <1>3, <1>4, <2>1
    <2>2. CASE b = c
      BY <1>4, <2>1, <2>2
    <2>3. CASE d = c
      BY <1>4, <2>1, <2>3
    <2>4. CASE b # c /\ d # c
      BY <2>1, <2>4 DEF AtMostOneActiveCode
    <2> QED
      BY <2>2, <2>3, <2>4
  <1>7. ASSUME NEW q \in Requests \ {r} PROVE RequestInv(q)'
    <2>1. RequestInv(q) /\ req'[q] = req[q] /\ held'[q] = held[q] /\ held[q] \cap held[r] = {}
      BY <1>2 DEF LocksOnlyFree, RowsLockedOnce
    <2>2. LocksTaken(q)'
      BY <2>1 DEF RequestInv, LocksTaken
    <2>3. RevocationComplete(q)'
      <3>1. req[q].pc = "genInsert" => req[q].res # req[r].res
        BY <1>3, <2>1 DEF RequestInv, LocksTaken, HoldsReservation
      <3>2. req[q].pc = "genInsert" =>
              \A b \in Codes : b \in req[q].revoked <=> boot[b].status = "active" /\ boot[b].res = req[q].res
        BY <2>1 DEF RequestInv, RevocationComplete
      <3>3. req[q].pc = "genInsert" =>
              \A b \in Codes : b \in req[q].revoked <=> boot'[b].status = "active" /\ boot'[b].res = req[q].res
        <4> SUFFICES ASSUME req[q].pc = "genInsert", NEW b \in Codes
                     PROVE  b \in req[q].revoked <=>
                              boot'[b].status = "active" /\ boot'[b].res = req[q].res
          OBVIOUS
        <4>1. CASE b = c
          BY <1>4, <3>1, <3>2, <4>1
        <4>2. CASE b # c /\ b \in req[r].revoked
          BY <1>3, <1>4, <3>1, <3>2, <4>2
        <4>3. CASE b # c /\ b \notin req[r].revoked
          BY <1>4, <3>2, <4>3
        <4> QED
          BY <4>1, <4>2, <4>3
      <3> QED
        BY <1>5, <2>1, <3>3 DEF RequestInv, RevocationComplete
    <2>4. ScanIsFresh(q)'
      <3>1. req[q].pc \in Scanning => boot'[req[q].code] = boot[req[q].code]
        <4> SUFFICES ASSUME req[q].pc \in Scanning
                     PROVE  boot'[req[q].code] = boot[req[q].code]
          OBVIOUS
        <4>1. req[q].code \in Codes /\ boot[req[q].code].status = "active"
          BY <2>1 DEF RequestInv, ScanIsFresh, ScanningComplete, TypeInv
        <4>2. BootCodeRow(req[q].code) \in held[q]
          BY <2>1 DEF RequestInv, LocksTaken
        <4>3. req[q].code # c /\ req[q].code \notin req[r].revoked
          BY <1>3, <1>4, <2>1, <4>1, <4>2
        <4> QED
          BY <1>4, <4>1, <4>3
      <3> QED
        BY <1>5, <2>1, <3>1 DEF RequestInv, ScanIsFresh, HoldsStation, Scanning
    <2> QED
      BY <2>2, <2>3, <2>4 DEF RequestInv
  <1>8. RequestInv(r)'
    BY <1>2, DoneIsFree
  <1>9. RowsLockedOnce'
    BY <1>2, RowsStayLockedOnce
  <1> QED
    BY <1>6, <1>7, <1>8, <1>9

(* Every statement of Generate keeps the code invariant. *)
LEMMA GenerateKeepsCodes ==
  ASSUME CodeInv, TypeInv', NEW r \in Requests, Generate(r)
  PROVE  CodeInv'
  <1> USE DEF CodeInv
  <1>1. CASE Refuse(r)
    BY <1>1, RefuseKeepsCodes DEF Refuse, Answers
  <1>2. CASE GenerateRead(r) /\ ~Refuse(r)
    <2>1. /\ req'[r].pc = "genStation" /\ \A q \in Requests \ {r} : req'[q] = req[q]
          /\ UNCHANGED <<tables, held>>
      <3>1. PICK i \in Reservations :
              /\ req' = [req EXCEPT ![r] = [@ EXCEPT !.pc = "genStation", !.res = i, !.at = clock]]
              /\ UNCHANGED <<clock, tables, held>>
        BY <1>2 DEF GenerateRead
      <3> QED
        BY <3>1 DEF TypeInv, TypeOK, RequestStates
    <2>2. RequestInv(r)'
      BY <2>1 DEF RequestInv, LocksTaken, RevocationComplete, ScanIsFresh, Scanning,
                  HoldsReservation, HoldsStation
    <2>3. LocksOnlyFree(r)
      BY <2>1, NoLockIsFree
    <2> QED
      BY <2>1, <2>2, <2>3, ReadKeepsCodes
  <1>3. CASE GenerateStation(r) /\ ~Refuse(r)
    <2>1. /\ req'[r].pc = "genLock" /\ \A q \in Requests \ {r} : req'[q] = req[q]
          /\ UNCHANGED <<tables, held>>
      BY <1>3, GotoFields, ZenonT(30) DEF GenerateStation, TypeInv, Labels
    <2>2. RequestInv(r)'
      BY <2>1 DEF RequestInv, LocksTaken, RevocationComplete, ScanIsFresh, Scanning,
                  HoldsReservation, HoldsStation
    <2>3. LocksOnlyFree(r)
      BY <2>1, NoLockIsFree
    <2> QED
      BY <2>1, <2>2, <2>3, ReadKeepsCodes
  <1>4. CASE GenerateLock(r) /\ ~Refuse(r)
    <2>1. /\ req'[r].pc = "genRevoke" /\ req'[r].res = req[r].res
          /\ \A q \in Requests \ {r} : req'[q] = req[q]
          /\ UNCHANGED tables
      BY <1>4, GotoFields, ZenonT(30) DEF GenerateLock, TypeInv, Labels
    <2>2. Wanted(r) = {ReservationRow(req[r].res)}
      BY <1>4 DEF GenerateLock, Wanted
    <2>3. LocksOnlyFree(r) /\ held'[r] = held[r] \cup {ReservationRow(req[r].res)}
      BY <1>4, <2>2, LockIsFree DEF GenerateLock, TypeInv
    <2>4. resv[req[r].res].status = "confirmed" /\ resv' = resv
      BY <1>4, <2>1 DEF GenerateLock, tables
    <2>5. RequestInv(r)'
      BY <2>1, <2>3, <2>4 DEF RequestInv, LocksTaken, RevocationComplete, ScanIsFresh, Scanning,
                  HoldsReservation, HoldsStation
    <2> QED
      BY <2>1, <2>3, <2>5, ReadKeepsCodes
  <1>5. CASE GenerateRevoke(r)
    <2>1. /\ req'[r].pc = "genInsert" /\ req'[r].res = req[r].res
          /\ req'[r].revoked = {c \in CodesOf(req[r].res) : boot[c].status = "active"}
          /\ \A q \in Requests \ {r} : req'[q] = req[q]
          /\ UNCHANGED tables
      <3>1. req[r] \in RequestStates /\ DOMAIN req = Requests
        BY DEF TypeInv, TypeOK
      <3>2. PICK active : active = {c \in CodesOf(req[r].res) : boot[c].status = "active"}
        OBVIOUS
      <3>3. /\ req' = [req EXCEPT ![r] = [@ EXCEPT !.pc = "genInsert", !.revoked = active]]
            /\ UNCHANGED tables
        BY <1>5, <3>2 DEF GenerateRevoke
      <3>4. /\ req'[r] = [req[r] EXCEPT !.pc = "genInsert", !.revoked = active]
            /\ \A q \in Requests \ {r} : req'[q] = req[q]
        BY <3>1, <3>3
      <3>5. req'[r].pc = "genInsert" /\ req'[r].res = req[r].res /\ req'[r].revoked = active
        BY <3>1, <3>4 DEF RequestStates
      <3> QED
        BY <3>2, <3>3, <3>4, <3>5
    <2>2. Wanted(r) = {BootCodeRow(c) : c \in CodesOf(req[r].res)}
      BY <1>5 DEF GenerateRevoke, Wanted
    <2>3. LocksOnlyFree(r) /\ held'[r] = held[r] \cup Wanted(r)
      BY <1>5, LockIsFree DEF GenerateRevoke, TypeInv
    <2>4. ReservationRow(req[r].res) \in held[r] /\ resv[req[r].res].status = "confirmed"
      BY <1>5 DEF GenerateRevoke, RequestInv, LocksTaken, RevocationComplete, HoldsReservation
    <2>5. LocksTaken(r)'
      BY <2>1, <2>2, <2>3, <2>4 DEF LocksTaken, Scanning, HoldsStation
    <2>6. RevocationComplete(r)'
      BY <2>1, <2>4 DEF RevocationComplete, tables, CodesOf
    <2>7. ScanIsFresh(r)'
      BY <2>1 DEF ScanIsFresh, Scanning, HoldsStation
    <2> QED
      BY <2>1, <2>3, <2>5, <2>6, <2>7, ReadKeepsCodes DEF RequestInv
  <1>6. CASE GenerateInsert(r)
    BY <1>6, GenerateInsertKeepsCodes
  <1> QED
    BY <1>1, <1>2, <1>3, <1>4, <1>5, <1>6 DEF Generate, GenerateExhausted

-----------------------------------------------------------------------------
(* A scan that moves on in Verify, keeping its locks and taking rows. *)
LEMMA VerifyFields ==
  ASSUME CodeInv, NEW r \in Requests, req[r].pc \in Scanning
  PROVE  LET c == boot[req[r].code] IN
         /\ BootCodeRow(req[r].code) \in held[r]
         /\ c.status = "active" /\ c.res = req[r].res
         /\ c.user = req[r].user /\ c.station = req[r].station
  BY DEF CodeInv, RequestInv, LocksTaken, ScanIsFresh

(* Locking the reservation makes its status lasting for the scan. *)
LEMMA VerifyReservationKeepsCodes ==
  ASSUME CodeInv, TypeInv', NEW r \in Requests, VerifyReservation(r), ~Refuse(r)
  PROVE  CodeInv'
  <1>1. /\ req[r].pc = "scanReservation" /\ Goto(r, "scanStation")
        /\ resv[req[r].res].status = "confirmed"
        /\ Lock(r, Wanted(r)) /\ CanLock(r, Wanted(r)) /\ UNCHANGED tables
    BY DEF VerifyReservation
  <1>2. /\ req'[r].pc = "scanStation" /\ req'[r].res = req[r].res /\ req'[r].user = req[r].user
        /\ req'[r].station = req[r].station /\ req'[r].code = req[r].code
        /\ \A q \in Requests \ {r} : req'[q] = req[q]
    BY <1>1, GotoFields, ZenonT(30) DEF CodeInv, TypeInv, Labels
  <1>3. Wanted(r) = {ReservationRow(req[r].res)}
    BY <1>1 DEF Wanted
  <1>4. LocksOnlyFree(r) /\ held'[r] = held[r] \cup {ReservationRow(req[r].res)}
    BY <1>1, <1>3, LockIsFree DEF CodeInv, TypeInv
  <1>5. LET c == boot[req[r].code] IN
        /\ BootCodeRow(req[r].code) \in held[r]
        /\ c.status = "active" /\ c.res = req[r].res
        /\ c.user = req[r].user /\ c.station = req[r].station
    BY <1>1, VerifyFields DEF Scanning
  <1>6. LocksTaken(r)'
    BY <1>2, <1>4, <1>5 DEF LocksTaken, HoldsStation
  <1>7. RevocationComplete(r)' /\ ScanIsFresh(r)'
    BY <1>1, <1>2, <1>5 DEF RevocationComplete, ScanIsFresh, tables, HoldsStation
  <1> QED
    BY <1>1, <1>2, <1>4, <1>6, <1>7, ReadKeepsCodes DEF RequestInv

(* Locking the station makes its status lasting for the scan. *)
LEMMA VerifyStationKeepsCodes ==
  ASSUME CodeInv, TypeInv', NEW r \in Requests, VerifyStation(r), ~Refuse(r)
  PROVE  CodeInv'
  <1>1. /\ req[r].pc = "scanStation" /\ Goto(r, "scanSession")
        /\ station[req[r].station] \in {"idle", "reserved"}
        /\ Lock(r, Wanted(r)) /\ CanLock(r, Wanted(r)) /\ UNCHANGED tables
    BY DEF VerifyStation
  <1>2. /\ req'[r].pc = "scanSession" /\ req'[r].res = req[r].res /\ req'[r].user = req[r].user
        /\ req'[r].station = req[r].station /\ req'[r].code = req[r].code
        /\ \A q \in Requests \ {r} : req'[q] = req[q]
    BY <1>1, GotoFields, ZenonT(30) DEF CodeInv, TypeInv, Labels
  <1>3. Wanted(r) = {StationRow(req[r].station)}
    BY <1>1 DEF Wanted
  <1>4. LocksOnlyFree(r) /\ held'[r] = held[r] \cup {StationRow(req[r].station)}
    BY <1>1, <1>3, LockIsFree DEF CodeInv, TypeInv
  <1>5. LET c == boot[req[r].code] IN
        /\ BootCodeRow(req[r].code) \in held[r]
        /\ c.status = "active" /\ c.res = req[r].res
        /\ c.user = req[r].user /\ c.station = req[r].station
    BY <1>1, VerifyFields DEF Scanning
  <1>6. ReservationRow(req[r].res) \in held[r] /\ resv[req[r].res].status = "confirmed"
    BY <1>1 DEF CodeInv, RequestInv, LocksTaken, ScanIsFresh, Scanning, HoldsReservation
  <1>7. LocksTaken(r)'
    BY <1>2, <1>4, <1>5, <1>6 DEF LocksTaken
  <1>8. RevocationComplete(r)' /\ ScanIsFresh(r)'
    BY <1>1, <1>2, <1>5, <1>6 DEF RevocationComplete, ScanIsFresh, tables
  <1> QED
    BY <1>1, <1>2, <1>4, <1>7, <1>8, ReadKeepsCodes DEF RequestInv

(* Looking for an open session writes nothing and takes no row. *)
LEMMA VerifyNoSessionKeepsCodes ==
  ASSUME CodeInv, TypeInv', NEW r \in Requests, VerifyNoSession(r), ~Refuse(r)
  PROVE  CodeInv'
  <1>1. req[r].pc = "scanSession" /\ Goto(r, "scanMember") /\ UNCHANGED <<tables, held>>
    BY DEF VerifyNoSession
  <1>2. /\ req'[r].pc = "scanMember" /\ req'[r].res = req[r].res /\ req'[r].user = req[r].user
        /\ req'[r].station = req[r].station /\ req'[r].code = req[r].code
        /\ \A q \in Requests \ {r} : req'[q] = req[q]
    BY <1>1, GotoFields, ZenonT(30) DEF CodeInv, TypeInv, Labels
  <1>3. LocksTaken(r)' /\ RevocationComplete(r)' /\ ScanIsFresh(r)'
    BY <1>1, <1>2
    DEF CodeInv, RequestInv, LocksTaken, RevocationComplete, ScanIsFresh, tables,
        Scanning, HoldsReservation, HoldsStation
  <1> QED
    BY <1>1, <1>2, <1>3, NoLockIsFree, ReadKeepsCodes DEF RequestInv

(* Locking the member makes the account checks lasting for the scan. *)
LEMMA VerifyMemberKeepsCodes ==
  ASSUME CodeInv, TypeInv', NEW r \in Requests, VerifyMember(r), ~Refuse(r)
  PROVE  CodeInv'
  <1>1. /\ req[r].pc = "scanMember" /\ user[req[r].user].eligible
        /\ req' = [req EXCEPT ![r] = [@ EXCEPT !.pc = "scanCharge", !.at = clock]]
        /\ Lock(r, Wanted(r)) /\ CanLock(r, Wanted(r)) /\ UNCHANGED tables
    BY DEF VerifyMember
  <1>2. /\ req'[r].pc = "scanCharge" /\ req'[r].res = req[r].res /\ req'[r].user = req[r].user
        /\ req'[r].station = req[r].station /\ req'[r].code = req[r].code
        /\ \A q \in Requests \ {r} : req'[q] = req[q]
    BY <1>1 DEF CodeInv, TypeInv, TypeOK, RequestStates
  <1>3. LocksOnlyFree(r) /\ held'[r] = held[r] \cup Wanted(r)
    BY <1>1, LockIsFree DEF CodeInv, TypeInv
  <1>4. LocksTaken(r)' /\ RevocationComplete(r)' /\ ScanIsFresh(r)'
    BY <1>1, <1>2, <1>3
    DEF CodeInv, RequestInv, LocksTaken, RevocationComplete, ScanIsFresh, tables,
        Scanning, HoldsReservation, HoldsStation
  <1> QED
    BY <1>1, <1>2, <1>3, <1>4, ReadKeepsCodes DEF RequestInv

(* An arriving scan takes no row. *)
LEMMA VerifyBeginKeepsCodes ==
  ASSUME CodeInv, TypeInv', NEW r \in Requests, VerifyBegin(r), ~Refuse(r)
  PROVE  CodeInv'
  <1>1. /\ req'[r].pc = "scanCode" /\ UNCHANGED <<tables, held>>
        /\ \A q \in Requests \ {r} : req'[q] = req[q]
    BY VerifyBeginFields DEF CodeInv
  <1>2. LocksTaken(r)' /\ RevocationComplete(r)' /\ ScanIsFresh(r)'
    BY <1>1
    DEF LocksTaken, RevocationComplete, ScanIsFresh, Scanning, HoldsReservation, HoldsStation
  <1> QED
    BY <1>1, <1>2, NoLockIsFree, ReadKeepsCodes DEF RequestInv

(* Locking the code starts a scan whose fields are those of the row. *)
LEMMA VerifyCodeKeepsCodes ==
  ASSUME CodeInv, TypeInv', NEW r \in Requests, VerifyCode(r), ~Refuse(r)
  PROVE  CodeInv'
  <1> DEFINE c == req[r].code
  <1>1. UNCHANGED tables /\ (\A q \in Requests \ {r} : req'[q] = req[q]) /\ req'[r].code = c
    BY VerifyCodeFields DEF CodeInv
  <1>2. CASE req'[r].pc = "scanReservation"
    <2>1. /\ Redeemable(c) /\ CanLock(r, {BootCodeRow(c)}) /\ Lock(r, {BootCodeRow(c)})
          /\ req'[r].res = boot[c].res
          /\ req'[r].user = boot[c].user /\ req'[r].station = boot[c].station
      BY <1>2, VerifyCodeFields DEF CodeInv
    <2>2. LocksOnlyFree(r) /\ held'[r] = held[r] \cup {BootCodeRow(c)}
      BY <2>1, LockIsFree DEF CodeInv, TypeInv
    <2>3. boot'[c] = boot[c] /\ boot[c].status = "active"
      BY <1>1, <2>1 DEF Redeemable, tables
    <2>4. LocksTaken(r)' /\ RevocationComplete(r)' /\ ScanIsFresh(r)'
      BY <1>1, <1>2, <2>1, <2>2, <2>3
      DEF LocksTaken, RevocationComplete, ScanIsFresh, HoldsReservation, HoldsStation
    <2> QED
      BY <1>1, <2>2, <2>4, ReadKeepsCodes DEF RequestInv
  <1>3. CASE req'[r].pc = "scanExpire"
    <2>1. UNCHANGED held
      BY <1>3, VerifyCodeFields DEF CodeInv
    <2>2. LocksTaken(r)' /\ RevocationComplete(r)' /\ ScanIsFresh(r)'
      BY <1>3
      DEF LocksTaken, RevocationComplete, ScanIsFresh, Scanning, HoldsReservation, HoldsStation
    <2> QED
      BY <1>1, <2>1, <2>2, NoLockIsFree, ReadKeepsCodes DEF RequestInv
  <1> QED
    BY <1>2, <1>3, VerifyCodeFields DEF CodeInv

(* What the commit of a scan writes, row by row. *)
CommitWrites(r) ==
  /\ station' = [station EXCEPT ![req[r].station] = "using"]
  /\ \A i \in Reservations : /\ i # req[r].res => resv'[i] = resv[i]
                             /\ resv'[i].user = resv[i].user /\ resv'[i].station = resv[i].station
                             /\ resv'[i].start = resv[i].start
  /\ resv'[req[r].res].status = "checked_in"
  /\ \A c \in Codes : c # req[r].code => boot'[c] = boot[c]
  /\ boot'[req[r].code].status = "used" /\ boot'[req[r].code].session = r
  /\ boot'[req[r].code].res = boot[req[r].code].res
  /\ boot'[req[r].code].expire = boot[req[r].code].expire
  /\ boot'[req[r].code].user = boot[req[r].code].user
  /\ boot'[req[r].code].station = boot[req[r].code].station
  /\ \A k \in Requests : k # r => sess'[k] = sess[k]
  /\ sess'[r].status = "active" /\ sess'[r].res = req[r].res /\ sess'[r].start = req[r].at
  /\ sess'[r].user = req[r].user /\ sess'[r].station = req[r].station
  /\ \A u \in Users : user'[u].eligible = user[u].eligible

(* What the commit of a scan writes, and what it leaves alone. *)
LEMMA VerifyCommitWrites ==
  ASSUME TypeInv, NEW r \in Requests, VerifyCommit(r), ~Refuse(r)
  PROVE  CommitWrites(r) /\ req[r].pc = "scanCharge" /\ UNCHANGED clock
  <1> DEFINE c       == req[r].code
             u       == req[r].user
             i       == req[r].res
             end     == Larger(resv[i].end, req[r].at)
             prepaid == end - req[r].at
             cost    == BalanceCost(prepaid, FromPackages(u, prepaid))
  <1>1. /\ req[r].pc = "scanCharge" /\ UNCHANGED clock
        /\ user' = [user EXCEPT ![u].balance = @ - cost]
        /\ station' = [station EXCEPT ![req[r].station] = "using"]
        /\ resv' = [resv EXCEPT ![i].status = "checked_in"]
        /\ sess' = [sess EXCEPT ![r] = [status |-> "active", user |-> u, station |-> req[r].station,
                      res |-> i, start |-> req[r].at, end |-> end, prepaid |-> prepaid]]
        /\ boot' = [boot EXCEPT ![c].status = "used", ![c].session = r]
    BY ZenonT(30) DEF VerifyCommit
  <1>2. i \in Reservations /\ c \in Codes /\ u \in Users
    BY <1>1, ZenonT(30) DEF TypeInv, ScanningComplete, Scanning
  <1>3. /\ resv \in [Reservations -> ReservationRows] /\ boot \in [Codes -> BootCodeRows]
        /\ sess \in [Requests -> SessionRows] /\ user \in [Users -> UserRows]
    BY DEF TypeInv, TypeOK
  <1>4. /\ \A j \in Reservations : /\ j # i => resv'[j] = resv[j]
                                   /\ resv'[j].user = resv[j].user /\ resv'[j].station = resv[j].station
                                   /\ resv'[j].start = resv[j].start
        /\ resv'[i].status = "checked_in"
    BY <1>1, <1>2, <1>3, ZenonT(30) DEF ReservationRows
  <1>5. /\ \A d \in Codes : d # c => boot'[d] = boot[d]
        /\ boot'[c].status = "used" /\ boot'[c].session = r
        /\ boot'[c].res = boot[c].res /\ boot'[c].expire = boot[c].expire
        /\ boot'[c].user = boot[c].user /\ boot'[c].station = boot[c].station
    <2> DEFINE row == [[boot[c] EXCEPT !.status = "used"] EXCEPT !.session = r]
    <2>1. boot[c] \in BootCodeRows
      BY <1>2, <1>3
    <2>2. /\ row.status = "used" /\ row.session = r
          /\ row.res = boot[c].res /\ row.expire = boot[c].expire
          /\ row.user = boot[c].user /\ row.station = boot[c].station
      BY <2>1 DEF BootCodeRows
    <2>3. boot' = [boot EXCEPT ![c] = row]
      BY <1>1, <1>2, <1>3, ZenonT(30)
    <2> HIDE DEF row
    <2> QED
      BY <1>2, <1>3, <2>2, <2>3
  <1>6. /\ \A k \in Requests : k # r => sess'[k] = sess[k]
        /\ sess'[r].status = "active" /\ sess'[r].res = i /\ sess'[r].start = req[r].at
        /\ sess'[r].user = u /\ sess'[r].station = req[r].station
    BY <1>1, <1>3
  <1>7. \A v \in Users : user'[v].eligible = user[v].eligible
    BY <1>1, <1>2, <1>3 DEF UserRows
  <1> QED
    BY <1>1, <1>4, <1>5, <1>6, <1>7, ZenonT(30) DEF CommitWrites

(* The commit of a scan changes only rows it holds, so no other request notices. *)
LEMMA VerifyCommitKeepsCodes ==
  ASSUME CodeInv, TypeInv', NEW r \in Requests, VerifyCommit(r), ~Refuse(r)
  PROVE  CodeInv'
  <1> DEFINE c == req[r].code
  <1>1. CommitWrites(r) /\ req[r].pc = "scanCharge"
    BY VerifyCommitWrites DEF CodeInv
  <1>2. PICK answer \in Answers : Return(r, answer)
    BY ZenonT(30) DEF VerifyCommit, Commit, Answers
  <1>3. /\ LocksOnlyFree(r) /\ req'[r].pc = "done"
        /\ \A q \in Requests \ {r} : req'[q] = req[q]
    BY <1>2, ReturnIsFree DEF CodeInv, TypeInv
  <1>4. /\ BootCodeRow(c) \in held[r] /\ ReservationRow(req[r].res) \in held[r]
        /\ StationRow(req[r].station) \in held[r]
        /\ c \in Codes /\ boot[c].status = "active" /\ boot[c].res = req[r].res
        /\ req[r].station \in Stations
    BY <1>1 DEF CodeInv, RequestInv, LocksTaken, ScanIsFresh, Scanning, HoldsReservation, HoldsStation,
                TypeInv, ScanningComplete
  <1>5. AtMostOneActiveCode'
    BY <1>1, <1>4 DEF CodeInv, AtMostOneActiveCode, CommitWrites
  <1>6. ASSUME NEW q \in Requests \ {r} PROVE RequestInv(q)'
    <2>1. RequestInv(q) /\ req'[q] = req[q] /\ held'[q] = held[q] /\ held[q] \cap held[r] = {}
      BY <1>3 DEF CodeInv, LocksOnlyFree, RowsLockedOnce
    <2>2. LocksTaken(q)'
      BY <2>1 DEF RequestInv, LocksTaken
    <2>3. req[q].pc \in HoldsReservation =>
            /\ req[q].res # req[r].res
            /\ resv'[req[q].res] = resv[req[q].res]
      <3> SUFFICES ASSUME req[q].pc \in HoldsReservation
                   PROVE  req[q].res # req[r].res /\ resv'[req[q].res] = resv[req[q].res]
        OBVIOUS
      <3>1. ReservationRow(req[q].res) \in held[q] /\ req[q].res # req[r].res
        BY <1>4, <2>1 DEF RequestInv, LocksTaken
      <3>2. req[q].res \in Reservations
        BY DEF CodeInv, TypeInv, GeneratingComplete, ScanningComplete, HoldsReservation, Generating, Scanning
      <3> QED
        BY <1>1, <3>1, <3>2 DEF CommitWrites
    <2>4. RevocationComplete(q)'
      <3>1. req[q].pc \in {"genRevoke", "genInsert"} =>
              resv'[req[q].res].status = "confirmed" /\ req[q].res # req[r].res
        BY <2>1, <2>3 DEF RequestInv, RevocationComplete, HoldsReservation
      <3>2. ASSUME req[q].pc = "genInsert", NEW b \in Codes
            PROVE  b \in req[q].revoked <=> boot'[b].status = "active" /\ boot'[b].res = req[q].res
        <4>1. b \in req[q].revoked <=> boot[b].status = "active" /\ boot[b].res = req[q].res
          BY <2>1, <3>2 DEF RequestInv, RevocationComplete
        <4>2. CASE b = c
          BY <1>1, <1>4, <3>1, <3>2, <4>1, <4>2 DEF CommitWrites
        <4>3. CASE b # c
          BY <1>1, <4>1, <4>3 DEF CommitWrites
        <4> QED
          BY <4>2, <4>3
      <3> QED
        BY <2>1, <3>1, <3>2 DEF RevocationComplete
    <2>5. ScanIsFresh(q)'
      <3>1. ASSUME req[q].pc \in Scanning
            PROVE  boot'[req[q].code] = boot[req[q].code]
        <4>1. req[q].code \in Codes /\ BootCodeRow(req[q].code) \in held[q]
          BY <2>1, <3>1 DEF RequestInv, LocksTaken, CodeInv, TypeInv, ScanningComplete
        <4>2. req[q].code # c
          BY <1>4, <2>1, <4>1
        <4> QED
          BY <1>1, <4>1, <4>2 DEF CommitWrites
      <3>2. ASSUME req[q].pc \in HoldsStation
            PROVE  station'[req[q].station] = station[req[q].station]
        <4>1. StationRow(req[q].station) \in held[q]
          BY <2>1, <3>2 DEF RequestInv, LocksTaken
        <4>2. req[q].station # req[r].station /\ req[q].station \in Stations
          BY <1>4, <2>1, <3>2, <4>1 DEF CodeInv, TypeInv, ScanningComplete, Scanning, HoldsStation
        <4> QED
          BY <1>1, <4>2 DEF CommitWrites, CodeInv, TypeInv, TypeOK
      <3>3. ASSUME req[q].pc = "scanCharge"
            PROVE  user'[req[q].user].eligible = user[req[q].user].eligible
        <4>1. req[q].user \in Users
          BY <3>3 DEF CodeInv, TypeInv, ScanningComplete, Scanning
        <4> QED
          BY <1>1, <4>1 DEF CommitWrites
      <3> QED
        BY <2>1, <2>3, <3>1, <3>2, <3>3 DEF RequestInv, ScanIsFresh
    <2> QED
      BY <2>2, <2>4, <2>5 DEF RequestInv
  <1>7. RequestInv(r)'
    BY <1>3, DoneIsFree
  <1>8. RowsLockedOnce'
    BY <1>3, RowsStayLockedOnce DEF CodeInv
  <1> QED
    BY <1>5, <1>6, <1>7, <1>8 DEF CodeInv

(* The mark leaves every code alone that another request holds, or that is no longer active. *)
LEMMA MarkExpiredKeepsCodes ==
  ASSUME CodeInv, TypeInv', NEW r \in Requests, MarkExpired(r)
  PROVE  CodeInv'
  <1> DEFINE c == req[r].code
  <1>1. /\ CanLock(r, {BootCodeRow(c)}) /\ c \in Codes /\ Return(r, "refused")
        /\ UNCHANGED <<station, resv, user>>
    BY DEF MarkExpired, Wanted, CodeInv, TypeInv, ScanningComplete
  <1>2. /\ \A d \in Codes : d # c => boot'[d] = boot[d]
        /\ boot'[c].status = "active" => boot'[c] = boot[c]
    BY <1>1 DEF MarkExpired, CodeInv, TypeInv, TypeOK, BootCodeRows
  <1>3. /\ LocksOnlyFree(r) /\ req'[r].pc = "done"
        /\ \A q \in Requests \ {r} : req'[q] = req[q]
    BY <1>1, ReturnIsFree DEF CodeInv, TypeInv
  <1>4. AtMostOneActiveCode'
    BY <1>1, <1>2 DEF CodeInv, AtMostOneActiveCode
  <1>5. ASSUME NEW q \in Requests \ {r} PROVE RequestInv(q)'
    <2>1. RequestInv(q) /\ req'[q] = req[q] /\ held'[q] = held[q] /\ BootCodeRow(c) \notin held[q]
      BY <1>1, <1>3 DEF CodeInv, LocksOnlyFree, CanLock
    <2>2. LocksTaken(q)'
      BY <2>1 DEF RequestInv, LocksTaken
    <2>3. RevocationComplete(q)'
      <3>1. ASSUME req[q].pc = "genInsert", NEW b \in Codes
            PROVE  b \in req[q].revoked <=> boot'[b].status = "active" /\ boot'[b].res = req[q].res
        <4>1. b \in req[q].revoked <=> boot[b].status = "active" /\ boot[b].res = req[q].res
          BY <2>1, <3>1 DEF RequestInv, RevocationComplete
        <4>2. b \in req[q].revoked => b # c
          BY <2>1, <3>1 DEF RequestInv, LocksTaken
        <4> QED
          BY <1>2, <4>1, <4>2
      <3> QED
        BY <1>1, <2>1, <3>1 DEF RequestInv, RevocationComplete
    <2>4. ScanIsFresh(q)'
      <3>1. ASSUME req[q].pc \in Scanning
            PROVE  boot'[req[q].code] = boot[req[q].code]
        <4>1. req[q].code \in Codes /\ BootCodeRow(req[q].code) \in held[q]
          BY <2>1, <3>1 DEF RequestInv, LocksTaken, CodeInv, TypeInv, ScanningComplete
        <4> QED
          BY <1>2, <2>1, <4>1
      <3> QED
        BY <1>1, <2>1, <3>1 DEF RequestInv, ScanIsFresh
    <2> QED
      BY <2>2, <2>3, <2>4 DEF RequestInv
  <1>6. RequestInv(r)'
    BY <1>3, DoneIsFree
  <1>7. RowsLockedOnce'
    BY <1>3, RowsStayLockedOnce DEF CodeInv
  <1> QED
    BY <1>4, <1>5, <1>6, <1>7 DEF CodeInv

(* Every statement of Verify keeps the code invariant. *)
LEMMA VerifyKeepsCodes ==
  ASSUME CodeInv, TypeInv', NEW r \in Requests, Verify(r)
  PROVE  CodeInv'
  <1>1. CASE Refuse(r)
    BY <1>1, RefuseKeepsCodes DEF Refuse, Answers
  <1>2. CASE VerifyCode(r) /\ ~Refuse(r)
    BY <1>2, VerifyCodeKeepsCodes
  <1>3. CASE VerifyReservation(r) /\ ~Refuse(r)
    BY <1>3, VerifyReservationKeepsCodes
  <1>4. CASE VerifyStation(r) /\ ~Refuse(r)
    BY <1>4, VerifyStationKeepsCodes
  <1>5. CASE VerifyNoSession(r) /\ ~Refuse(r)
    BY <1>5, VerifyNoSessionKeepsCodes
  <1>6. CASE VerifyMember(r) /\ ~Refuse(r)
    BY <1>6, VerifyMemberKeepsCodes
  <1>7. CASE VerifyCommit(r) /\ ~Refuse(r)
    BY <1>7, VerifyCommitKeepsCodes
  <1>8. CASE MarkExpired(r)
    BY <1>8, MarkExpiredKeepsCodes
  <1>9. CASE VerifyBegin(r) /\ ~Refuse(r)
    BY <1>9, VerifyBeginKeepsCodes
  <1> QED
    BY <1>1, <1>2, <1>3, <1>4, <1>5, <1>6, <1>7, <1>8, <1>9 DEF Verify

(* At the start there are no codes and no locks. *)
LEMMA InitCodes == BootInit => CodeInv
  <1> SUFFICES ASSUME BootInit PROVE CodeInv
    OBVIOUS
  <1>1. TypeInv
    BY BootInitType
  <1>2. /\ \A r \in Requests : held[r] = {} /\ req[r].pc = "new"
        /\ \A c \in Codes : boot[c].status = "none"
    BY DEF BootInit, NewRequest, NoBootCode
  <1>3. RowsLockedOnce
    BY <1>2 DEF RowsLockedOnce
  <1>4. \A r \in Requests : RequestInv(r)
    BY <1>2 DEF RequestInv, LocksTaken, RevocationComplete, ScanIsFresh, Scanning,
                HoldsReservation, HoldsStation
  <1>5. AtMostOneActiveCode
    BY <1>2 DEF AtMostOneActiveCode
  <1> QED
    BY <1>1, <1>3, <1>4, <1>5 DEF CodeInv

(* A step that changes nothing keeps the code invariant. *)
LEMMA StutterKeepsCodes ==
  ASSUME CodeInv, TypeInv', UNCHANGED <<tables, held, req>>
  PROVE  CodeInv'
  <1>1. RowsLockedOnce' /\ AtMostOneActiveCode'
    BY DEF CodeInv, RowsLockedOnce, AtMostOneActiveCode, tables
  <1>2. ASSUME NEW r \in Requests PROVE RequestInv(r)'
    BY DEF CodeInv, RequestInv, LocksTaken, RevocationComplete, ScanIsFresh, tables
  <1> QED
    BY <1>1, <1>2 DEF CodeInv

(* The code invariant is inductive. *)
LEMMA BootNextKeepsCodes == CodeInv /\ [BootNext]_vars => CodeInv'
  <1> SUFFICES ASSUME CodeInv, [BootNext]_vars PROVE CodeInv'
    OBVIOUS
  <1>1. TypeInv'
    BY BootNextType DEF CodeInv
  <1>2. ASSUME NEW r \in Requests, Generate(r) PROVE CodeInv'
    BY <1>1, <1>2, GenerateKeepsCodes
  <1>3. ASSUME NEW r \in Requests, Verify(r) PROVE CodeInv'
    BY <1>1, <1>3, VerifyKeepsCodes
  <1>4. ASSUME NEW r \in Requests, Fail(r) \/ DeadlockVictim(r) PROVE CodeInv'
    BY <1>4, RefuseKeepsCodes DEF Fail, DeadlockVictim, Answers
  <1>5. CASE Tick \/ UNCHANGED vars
    BY <1>1, <1>5, StutterKeepsCodes DEF Tick, vars
  <1> QED
    BY <1>2, <1>3, <1>4, <1>5 DEF BootNext

(* However many requests ask for a code of the same reservation at once, at most one of its *)
(* codes can still be scanned.                                                               *)
THEOREM BootAtMostOneActiveCode == BootSpec => []AtMostOneActiveCode
  <1>1. CodeInv => AtMostOneActiveCode
    BY DEF CodeInv
  <1> QED
    BY <1>1, InitCodes, BootNextKeepsCodes, PTL DEF BootSpec

-----------------------------------------------------------------------------
(* No step rewrites the outcome of a code, or moves it to another reservation. *)
CodeStep == \A c \in Codes : boot[c].status # "none" =>
              /\ boot[c].status # "active" => boot'[c] = boot[c]
              /\ boot'[c].status # "none"
              /\ boot'[c].res = boot[c].res /\ boot'[c].expire = boot[c].expire

(* Generate rewrites active codes only, and gives its own to a code nobody had. *)
LEMMA GenerateKeepsOutcomes ==
  ASSUME CodeInv, NEW r \in Requests, Generate(r)
  PROVE  CodeStep
  <1>1. CASE GenerateInsert(r)
    <2>1. PICK c \in Codes :
            /\ UniqueCode(c)
            /\ boot' = [b \in Codes |->
                 IF b = c THEN [status |-> "active", res |-> req[r].res, session |-> Nil,
                                user |-> resv[req[r].res].user,
                                station |-> resv[req[r].res].station, expire |-> req[r].at + TTL]
                 ELSE IF b \in req[r].revoked THEN [boot[b] EXCEPT !.status = "cancelled"]
                 ELSE boot[b]]
      BY <1>1 DEF GenerateInsert
    <2>2. \A b \in req[r].revoked : boot[b].status = "active"
      BY <1>1 DEF GenerateInsert, CodeInv, RequestInv, RevocationComplete, TypeInv, TypeOK, RequestStates
    <2>3. boot \in [Codes -> BootCodeRows]
      BY DEF CodeInv, TypeInv, TypeOK
    <2> QED
      BY <2>1, <2>2, <2>3 DEF CodeStep, UniqueCode, BootCodeRows
  <1>2. CASE ~GenerateInsert(r)
    BY <1>2, ZenonT(30)
    DEF Generate, GenerateRead, GenerateStation, GenerateLock, GenerateRevoke, GenerateExhausted,
        Refuse, CodeStep, tables
  <1> QED
    BY <1>1, <1>2

(* Verify rewrites active codes only: the one it holds, or the one it marks. *)
LEMMA VerifyKeepsOutcomes ==
  ASSUME CodeInv, NEW r \in Requests, Verify(r)
  PROVE  CodeStep
  <1>1. CASE VerifyCommit(r) /\ ~Refuse(r)
    <2>1. CommitWrites(r) /\ req[r].pc = "scanCharge"
      BY <1>1, VerifyCommitWrites DEF CodeInv
    <2>2. req[r].code \in Codes /\ boot[req[r].code].status = "active"
      BY <2>1 DEF CodeInv, TypeInv, RequestInv, ScanIsFresh, ScanningComplete, Scanning
    <2> QED
      BY <2>1, <2>2 DEF CodeStep, CommitWrites
  <1>2. CASE MarkExpired(r)
    <2>1. boot \in [Codes -> BootCodeRows]
      BY DEF CodeInv, TypeInv, TypeOK
    <2>2. PICK c : \/ boot' = boot
                   \/ boot[c].status = "active" /\ boot' = [boot EXCEPT ![c].status = "expired"]
      BY <1>2 DEF MarkExpired
    <2> QED
      BY <2>1, <2>2 DEF CodeStep, BootCodeRows
  <1>3. CASE Refuse(r)
    BY <1>3 DEF Refuse, CodeStep, tables
  <1>4. CASE ~VerifyCommit(r) /\ ~MarkExpired(r)
    BY <1>4, ZenonT(30)
    DEF Verify, VerifyBegin, VerifyCode, VerifyReservation, VerifyStation, VerifyNoSession, VerifyMember,
        Refuse, CodeStep, tables
  <1> QED
    BY <1>1, <1>2, <1>3, <1>4

(* used, expired and cancelled are final, and no step moves a code to another reservation. *)
THEOREM BootCodesAreFinal == BootSpec => CodesAreFinal
  <1>1. CodeInv /\ [BootNext]_vars => [CodeStep]_vars
    <2> SUFFICES ASSUME CodeInv, BootNext PROVE CodeStep
      OBVIOUS
    <2>1. ASSUME NEW r \in Requests, Fail(r) \/ DeadlockVictim(r) PROVE CodeStep
      BY <2>1 DEF Fail, DeadlockVictim, CodeStep, tables
    <2>2. CASE Tick
      BY <2>2 DEF Tick, CodeStep, tables
    <2> QED
      BY <2>1, <2>2, GenerateKeepsOutcomes, VerifyKeepsOutcomes DEF BootNext
  <1> QED
    BY <1>1, InitCodes, BootNextKeepsCodes, PTL DEF BootSpec, CodesAreFinal, CodeStep

-----------------------------------------------------------------------------
(* Seats *)

(* The request of a step is not over yet; it has opened no session. *)
LEMMA NoSessionYet ==
  ASSUME BootInv, NEW r \in Requests, req[r].pc # "done"
  PROVE  sess[r].status = "none"
  BY DEF BootInv, SeatInv, SessionsClose

(* A step that writes no table, taken by a request that is not early. *)
LEMMA ReadKeepsSeats ==
  ASSUME BootInv, NEW r \in Requests, req[r].pc # "done", UNCHANGED <<clock, tables>>,
         \A q \in Requests \ {r} : req'[q] = req[q],
         req'[r].pc \in Generating \cup Scanning => WindowOpen(req'[r].res),
         req'[r].pc = "scanCharge" => req'[r].at >= resv[req'[r].res].start - Early
  PROVE  SeatInv'
  <1>1. SessionsClose'
    BY NoSessionYet DEF BootInv, SeatInv, SessionsClose, tables
  <1>2. /\ SessionsComeFromUsedCodes' /\ UsedCodesMatchSessions'
        /\ OneSessionPerReservation' /\ NoEarlyBoot' /\ EmptyRows'
    BY DEF BootInv, SeatInv, SessionsComeFromUsedCodes, UsedCodesMatchSessions, OneSessionPerReservation,
           NoEarlyBoot, EmptyRows, tables
  <1>3. StationInUseIffOneSession'
    <2>1. \A s : OpenSessions(s)' = OpenSessions(s)
      BY DEF OpenSessions, tables
    <2> QED
      BY <2>1 DEF BootInv, SeatInv, StationInUseIffOneSession, tables
  <1>4. NothingEarly'
    BY DEF BootInv, SeatInv, NothingEarly, WindowOpen, tables
  <1> QED
    BY <1>1, <1>2, <1>3, <1>4 DEF SeatInv

(* A rollback seats nobody. *)
LEMMA RefuseKeepsSeats ==
  ASSUME BootInv, NEW r \in Requests, NEW answer \in Answers, req[r].pc # "done",
         Return(r, answer), UNCHANGED <<clock, tables>>
  PROVE  SeatInv'
  <1>1. req'[r].pc = "done" /\ \A q \in Requests \ {r} : req'[q] = req[q]
    BY ReturnIsFree DEF BootInv, SeatInv, CodeInv, TypeInv
  <1> QED
    BY <1>1, ReadKeepsSeats DEF Generating, Scanning

(* A step from one statement to the next of the same reservation. *)
LEMMA GotoKeepsSeats ==
  ASSUME BootInv, NEW r \in Requests, req[r].pc \in Generating \cup Scanning,
         NEW label \in Labels \ {"scanCharge"}, Goto(r, label), UNCHANGED <<clock, tables>>
  PROVE  SeatInv'
  <1>1. /\ req'[r].pc = label /\ req'[r].res = req[r].res
        /\ \A q \in Requests \ {r} : req'[q] = req[q]
    BY GotoFields DEF BootInv, SeatInv, CodeInv, TypeInv
  <1>2. WindowOpen(req[r].res) /\ req[r].pc # "done"
    BY DEF BootInv, SeatInv, NothingEarly, Generating, Scanning
  <1> QED
    BY <1>1, <1>2, ReadKeepsSeats

-----------------------------------------------------------------------------
(* The commit of Generate touches codes without a session only. *)
LEMMA GenerateInsertKeepsSeats ==
  ASSUME BootInv, NEW r \in Requests, GenerateInsert(r)
  PROVE  SeatInv'
  <1>1. PICK c \in Codes, answer \in Answers :
          /\ UniqueCode(c)
          /\ boot' = [b \in Codes |->
               IF b = c THEN [status |-> "active", res |-> req[r].res, session |-> Nil,
                              user |-> resv[req[r].res].user,
                              station |-> resv[req[r].res].station, expire |-> req[r].at + TTL]
               ELSE IF b \in req[r].revoked THEN [boot[b] EXCEPT !.status = "cancelled"]
               ELSE boot[b]]
          /\ Return(r, answer)
    BY DEF GenerateInsert, Commit, Answers
  <1>2. /\ req'[r].pc = "done" /\ \A q \in Requests \ {r} : req'[q] = req[q]
        /\ req[r].pc = "genInsert" /\ UNCHANGED <<clock, station, resv, sess>>
    BY <1>1, ReturnIsFree DEF BootInv, SeatInv, CodeInv, TypeInv, GenerateInsert
  <1>3. \A b \in req[r].revoked : boot[b].status = "active"
    BY <1>2 DEF BootInv, SeatInv, CodeInv, RequestInv, RevocationComplete, TypeInv, TypeOK, RequestStates
  <1>4. boot \in [Codes -> BootCodeRows]
    BY DEF BootInv, SeatInv, CodeInv, TypeInv, TypeOK
  <1>5. /\ boot[c].status = "none" /\ boot'[c].status = "active"
        /\ boot'[c].session = Nil /\ boot'[c].res = req[r].res
    BY <1>1, <1>4 DEF UniqueCode
  <1>6. ASSUME NEW b \in Codes, b # c
        PROVE  /\ boot'[b].session = boot[b].session /\ boot'[b].res = boot[b].res
               /\ boot'[b].user = boot[b].user /\ boot'[b].station = boot[b].station
               /\ boot[b].status = "used" <=> boot'[b].status = "used"
               /\ boot[b].status = "none" <=> boot'[b].status = "none"
    BY <1>1, <1>3, <1>4, <1>6 DEF BootCodeRows
  <1>7. SessionsClose' /\ OneSessionPerReservation' /\ NoEarlyBoot'
    BY <1>2, NoSessionYet DEF BootInv, SeatInv, SessionsClose, OneSessionPerReservation, NoEarlyBoot
  <1>8. SessionsComeFromUsedCodes'
    BY <1>5, <1>6 DEF BootInv, SeatInv, SessionsComeFromUsedCodes
  <1>9. UsedCodesMatchSessions'
    <2>1. ASSUME NEW b \in Codes, boot'[b].status = "used"
          PROVE  /\ boot'[b].session # Nil
                 /\ LET k == sess'[boot'[b].session] IN
                      /\ k.status # "none" /\ k.res = boot'[b].res
                      /\ k.user = boot'[b].user /\ k.station = boot'[b].station
      <3>1. b # c
        BY <1>5, <2>1
      <3> QED
        BY <1>2, <1>6, <2>1, <3>1 DEF BootInv, SeatInv, UsedCodesMatchSessions
    <2>2. ASSUME NEW k \in Requests, sess'[k].status # "none"
          PROVE  \E b \in Codes : /\ boot'[b].status = "used" /\ boot'[b].session = k
                                  /\ \A d \in Codes : boot'[d].session = k => d = b
      <3>1. PICK b \in Codes : /\ boot[b].status = "used" /\ boot[b].session = k
                               /\ \A d \in Codes : boot[d].session = k => d = b
        BY <1>2, <2>2 DEF BootInv, SeatInv, UsedCodesMatchSessions
      <3>2. b # c /\ k # Nil
        BY <1>5, <3>1, NilAssumption
      <3>3. /\ boot'[b].status = "used" /\ boot'[b].session = k
            /\ \A d \in Codes : boot'[d].session = k => d = b
        BY <1>5, <1>6, <3>1, <3>2
      <3> QED
        BY <3>3
    <2> QED
      BY <2>1, <2>2 DEF UsedCodesMatchSessions
  <1>10. StationInUseIffOneSession'
    <2>1. \A s : OpenSessions(s)' = OpenSessions(s)
      BY <1>2 DEF OpenSessions
    <2> QED
      BY <1>2, <2>1 DEF BootInv, SeatInv, StationInUseIffOneSession
  <1>11. NothingEarly'
    <2>1. WindowOpen(req[r].res)
      BY <1>2 DEF BootInv, SeatInv, NothingEarly, Generating
    <2>2. \A i : WindowOpen(i)' <=> WindowOpen(i)
      BY <1>2 DEF WindowOpen
    <2>3. \A b \in Codes : boot'[b].status # "none" => WindowOpen(boot'[b].res)
      BY <1>5, <1>6, <2>1 DEF BootInv, SeatInv, NothingEarly
    <2> QED
      BY <1>2, <2>2, <2>3 DEF BootInv, SeatInv, NothingEarly, Generating, Scanning
  <1>12. EmptyRows'
    BY <1>2, <1>5, <1>6 DEF BootInv, SeatInv, EmptyRows
  <1> QED
    BY <1>7, <1>8, <1>9, <1>10, <1>11, <1>12 DEF SeatInv

(* Every statement of Generate keeps the seat invariant. *)
LEMMA GenerateKeepsSeats ==
  ASSUME BootInv, NEW r \in Requests, Generate(r)
  PROVE  SeatInv'
  <1>1. CASE Refuse(r)
    <2>1. req[r].pc # "done"
      BY ZenonT(30) DEF Generate, GenerateRead, GenerateStation, GenerateLock, GenerateRevoke,
             GenerateInsert, GenerateExhausted
    <2> QED
      BY <1>1, <2>1, RefuseKeepsSeats DEF Refuse, Answers
  <1>2. CASE GenerateRead(r) /\ ~Refuse(r)
    <2>1. PICK i \in Reservations :
            /\ InArrivalWindow(clock, resv[i])
            /\ req' = [req EXCEPT ![r] = [@ EXCEPT !.pc = "genStation", !.res = i, !.at = clock]]
            /\ UNCHANGED <<clock, tables, held>> /\ req[r].pc = "new"
      BY <1>2 DEF GenerateRead
    <2>2. /\ req'[r].pc = "genStation" /\ req'[r].res = i
          /\ \A q \in Requests \ {r} : req'[q] = req[q]
      BY <2>1 DEF BootInv, SeatInv, CodeInv, TypeInv, TypeOK, RequestStates
    <2>3. WindowOpen(i)
      BY <2>1, NumbersAssumption
      DEF InArrivalWindow, WindowOpen, BootInv, CodeInv, TypeInv, TypeOK, ReservationRows
    <2> QED
      BY <2>1, <2>2, <2>3, ReadKeepsSeats
  <1>3. CASE GenerateStation(r) /\ ~Refuse(r)
    BY <1>3, GotoKeepsSeats DEF GenerateStation, Generating, Labels
  <1>4. CASE GenerateLock(r) /\ ~Refuse(r)
    BY <1>4, GotoKeepsSeats DEF GenerateLock, Generating, Labels
  <1>5. CASE GenerateRevoke(r)
    <2>1. /\ req'[r].pc = "genInsert" /\ req'[r].res = req[r].res /\ req[r].pc = "genRevoke"
          /\ \A q \in Requests \ {r} : req'[q] = req[q]
          /\ UNCHANGED <<clock, tables>>
      BY <1>5 DEF GenerateRevoke, BootInv, CodeInv, TypeInv, TypeOK, RequestStates
    <2>2. WindowOpen(req[r].res)
      BY <2>1 DEF BootInv, SeatInv, NothingEarly, Generating
    <2> QED
      BY <2>1, <2>2, ReadKeepsSeats
  <1>6. CASE GenerateInsert(r)
    BY <1>6, GenerateInsertKeepsSeats
  <1> QED
    BY <1>1, <1>2, <1>3, <1>4, <1>5, <1>6 DEF Generate, GenerateExhausted

-----------------------------------------------------------------------------
(* A scan starts within the window its code was made in, or later. *)
LEMMA VerifyCodeKeepsSeats ==
  ASSUME BootInv, NEW r \in Requests, VerifyCode(r), ~Refuse(r)
  PROVE  SeatInv'
  <1> DEFINE c == req[r].code
  <1>1. /\ req[r].pc = "scanCode" /\ c \in Codes /\ UNCHANGED <<clock, tables>>
        /\ \A q \in Requests \ {r} : req'[q] = req[q]
    BY VerifyCodeFields DEF BootInv, CodeInv
  <1>2. CASE req'[r].pc = "scanReservation"
    <2>1. Redeemable(c) /\ req'[r].res = boot[c].res
      BY <1>2, VerifyCodeFields DEF BootInv, CodeInv
    <2>2. WindowOpen(boot[c].res)
      BY <1>1, <2>1 DEF Redeemable, BootInv, SeatInv, NothingEarly
    <2> QED
      BY <1>1, <1>2, <2>1, <2>2, ReadKeepsSeats, ZenonT(30)
  <1>3. CASE req'[r].pc = "scanExpire"
    BY <1>1, <1>3, ReadKeepsSeats, ZenonT(30) DEF Generating, Scanning
  <1> QED
    BY <1>2, <1>3, VerifyCodeFields DEF BootInv, CodeInv

(* An arriving scan seats nobody. *)
LEMMA VerifyBeginKeepsSeats ==
  ASSUME BootInv, NEW r \in Requests, VerifyBegin(r), ~Refuse(r)
  PROVE  SeatInv'
  <1>1. /\ req[r].pc = "new" /\ req'[r].pc = "scanCode" /\ UNCHANGED <<clock, tables>>
        /\ \A q \in Requests \ {r} : req'[q] = req[q]
    BY VerifyBeginFields DEF BootInv, CodeInv
  <1> QED
    BY <1>1, ReadKeepsSeats, ZenonT(30) DEF Generating, Scanning

(* The start of the session is not before the window. *)
LEMMA VerifyMemberKeepsSeats ==
  ASSUME BootInv, NEW r \in Requests, VerifyMember(r), ~Refuse(r)
  PROVE  SeatInv'
  <1>1. /\ req' = [req EXCEPT ![r] = [@ EXCEPT !.pc = "scanCharge", !.at = clock]]
        /\ req[r].pc = "scanMember" /\ UNCHANGED <<clock, tables>>
    BY DEF VerifyMember
  <1>2. /\ req'[r].pc = "scanCharge" /\ req'[r].res = req[r].res /\ req'[r].at = clock
        /\ \A q \in Requests \ {r} : req'[q] = req[q]
    BY <1>1 DEF BootInv, SeatInv, CodeInv, TypeInv, TypeOK, RequestStates
  <1>3. WindowOpen(req[r].res)
    BY <1>1 DEF BootInv, SeatInv, NothingEarly, Scanning
  <1> QED
    BY <1>1, <1>2, <1>3, ReadKeepsSeats DEF WindowOpen

(* The commit of a scan: a new session, its code used, its reservation closed, its station in use. *)
LEMMA VerifyCommitKeepsSeats ==
  ASSUME BootInv, NEW r \in Requests, VerifyCommit(r), ~Refuse(r)
  PROVE  SeatInv'
  <1> DEFINE c == req[r].code
             i == req[r].res
  <1>1. CommitWrites(r) /\ req[r].pc = "scanCharge" /\ UNCHANGED clock
    BY VerifyCommitWrites DEF BootInv, SeatInv, CodeInv
  <1>2. req'[r].pc = "done" /\ \A q \in Requests \ {r} : req'[q] = req[q]
    BY ReturnIsFree, ZenonT(30) DEF VerifyCommit, Commit, Answers, BootInv, CodeInv, TypeInv
  <1>3. c \in Codes /\ i \in Reservations
    BY <1>1 DEF BootInv, SeatInv, CodeInv, TypeInv, ScanningComplete, Scanning
  <1>s. PICK s \in Stations : s = req[r].station
    BY <1>1 DEF BootInv, SeatInv, CodeInv, TypeInv, ScanningComplete, Scanning
  <1>4. /\ boot[c].status = "active" /\ boot[c].res = i /\ boot[c].user = req[r].user
        /\ boot[c].station = s /\ resv[i].status = "confirmed" /\ station[s] \in {"idle", "reserved"}
    BY <1>1, <1>s DEF BootInv, SeatInv, CodeInv, RequestInv, ScanIsFresh, Scanning, HoldsReservation, HoldsStation
  <1>5. sess[r].status = "none" /\ r # Nil /\ \A b \in Codes : boot[b].session # r
    <2>1. sess[r].status = "none"
      BY <1>1, NoSessionYet
    <2> QED
      BY <2>1, NilAssumption DEF BootInv, SeatInv, SessionsComeFromUsedCodes, UsedCodesMatchSessions
  <1>6. SessionsClose'
    <2>1. ASSUME NEW k \in Requests, k # r, sess[k].status # "none"
          PROVE  sess[k].res # i
      BY <1>4, <2>1 DEF BootInv, SeatInv, SessionsClose
    <2> QED
      BY <1>1, <1>2, <1>3, <2>1 DEF BootInv, SeatInv, SessionsClose, CommitWrites
  <1>7. OneSessionPerReservation'
    <2>1. \A k \in Requests : sess[k].status # "none" => sess[k].res # i
      BY <1>4 DEF BootInv, SeatInv, SessionsClose
    <2> QED
      BY <1>1, <2>1 DEF BootInv, SeatInv, OneSessionPerReservation, CommitWrites
  <1>8. SessionsComeFromUsedCodes'
    BY <1>1 DEF BootInv, SeatInv, SessionsComeFromUsedCodes, CommitWrites
  <1>9. UsedCodesMatchSessions'
    <2>1. ASSUME NEW b \in Codes, boot'[b].status = "used"
          PROVE  /\ boot'[b].session # Nil
                 /\ LET k == sess'[boot'[b].session] IN
                      /\ k.status # "none" /\ k.res = boot'[b].res
                      /\ k.user = boot'[b].user /\ k.station = boot'[b].station
      <3>1. CASE b = c
        <4>1. /\ boot'[c].session = r /\ boot'[c].res = i
              /\ boot'[c].user = req[r].user /\ boot'[c].station = s
          BY <1>1, <1>4 DEF CommitWrites
        <4>2. /\ sess'[r].status # "none" /\ sess'[r].res = i
              /\ sess'[r].user = req[r].user /\ sess'[r].station = s
          BY <1>1, <1>s DEF CommitWrites
        <4> QED
          BY <1>5, <3>1, <4>1, <4>2
      <3>2. CASE b # c
        <4>1. boot'[b] = boot[b]
          BY <1>1, <3>2 DEF CommitWrites
        <4>2. boot[b].session \in Requests /\ boot[b].session # r
          BY <1>5, <2>1, <4>1 DEF BootInv, SeatInv, CodeInv, TypeInv, TypeOK, BootCodeRows, UsedCodesMatchSessions
        <4> QED
          <5>1. sess'[boot[b].session] = sess[boot[b].session]
            BY <1>1, <4>2 DEF CommitWrites
          <5>2. UsedCodesMatchSessions
            BY DEF BootInv, SeatInv
          <5> QED
            BY <2>1, <4>1, <5>1, <5>2 DEF UsedCodesMatchSessions
      <3> QED
        BY <3>1, <3>2
    <2>2. ASSUME NEW k \in Requests, sess'[k].status # "none"
          PROVE  \E b \in Codes : /\ boot'[b].status = "used" /\ boot'[b].session = k
                                  /\ \A d \in Codes : boot'[d].session = k => d = b
      <3>1. CASE k = r
        BY <1>1, <1>3, <1>5, <3>1 DEF CommitWrites
      <3>2. CASE k # r
        <4>1. PICK b \in Codes : /\ boot[b].status = "used" /\ boot[b].session = k
                                 /\ \A d \in Codes : boot[d].session = k => d = b
          <5>1. sess[k].status # "none"
            BY <1>1, <2>2, <3>2 DEF CommitWrites
          <5>2. UsedCodesMatchSessions
            BY DEF BootInv, SeatInv
          <5> QED
            BY <5>1, <5>2 DEF UsedCodesMatchSessions
        <4> QED
          BY <1>1, <1>4, <3>2, <4>1 DEF CommitWrites
      <3> QED
        BY <3>1, <3>2
    <2> QED
      BY <2>1, <2>2 DEF UsedCodesMatchSessions
  <1>10. StationInUseIffOneSession'
    <2>1. OpenSessions(s) = {}
      BY <1>4 DEF BootInv, SeatInv, StationInUseIffOneSession
    <2>2. OpenSessions(s)' = {r}
      <3>1. \A k \in Requests : sess'[k].status = "active" /\ sess'[k].station = s <=> k = r
        BY <1>1, <1>s, <2>1 DEF OpenSessions, CommitWrites
      <3> QED
        BY <3>1 DEF OpenSessions
    <2>3. station'[s] = "using" /\ \A t \in Stations : t # s => station'[t] = station[t]
      BY <1>1, <1>s DEF CommitWrites, BootInv, CodeInv, TypeInv, TypeOK
    <2>4. \A t \in Stations : t # s => OpenSessions(t)' = OpenSessions(t)
      BY <1>1, <1>s, <1>5 DEF OpenSessions, CommitWrites
    <2>5. Cardinality({r}) =< 1
      <3>1. Cardinality({r}) = 1
        BY FS_Singleton
      <3> QED
        BY <3>1
    <2>6. ASSUME NEW t \in Stations
          PROVE  /\ Cardinality(OpenSessions(t)') =< 1
                 /\ station'[t] = "using" <=> OpenSessions(t)' # {}
      <3>1. CASE t = s
        BY <2>2, <2>3, <2>5, <3>1
      <3>2. CASE t # s
        BY <2>3, <2>4, <3>2 DEF BootInv, SeatInv, StationInUseIffOneSession
      <3> QED
        BY <3>1, <3>2
    <2> QED
      BY <2>6 DEF StationInUseIffOneSession
  <1>11. NothingEarly'
    <2>1. \A j \in Reservations : resv'[j].start = resv[j].start
      BY <1>1 DEF CommitWrites
    <2>2. \A b \in Codes : /\ boot'[b].status # "none" => boot[b].status # "none"
                           /\ boot'[b].res = boot[b].res
      BY <1>1, <1>4 DEF CommitWrites
    <2>3. \A b \in Codes : boot[b].status # "none" => boot[b].res \in Reservations
      BY DEF BootInv, SeatInv, CodeInv, TypeInv, CodesComplete
    <2>4. \A q \in Requests : req[q].pc \in Generating \cup Scanning => req[q].res \in Reservations
      BY DEF BootInv, SeatInv, CodeInv, TypeInv, GeneratingComplete, ScanningComplete
    <2>5. \A b \in Codes : boot'[b].status # "none" => clock' >= resv'[boot'[b].res].start - Early
      BY <1>1, <2>1, <2>2, <2>3 DEF BootInv, SeatInv, NothingEarly, WindowOpen
    <2>6. \A q \in Requests : req'[q].pc \in Generating \cup Scanning => clock' >= resv'[req'[q].res].start - Early
      <3> SUFFICES ASSUME NEW q \in Requests, req'[q].pc \in Generating \cup Scanning
                   PROVE  clock' >= resv'[req'[q].res].start - Early
        OBVIOUS
      <3>1. q # r /\ req'[q] = req[q]
        BY <1>2 DEF Generating, Scanning
      <3> QED
        BY <1>1, <2>1, <2>4, <3>1 DEF BootInv, SeatInv, NothingEarly, WindowOpen
    <2>7. \A q \in Requests : req'[q].pc = "scanCharge" =>
            req'[q].at >= resv'[req'[q].res].start - Early
      BY <1>2, <2>1, <2>4 DEF BootInv, SeatInv, NothingEarly, Scanning
    <2> QED
      BY <2>5, <2>6, <2>7 DEF NothingEarly, WindowOpen
  <1>12. NoEarlyBoot'
    <2>1. req[r].at >= resv[i].start - Early
      BY <1>1 DEF BootInv, SeatInv, NothingEarly
    <2>2. \A k \in Requests : sess[k].status # "none" => sess[k].res \in Reservations
      BY DEF BootInv, SeatInv, SessionsClose
    <2> QED
      BY <1>1, <1>3, <2>1, <2>2 DEF BootInv, SeatInv, NoEarlyBoot, CommitWrites
  <1>13. EmptyRows'
    BY <1>1, <1>3, <1>4 DEF BootInv, SeatInv, EmptyRows, CommitWrites
  <1> QED
    BY <1>6, <1>7, <1>8, <1>9, <1>10, <1>11, <1>12, <1>13 DEF SeatInv

(* The late mark finds only codes without a session. *)
LEMMA MarkExpiredKeepsSeats ==
  ASSUME BootInv, NEW r \in Requests, MarkExpired(r)
  PROVE  SeatInv'
  <1> DEFINE c == req[r].code
  <1>1. /\ req[r].pc = "scanExpire" /\ req'[r].pc = "done"
        /\ \A q \in Requests \ {r} : req'[q] = req[q]
        /\ UNCHANGED <<clock, station, resv, sess>>
    BY ReturnIsFree DEF MarkExpired, BootInv, CodeInv, TypeInv
  <1>2. c \in Codes /\ boot \in [Codes -> BootCodeRows]
    BY <1>1 DEF BootInv, CodeInv, TypeInv, TypeOK, ScanningComplete
  <1>3. /\ \A d \in Codes : d # c => boot'[d] = boot[d]
        /\ \/ boot'[c] = boot[c]
           \/ boot[c].status = "active" /\ boot'[c] = [boot[c] EXCEPT !.status = "expired"]
    BY <1>2 DEF MarkExpired
  <1>4. ASSUME NEW d \in Codes
        PROVE  /\ boot'[d].session = boot[d].session /\ boot'[d].res = boot[d].res
               /\ boot'[d].user = boot[d].user /\ boot'[d].station = boot[d].station
               /\ boot[d].status = "used" <=> boot'[d].status = "used"
               /\ boot[d].status = "none" <=> boot'[d].status = "none"
    <2>1. CASE d = c
      <3>1. boot[c] \in BootCodeRows
        BY <1>2
      <3>2. CASE boot'[c] = boot[c]
        BY <2>1, <3>2
      <3>3. CASE boot[c].status = "active" /\ boot'[c] = [boot[c] EXCEPT !.status = "expired"]
        BY <2>1, <3>1, <3>3 DEF BootCodeRows
      <3> QED
        BY <1>3, <3>2, <3>3
    <2>2. CASE d # c
      BY <1>3, <2>2
    <2> QED
      BY <2>1, <2>2
  <1>5. SessionsClose' /\ OneSessionPerReservation' /\ NoEarlyBoot'
    BY <1>1, NoSessionYet DEF BootInv, SeatInv, SessionsClose, OneSessionPerReservation, NoEarlyBoot
  <1>6. SessionsComeFromUsedCodes' /\ EmptyRows'
    BY <1>1, <1>4 DEF BootInv, SeatInv, SessionsComeFromUsedCodes, EmptyRows
  <1>7. UsedCodesMatchSessions'
    <2>1. ASSUME NEW b \in Codes, boot'[b].status = "used"
          PROVE  /\ boot'[b].session # Nil
                 /\ LET k == sess'[boot'[b].session] IN
                      /\ k.status # "none" /\ k.res = boot'[b].res
                      /\ k.user = boot'[b].user /\ k.station = boot'[b].station
      BY <1>1, <1>4, <2>1 DEF BootInv, SeatInv, UsedCodesMatchSessions
    <2>2. ASSUME NEW k \in Requests, sess'[k].status # "none"
          PROVE  \E b \in Codes : /\ boot'[b].status = "used" /\ boot'[b].session = k
                                  /\ \A d \in Codes : boot'[d].session = k => d = b
      <3>1. PICK b \in Codes : /\ boot[b].status = "used" /\ boot[b].session = k
                               /\ \A d \in Codes : boot[d].session = k => d = b
        BY <1>1, <2>2 DEF BootInv, SeatInv, UsedCodesMatchSessions
      <3>2. /\ boot'[b].status = "used" /\ boot'[b].session = k
            /\ \A d \in Codes : boot'[d].session = k => d = b
        BY <1>4, <3>1
      <3> QED
        BY <3>2
    <2> QED
      BY <2>1, <2>2 DEF UsedCodesMatchSessions
  <1>8. StationInUseIffOneSession'
    <2>1. \A s : OpenSessions(s)' = OpenSessions(s)
      BY <1>1 DEF OpenSessions
    <2> QED
      BY <1>1, <2>1 DEF BootInv, SeatInv, StationInUseIffOneSession
  <1>9. NothingEarly'
    <2>1. \A b \in Codes : boot'[b].status # "none" => WindowOpen(boot'[b].res)
      BY <1>4 DEF BootInv, SeatInv, NothingEarly
    <2>2. \A i : WindowOpen(i)' <=> WindowOpen(i)
      BY <1>1 DEF WindowOpen
    <2> QED
      BY <1>1, <2>1, <2>2 DEF BootInv, SeatInv, NothingEarly, Generating, Scanning
  <1> QED
    BY <1>5, <1>6, <1>7, <1>8, <1>9 DEF SeatInv

(* Every statement of Verify keeps the seat invariant. *)
LEMMA VerifyKeepsSeats ==
  ASSUME BootInv, NEW r \in Requests, Verify(r)
  PROVE  SeatInv'
  <1>1. CASE Refuse(r)
    <2>1. req[r].pc # "done"
      BY ZenonT(30) DEF Verify, VerifyBegin, VerifyCode, VerifyReservation, VerifyStation, VerifyNoSession, VerifyMember,
             VerifyCommit, MarkExpired
    <2> QED
      BY <1>1, <2>1, RefuseKeepsSeats DEF Refuse, Answers
  <1>2. CASE VerifyCode(r) /\ ~Refuse(r)
    BY <1>2, VerifyCodeKeepsSeats
  <1>3. CASE VerifyReservation(r) /\ ~Refuse(r)
    BY <1>3, GotoKeepsSeats DEF VerifyReservation, Scanning, Labels
  <1>4. CASE VerifyStation(r) /\ ~Refuse(r)
    BY <1>4, GotoKeepsSeats DEF VerifyStation, Scanning, Labels
  <1>5. CASE VerifyNoSession(r) /\ ~Refuse(r)
    BY <1>5, GotoKeepsSeats DEF VerifyNoSession, Scanning, Labels
  <1>6. CASE VerifyMember(r) /\ ~Refuse(r)
    BY <1>6, VerifyMemberKeepsSeats
  <1>7. CASE VerifyCommit(r) /\ ~Refuse(r)
    BY <1>7, VerifyCommitKeepsSeats
  <1>8. CASE MarkExpired(r)
    BY <1>8, MarkExpiredKeepsSeats
  <1>9. CASE VerifyBegin(r) /\ ~Refuse(r)
    BY <1>9, VerifyBeginKeepsSeats
  <1> QED
    BY <1>1, <1>2, <1>3, <1>4, <1>5, <1>6, <1>7, <1>8, <1>9 DEF Verify

(* Time only opens arrival windows. *)
LEMMA TickKeepsSeats ==
  ASSUME BootInv, Tick
  PROVE  SeatInv'
  <1>1. /\ SessionsClose' /\ SessionsComeFromUsedCodes' /\ UsedCodesMatchSessions'
        /\ OneSessionPerReservation' /\ NoEarlyBoot' /\ EmptyRows'
    BY DEF Tick, BootInv, SeatInv, SessionsClose, SessionsComeFromUsedCodes, UsedCodesMatchSessions,
           OneSessionPerReservation, NoEarlyBoot, EmptyRows, tables
  <1>2. StationInUseIffOneSession'
    <2>1. \A s : OpenSessions(s)' = OpenSessions(s)
      BY DEF Tick, OpenSessions, tables
    <2> QED
      BY <2>1 DEF Tick, BootInv, SeatInv, StationInUseIffOneSession, tables
  <1>3. NothingEarly'
    <2>1. /\ clock \in Nat /\ clock' = clock + 1 /\ UNCHANGED <<resv, boot, req>> /\ Early \in Nat
      BY NumbersAssumption DEF Tick, tables, BootInv, CodeInv, TypeInv, TypeOK
    <2>2. ASSUME NEW i \in Reservations, WindowOpen(i)
          PROVE  WindowOpen(i)'
      <3>1. resv[i].start \in Nat
        BY DEF BootInv, CodeInv, TypeInv, TypeOK, ReservationRows
      <3> QED
        BY <2>1, <2>2, <3>1 DEF WindowOpen
    <2>3. /\ \A c \in Codes : boot[c].status # "none" => boot[c].res \in Reservations
          /\ \A r \in Requests : req[r].pc \in Generating \cup Scanning => req[r].res \in Reservations
      BY DEF BootInv, CodeInv, TypeInv, CodesComplete, GeneratingComplete, ScanningComplete
    <2>4. /\ \A c \in Codes : boot[c].status # "none" => clock' >= resv'[boot[c].res].start - Early
          /\ \A r \in Requests : req[r].pc \in Generating \cup Scanning =>
               clock' >= resv'[req[r].res].start - Early
      BY <2>2, <2>3 DEF BootInv, SeatInv, NothingEarly, WindowOpen
    <2> QED
      BY <2>1, <2>4 DEF BootInv, SeatInv, NothingEarly, WindowOpen
  <1> QED
    BY <1>1, <1>2, <1>3 DEF SeatInv

(* At the start nobody is seated. *)
LEMMA InitSeats == BootInit => SeatInv
  <1> SUFFICES ASSUME BootInit PROVE SeatInv
    OBVIOUS
  <1>1. /\ \A s \in Stations : station[s] # "using"
        /\ \A c \in Codes : boot[c].status = "none" /\ boot[c].session = Nil /\ boot[c].res = Nil
        /\ \A r \in Requests : req[r].pc = "new" /\ sess[r].status = "none" /\ sess[r].res = Nil
    BY DEF BootInit, NoBootCode, NoSession, NewRequest
  <1>2. \A s : OpenSessions(s) = {}
    BY <1>1 DEF OpenSessions
  <1>3. StationInUseIffOneSession
    <2>1. Cardinality({}) = 0
      BY FS_EmptySet
    <2> QED
      BY <1>1, <1>2, <2>1 DEF StationInUseIffOneSession
  <1>4. \A i \in Reservations : resv[i].status # "none" => i \in Booked
    BY DEF BootInit, NoReservation
  <1> QED
    BY <1>1, <1>3, <1>4
    DEF SeatInv, SessionsClose, SessionsComeFromUsedCodes, UsedCodesMatchSessions,
        OneSessionPerReservation, NothingEarly, NoEarlyBoot, EmptyRows, Generating, Scanning

(* With the code invariant, the seat invariant is inductive. *)
LEMMA BootNextKeepsSeats == BootInv /\ [BootNext]_vars => SeatInv'
  <1> SUFFICES ASSUME BootInv, [BootNext]_vars PROVE SeatInv'
    OBVIOUS
  <1>1. ASSUME NEW r \in Requests, Generate(r) PROVE SeatInv'
    BY <1>1, GenerateKeepsSeats
  <1>2. ASSUME NEW r \in Requests, Verify(r) PROVE SeatInv'
    BY <1>2, VerifyKeepsSeats
  <1>3. ASSUME NEW r \in Requests, Fail(r) PROVE SeatInv'
    BY <1>3, RefuseKeepsSeats DEF Fail, InFlight, Answers
  <1>4. ASSUME NEW r \in Requests, DeadlockVictim(r) PROVE SeatInv'
    <2>1. req[r].pc # "done"
      <3>1. PICK S \in SUBSET Requests : r \in S /\ Deadlocked(S)
        BY <1>4 DEF DeadlockVictim
      <3>2. Wanted(r) # {}
        BY <3>1 DEF Deadlocked
      <3>3. req[r].pc = "done" => Wanted(r) = {}
        BY DEF Wanted
      <3> QED
        BY <3>2, <3>3
    <2> QED
      BY <1>4, <2>1, RefuseKeepsSeats DEF DeadlockVictim, Answers
  <1>5. CASE Tick
    BY <1>5, TickKeepsSeats
  <1>6. CASE UNCHANGED vars
    <2>1. \A s : OpenSessions(s)' = OpenSessions(s)
      BY <1>6 DEF vars, tables, OpenSessions
    <2>2. StationInUseIffOneSession'
      BY <1>6, <2>1 DEF BootInv, SeatInv, StationInUseIffOneSession, vars, tables
    <2> QED
      BY <1>6, <2>2
      DEF BootInv, SeatInv, SessionsClose, SessionsComeFromUsedCodes, UsedCodesMatchSessions,
          OneSessionPerReservation, NothingEarly, WindowOpen, NoEarlyBoot, EmptyRows, vars, tables
  <1> QED
    BY <1>1, <1>2, <1>3, <1>4, <1>5, <1>6 DEF BootNext

(* Both invariants hold in every reachable state. *)
LEMMA BootInvInvariant == BootSpec => []BootInv
  <1>1. BootInit => BootInv
    BY InitCodes, InitSeats DEF BootInv
  <1>2. BootInv /\ [BootNext]_vars => BootInv'
    BY BootNextKeepsCodes, BootNextKeepsSeats DEF BootInv
  <1> QED
    BY <1>1, <1>2, PTL DEF BootSpec

-----------------------------------------------------------------------------
(* Duplicate scans open one session: used codes and sessions correspond one to one and *)
(* agree on reservation, member and station.                                            *)
THEOREM BootUsedCodesMatchSessions == BootSpec => []UsedCodesMatchSessions
  <1>1. BootInv => UsedCodesMatchSessions
    BY DEF BootInv, SeatInv
  <1> QED
    BY <1>1, BootInvInvariant, PTL

(* No reservation is booted twice, even through different codes. *)
THEOREM BootOneSessionPerReservation == BootSpec => []OneSessionPerReservation
  <1>1. BootInv => OneSessionPerReservation
    BY DEF BootInv, SeatInv
  <1> QED
    BY <1>1, BootInvInvariant, PTL

(* A station is in use exactly when one open session sits at it. *)
THEOREM BootStationInUseIffOneSession == BootSpec => []StationInUseIffOneSession
  <1>1. BootInv => StationInUseIffOneSession
    BY DEF BootInv, SeatInv
  <1> QED
    BY <1>1, BootInvInvariant, PTL

(* Nobody is seated before the arrival window opens. *)
THEOREM BootNoEarlyBoot == BootSpec => []NoEarlyBoot
  <1>1. BootInv => NoEarlyBoot
    BY DEF BootInv, SeatInv
  <1> QED
    BY <1>1, BootInvInvariant, PTL

-----------------------------------------------------------------------------
(* The books *)

(* splitBilling: what the packages do not cover is paid from the balance, minute by minute. *)
LEMMA ChargeIsExact ==
  ASSUME TypeOK, NEW u \in Users, NEW minutes \in Nat
  PROVE  LET covered == FromPackages(u, minutes)  cost == BalanceCost(minutes, covered) IN
         /\ covered \in Nat /\ covered =< pkg[u] /\ covered =< minutes
         /\ cost \in Nat /\ Price * minutes = Price * covered + cost
  <1>1. pkg[u] \in Nat /\ Price \in Nat
    BY NumbersAssumption DEF TypeOK
  <1>2. PICK covered : covered = FromPackages(u, minutes)
    OBVIOUS
  <1>3. covered \in Nat /\ covered =< pkg[u] /\ covered =< minutes
    BY <1>1, <1>2 DEF FromPackages, Smaller
  <1>4. PICK left \in Nat : left = minutes - covered
    BY <1>3
  <1>5. BalanceCost(minutes, covered) = left * Price
    BY <1>4 DEF BalanceCost
  <1>6. minutes = covered + left
    BY <1>3, <1>4
  <1>7. Price * (covered + left) = Price * covered + left * Price
    BY <1>1, <1>3, <1>4
  <1>8. left * Price \in Nat
    BY <1>1, <1>4
  <1> QED
    BY <1>2, <1>3, <1>5, <1>6, <1>7, <1>8

(* What the commit of a scan pays: the prepaid minutes, from packages and balance. *)
LEMMA VerifyCommitPays ==
  ASSUME TypeInv, NEW r \in Requests, VerifyCommit(r), ~Refuse(r)
  PROVE  \E prepaid, covered, cost \in Nat :
           /\ Price * prepaid = Price * covered + cost
           /\ covered =< pkg[req[r].user]
           /\ cost = 0 \/ cost =< user[req[r].user].balance
           /\ sess'[r].status = "active" /\ sess'[r].user = req[r].user /\ sess'[r].prepaid = prepaid
           /\ \A k \in Requests \ {r} : sess'[k] = sess[k]
           /\ pkg'[req[r].user] = pkg[req[r].user] - covered
           /\ user'[req[r].user].balance = user[req[r].user].balance - cost
           /\ \A v \in Users \ {req[r].user} : pkg'[v] = pkg[v] /\ user'[v] = user[v]
  <1> DEFINE u   == req[r].user
             end == Larger(resv[req[r].res].end, req[r].at)
  <1>1. req[r].pc = "scanCharge"
    BY ZenonT(30) DEF VerifyCommit
  <1>2. u \in Users /\ req[r].res \in Reservations /\ req[r].at \in Nat /\ resv[req[r].res].end \in Nat
    BY <1>1 DEF TypeInv, TypeOK, ScanningComplete, Scanning, RequestStates, ReservationRows
  <1>3. PICK prepaid \in Nat : prepaid = end - req[r].at
    BY <1>2 DEF Larger
  <1>4. PICK covered \in Nat : covered = FromPackages(u, prepaid)
    BY <1>2, ChargeIsExact DEF TypeInv
  <1>5. PICK cost \in Nat : cost = BalanceCost(prepaid, FromPackages(u, prepaid))
    BY <1>2, ChargeIsExact DEF TypeInv
  <1>6. Price * prepaid = Price * covered + cost /\ covered =< pkg[u]
    BY <1>2, <1>4, <1>5, ChargeIsExact DEF TypeInv
  <1>7. /\ Affordable(u, cost)
        /\ pkg' = [pkg EXCEPT ![u] = @ - covered]
        /\ user' = [user EXCEPT ![u].balance = @ - cost]
        /\ sess' = [sess EXCEPT ![r] = [status |-> "active", user |-> u, station |-> req[r].station,
                      res |-> req[r].res, start |-> req[r].at, end |-> end, prepaid |-> prepaid]]
    BY <1>3, <1>4, <1>5, ZenonT(30) DEF VerifyCommit
  <1>8. /\ sess \in [Requests -> SessionRows] /\ user \in [Users -> UserRows] /\ pkg \in [Users -> Nat]
    BY DEF TypeInv, TypeOK
  <1>9. /\ sess'[r].status = "active" /\ sess'[r].user = u /\ sess'[r].prepaid = prepaid
        /\ \A k \in Requests \ {r} : sess'[k] = sess[k]
    BY <1>7, <1>8
  <1>10. /\ pkg'[u] = pkg[u] - covered /\ user'[u].balance = user[u].balance - cost
         /\ \A v \in Users \ {u} : pkg'[v] = pkg[v] /\ user'[v] = user[v]
    BY <1>2, <1>7, <1>8 DEF UserRows
  <1> HIDE DEF u
  <1> QED
    BY <1>6, <1>7, <1>9, <1>10, ZenonT(30) DEF Affordable, u

(* A step that leaves sessions, balances and packages alone leaves the books alone. *)
LEMMA BooksUnchanged ==
  ASSUME BooksBalance, UNCHANGED <<sess, user, pkg>>
  PROVE  BooksBalance'
  BY DEF BooksBalance, Prepaid

(* At the start nobody has been seated and nobody has paid. *)
LEMMA BooksStart == BootInit => BooksBalance
  <1> SUFFICES ASSUME BootInit, NEW u \in Users
               PROVE  /\ user[u].balance >= 0
                      /\ Balance0[u] - user[u].balance = Price * (Prepaid(u) - (Package0[u] - pkg[u]))
    BY DEF BooksBalance
  <1>1. user[u].balance = Balance0[u] /\ pkg[u] = Package0[u] /\ Balance0[u] \in Nat /\ Package0[u] \in Nat
    BY WalletAssumption DEF BootInit
  <1>2. {k \in Requests : sess[k].status # "none" /\ sess[k].user = u} = {}
    BY DEF BootInit, NoSession
  <1>3. Prepaid(u) = 0
    BY <1>2, SumEmpty DEF Prepaid
  <1>4. Price * 0 = 0 /\ Price \in Nat
    BY NumbersAssumption
  <1> QED
    BY <1>1, <1>3, <1>4

(* The commit of a scan enters its minutes on one side and their payment on the other. *)
LEMMA VerifyCommitKeepsBooks ==
  ASSUME BootInv, BooksBalance, NEW r \in Requests, VerifyCommit(r), ~Refuse(r)
  PROVE  BooksBalance'
  <1>1. TypeInv /\ sess[r].status = "none" /\ req[r].user \in Users
    <2>1. req[r].pc = "scanCharge"
      BY ZenonT(30) DEF VerifyCommit
    <2> QED
      BY <2>1, NoSessionYet DEF BootInv, CodeInv, TypeInv, ScanningComplete, Scanning
  <1>2. PICK u \in Users : u = req[r].user
    BY <1>1
  <1>3. PICK prepaid, covered, cost \in Nat :
           /\ Price * prepaid = Price * covered + cost
           /\ covered =< pkg[u]
           /\ cost = 0 \/ cost =< user[u].balance
           /\ sess'[r].status = "active" /\ sess'[r].user = u /\ sess'[r].prepaid = prepaid
           /\ \A k \in Requests \ {r} : sess'[k] = sess[k]
           /\ pkg'[u] = pkg[u] - covered
           /\ user'[u].balance = user[u].balance - cost
           /\ \A v \in Users \ {u} : pkg'[v] = pkg[v] /\ user'[v] = user[v]
    BY <1>1, <1>2, VerifyCommitPays
  <1>4. \A k \in Requests : sess[k].prepaid \in Nat /\ sess'[k].prepaid \in Nat
    BY <1>1, <1>3 DEF TypeInv, TypeOK, SessionRows
  <1> SUFFICES ASSUME NEW v \in Users
               PROVE  /\ user'[v].balance >= 0
                      /\ Balance0[v] - user'[v].balance = Price * (Prepaid(v)' - (Package0[v] - pkg'[v]))
    BY DEF BooksBalance
  <1>5. PICK f, e, T, V : /\ f = [k \in Requests |-> sess[k].prepaid]
                          /\ e = [k \in Requests |-> sess'[k].prepaid]
                          /\ T = {k \in Requests : sess[k].status # "none" /\ sess[k].user = v}
                          /\ V = {k \in Requests : sess'[k].status # "none" /\ sess'[k].user = v}
    OBVIOUS
  <1>6. SumFunctionOnSet(f, T) = Prepaid(v) /\ SumFunctionOnSet(e, V) = Prepaid(v)'
    BY <1>5 DEF Prepaid
  <1>7. /\ \A k \in Requests : f[k] \in Int /\ e[k] \in Int
        /\ \A k \in Requests \ {r} : e[k] = f[k]
        /\ e[r] = prepaid /\ T \subseteq Requests /\ V \subseteq Requests /\ T \ {r} = V \ {r}
    BY <1>3, <1>4, <1>5
  <1>8. r \notin T /\ (r \in V <=> v = u)
    BY <1>1, <1>3, <1>5
  <1>9. /\ SumFunctionOnSet(f, T) \in Int
        /\ SumFunctionOnSet(e, V) = SumFunctionOnSet(f, T)
             + ((IF r \in V THEN e[r] ELSE 0) - (IF r \in T THEN f[r] ELSE 0))
    BY <1>7, FiniteAssumption, SumMove
  <1>10. Prepaid(v) \in Int /\ Prepaid(v)' = Prepaid(v) + (IF v = u THEN prepaid ELSE 0)
    BY <1>6, <1>7, <1>8, <1>9
  <1>11. /\ user[v].balance >= 0 /\ user[v].balance \in Int /\ pkg[v] \in Nat
         /\ Balance0[v] - user[v].balance = Price * (Prepaid(v) - (Package0[v] - pkg[v]))
         /\ Balance0[v] \in Nat /\ Package0[v] \in Nat /\ Price \in Nat
    BY <1>1, WalletAssumption, NumbersAssumption DEF BooksBalance, TypeInv, TypeOK, UserRows
  <1>12. CASE v # u
    BY <1>3, <1>10, <1>11, <1>12
  <1>13. CASE v = u
    <2>1. user'[v].balance >= 0
      BY <1>3, <1>11, <1>13
    <2>2. PICK s \in Int : s = Prepaid(v) - (Package0[v] - pkg[v])
      BY <1>10, <1>11
    <2>3. Prepaid(v)' - (Package0[v] - pkg'[v]) = s + (prepaid - covered)
      BY <1>3, <1>10, <1>11, <1>13, <2>2
    <2>4. Price * (s + (prepaid - covered)) = Price * s + (Price * prepaid - Price * covered)
      BY <1>11
    <2>5. Balance0[v] - user'[v].balance = Price * s + cost
      BY <1>3, <1>11, <1>13, <2>2
    <2>6. Price * s \in Int /\ Price * prepaid \in Int /\ Price * covered \in Int
      BY <1>11
    <2> QED
      BY <1>3, <2>1, <2>3, <2>4, <2>5, <2>6
  <1> QED
    BY <1>12, <1>13

LEMMA BootNextKeepsBooks == BootInv /\ BooksBalance /\ [BootNext]_vars => BooksBalance'
  <1> SUFFICES ASSUME BootInv, BooksBalance, [BootNext]_vars
               PROVE  BooksBalance'
    OBVIOUS
  <1>1. ASSUME NEW r \in Requests, Generate(r)
        PROVE  UNCHANGED <<sess, user, pkg>>
    BY <1>1, ZenonT(30) DEF Generate, GenerateRead, GenerateStation, GenerateLock, GenerateRevoke, GenerateInsert,
                GenerateExhausted, Refuse, tables
  <1>2. ASSUME NEW r \in Requests, Verify(r), ~(VerifyCommit(r) /\ ~Refuse(r))
        PROVE  UNCHANGED <<sess, user, pkg>>
    BY <1>2, ZenonT(30) DEF Verify, VerifyBegin, VerifyCode, VerifyReservation, VerifyStation, VerifyNoSession, VerifyMember,
                MarkExpired, Refuse, tables
  <1>3. ASSUME NEW r \in Requests, Fail(r) \/ DeadlockVictim(r)
        PROVE  UNCHANGED <<sess, user, pkg>>
    BY <1>3 DEF Fail, DeadlockVictim, tables
  <1>4. Tick \/ UNCHANGED vars => UNCHANGED <<sess, user, pkg>>
    BY DEF Tick, vars, tables
  <1> QED
    BY <1>1, <1>2, <1>3, <1>4, VerifyCommitKeepsBooks, BooksUnchanged DEF BootNext

(* Every prepaid minute was paid for once, from the packages or from the balance, and no *)
(* balance is overdrawn.                                                                 *)
THEOREM BootBooksBalance == BootSpec => []BooksBalance
  <1>1. BootInit => BootInv /\ BooksBalance
    BY InitCodes, InitSeats, BooksStart DEF BootInv
  <1>2. (BootInv /\ BooksBalance) /\ [BootNext]_vars => (BootInv /\ BooksBalance)'
    BY BootNextKeepsCodes, BootNextKeepsSeats, BootNextKeepsBooks DEF BootInv
  <1> QED
    BY <1>1, <1>2, PTL DEF BootSpec

-----------------------------------------------------------------------------
(* The refinement of BootTicket *)

TicketVars == <<TicketOf, Bookable, VisitOf>>

(* A step that writes no table is a stutter of BootTicket. *)
LEMMA ReadsAreInvisible ==
  ASSUME UNCHANGED tables
  PROVE  UNCHANGED TicketVars
  BY DEF tables, TicketVars, TicketOf, Bookable, VisitOf

(* The initial states map to the initial states of BootTicket. *)
LEMMA InitImplementsTicket == BootInit => Ticket!TicketInit
  <1> SUFFICES ASSUME BootInit PROVE Ticket!TicketInit
    OBVIOUS
  <1>1. TicketOf = [c \in Codes |-> Ticket!Unissued]
    BY DEF BootInit, TicketOf, Ticket!Unissued, NoBootCode
  <1>2. Bookable = Booked
    BY DEF BootInit, Bookable, NoReservation, Reservations
  <1>3. VisitOf = [k \in Requests |-> Nil]
    BY DEF BootInit, VisitOf, NoSession
  <1> QED
    BY <1>1, <1>2, <1>3 DEF Ticket!TicketInit

(* The commit of Generate is Issue: the revoked codes are exactly the live ones. *)
LEMMA GenerateInsertIssues ==
  ASSUME BootInv, NEW r \in Requests, GenerateInsert(r)
  PROVE  \E c \in Codes, i \in Booked : Ticket!Issue(c, i)
  <1>1. PICK c \in Codes :
          /\ UniqueCode(c)
          /\ boot' = [b \in Codes |->
               IF b = c THEN [status |-> "active", res |-> req[r].res, session |-> Nil,
                              user |-> resv[req[r].res].user,
                              station |-> resv[req[r].res].station, expire |-> req[r].at + TTL]
               ELSE IF b \in req[r].revoked THEN [boot[b] EXCEPT !.status = "cancelled"]
               ELSE boot[b]]
    BY DEF GenerateInsert
  <1>2. PICK i : i = req[r].res
    OBVIOUS
  <1>3. req[r].pc = "genInsert" /\ UNCHANGED <<resv, sess>>
    BY DEF GenerateInsert
  <1>4. /\ i \in Reservations /\ resv[i].status = "confirmed"
        /\ \A b \in Codes : b \in req[r].revoked <=> boot[b].status = "active" /\ boot[b].res = i
    BY <1>2, <1>3 DEF BootInv, CodeInv, TypeInv, GeneratingComplete, Generating, RequestInv, RevocationComplete
  <1>5. i \in Booked /\ i \in Bookable
    BY <1>4 DEF BootInv, SeatInv, EmptyRows, Bookable
  <1>6. boot \in [Codes -> BootCodeRows] /\ boot[c].status = "none" /\ boot[c].res = Nil
    BY <1>1 DEF BootInv, CodeInv, TypeInv, TypeOK, SeatInv, EmptyRows, UniqueCode
  <1>7. TicketOf[c] = Ticket!Unissued
    BY <1>6 DEF TicketOf, Ticket!Unissued
  <1>8. \A b \in Codes : b \in Ticket!Live(i) <=> b \in req[r].revoked
    BY <1>4 DEF TicketOf, Ticket!Live
  <1>9. TicketOf' = [d \in Codes |-> IF d = c THEN [life |-> "active", for |-> i]
                                     ELSE IF d \in Ticket!Live(i) THEN [life |-> "cancelled", for |-> i]
                                     ELSE TicketOf[d]]
    <2>1. TicketOf' = [d \in Codes |-> [life |-> boot'[d].status, for |-> boot'[d].res]]
      BY DEF TicketOf
    <2>2. ASSUME NEW d \in Codes
          PROVE  [life |-> boot'[d].status, for |-> boot'[d].res] =
                   IF d = c THEN [life |-> "active", for |-> i]
                   ELSE IF d \in Ticket!Live(i) THEN [life |-> "cancelled", for |-> i]
                   ELSE TicketOf[d]
      <3>1. CASE d = c
        BY <1>1, <1>2, <3>1
      <3>2. CASE d # c /\ d \in req[r].revoked
        <4>1. boot'[d].status = "cancelled" /\ boot'[d].res = i
          BY <1>1, <1>4, <1>6, <3>2 DEF BootCodeRows
        <4> QED
          BY <1>8, <3>2, <4>1
      <3>3. CASE d # c /\ d \notin req[r].revoked
        <4>1. boot'[d] = boot[d]
          BY <1>1, <3>3
        <4> QED
          BY <1>8, <3>3, <4>1 DEF TicketOf
      <3> QED
        BY <3>1, <3>2, <3>3
    <2> QED
      BY <2>1, <2>2
  <1>10. UNCHANGED <<Bookable, VisitOf>>
    BY <1>3 DEF Bookable, VisitOf
  <1> QED
    BY <1>5, <1>7, <1>9, <1>10 DEF Ticket!Issue

(* The commit of Verify is Redeem. *)
LEMMA VerifyCommitRedeems ==
  ASSUME BootInv, NEW r \in Requests, VerifyCommit(r), ~Refuse(r)
  PROVE  \E c \in Codes, k \in Requests : Ticket!Redeem(c, k)
  <1>1. CommitWrites(r) /\ req[r].pc = "scanCharge"
    BY VerifyCommitWrites DEF BootInv, CodeInv
  <1>2. PICK c \in Codes, i \in Reservations : c = req[r].code /\ i = req[r].res
    BY <1>1 DEF BootInv, CodeInv, TypeInv, ScanningComplete, Scanning
  <1>3. boot[c].status = "active" /\ boot[c].res = i /\ resv[i].status = "confirmed"
    BY <1>1, <1>2 DEF BootInv, CodeInv, RequestInv, ScanIsFresh, Scanning, HoldsReservation
  <1>4. sess[r].res = Nil
    BY <1>1, NoSessionYet DEF BootInv, SeatInv, EmptyRows
  <1>5. /\ TicketOf[c].life = "active" /\ TicketOf[c].for = i /\ i \in Bookable
        /\ VisitOf[r] = Nil
    BY <1>3, <1>4 DEF TicketOf, Bookable, VisitOf
  <1>6. TicketOf' = [TicketOf EXCEPT ![c].life = "used"]
    <2>1. TicketOf' = [d \in Codes |-> [life |-> boot'[d].status, for |-> boot'[d].res]]
      BY DEF TicketOf
    <2>2. ASSUME NEW d \in Codes
          PROVE  [life |-> boot'[d].status, for |-> boot'[d].res] = [TicketOf EXCEPT ![c].life = "used"][d]
      <3>1. CASE d = c
        BY <1>1, <1>2, <3>1, ZenonT(30) DEF CommitWrites, TicketOf
      <3>2. CASE d # c
        BY <1>1, <1>2, <3>2 DEF CommitWrites, TicketOf
      <3> QED
        BY <3>1, <3>2
    <2> QED
      BY <2>1, <2>2 DEF TicketOf
  <1>7. Bookable' = Bookable \ {i}
    BY <1>1, <1>2 DEF Bookable, CommitWrites
  <1>8. VisitOf' = [VisitOf EXCEPT ![r] = i]
    BY <1>1, <1>2, ZenonT(30) DEF VisitOf, CommitWrites
  <1> QED
    BY <1>5, <1>6, <1>7, <1>8 DEF Ticket!Redeem

(* The late mark is Lapse, or nothing. *)
LEMMA MarkExpiredLapses ==
  ASSUME BootInv, NEW r \in Requests, MarkExpired(r)
  PROVE  (\E c \in Codes : Ticket!Lapse(c)) \/ UNCHANGED TicketVars
  <1>1. PICK c \in Codes : c = req[r].code
    BY DEF MarkExpired, BootInv, CodeInv, TypeInv, ScanningComplete
  <1>2. UNCHANGED <<resv, sess>>
    BY DEF MarkExpired
  <1>3. CASE boot' = boot
    BY <1>2, <1>3 DEF TicketVars, TicketOf, Bookable, VisitOf
  <1>4. CASE boot[c].status = "active" /\ boot' = [boot EXCEPT ![c].status = "expired"]
    <2>1. boot \in [Codes -> BootCodeRows]
      BY DEF BootInv, CodeInv, TypeInv, TypeOK
    <2>2. TicketOf[c].life = "active"
      BY <1>4 DEF TicketOf
    <2>3. TicketOf' = [TicketOf EXCEPT ![c].life = "expired"]
      <3>1. TicketOf' = [d \in Codes |-> [life |-> boot'[d].status, for |-> boot'[d].res]]
        BY DEF TicketOf
      <3>2. ASSUME NEW d \in Codes
            PROVE  [life |-> boot'[d].status, for |-> boot'[d].res] = [TicketOf EXCEPT ![c].life = "expired"][d]
        <4>1. CASE d = c
          BY <1>4, <2>1, <4>1 DEF TicketOf, BootCodeRows
        <4>2. CASE d # c
          BY <1>4, <2>1, <4>2 DEF TicketOf
        <4> QED
          BY <4>1, <4>2
      <3> QED
        BY <3>1, <3>2 DEF TicketOf
    <2> QED
      BY <1>2, <2>2, <2>3 DEF Ticket!Lapse, Bookable, VisitOf
  <1> QED
    BY <1>1, <1>3, <1>4 DEF MarkExpired

(* Every step is a step of BootTicket or a stutter. *)
LEMMA NextImplementsTicket ==
  BootInv /\ [BootNext]_vars => [Ticket!TicketNext]_TicketVars
  <1> SUFFICES ASSUME BootInv, [BootNext]_vars PROVE Ticket!TicketNext \/ UNCHANGED TicketVars
    OBVIOUS
  <1>1. ASSUME NEW r \in Requests, Generate(r) PROVE Ticket!TicketNext \/ UNCHANGED TicketVars
    <2>1. CASE GenerateInsert(r)
      BY <2>1, GenerateInsertIssues DEF Ticket!TicketNext
    <2>2. CASE ~GenerateInsert(r)
      <3>1. UNCHANGED tables
        BY <1>1, <2>2, ZenonT(30)
        DEF Generate, GenerateRead, GenerateStation, GenerateLock, GenerateRevoke, GenerateExhausted, Refuse
      <3> QED
        BY <3>1, ReadsAreInvisible
    <2> QED
      BY <2>1, <2>2
  <1>2. ASSUME NEW r \in Requests, Verify(r) PROVE Ticket!TicketNext \/ UNCHANGED TicketVars
    <2>1. CASE VerifyCommit(r) /\ ~Refuse(r)
      BY <2>1, VerifyCommitRedeems DEF Ticket!TicketNext
    <2>2. CASE MarkExpired(r)
      BY <2>2, MarkExpiredLapses DEF Ticket!TicketNext
    <2>3. CASE Refuse(r) \/ (~VerifyCommit(r) /\ ~MarkExpired(r))
      <3>1. UNCHANGED tables
        BY <1>2, <2>3, ZenonT(30)
        DEF Verify, VerifyBegin, VerifyCode, VerifyReservation, VerifyStation, VerifyNoSession, VerifyMember, Refuse
      <3> QED
        BY <3>1, ReadsAreInvisible
    <2> QED
      BY <2>1, <2>2, <2>3
  <1>3. ASSUME NEW r \in Requests, Fail(r) \/ DeadlockVictim(r) PROVE UNCHANGED TicketVars
    BY <1>3, ReadsAreInvisible DEF Fail, DeadlockVictim
  <1>4. CASE Tick \/ UNCHANGED vars
    BY <1>4, ReadsAreInvisible DEF Tick, vars
  <1> QED
    BY <1>1, <1>2, <1>3, <1>4 DEF BootNext

(* Whatever the interleaving, expiry and failure of its steps, Generate replaces every live *)
(* code at once and Verify redeems a code indivisibly.                                      *)
THEOREM BootKeepsTicketPromise == BootSpec => KeepsTicketPromise
  BY BootInvInvariant, InitImplementsTicket, NextImplementsTicket, PTL
  DEF BootSpec, KeepsTicketPromise, Ticket!TicketSpec, Ticket!tvars, TicketVars
=============================================================================
