----------------------------- MODULE HallStore -----------------------------
(***************************************************************************)
(* What every service of the hall shares: the MySQL tables, the row locks  *)
(* that SELECT ... FOR UPDATE and every UPDATE take, and the HTTP requests *)
(* in flight.                                                              *)
(*                                                                         *)
(* A request runs its service function once.  Its program counter names    *)
(* the next statement; the other fields of req[r] are the variables that   *)
(* function has read so far.  A write made inside db.Transaction is        *)
(* buffered and becomes visible, with the locks released, in the step that *)
(* commits; a plain SELECT sees committed rows only.  Rows of a table are  *)
(* records; status "none" says that the row does not exist.                *)
(***************************************************************************)
EXTENDS Integers, FiniteSets

CONSTANTS
  Requests,       \* HTTP requests; a request also names the row it inserts
  Stations, Users, Codes,
  Booked,         \* reservations already in the database at the start
  Nil,            \* no row, and SQL NULL
  Slots,          \* the <<start, end>> pairs reservations are made for
  TTL,            \* BootCodeTTLMinutes
  Early,          \* BootArriveEarlyMinutes
  Price,          \* price of a minute at any station
  Balance0,       \* balance of each user at the start
  Package0,       \* minutes left in each user's time packages at the start
  MaxTime         \* bound: minutes modelled

ASSUME SlotsAssumption == \A slot \in Slots : /\ slot \in Nat \X Nat
                                              /\ slot[1] < slot[2]
ASSUME NumbersAssumption == TTL \in Nat \ {0} /\ Early \in Nat /\ Price \in Nat /\ MaxTime \in Nat
ASSUME WalletAssumption == Balance0 \in [Users -> Nat] /\ Package0 \in [Users -> Nat]
ASSUME FiniteAssumption == IsFiniteSet(Requests) /\ IsFiniteSet(Users)
ASSUME KeysAssumption == Booked \cap Requests = {}   \* a new row gets a new id
ASSUME NilAssumption ==
  Nil \notin Nat \cup Requests \cup Stations \cup Users \cup Booked \cup Codes

Reservations == Booked \cup Requests

VARIABLES
  clock,     \* minutes; every time.Now()
  station,   \* station[s]: the status column of table stations
  resv,      \* reservations
  boot,      \* boot_codes
  sess,      \* sessions, by the request that created the row
  user,      \* users: balance, and whether role = member and status = active
  pkg,       \* user_packages: minutes left to each user
  held,      \* held[r]: rows locked by the transaction of request r
  req        \* req[r]: where request r is and what it has read

tables == <<station, resv, boot, sess, user, pkg>>
vars   == <<clock, tables, held, req>>

-----------------------------------------------------------------------------
StationStatuses     == {"none", "idle", "using", "fault", "reserved"}
ReservationStatuses == {"none", "pending", "confirmed", "checked_in", "completed", "cancelled"}
BootCodeStatuses    == {"none", "active", "used", "expired", "cancelled"}
SessionStatuses     == {"none", "active", "completed"}

ReservationRows ==
  [status : ReservationStatuses, user : Users \cup {Nil}, station : Stations \cup {Nil},
   start : Nat, end : Nat]
BootCodeRows ==
  [status : BootCodeStatuses, res : Reservations \cup {Nil}, user : Users \cup {Nil},
   station : Stations \cup {Nil}, expire : Nat, session : Requests \cup {Nil}]
SessionRows ==
  [status : SessionStatuses, user : Users \cup {Nil}, station : Stations \cup {Nil},
   res : Reservations \cup {Nil}, start : Nat, end : Nat \cup {Nil}, prepaid : Nat]
UserRows == [balance : Int, eligible : BOOLEAN]

NoReservation == [status |-> "none", user |-> Nil, station |-> Nil, start |-> 0, end |-> 0]
NoBootCode == [status |-> "none", res |-> Nil, user |-> Nil, station |-> Nil,
               expire |-> 0, session |-> Nil]
NoSession  == [status |-> "none", user |-> Nil, station |-> Nil, res |-> Nil,
               start |-> 0, end |-> 0, prepaid |-> 0]

(* FindActiveByStation *)
OpenSessions(s) == {k \in Requests : sess[k].status = "active" /\ sess[k].station = s}

(* Lockable rows, tagged with their table. *)
ReservationRow(i) == <<"reservations", i>>
StationRow(s)     == <<"stations", s>>
BootCodeRow(c)    == <<"boot_codes", c>>
UserRow(u)        == <<"users", u>>
PackageRow(u)     == <<"user_packages", u>>

Rows == {ReservationRow(i) : i \in Reservations} \cup {StationRow(s) : s \in Stations}
          \cup {BootCodeRow(c) : c \in Codes} \cup {UserRow(u) : u \in Users}
          \cup {PackageRow(u) : u \in Users}

-----------------------------------------------------------------------------
(* The statement each request executes next; "new" has not arrived yet. *)
Labels ==
  {"new", "done",
   "genStation", "genLock", "genRevoke", "genInsert",
   "scanCode", "scanReservation", "scanStation", "scanSession", "scanMember", "scanCharge",
   "scanExpire",
   "bookConflict", "bookLock", "bookInsert", "bookCommit",
   "confirmSave", "cancelSave", "cancelStation", "checkInSave", "checkInStation",
   "startLock", "startReservation", "startCheckIn", "startInsert", "startCommit",
   "chargePackages", "chargeBalance", "renewSave", "endSave", "endStation",
   "stationSave", "stationDelete"}
Answers == {"none", "ok", "refused", "error"}

RequestStates ==
  [pc : Labels, ans : Answers,
   user : Users \cup {Nil}, res : Reservations \cup {Nil}, station : Stations \cup {Nil},
   code : Codes \cup {Nil}, ask : Stations \cup {Nil},      \* BootCode
   revoked : SUBSET Codes,
   at : Nat, until : Nat,                                   \* times read or asked for
   session : Requests \cup {Nil}, row : SessionRows,         \* Session: the row as it was read
   minutes : Nat, due : Nat, next : Labels,                 \* Charging
   status : StationStatuses]                                \* Station: the status to save

NewRequest ==
  [pc |-> "new", ans |-> "none", user |-> Nil, res |-> Nil, station |-> Nil, code |-> Nil,
   ask |-> Nil, revoked |-> {}, at |-> 0, until |-> 0, session |-> Nil, row |-> NoSession, minutes |-> 0,
   due |-> 0, next |-> "done", status |-> "none"]

(* Faulty variants are kept beside the definitions they distort, for the mutation runs. *)
(* Faulty: a scan reads with plain SELECTs instead of SELECT ... FOR UPDATE. *)
ScansNeverWait(r, rows) ==
  req[r].pc \in {"genLock", "genRevoke", "scanExpire"} =>
    \A q \in Requests \ {r} : held[q] \cap rows = {}

(* r may lock rows now: InnoDB makes it wait while another transaction has one of them. *)
CanLock(r, rows) == \A q \in Requests \ {r} : held[q] \cap rows = {}
Lock(r, rows)    == held' = [held EXCEPT ![r] = @ \cup rows]

Goto(r, label) == req' = [req EXCEPT ![r].pc = label]

(* The function returns: its transaction, if it has one, is over. *)
Return(r, answer) == /\ held' = [held EXCEPT ![r] = {}]
                     /\ req' = [req EXCEPT ![r] = [NewRequest EXCEPT !.pc = "done", !.ans = answer]]

(* COMMIT: the caller gets the answer, or an error if the acknowledgement is lost. *)
Commit(r) == \E answer \in {"ok", "error"} : Return(r, answer)

(* An error branch of the service: whatever was buffered is rolled back. *)
Refuse(r) == Return(r, "refused") /\ UNCHANGED <<clock, tables>>

InFlight(r) == req[r].pc \notin {"new", "done"}

(* A statement fails (the connection, a lock wait timeout) or the server process dies. *)
Fail(r) == /\ InFlight(r)
           /\ Return(r, "error")
           /\ UNCHANGED <<clock, tables>>

(* The rows the next statement of r locks: the lock order of the services. *)
CodesOf(i) == {c \in Codes : boot[c].status # "none" /\ boot[c].res = i}
Wanted(r) ==
  LET q == req[r] IN
  CASE q.pc \in {"genLock", "scanReservation", "confirmSave", "cancelSave", "checkInSave",
                 "startCheckIn"}
         -> {ReservationRow(q.res)}
    [] q.pc = "genRevoke"   -> {BootCodeRow(c) : c \in CodesOf(q.res)}
    [] q.pc \in {"scanCode", "scanExpire"} -> {BootCodeRow(q.code)}
    [] q.pc \in {"scanStation", "bookLock", "cancelStation", "checkInStation", "startLock",
                 "endStation", "stationSave", "stationDelete"}
         -> {StationRow(q.station)}
    [] q.pc \in {"scanMember", "chargeBalance"}  -> {UserRow(q.user)}
    [] q.pc \in {"scanCharge", "chargePackages"} -> {PackageRow(q.user)}
    [] OTHER -> {}

(* Members of a deadlocked set wait for one another; InnoDB rolls one of them back. *)
Deadlocked(S) == \A q \in S : \E p \in S \ {q} : Wanted(q) \cap held[p] # {}
DeadlockVictim(r) == /\ \E S \in SUBSET Requests : r \in S /\ Deadlocked(S)
                     /\ Return(r, "error")
                     /\ UNCHANGED <<clock, tables>>

Tick == /\ clock < MaxTime
        /\ clock' = clock + 1
        /\ UNCHANGED <<tables, held, req>>
=============================================================================
