------------------------------- MODULE Startup -------------------------------
(***************************************************************************)
(* How the server comes up and what it finds: main connects, migrates and  *)
(* seeds the database, one autocommit statement after the other, and then  *)
(* serves; a statement that fails ends the process, and the container is   *)
(* started again.  In between, administrators create, edit and delete the  *)
(* users, stations and time packages that seeding looks for.               *)
(*                                                                         *)
(* Edits of stations and packages are left to Station and Wallet: they     *)
(* change no number of rows but that of a row they put back.               *)
(***************************************************************************)
EXTENDS Integers, Sequences

CONSTANTS
  Requests,    \* requests served
  Names,       \* usernames
  Seats,       \* stations that seeding makes: 12
  Products,    \* time packages that seeding makes
  Created,     \* stands for the time packages administrators make
  MaxFaults    \* bound: failing statements and deaths of the process

ASSUME SeedNames       == {"admin", "member", "staff"} \subseteq Names
ASSUME SeedAssumption  == Seats \in Nat \ {0} /\ Created \notin Products
ASSUME FaultAssumption == MaxFaults \in Nat

VARIABLES
  process,     \* the statement of Connect or Seed that main is at
  users,       \* rows in the order of their ids; a deleted row has no role
  stations,    \* rows of the n-th seeded station; 0: those administrators made
  packages,    \* rows of each time package
  next,        \* the station that seeding inserts next
  req,         \* requests: where they are and the user row they have read
  faults,      \* how many there were
  uncounted,   \* history: counts that failed and went for 0
  deposed      \* history: an administrator was deleted or given another role

tables  == <<users, stations, packages>>
history == <<faults, uncounted, deposed>>
vars    == <<process, tables, next, req, history>>

-----------------------------------------------------------------------------
Roles    == {"admin", "staff", "member"}
UserRows == [name : Names, role : Roles \cup {"none"}]
Starting == {"users", "admin", "member", "staffLookup", "staff",
             "stations", "station", "packages", "package"}
RequestStates ==
  [pc : {"new", "insert", "save", "done"}, name : Names \cup {""},
   role : Roles \cup {"none"}, id : Nat]
NewRequest == [pc |-> "new", name |-> "", role |-> "none", id |-> 0]

Live       == {id \in DOMAIN users : users[id].role # "none"}
Found(name) == \E id \in Live : users[id].name = name

(* Faulty: no uniqueIndex. *)
AlwaysFree(name) == TRUE

(* The unique index of users.username lets a row in. *)
Free(name) == ~Found(name)

Insert(name, role) == users' = Append(users, [name |-> name, role |-> role])

Init ==
  /\ process = "down"
  /\ users = <<>> /\ next = 0
  /\ stations = [n \in 0..Seats |-> 0]
  /\ packages = [p \in Products \cup {Created} |-> 0]
  /\ req = [r \in Requests |-> NewRequest]
  /\ faults = 0 /\ uncounted = 0 /\ deposed = FALSE

-----------------------------------------------------------------------------
(* database.Connect and database.Seed.  *)

(* The container is started; Connect and migrate, which change no row. *)
Connect == /\ process = "down"
           /\ process' = "users"
           /\ UNCHANGED <<tables, next, req, history>>

CountUsers == /\ process = "users"
              /\ process' = IF Live = {} THEN "admin" ELSE "staffLookup"
              /\ UNCHANGED <<tables, next, req, history>>

(* INSERT one account; a duplicate key ends in log.Fatalf. *)
SeedUser(name, role, then) ==
  /\ \/ Free(name) /\ Insert(name, role) /\ process' = then
     \/ ~Free(name) /\ process' = "down" /\ UNCHANGED users
  /\ UNCHANGED <<stations, packages, next, req, faults, uncounted>>

(* Faulty: the member first. *)
SeedAccountsMemberFirst ==
  \/ process = "admin"  /\ SeedUser("member", "member", "member") /\ UNCHANGED deposed
  \/ process = "member" /\ SeedUser("admin", "admin", "staffLookup") /\ deposed' = FALSE

(* The history begins again with the administrator of an empty table. *)
SeedAccounts ==
  \/ process = "admin"  /\ SeedUser("admin", "admin", "member") /\ deposed' = FALSE
  \/ process = "member" /\ SeedUser("member", "member", "staffLookup") /\ UNCHANGED deposed

(* Faulty: looks for somebody with the role. *)
FindStaffByRole ==
  /\ process = "staffLookup"
  /\ process' = IF \E id \in Live : users[id].role = "staff" THEN "stations" ELSE "staff"
  /\ UNCHANGED <<tables, next, req, history>>

FindStaff == /\ process = "staffLookup"
             /\ process' = IF Found("staff") THEN "stations" ELSE "staff"
             /\ UNCHANGED <<tables, next, req, history>>

(* Faulty: Save, which writes over the row that has the name. *)
SeedStaffSave ==
  /\ process = "staff"
  /\ \/ Free("staff") /\ Insert("staff", "staff")
     \/ \E id \in Live : /\ users[id].name = "staff"
                         /\ users' = [users EXCEPT ![id].role = "staff"]
  /\ process' = "stations"
  /\ UNCHANGED <<stations, packages, next, req, history>>

SeedStaff == /\ process = "staff"
             /\ SeedUser("staff", "staff", "stations")
             /\ UNCHANGED deposed

(* Faulty: does not look whether there are any. *)
CountStationsNot == /\ process = "stations"
                    /\ process' = "station" /\ next' = 1
                    /\ UNCHANGED <<tables, req, history>>

CountStations ==
  /\ process = "stations"
  /\ \/ /\ \A n \in 0..Seats : stations[n] = 0
        /\ process' = "station" /\ next' = 1
     \/ /\ \E n \in 0..Seats : stations[n] # 0
        /\ process' = "packages" /\ UNCHANGED next
  /\ UNCHANGED <<tables, req, history>>

(* Faulty: one station too many. *)
SeedStationPast ==
  /\ process = "station"
  /\ stations' = [stations EXCEPT ![next] = @ + 1]
  /\ next' = next + 1
  /\ process' = IF next > Seats THEN "packages" ELSE "station"
  /\ UNCHANGED <<users, packages, req, history>>

SeedStation ==
  /\ process = "station"
  /\ stations' = [stations EXCEPT ![next] = @ + 1]
  /\ \/ next < Seats /\ next' = next + 1 /\ UNCHANGED process
     \/ next = Seats /\ next' = 0 /\ process' = "packages"
  /\ UNCHANGED <<users, packages, req, history>>

CountPackages ==
  /\ process = "packages"
  /\ process' = IF \A p \in Products \cup {Created} : packages[p] = 0
                THEN "package" ELSE "serving"
  /\ UNCHANGED <<tables, next, req, history>>

(* One INSERT for all. *)
SeedPackages ==
  /\ process = "package"
  /\ packages' = [p \in Products \cup {Created} |-> IF p = Created THEN packages[p]
                                                                   ELSE packages[p] + 1]
  /\ process' = "serving"
  /\ UNCHANGED <<users, stations, next, req, history>>

Boot == \/ Connect \/ CountUsers \/ SeedAccounts \/ FindStaff \/ SeedStaff
        \/ CountStations \/ SeedStation \/ CountPackages \/ SeedPackages

-----------------------------------------------------------------------------
(* Faults. *)

Fault == faults < MaxFaults /\ faults' = faults + 1

(* First fails: any error reads as "no such account". *)
FindStaffFails == /\ process = "staffLookup" /\ Fault
                  /\ process' = "staff"
                  /\ UNCHANGED <<tables, next, req, uncounted, deposed>>

(* A count fails, and what is left in the variable is 0. *)
CountFails ==
  /\ Fault /\ uncounted' = uncounted + 1
  /\ \/ process = "stations" /\ process' = "station" /\ next' = 1
     \/ process = "packages" /\ process' = "package" /\ UNCHANGED next
  /\ UNCHANGED <<tables, req, deposed>>

(* Any other statement of Seed fails, before or after MySQL has run it, and log.Fatalf *)
(* ends the process; or the process is stopped.  Requests in flight are gone.          *)
Die == /\ process # "down" /\ Fault
       /\ process' = "down" /\ next' = 0
       /\ req' = [r \in Requests |-> IF req[r].pc = "new" THEN req[r]
                                                          ELSE [NewRequest EXCEPT !.pc = "done"]]
       /\ UNCHANGED <<tables, uncounted, deposed>>

-----------------------------------------------------------------------------
(* Requests that make and remove what Seed looks for. *)

Answer(r) == req' = [req EXCEPT ![r] = [NewRequest EXCEPT !.pc = "done"]]

(* An error, or a request of another kind. *)
Refuse(r) == Answer(r) /\ UNCHANGED <<process, tables, next, history>>

(* Register and Create: FindByUsername finds nobody. *)
CreateCheck(r) ==
  /\ req[r].pc = "new"
  /\ \E name \in Names, role \in Roles :
       \/ /\ ~Found(name)
          /\ req' = [req EXCEPT ![r] = [pc |-> "insert", name |-> name, role |-> role, id |-> 0]]
          /\ UNCHANGED <<process, tables, next, history>>
       \/ Found(name) /\ Refuse(r)

CreateInsert(r) ==
  /\ req[r].pc = "insert"
  /\ \/ /\ Free(req[r].name)
        /\ Insert(req[r].name, req[r].role)
        /\ Answer(r)
        /\ UNCHANGED <<process, stations, packages, next, history>>
     \/ ~Free(req[r].name) /\ Refuse(r)

(* What happens to administrators, once users' is known. *)
NoteDeposed == deposed' = (deposed \/ \E id \in Live : /\ users[id].role = "admin"
                                                       /\ users'[id].role # "admin")

(* Update: FindByID. *)
EditRead(r) ==
  /\ req[r].pc = "new"
  /\ \E id \in Live, role \in Roles :
       req' = [req EXCEPT ![r] = [pc |-> "save", name |-> users[id].name, role |-> role, id |-> id]]
  /\ UNCHANGED <<process, tables, next, history>>

(* gorm's Save updates the row, or, if it has been deleted since, inserts it again; if by   *)
(* then somebody else has the name, that account is written over (ON DUPLICATE KEY UPDATE). *)
EditSave(r) ==
  /\ req[r].pc = "save"
  /\ \E id \in DOMAIN users :
       /\ \/ id = req[r].id /\ (id \in Live \/ Free(req[r].name))
          \/ req[r].id \notin Live /\ id \in Live /\ users[id].name = req[r].name
       /\ users' = [users EXCEPT ![id].role = req[r].role]
  /\ NoteDeposed
  /\ Answer(r)
  /\ UNCHANGED <<process, stations, packages, next, faults, uncounted>>

DeleteUser(r) ==
  /\ req[r].pc = "new"
  /\ \E id \in Live : users' = [users EXCEPT ![id].role = "none"]
  /\ NoteDeposed
  /\ Answer(r)
  /\ UNCHANGED <<process, stations, packages, next, faults, uncounted>>

CreateStation(r) ==
  /\ req[r].pc = "new"
  /\ stations' = [stations EXCEPT ![0] = @ + 1]
  /\ Answer(r)
  /\ UNCHANGED <<process, users, packages, next, history>>

(* A station in use is refused (Refuse). *)
DeleteStation(r) ==
  /\ req[r].pc = "new"
  /\ \E n \in 0..Seats : stations[n] > 0 /\ stations' = [stations EXCEPT ![n] = @ - 1]
  /\ Answer(r)
  /\ UNCHANGED <<process, users, packages, next, history>>

CreatePackage(r) ==
  /\ req[r].pc = "new"
  /\ packages' = [packages EXCEPT ![Created] = @ + 1]
  /\ Answer(r)
  /\ UNCHANGED <<process, users, stations, next, history>>

DeletePackage(r) ==
  /\ req[r].pc = "new"
  /\ \E p \in Products \cup {Created} : /\ packages[p] > 0
                                        /\ packages' = [packages EXCEPT ![p] = @ - 1]
  /\ Answer(r)
  /\ UNCHANGED <<process, users, stations, next, history>>

Serve(r) == \/ CreateCheck(r) \/ CreateInsert(r) \/ EditRead(r) \/ EditSave(r)
            \/ DeleteUser(r) \/ CreateStation(r) \/ DeleteStation(r)
            \/ CreatePackage(r) \/ DeletePackage(r)
            \/ req[r].pc # "done" /\ Refuse(r)

Next == \/ Boot \/ FindStaffFails \/ CountFails \/ Die
        \/ process = "serving" /\ \E r \in Requests : Serve(r)

(* Seed runs on, and the container is restarted (unless-stopped). *)
Spec == Init /\ [][Next]_vars /\ WF_vars(Boot)

-----------------------------------------------------------------------------
ProcessTypeOK ==
  /\ process \in Starting \cup {"down", "serving"}
  /\ next \in 0..Seats /\ (process = "station" => next # 0)
  /\ faults \in 0..MaxFaults /\ uncounted \in Nat /\ deposed \in BOOLEAN

TableTypeOK == /\ users \in Seq(UserRows)
               /\ stations \in [0..Seats -> Nat]
               /\ packages \in [Products \cup {Created} -> Nat]

RequestTypeOK ==
  /\ req \in [Requests -> RequestStates]
  /\ \A r \in Requests :
       /\ req[r].pc = "insert" => req[r].name \in Names /\ req[r].role \in Roles
       /\ req[r].pc = "save" => /\ req[r].id \in DOMAIN users /\ req[r].role \in Roles
                                /\ users[req[r].id].name = req[r].name

TypeOK == ProcessTypeOK /\ TableTypeOK /\ RequestTypeOK

(* Two accounts never share a username, although Register, Create and Seed look for the   *)
(* name in one statement and insert in another, and a save may bring a deleted user back. *)
UsernamesAreUnique ==
  \A i, j \in Live : users[i].name = users[j].name => i = j

(* As long as there are users there is an administrator, unless one was deleted or        *)
(* demoted: no crash between the statements of Seed leaves users that nobody administers, *)
(* for Seed never makes another administrator then.                                       *)
AdministratorFirst ==
  Live # {} /\ ~deposed => \E id \in Live : users[id].role = "admin"

(* However often the process dies while it seeds, and whatever administrators add and    *)
(* remove, each seeded station and package is there once, but for counts that failed.    *)
HallIsSeededOnce ==
  /\ \A n \in 1..Seats : stations[n] =< 1 + uncounted
  /\ \A p \in Products : packages[p] =< 1 + uncounted

(* Starting again changes no account: what administrators made of the seeded accounts is *)
(* kept, even if the lookup of an account fails.                                         *)
SeedingKeepsAccounts ==
  [][process # "serving" => \A id \in DOMAIN users : users'[id] = users[id]]_vars

(* Whatever administrators did to the seeded accounts and wherever the process died, it *)
(* comes up again once the faults are over.                                             *)
ComesUp == process = "down" ~> process = "serving"
=============================================================================
