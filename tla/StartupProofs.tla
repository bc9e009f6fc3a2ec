---------------------------- MODULE StartupProofs ----------------------------
(***************************************************************************)
(* Proofs about Startup, for any number of requests, usernames, stations,  *)
(* packages and faults.                                                    *)
(***************************************************************************)
EXTENDS Startup, TLAPS

(* Seed has not come to the accounts yet. *)
BeforeAccounts == {"down", "users", "admin"}

(* Once Seed is past the accounts there is an administrator, unless deposed, even if all *)
(* users have been deleted since; it makes one only when there are no users.             *)
AccountsInv ==
  /\ process = "admin" => Live = {}
  /\ (Live # {} \/ process \notin BeforeAccounts) /\ ~deposed
       => \E id \in Live : users[id].role = "admin"

(* While Seed inserts, what it has not come to yet is missing, but for failed counts. *)
RowsInv ==
  /\ \A n \in 1..Seats :
       stations[n] =< uncounted + (IF process = "station" /\ n >= next THEN 0 ELSE 1)
  /\ \A p \in Products : packages[p] =< uncounted + (IF process = "package" THEN 0 ELSE 1)

StartupInv == TypeOK /\ UsernamesAreUnique /\ AccountsInv /\ RowsInv

-----------------------------------------------------------------------------
(* What the statements do to the table of users. *)

(* An INSERT adds one live row with the next id and leaves the others. *)
LEMMA InsertAddsOne ==
  ASSUME users \in Seq(UserRows), NEW name \in Names, NEW role \in Roles, Insert(name, role)
  PROVE  /\ users' \in Seq(UserRows)
         /\ \A id \in DOMAIN users : id # Len(users) + 1 /\ users'[id] = users[id]
         /\ DOMAIN users' = DOMAIN users \cup {Len(users) + 1}
         /\ users'[Len(users) + 1] = [name |-> name, role |-> role]
         /\ Live' = Live \cup {Len(users) + 1}
  <1> DEFINE new == Len(users) + 1
  <1>1. [name |-> name, role |-> role] \in UserRows
    BY DEF UserRows
  <1>2. /\ users' \in Seq(UserRows)
        /\ \A id \in DOMAIN users : id # new /\ users'[id] = users[id]
        /\ DOMAIN users' = DOMAIN users \cup {new}
        /\ users'[new] = [name |-> name, role |-> role]
    BY <1>1 DEF Insert
  <1>3. role # "none"
    BY DEF Roles
  <1> QED
    BY <1>2, <1>3 DEF Live

(* A save or a DELETE changes the role of one row. *)
LEMMA RoleChangesOne ==
  ASSUME users \in Seq(UserRows), NEW id \in DOMAIN users, NEW role \in Roles \cup {"none"},
         users' = [users EXCEPT ![id].role = role]
  PROVE  /\ users' \in Seq(UserRows) /\ DOMAIN users' = DOMAIN users
         /\ \A j \in DOMAIN users : users'[j].name = users[j].name
         /\ \A j \in DOMAIN users : j # id => users'[j] = users[j]
         /\ users'[id].role = role
  <1>1. users[id] \in UserRows
    OBVIOUS
  <1>2. [users[id] EXCEPT !.role = role] \in UserRows
    BY <1>1 DEF UserRows
  <1> QED
    BY <1>1, <1>2 DEF UserRows

(* The row that a save writes. *)
LEMMA SaveWritesOne ==
  ASSUME TypeOK, NEW r \in Requests, EditSave(r)
  PROVE  \E id \in DOMAIN users :
           /\ users[id].name = req[r].name
           /\ id \in Live \/ Free(req[r].name)
           /\ users' = [users EXCEPT ![id].role = req[r].role]
  BY DEF TypeOK, RequestTypeOK, EditSave

-----------------------------------------------------------------------------
(* Type correctness. *)

(* No statement takes a row away or gives it another username. *)
NamesKept == /\ DOMAIN users \subseteq DOMAIN users'
             /\ \A id \in DOMAIN users : users'[id].name = users[id].name

LEMMA InsertType ==
  ASSUME TableTypeOK, NEW name \in Names, NEW role \in Roles, Insert(name, role),
         UNCHANGED <<stations, packages>>
  PROVE  TableTypeOK' /\ NamesKept
  BY InsertAddsOne DEF TableTypeOK, NamesKept

LEMMA RoleChangeType ==
  ASSUME TableTypeOK, NEW id \in DOMAIN users, NEW role \in Roles \cup {"none"},
         users' = [users EXCEPT ![id].role = role], UNCHANGED <<stations, packages>>
  PROVE  TableTypeOK' /\ NamesKept
  BY RoleChangesOne DEF TableTypeOK, NamesKept

LEMMA AnswerType ==
  ASSUME RequestTypeOK, NEW r \in Requests, Answer(r), NamesKept
  PROVE  RequestTypeOK'
  BY DEF RequestTypeOK, RequestStates, Answer, NewRequest, NamesKept

LEMMA RequestsKept ==
  ASSUME RequestTypeOK, UNCHANGED req, NamesKept
  PROVE  RequestTypeOK'
  BY DEF RequestTypeOK, NamesKept

LEMMA NothingKeptNames == UNCHANGED users => NamesKept
  BY DEF NamesKept

(* A step of Seed keeps the types. *)
LEMMA BootType == TypeOK /\ Boot => TypeOK'
  <1> SUFFICES ASSUME TypeOK, Boot PROVE TypeOK'
    OBVIOUS
  <1> USE SeedNames, SeedAssumption DEF TypeOK
  <1>1. CASE Connect \/ CountUsers \/ FindStaff \/ CountStations \/ CountPackages
    <2>1. UNCHANGED <<tables, req, history>>
      BY <1>1 DEF Connect, CountUsers, FindStaff, CountStations, CountPackages
    <2>2. TableTypeOK' /\ RequestTypeOK'
      BY <2>1, RequestsKept, NothingKeptNames DEF tables, TableTypeOK
    <2>3. ProcessTypeOK'
      BY <1>1, <2>1 DEF Connect, CountUsers, FindStaff, CountStations, CountPackages,
                        ProcessTypeOK, Starting, history
    <2> QED
      BY <2>2, <2>3
  <1>2. ASSUME NEW name \in Names, NEW role \in Roles, NEW then \in Starting \ {"station"},
               SeedUser(name, role, then), deposed' \in BOOLEAN
        PROVE  TypeOK'
    <2>1. ProcessTypeOK'
      BY <1>2 DEF SeedUser, ProcessTypeOK, Starting
    <2>2. TableTypeOK' /\ NamesKept
      BY <1>2, InsertType, NothingKeptNames DEF SeedUser, TableTypeOK
    <2> QED
      BY <1>2, <2>1, <2>2, RequestsKept DEF SeedUser
  <1>3. CASE SeedAccounts \/ SeedStaff
    <2>1. deposed' \in BOOLEAN
      BY <1>3 DEF SeedAccounts, SeedStaff, ProcessTypeOK
    <2>2. \E name \in Names, role \in Roles, then \in Starting \ {"station"} :
            SeedUser(name, role, then)
      BY <1>3 DEF SeedAccounts, SeedStaff, Roles, Starting
    <2> QED
      BY <1>2, <2>1, <2>2
  <1>4. CASE SeedStation
    <2>1. next \in 0..Seats /\ stations' \in [0..Seats -> Nat]
      BY <1>4 DEF SeedStation, ProcessTypeOK, TableTypeOK
    <2>2. ProcessTypeOK'
      BY <1>4 DEF SeedStation, ProcessTypeOK, Starting, history
    <2> QED
      BY <1>4, <2>1, <2>2, RequestsKept, NothingKeptNames DEF SeedStation, TableTypeOK
  <1>5. CASE SeedPackages
    <2>1. packages' \in [Products \cup {Created} -> Nat]
      BY <1>5 DEF SeedPackages, TableTypeOK
    <2>2. ProcessTypeOK'
      BY <1>5 DEF SeedPackages, ProcessTypeOK, Starting, history
    <2> QED
      BY <1>5, <2>1, <2>2, RequestsKept, NothingKeptNames DEF SeedPackages, TableTypeOK
  <1> QED
    BY <1>1, <1>3, <1>4, <1>5 DEF Boot

(* So does a request, *)
LEMMA ServeType ==
  ASSUME TypeOK, NEW r \in Requests, Serve(r)
  PROVE  TypeOK'
  <1> USE DEF TypeOK
  <1>1. CASE Refuse(r)
    BY <1>1, AnswerType, NothingKeptNames DEF Refuse, tables, history, TableTypeOK, ProcessTypeOK
  <1>2. ASSUME UNCHANGED <<process, tables, next, history>>, RequestTypeOK'
        PROVE  TypeOK'
    BY <1>2 DEF tables, history, TableTypeOK, ProcessTypeOK
  <1>3. CASE CreateCheck(r)
    <2>1. CASE ~Refuse(r)
      <3>1. PICK name \in Names, role \in Roles :
              /\ req' = [req EXCEPT ![r] = [pc |-> "insert", name |-> name, role |-> role, id |-> 0]]
              /\ UNCHANGED <<process, tables, next, history>>
        BY <1>3, <2>1 DEF CreateCheck
      <3>2. RequestTypeOK'
        BY <3>1 DEF RequestTypeOK, RequestStates, tables
      <3> QED
        BY <1>2, <3>1, <3>2
    <2> QED
      BY <1>1, <2>1
  <1>4. CASE CreateInsert(r)
    <2>1. CASE ~Refuse(r)
      <3>1. req[r].name \in Names /\ req[r].role \in Roles
        BY <1>4 DEF RequestTypeOK, CreateInsert
      <3>2. TableTypeOK' /\ NamesKept
        BY <1>4, <2>1, <3>1, InsertType DEF CreateInsert
      <3> QED
        BY <1>4, <2>1, <3>2, AnswerType DEF CreateInsert, ProcessTypeOK, history
    <2> QED
      BY <1>1, <2>1
  <1>5. CASE EditRead(r)
    <2>1. PICK id \in Live, role \in Roles :
            req' = [req EXCEPT ![r] = [pc |-> "save", name |-> users[id].name, role |-> role, id |-> id]]
      BY <1>5 DEF EditRead
    <2>2. id \in DOMAIN users /\ id \in Nat /\ users[id].name \in Names
      <3>1. id \in DOMAIN users /\ id \in Nat
        BY DEF TableTypeOK, Live
      <3>2. users[id] \in UserRows
        BY <3>1 DEF TableTypeOK
      <3> QED
        BY <3>1, <3>2 DEF UserRows
    <2>3. RequestTypeOK'
      BY <1>5, <2>1, <2>2 DEF RequestTypeOK, RequestStates, EditRead, tables
    <2> QED
      BY <1>2, <1>5, <2>3 DEF EditRead
  <1>6. CASE EditSave(r) \/ DeleteUser(r)
    <2>1. PICK id \in DOMAIN users, role \in Roles \cup {"none"} :
            users' = [users EXCEPT ![id].role = role]
      BY <1>6 DEF EditSave, DeleteUser, Live, RequestTypeOK
    <2>2. TableTypeOK' /\ NamesKept
      BY <1>6, <2>1, RoleChangeType DEF EditSave, DeleteUser
    <2>3. ProcessTypeOK'
      BY <1>6 DEF EditSave, DeleteUser, NoteDeposed, ProcessTypeOK
    <2> QED
      BY <1>6, <2>2, <2>3, AnswerType DEF EditSave, DeleteUser
  <1>7. CASE \/ CreateStation(r) \/ DeleteStation(r)
            \/ CreatePackage(r) \/ DeletePackage(r)
    <2>1. stations' \in [0..Seats -> Nat]
      <3>1. CASE UNCHANGED stations
        BY <3>1 DEF TableTypeOK
      <3>2. CASE CreateStation(r)
        BY <3>2, SeedAssumption DEF TableTypeOK, CreateStation
      <3>3. CASE DeleteStation(r)
        BY <3>3 DEF TableTypeOK, DeleteStation
      <3> QED
        BY <1>7, <3>1, <3>2, <3>3 DEF CreatePackage, DeletePackage
    <2>2. packages' \in [Products \cup {Created} -> Nat]
      BY <1>7 DEF TableTypeOK, CreateStation, DeleteStation, CreatePackage, DeletePackage
    <2> QED
      BY <1>7, <2>1, <2>2, AnswerType, NothingKeptNames
      DEF CreateStation, DeleteStation, CreatePackage, DeletePackage, history,
          TableTypeOK, ProcessTypeOK
  <1> QED
    BY <1>1, <1>3, <1>4, <1>5, <1>6, <1>7 DEF Serve

(* and a fault. *)
LEMMA FaultType == TypeOK /\ (FindStaffFails \/ CountFails \/ Die) => TypeOK'
  <1> SUFFICES ASSUME TypeOK, FindStaffFails \/ CountFails \/ Die PROVE TypeOK'
    OBVIOUS
  <1> USE FaultAssumption, SeedAssumption DEF TypeOK
  <1>1. UNCHANGED tables
    BY DEF FindStaffFails, CountFails, Die
  <1>2. TableTypeOK' /\ NamesKept
    BY <1>1, NothingKeptNames DEF tables, TableTypeOK
  <1>3. ProcessTypeOK'
    BY DEF FindStaffFails, CountFails, Die, Fault, ProcessTypeOK, Starting
  <1>4. RequestTypeOK'
    <2>1. CASE UNCHANGED req
      BY <1>2, <2>1, RequestsKept
    <2>2. CASE Die
      BY <1>1, <2>2 DEF Die, tables, RequestTypeOK, RequestStates, NewRequest
    <2> QED
      BY <2>1, <2>2 DEF FindStaffFails, CountFails
  <1> QED
    BY <1>2, <1>3, <1>4

LEMMA TypeStep == TypeOK /\ [Next]_vars => TypeOK'
  <1>1. TypeOK /\ UNCHANGED vars => TypeOK'
    BY DEF TypeOK, ProcessTypeOK, TableTypeOK, RequestTypeOK, vars, tables, history
  <1> QED
    BY <1>1, BootType, ServeType, FaultType DEF Next

LEMMA TypeInit == Init => TypeOK
  <1> SUFFICES ASSUME Init PROVE TypeOK
    OBVIOUS
  <1>1. ProcessTypeOK
    <2>1. deposed \in BOOLEAN
      BY DEF Init
    <2>2. process = "down" /\ next \in 0..Seats /\ faults \in 0..MaxFaults /\ uncounted \in Nat
      BY SeedAssumption, FaultAssumption DEF Init
    <2> QED
      BY <2>1, <2>2 DEF ProcessTypeOK
  <1>2. TableTypeOK
    BY DEF Init, TableTypeOK
  <1>3. RequestTypeOK
    BY DEF Init, RequestTypeOK, RequestStates, NewRequest
  <1> QED
    BY <1>1, <1>2, <1>3 DEF TypeOK

(* The tables and what a request has read stay within their types; a request that is going *)
(* to save still knows the username of the row it read.                                    *)
THEOREM StartupTypeOK == Spec => []TypeOK
  BY TypeInit, TypeStep, PTL DEF Spec

-----------------------------------------------------------------------------
(* Accounts. *)

(* What a step can do to the users: nothing; add one with a free name; or, while requests *)
(* are served, change the role of one whose name nobody else has.                         *)
LEMMA UsersStep ==
  ASSUME TypeOK, [Next]_vars
  PROVE  \/ UNCHANGED users
         \/ \E name \in Names, role \in Roles : Free(name) /\ Insert(name, role)
         \/ /\ process = "serving"
            /\ \E id \in DOMAIN users, role \in Roles \cup {"none"} :
                 /\ id \in Live \/ Free(users[id].name)
                 /\ users' = [users EXCEPT ![id].role = role]
  <1>1. CASE UNCHANGED vars
    BY <1>1 DEF vars, tables
  <1>2. CASE Boot
    <2>1. CASE SeedAccounts \/ SeedStaff
      BY <2>1, SeedNames DEF SeedAccounts, SeedStaff, SeedUser, Roles
    <2> QED
      BY <1>2, <2>1 DEF Boot, Connect, CountUsers, FindStaff, CountStations, SeedStation,
                        CountPackages, SeedPackages, tables
  <1>3. CASE FindStaffFails \/ CountFails \/ Die
    BY <1>3 DEF FindStaffFails, CountFails, Die, tables
  <1>4. ASSUME NEW r \in Requests, process = "serving", Serve(r)
        PROVE  \/ UNCHANGED users
               \/ \E name \in Names, role \in Roles : Free(name) /\ Insert(name, role)
               \/ \E id \in DOMAIN users, role \in Roles \cup {"none"} :
                    /\ id \in Live \/ Free(users[id].name)
                    /\ users' = [users EXCEPT ![id].role = role]
    <2>1. CASE CreateInsert(r)
      BY <2>1 DEF CreateInsert, Refuse, tables, TypeOK, RequestTypeOK
    <2>2. CASE EditSave(r)
      <3>1. req[r].role \in Roles
        BY <2>2 DEF EditSave, TypeOK, RequestTypeOK
      <3> QED
        BY <2>2, <3>1, SaveWritesOne
    <2>3. CASE DeleteUser(r)
      BY <2>3 DEF DeleteUser, Live
    <2> QED
      BY <1>4, <2>1, <2>2, <2>3
      DEF Serve, CreateCheck, EditRead, CreateStation, DeleteStation, CreatePackage, DeletePackage,
          Refuse, tables
  <1> QED
    BY <1>1, <1>2, <1>3, <1>4 DEF Next

LEMMA UniqueStep == TypeOK /\ UsernamesAreUnique /\ [Next]_vars => UsernamesAreUnique'
  <1> SUFFICES ASSUME TypeOK, UsernamesAreUnique, [Next]_vars PROVE UsernamesAreUnique'
    OBVIOUS
  <1>1. CASE UNCHANGED users
    BY <1>1 DEF UsernamesAreUnique, Live
  <1>2. ASSUME NEW name \in Names, NEW role \in Roles, Free(name), Insert(name, role)
        PROVE  UsernamesAreUnique'
    <2> DEFINE new == Len(users) + 1
    <2>1. /\ \A id \in Live : id # new /\ users'[id] = users[id] /\ users[id].name # name
          /\ users'[new].name = name /\ Live' = Live \cup {new}
      <3>1. users \in Seq(UserRows)
        BY DEF TypeOK, TableTypeOK
      <3>2. /\ \A id \in DOMAIN users : id # new /\ users'[id] = users[id]
            /\ users'[new] = [name |-> name, role |-> role] /\ Live' = Live \cup {new}
        BY <1>2, <3>1, InsertAddsOne
      <3>3. \A id \in Live : users[id].name # name
        BY <1>2 DEF Free, Found
      <3> QED
        BY <3>2, <3>3 DEF Live
    <2> QED
      BY <2>1 DEF UsernamesAreUnique
  <1>3. ASSUME NEW id \in DOMAIN users, NEW role \in Roles \cup {"none"},
               id \in Live \/ Free(users[id].name), users' = [users EXCEPT ![id].role = role]
        PROVE  UsernamesAreUnique'
    BY <1>3, RoleChangesOne DEF UsernamesAreUnique, Free, Found, Live, TypeOK, TableTypeOK
  <1> QED
    BY <1>1, <1>2, <1>3, UsersStep

Administrator == \E id \in Live : users[id].role = "admin"

(* An INSERT leaves the administrators. *)
LEMMA InsertKeepsAdministrator ==
  ASSUME TypeOK, NEW name \in Names, NEW role \in Roles, Insert(name, role)
  PROVE  Administrator \/ role = "admin" => Administrator'
  <1> DEFINE new == Len(users) + 1
  <1>1. /\ \A id \in Live : users'[id] = users[id]
        /\ users'[new].role = role /\ Live' = Live \cup {new}
    <2>1. users \in Seq(UserRows)
      BY DEF TypeOK, TableTypeOK
    <2>2. /\ \A id \in DOMAIN users : users'[id] = users[id]
          /\ users'[new] = [name |-> name, role |-> role] /\ Live' = Live \cup {new}
      BY <2>1, InsertAddsOne
    <2> QED
      BY <2>2 DEF Live
  <1> QED
    BY <1>1 DEF Administrator

LEMMA AccountsStep == TypeOK /\ AccountsInv /\ [Next]_vars => AccountsInv'
  <1> SUFFICES ASSUME TypeOK, AccountsInv, [Next]_vars PROVE AccountsInv'
    OBVIOUS
  <1>1. CASE UNCHANGED <<users, deposed>>
    <2>1. UNCHANGED <<Live, Administrator>>
      BY <1>1 DEF Live, Administrator
    <2>2. /\ process' = "admin" => process = "admin" \/ Live = {}
          /\ process' \notin BeforeAccounts => process \notin BeforeAccounts \/ Live # {}
      <3>1. ASSUME NEW name, NEW role, NEW then, SeedUser(name, role, then)
            PROVE  process' = "down"
        <4>1. ASSUME Insert(name, role) PROVE FALSE
          BY <1>1, <4>1 DEF Insert, TypeOK, TableTypeOK
        <4> QED
          BY <3>1, <4>1 DEF SeedUser
      <3>2. CASE SeedAccounts \/ SeedStaff
        BY <3>1, <3>2 DEF SeedAccounts, SeedStaff, BeforeAccounts
      <3>3. CASE UNCHANGED process
        BY <3>3 DEF BeforeAccounts
      <3>4. CASE /\ Boot \/ FindStaffFails \/ CountFails \/ Die
                 /\ ~(SeedAccounts \/ SeedStaff)
        BY <3>4
        DEF Boot, Connect, CountUsers, FindStaff, CountStations, SeedStation, CountPackages,
            SeedPackages, FindStaffFails, CountFails, Die, BeforeAccounts
      <3>5. ASSUME NEW r \in Requests, Serve(r) PROVE UNCHANGED process
        BY <3>5 DEF Serve, CreateCheck, CreateInsert, EditRead, EditSave, DeleteUser,
                    CreateStation, DeleteStation, CreatePackage, DeletePackage, Refuse
      <3> QED
        BY <3>2, <3>3, <3>4, <3>5 DEF Next, vars
    <2> QED
      BY <1>1, <2>1, <2>2 DEF AccountsInv, Administrator
  <1>2. CASE process = "admin" /\ SeedAccounts
    <2>1. Free("admin")
      BY <1>2 DEF AccountsInv, Free, Found
    <2>2. Insert("admin", "admin") /\ process' = "member"
      BY <1>2, <2>1 DEF SeedAccounts, SeedUser
    <2>3. Administrator'
      BY <2>2, SeedNames, InsertKeepsAdministrator DEF Roles
    <2> QED
      BY <2>2, <2>3 DEF AccountsInv, Administrator
  <1>3. ASSUME NEW name \in Names, NEW role \in Roles, Insert(name, role),
               process \notin BeforeAccounts, process' # "admin", UNCHANGED deposed
        PROVE  AccountsInv'
    BY <1>3, InsertKeepsAdministrator DEF AccountsInv, Administrator
  <1>4. CASE (process = "member" /\ SeedAccounts) \/ SeedStaff
    BY <1>1, <1>3, <1>4, SeedNames DEF SeedAccounts, SeedStaff, SeedUser, BeforeAccounts, Roles
  <1>5. ASSUME NEW r \in Requests, process = "serving", Serve(r)
        PROVE  AccountsInv'
    <2>1. CASE CreateInsert(r)
      <3>1. req[r].name \in Names /\ req[r].role \in Roles
        BY <2>1 DEF TypeOK, RequestTypeOK, CreateInsert
      <3> QED
        BY <1>1, <1>3, <1>5, <2>1, <3>1 DEF CreateInsert, Refuse, BeforeAccounts, tables, history
    <2>2. CASE EditSave(r) \/ DeleteUser(r)
      <3>1. PICK id \in DOMAIN users, role \in Roles \cup {"none"} :
              users' = [users EXCEPT ![id].role = role]
        BY <2>2 DEF EditSave, DeleteUser, Live, TypeOK, RequestTypeOK
      <3>2. UNCHANGED process /\ NoteDeposed
        BY <2>2 DEF EditSave, DeleteUser
      <3>3. Administrator /\ ~deposed' => Administrator'
        BY <3>1, <3>2, RoleChangesOne DEF NoteDeposed, Administrator, Live, TypeOK, TableTypeOK
      <3>4. ~deposed' => ~deposed
        BY <3>2 DEF NoteDeposed
      <3> QED
        BY <1>5, <3>2, <3>3, <3>4 DEF AccountsInv, Administrator, BeforeAccounts
    <2>3. CASE UNCHANGED <<users, deposed>>
      BY <1>1, <2>3
    <2> QED
      BY <1>5, <2>1, <2>2, <2>3
      DEF Serve, CreateCheck, EditRead, CreateStation, DeleteStation, CreatePackage, DeletePackage,
          Refuse, tables, history
  <1> QED
    BY <1>1, <1>2, <1>4, <1>5
    DEF Next, Boot, Connect, CountUsers, SeedAccounts, FindStaff, CountStations, SeedStation,
        CountPackages, SeedPackages, FindStaffFails, CountFails, Die, vars, tables, history

-----------------------------------------------------------------------------
(* Stations and packages. *)

LEMMA RowsStep == TypeOK /\ RowsInv /\ [Next]_vars => RowsInv'
  <1> SUFFICES ASSUME TypeOK, RowsInv, [Next]_vars PROVE RowsInv'
    OBVIOUS
  <1>0. /\ stations \in [0..Seats -> Nat] /\ packages \in [Products \cup {Created} -> Nat]
        /\ next \in 0..Seats /\ uncounted \in Nat /\ Seats \in Nat /\ Created \notin Products
    BY SeedAssumption DEF TypeOK, ProcessTypeOK, TableTypeOK
  <1>1. CASE /\ UNCHANGED <<stations, packages, uncounted>>
             /\ process' \notin {"station", "package"}
    BY <1>0, <1>1 DEF RowsInv
  <1>2. CASE CountStations
    BY <1>0, <1>2 DEF CountStations, RowsInv, tables, history
  <1>3. CASE CountPackages
    BY <1>0, <1>3 DEF CountPackages, RowsInv, tables, history
  <1>4. CASE SeedStation
    <2>1. /\ process = "station" /\ process' # "package"
          /\ uncounted' = uncounted /\ packages' = packages
          /\ stations' = [stations EXCEPT ![next] = @ + 1]
          /\ \/ next < Seats /\ next' = next + 1 /\ process' = "station"
             \/ next = Seats /\ process' = "packages"
      BY <1>4 DEF SeedStation, history
    <2>2. ASSUME NEW n \in 1..Seats
          PROVE  stations'[n] =< uncounted' + (IF process' = "station" /\ n >= next' THEN 0 ELSE 1)
      <3>1. stations[n] \in Nat /\ n \in 0..Seats /\ n \in Nat /\ next \in Nat
        BY <1>0
      <3>2. stations[n] =< uncounted + (IF n >= next THEN 0 ELSE 1)
        BY <2>1 DEF RowsInv
      <3>3. stations'[n] = IF n = next THEN stations[n] + 1 ELSE stations[n]
        BY <1>0, <2>1, <3>1
      <3>4. uncounted \in Nat /\ (n > next => next < Seats)
        BY <1>0, <3>1
      <3> HIDE SeedAssumption
      <3>5. CASE n > next
        BY <2>1, <3>1, <3>2, <3>3, <3>4, <3>5
      <3>6. CASE n =< next
        BY <2>1, <3>1, <3>2, <3>3, <3>4, <3>6
      <3> QED
        BY <3>1, <3>5, <3>6
    <2>3. \A p \in Products : packages'[p] =< uncounted' + (IF process' = "package" THEN 0 ELSE 1)
      BY <2>1 DEF RowsInv
    <2> QED
      BY <2>2, <2>3 DEF RowsInv
  <1>5. CASE SeedPackages
    BY <1>0, <1>5 DEF SeedPackages, RowsInv, history
  <1>6. CASE CountFails
    <2>1. /\ uncounted' = uncounted + 1 /\ stations' = stations /\ packages' = packages
          /\ process # "package" /\ process # "station"
      BY <1>6 DEF CountFails, tables
    <2>2. \A n \in 1..Seats : stations[n] \in Nat /\ stations[n] =< uncounted + 1
      BY <1>0, <2>1 DEF RowsInv
    <2>3. \A p \in Products : packages[p] \in Nat /\ packages[p] =< uncounted + 1
      BY <1>0, <2>1 DEF RowsInv
    <2> QED
      BY <1>0, <2>1, <2>2, <2>3 DEF RowsInv
  <1>7. ASSUME NEW r \in Requests, process = "serving",
                 CreateStation(r) \/ DeleteStation(r) \/ CreatePackage(r) \/ DeletePackage(r)
        PROVE  RowsInv'
    <2>1. CASE CreateStation(r) \/ DeleteStation(r)
      <3>1. ASSUME NEW n \in 1..Seats
            PROVE  stations'[n] =< stations[n] /\ stations'[n] \in Nat
        <4>1. stations[n] \in Nat /\ n \in 0..Seats /\ n # 0
          BY <1>0
        <4>2. CASE CreateStation(r)
          <5>1. stations' = [stations EXCEPT ![0] = @ + 1]
            BY <4>2 DEF CreateStation
          <5> QED
            BY <1>0, <4>1, <5>1
        <4>3. CASE DeleteStation(r)
          <5>1. PICK m \in 0..Seats : stations[m] > 0 /\ stations' = [stations EXCEPT ![m] = @ - 1]
            BY <4>3 DEF DeleteStation
          <5>2. stations'[n] = IF n = m THEN stations[n] - 1 ELSE stations[n]
            BY <1>0, <4>1, <5>1
          <5> HIDE SeedAssumption
          <5> QED
            BY <4>1, <5>1, <5>2
        <4> QED
          BY <2>1, <4>2, <4>3
      <3>2. UNCHANGED <<process, packages, next, uncounted>>
        BY <2>1 DEF CreateStation, DeleteStation, history
      <3>3. \A n \in 1..Seats :
              stations'[n] =< uncounted' + (IF process' = "station" /\ n >= next' THEN 0 ELSE 1)
        BY <1>0, <1>7, <3>1, <3>2 DEF RowsInv
      <3> QED
        BY <3>2, <3>3 DEF RowsInv
    <2>2. CASE CreatePackage(r) \/ DeletePackage(r)
      <3>1. ASSUME NEW p \in Products
            PROVE  packages'[p] =< packages[p] /\ packages'[p] \in Nat
        <4>1. packages[p] \in Nat /\ p \in Products \cup {Created} /\ p # Created
          BY <1>0
        <4>2. CASE CreatePackage(r)
          <5>1. packages' = [packages EXCEPT ![Created] = @ + 1]
            BY <4>2 DEF CreatePackage
          <5> QED
            BY <1>0, <4>1, <5>1
        <4>3. CASE DeletePackage(r)
          <5>1. PICK m \in Products \cup {Created} : packages[m] > 0 /\ packages' = [packages EXCEPT ![m] = @ - 1]
            BY <4>3 DEF DeletePackage
          <5>2. packages'[p] = IF p = m THEN packages[p] - 1 ELSE packages[p]
            BY <1>0, <4>1, <5>1
          <5> HIDE SeedAssumption
          <5> QED
            BY <4>1, <5>1, <5>2
        <4> QED
          BY <2>2, <4>2, <4>3
      <3>2. UNCHANGED <<process, stations, next, uncounted>>
        BY <2>2 DEF CreatePackage, DeletePackage, history
      <3>3. \A p \in Products :
              packages'[p] =< uncounted' + (IF process' = "package" THEN 0 ELSE 1)
        BY <1>0, <1>7, <3>1, <3>2 DEF RowsInv
      <3> QED
        BY <3>2, <3>3 DEF RowsInv
    <2> QED
      BY <1>7, <2>1, <2>2
  <1>8. CASE UNCHANGED vars
    BY <1>8 DEF RowsInv, vars, tables, history
  <1> QED
    BY <1>1, <1>2, <1>3, <1>4, <1>5, <1>6, <1>7, <1>8
    DEF Next, Boot, Connect, CountUsers, SeedAccounts, SeedUser, FindStaff, SeedStaff,
        FindStaffFails, Die, Serve, CreateCheck, CreateInsert, EditRead, EditSave, DeleteUser,
        Refuse, tables, history

-----------------------------------------------------------------------------
LEMMA StartupInvariant == Spec => []StartupInv
  <1>1. Init => StartupInv
    <2>1. ASSUME Init PROVE UsernamesAreUnique /\ AccountsInv /\ RowsInv
      BY <2>1 DEF Init, UsernamesAreUnique, AccountsInv, RowsInv, Live, BeforeAccounts
    <2> QED
      BY <2>1, TypeInit DEF StartupInv
  <1>2. StartupInv /\ [Next]_vars => StartupInv'
    BY TypeStep, UniqueStep, AccountsStep, RowsStep DEF StartupInv
  <1> QED
    BY <1>1, <1>2, PTL DEF Spec

(* No interleaving of registrations, creations, saves of deleted users and restarts gives *)
(* two accounts one username.                                                             *)
THEOREM StartupUsernamesAreUnique == Spec => []UsernamesAreUnique
  <1>1. StartupInv => UsernamesAreUnique
    BY DEF StartupInv
  <1> QED
    BY <1>1, StartupInvariant, PTL

(* Wherever seeding is cut off, users without an administrator come from administrators. *)
THEOREM StartupAdministratorFirst == Spec => []AdministratorFirst
  <1>1. StartupInv => AdministratorFirst
    BY DEF StartupInv, AccountsInv, AdministratorFirst
  <1> QED
    BY <1>1, StartupInvariant, PTL

(* However many times the process is restarted, whatever was seeded is there once, but for *)
(* counts that failed.                                                                     *)
THEOREM StartupHallIsSeededOnce == Spec => []HallIsSeededOnce
  <1>1. StartupInv => HallIsSeededOnce
    <2>1. uncounted \in Nat /\ stations \in [0..Seats -> Nat] /\ Seats \in Nat
          /\ packages \in [Products \cup {Created} -> Nat] /\ next \in 0..Seats
          => (RowsInv => HallIsSeededOnce)
      BY DEF RowsInv, HallIsSeededOnce
    <2> QED
      BY <2>1, SeedAssumption DEF StartupInv, TypeOK, ProcessTypeOK, TableTypeOK
  <1> QED
    BY <1>1, StartupInvariant, PTL

(* No start of the server changes an account that is there. *)
THEOREM StartupSeedingKeepsAccounts == Spec => SeedingKeepsAccounts
  <1>1. TypeOK /\ [Next]_vars =>
          [process # "serving" => \A id \in DOMAIN users : users'[id] = users[id]]_vars
    BY UsersStep, InsertAddsOne DEF TypeOK, TableTypeOK
  <1> QED
    BY <1>1, StartupTypeOK, PTL DEF Spec, SeedingKeepsAccounts
=============================================================================
