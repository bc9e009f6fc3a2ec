------------------------------- MODULE HallPool -------------------------------
(***************************************************************************)
(* The hall on its pool of database connections (database.Connect).        *)
(*                                                                         *)
(* Every statement runs on a connection.  db.Transaction takes one and     *)
(* keeps it until COMMIT or ROLLBACK; a statement of a repository that is  *)
(* not handed the transaction takes one of its own, and holds it while it  *)
(* waits for a row.  Several services run such statements inside their     *)
(* transaction, so that a request may hold one connection and wait for a   *)
(* second.  Nothing ends the wait for a connection; the wait for a row     *)
(* ends with innodb_lock_wait_timeout.                                     *)
(***************************************************************************)
EXTENDS Hall

CONSTANT MaxOpenConns   \* SetMaxOpenConns: 100
ASSUME PoolAssumption == MaxOpenConns \in Nat \ {0}

VARIABLE conns          \* conns[r]: connections in the hands of request r

poolVars == <<vars, conns>>
PoolInit == HallInit /\ conns = [r \in Requests |-> 0]

InUse == SumFunction(conns)

(* The transaction has begun before this statement and does not end with it. *)
InTransaction(pc) ==
  pc \in {"genRevoke", "genInsert",
          "scanReservation", "scanStation", "scanSession", "scanMember", "scanCharge",
          "bookInsert", "bookCommit", "cancelStation", "checkInStation",
          "startReservation", "startCheckIn", "startInsert", "startCommit", "endStation"}

(* A read or an INSERT on a connection of its own, which it holds for that moment only. *)
Momentary(pc) == pc \in {"new", "genStation", "bookConflict", "scanSession", "bookInsert",
                         "startReservation", "startInsert", "endSave"}

(* The connections in hand before a statement runs: that of the transaction it belongs to *)
(* or begins, and its own if it may wait for a row.  Cancel and CheckIn save through the   *)
(* pool inside their transaction.                                                          *)
Needed(r) == CASE req[r].pc \in {"new", "genStation", "bookConflict"} -> 0
               [] req[r].pc \in {"cancelSave", "checkInSave"} -> 2
               [] OTHER -> 1

(* db.conn: a free connection, for BEGIN or for a statement. *)
TakeConnection(r) ==
  /\ InFlight(r)
  /\ conns[r] < Needed(r) /\ InUse < MaxOpenConns
  /\ conns' = [conns EXCEPT ![r] = @ + 1]
  /\ UNCHANGED vars

(* Faulty: a transaction that is not ended keeps its connection. *)
KeepsConnection(r) ==
  conns' = [conns EXCEPT ![r] = IF InTransaction(req[r].pc) THEN 1 ELSE 0]

(* After the step of r: what its statement held goes back, the transaction's connection *)
(* stays while the transaction is open.                                                 *)
ReleaseConnection(r) ==
  conns' = [conns EXCEPT ![r] = IF InTransaction(req'[r].pc) THEN 1 ELSE 0]

(* A statement runs once it has its connection. *)
Execute(r) == /\ conns[r] = Needed(r)
              /\ Momentary(req[r].pc) => InUse < MaxOpenConns
              /\ Serve(r)
              /\ ReleaseConnection(r)

(* InnoDB gives up waiting for a row. *)
WaitsForRow(r) == conns[r] = Needed(r) /\ ~CanLock(r, Wanted(r))
LockWaitTimeout(r) == WaitsForRow(r) /\ Fail(r) /\ ReleaseConnection(r)

(* Fail stands for the victim of a deadlock as well. *)
PoolNext == \/ \E r \in Requests : \/ TakeConnection(r) \/ Execute(r) \/ LockWaitTimeout(r)
                                   \/ Fail(r) /\ ReleaseConnection(r)
            \/ Tick /\ UNCHANGED conns

(* Statements that can run do, the pool serves everybody who waits, and row waits end; *)
(* a request need not arrive.                                                          *)
PoolFairness == \A r \in Requests : /\ WF_poolVars(InFlight(r) /\ Execute(r))
                                    /\ WF_poolVars(TakeConnection(r))
                                    /\ WF_poolVars(LockWaitTimeout(r))
PoolSpec == PoolInit /\ [][PoolNext]_poolVars /\ PoolFairness

-----------------------------------------------------------------------------
(* Every connection is held by a transaction that waits for another one. *)
PoolExhausted == /\ InUse = MaxOpenConns
                 /\ \A r \in Requests : conns[r] > 0 => conns[r] < Needed(r) \/ Momentary(req[r].pc)

(* Every request that arrives is answered unless the pool is exhausted in this way:      *)
(* opposed lock orders, rows held by transactions that wait for a connection, and        *)
(* connections held by statements that wait for a row all resolve.                       *)
EveryRequestAnswered == \A r \in Requests :
  InFlight(r) ~> (req[r].pc = "done" \/ PoolExhausted)
=============================================================================
