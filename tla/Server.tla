------------------------------- MODULE Server -------------------------------
(***************************************************************************)
(* The server process: every request goes through the recovery, the rate   *)
(* limiter and, under /api/v1, the audit middleware to its handler.  The   *)
(* handlers are the operations of Hall, Wallet and Tournament; here it     *)
(* only matters whether they changed the database.  A process that dies    *)
(* takes the fallback counter, the connections and the feed with it; the   *)
(* counter in Redis and the audit log survive.                             *)
(***************************************************************************)
EXTENDS StationHub

VARIABLES
  process,     \* "up", "stopping" after a signal, "down"
  audited      \* requests with a row in audit_logs

serverVars == <<process, audited>>
vars == <<limiterVars, req, hubVars, serverVars>>

-----------------------------------------------------------------------------
ServerInit ==
  /\ clock = 0 /\ counter = [life |-> 0, count |-> 0, expire |-> Nil]
  /\ buckets = <<>> /\ current = 0 /\ counted = {} /\ unset = {}
  /\ req = [r \in Requests |-> NewRequest]
  /\ clients = {} /\ broadcast = <<>> /\ snapshots = 0 /\ pending = FALSE
  /\ walk = [snapshot |-> 0, todo |-> {}]
  /\ got = [r \in Requests |-> 0]
  /\ process = "up" /\ audited = {}

(* A GET, or a write of somebody who is not logged in: answered, not audited. *)
HandlePlain(r) ==
  /\ req[r].pc = "admitted"
  /\ Answer(r, "ok")
  /\ UNCHANGED <<limiterVars, hubVars, serverVars>>

(* A write of somebody logged in: the handler has run, whatever it answered. *)
HandleWrite(r) ==
  /\ req[r].pc = "admitted"
  /\ Goto(r, "audit")
  /\ UNCHANGED <<limiterVars, hubVars, serverVars>>

(* The role check aborts the chain with 403 and the handler does not run; the audit       *)
(* middleware, which is further out, goes on behind it as after any write by somebody     *)
(* whom Auth let pass.                                                                    *)
Forbid(r) ==
  /\ req[r].pc = "admitted"
  /\ Goto(r, "auditRefusal") \/ Answer(r, "forbidden")
  /\ UNCHANGED <<limiterVars, hubVars, serverVars>>

(* The handler panics, before or after it changed the database; the recovery answers 500, *)
(* and the rest of the audit middleware does not run.                                     *)
HandlePanic(r) ==
  /\ req[r].pc = "admitted"
  /\ req' = [req EXCEPT ![r].pc = "done", ![r].ans = "error", ![r].panicked = TRUE]
  /\ UNCHANGED <<limiterVars, hubVars, serverVars>>

(* GET /ws/stations *)
Upgrade(r) ==
  /\ req[r].pc = "admitted"
  /\ Goto(r, "joining") \/ Answer(r, "error")
  /\ UNCHANGED <<limiterVars, hubVars, serverVars>>

(* Faulty: the row is written before the rest of the chain runs. *)
AuditEarly(r) ==
  /\ req[r].pc \in {"admitted", "audit"}
  /\ audited' = audited \cup {r}
  /\ IF req[r].pc = "audit" THEN Goto(r, "answer") ELSE UNCHANGED req
  /\ UNCHANGED <<limiterVars, hubVars, process>>

(* The audit row is inserted after the rest of the chain; a failure is dropped. *)
Audit(r) ==
  /\ \/ req[r].pc = "audit" /\ Goto(r, "answer")
     \/ req[r].pc = "auditRefusal" /\ Goto(r, "refusal")
  /\ audited' = audited \cup {r} \/ UNCHANGED audited
  /\ UNCHANGED <<limiterVars, hubVars, process>>

(* The buffered response is sent when the chain returns. *)
SendAnswer(r) ==
  /\ \/ req[r].pc = "answer" /\ Answer(r, "ok")
     \/ req[r].pc = "refusal" /\ Answer(r, "forbidden")
  /\ UNCHANGED <<limiterVars, hubVars, serverVars>>

Handle(r) == HandlePlain(r) \/ HandleWrite(r) \/ Forbid(r) \/ HandlePanic(r) \/ Upgrade(r)
             \/ Audit(r) \/ SendAnswer(r)

-----------------------------------------------------------------------------
(* SIGINT or SIGTERM: Shutdown accepts nobody new. *)
Signal ==
  /\ process = "up"
  /\ process' = "stopping"
  /\ UNCHANGED <<limiterVars, req, hubVars, audited>>

(* The process ends: its memory and every request in flight are gone. *)
Die ==
  /\ process' = "down"
  /\ req' = [r \in Requests |-> IF InFlight(r)
                                THEN [req[r] EXCEPT !.pc = "done", !.ans = "dead"] ELSE req[r]]
  /\ current' = 0
  /\ clients' = {} /\ broadcast' = <<>> /\ pending' = FALSE
  /\ walk' = [walk EXCEPT !.todo = {}]
  /\ UNCHANGED <<clock, counter, buckets, counted, unset, snapshots, got, audited>>

(* Shutdown has waited for the requests in flight, but not for connections. *)
Waited(r) == InFlight(r) /\ req[r].pc \notin {"joining", "reading", "leaving"}
Exit  == process = "stopping" /\ (\A r \in Requests : ~Waited(r)) /\ Die

(* The process is killed, or gives up waiting after ten seconds, or the Go runtime stops it *)
(* because two goroutines were in the client map at once.                                   *)
Crash == process # "down" /\ Die

Restart ==
  /\ process = "down"
  /\ process' = "up"
  /\ UNCHANGED <<limiterVars, req, hubVars, audited>>

-----------------------------------------------------------------------------
(* One step of the middleware chain or the handler of r. *)
Serve(r) ==
  /\ process = "up" \/ (process = "stopping" /\ InFlight(r))
  /\ \/ Limiter(r) /\ UNCHANGED <<hubVars, serverVars>>
     \/ Handle(r)
     \/ Connection(r) /\ UNCHANGED serverVars

ServerNext ==
  \/ \E r \in Requests : Serve(r)
  \/ process # "down" /\ Hub /\ UNCHANGED <<limiterVars, req, serverVars>>
  \/ Tick /\ UNCHANGED <<hubVars, serverVars>>
  \/ Signal \/ Exit \/ Crash \/ Restart

ServerSpec == ServerInit /\ [][ServerNext]_vars

-----------------------------------------------------------------------------
TypeOK == /\ LimiterTypeOK /\ HubTypeOK
          /\ process \in {"up", "stopping", "down"} /\ audited \subseteq Requests

(* An audit row stands for a request that a window of the limiter let through and whose    *)
(* chain came back: the handler ran to its end, or the role check kept the user from it,   *)
(* which leaves the same row.  There is none for a request over the limit, for one that    *)
(* panicked, and for one that died before its chain came back.                             *)
AuditFollowsChain ==
  \A r \in audited : /\ r \in LetThrough(req[r].via) \/ req[r].ans = "dead"
                     /\ req[r].pc \in {"answer", "refusal", "done"} /\ ~req[r].panicked
                     /\ \E k \in counted : k.who = r /\ k.in = req[r].via
=============================================================================
