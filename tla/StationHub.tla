----------------------------- MODULE StationHub -----------------------------
(***************************************************************************)
(* The live feed of station states: a goroutine publishes a snapshot of    *)
(* the stations every five seconds into a bounded channel, another sends   *)
(* each snapshot to every connection in the client map.  The map belongs   *)
(* to nobody: the handlers of the connections change it while the sender   *)
(* walks over it.                                                          *)
(***************************************************************************)
EXTENDS RateLimit

CONSTANTS
  Capacity,      \* of the channel broadcast
  MaxSnapshots   \* bound: snapshots modelled

ASSUME HubAssumption == Capacity \in Nat \ {0} /\ MaxSnapshots \in Nat

VARIABLES
  clients,     \* h.clients: requests that were upgraded to connections
  broadcast,   \* the channel: snapshots, numbered as they were read
  snapshots,   \* how many have been read from the database
  pending,     \* the last of them waits to be published
  walk,        \* Run: the snapshot it sends and the clients it has not come to
  got          \* got[r]: the last snapshot written to connection r, 0 if none

hubVars == <<clients, broadcast, snapshots, pending, walk, got>>

-----------------------------------------------------------------------------
(* The ticker fires and the stations are read; ticks that come while the last snapshot *)
(* is still to be published are dropped.                                               *)
ReadStations ==
  /\ ~pending /\ snapshots < MaxSnapshots
  /\ snapshots' = snapshots + 1
  /\ pending' = TRUE
  /\ UNCHANGED <<clients, broadcast, walk, got>>

(* Faulty: a snapshot is dropped when the channel is full. *)
PublishOrDrop ==
  /\ pending
  /\ broadcast' = IF Len(broadcast) < Capacity THEN Append(broadcast, snapshots) ELSE broadcast
  /\ pending' = FALSE
  /\ UNCHANGED <<clients, snapshots, walk, got>>

(* Faulty: the channel has no bound. *)
PublishAlways ==
  /\ pending
  /\ broadcast' = Append(broadcast, snapshots)
  /\ pending' = FALSE
  /\ UNCHANGED <<clients, snapshots, walk, got>>

(* The channel send blocks while the channel is full. *)
Publish ==
  /\ pending /\ Len(broadcast) < Capacity
  /\ broadcast' = Append(broadcast, snapshots)
  /\ pending' = FALSE
  /\ UNCHANGED <<clients, snapshots, walk, got>>

Walking == walk.todo # {}

(* Run takes the next snapshot once the last has been offered to all. *)
Receive ==
  /\ ~Walking /\ broadcast # <<>>
  /\ walk' = [snapshot |-> Head(broadcast), todo |-> clients]
  /\ broadcast' = Tail(broadcast)
  /\ UNCHANGED <<clients, snapshots, pending, got>>

(* WriteMessage to the next client; a failure takes the client off the map.  A client *)
(* that does not read keeps Run in this step: there is no write deadline.             *)
Write(r) ==
  /\ r \in walk.todo
  /\ walk' = [walk EXCEPT !.todo = @ \ {r}]
  /\ \/ got' = [got EXCEPT ![r] = walk.snapshot] /\ UNCHANGED clients
     \/ clients' = clients \ {r} /\ UNCHANGED got
  /\ UNCHANGED <<broadcast, snapshots, pending>>

Hub == ReadStations \/ Publish \/ Receive \/ \E r \in Requests : Write(r)

-----------------------------------------------------------------------------
(* The handler of a connection. *)

(* It enters the map; a walk that is under way may come to it or not. *)
Join(r) ==
  /\ req[r].pc = "joining"
  /\ clients' = clients \cup {r}
  /\ \/ walk' = [walk EXCEPT !.todo = @ \cup {r}] /\ Walking
     \/ UNCHANGED walk
  /\ Goto(r, "reading")
  /\ UNCHANGED <<limiterVars, broadcast, snapshots, pending, got>>

(* ReadMessage fails: the peer is gone, or Run closed the connection. *)
ReadFails(r) ==
  /\ req[r].pc = "reading"
  /\ Goto(r, "leaving")
  /\ UNCHANGED <<limiterVars, hubVars>>

(* Faulty: the sender's walk still comes to the closed connection. *)
LeaveWalkGoesOn(r) ==
  /\ req[r].pc = "leaving"
  /\ clients' = clients \ {r}
  /\ Answer(r, "ok")
  /\ UNCHANGED <<limiterVars, broadcast, snapshots, pending, walk, got>>

(* The deferred delete and Close. *)
Leave(r) ==
  /\ req[r].pc = "leaving"
  /\ clients' = clients \ {r}
  /\ walk' = [walk EXCEPT !.todo = @ \ {r}]
  /\ Answer(r, "ok")
  /\ UNCHANGED <<limiterVars, broadcast, snapshots, pending, got>>

Connection(r) == Join(r) \/ ReadFails(r) \/ Leave(r)

-----------------------------------------------------------------------------
HubTypeOK ==
  /\ clients \subseteq Requests
  /\ walk \in [snapshot : 0..MaxSnapshots, todo : SUBSET clients]
  /\ broadcast \in Seq(1..MaxSnapshots) /\ Len(broadcast) =< Capacity
  /\ snapshots \in 0..MaxSnapshots /\ pending \in BOOLEAN
  /\ got \in [Requests -> 0..MaxSnapshots]

(* While a connection lives it gets every snapshot, each once and in the order in which *)
(* they were read, however often the channel is full and whoever joins or leaves.       *)
NoSnapshotSkipped ==
  [][\A r \in Requests : got'[r] # got[r] => got[r] = 0 \/ got'[r] = got[r] + 1]_hubVars

(* What is being sent is never older than the channel is long: at most Capacity snapshots *)
(* and the one waiting to be published have been read since.                              *)
FeedIsFresh == Walking => walk.snapshot + Capacity + 1 >= snapshots
=============================================================================
