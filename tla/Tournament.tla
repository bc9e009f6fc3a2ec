----------------------------- MODULE Tournament -----------------------------
(***************************************************************************)
(* TournamentService, for one tournament: registration, the drawing of     *)
(* groups with its matches, results, and the edits of staff.               *)
(*                                                                         *)
(* A draw assigns the groups in a transaction that locks one registration  *)
(* after the other in the order of its own shuffle, but inserts matches    *)
(* and saves the tournament through the pool, committed at once.           *)
(***************************************************************************)
EXTENDS Integers, FiniteSets

CONSTANTS
  Requests,     \* HTTP requests; a request also names the registration it inserts
  Enrolled,     \* registrations in the database at the start
  Users, Teams, Nil,
  Leader,       \* teams.leader_id
  Entry0,       \* registrations at the start
  Scores,       \* what a result may say of a side
  Ops           \* the operations requests may ask for

Entries  == Enrolled \cup Requests
Statuses == {"draft", "open", "ready", "finished"}

VARIABLES
  tournament,   \* its status; "none" when the row is gone
  entry,        \* registrations: who and the group number, 0 before a draw
  matches,      \* matches: rows named by the draw that made them
  held,         \* held[r]: registrations locked by the transaction of r
  req           \* what each request does next and has read

tables == <<tournament, entry, matches>>
vars   == <<tables, held, req>>

EntryRows == [user : Users \cup {Nil}, team : Teams \cup {Nil}, group : Nat]
MatchRows == [draw : Requests, group : Nat, a : Entries, b : Entries,
              finished : BOOLEAN, score : Scores \X Scores, winner : Teams \cup {Nil}]
NoEntry   == [user |-> Nil, team |-> Nil, group |-> 0]
Entered   == {e \in Entries : entry[e].user # Nil}

ASSUME TournamentRowsAssumption == Leader \in [Teams -> Users] /\ Entry0 \in [Enrolled -> EntryRows]
ASSUME TournamentNamesAssumption ==
  Nil \notin Users \cup Teams /\ Enrolled \cap Requests = {} /\ IsFiniteSet(Entries)
ASSUME TournamentScoresAssumption == Scores \subseteq Nat /\ 0 \in Scores
ASSUME TournamentOpsAssumption == Ops \subseteq {"Register", "Draw", "Result", "Update", "Delete"}

RequestStates ==
  [pc : {"new", "done", "registerCount", "registerInsert", "drawList", "drawAssign", "drawMatch",
         "drawSave", "drawCommit", "resultSave", "updateSave"},
   ans : {"none", "ok", "refused", "error"},
   user : Users \cup {Nil}, team : Teams \cup {Nil},
   list : SUBSET Entries,             \* the registrations a draw has listed
   turn : [Entries -> Nat],           \* where the shuffle put each
   next : Nat,                        \* assignments made
   plan : SUBSET MatchRows,           \* matches still to insert
   match : MatchRows \cup {Nil},      \* the match that was read
   status : Statuses \cup {"none"}]   \* the status to save
NewRequest ==
  [pc |-> "new", ans |-> "none", user |-> Nil, team |-> Nil, list |-> {}, turn |-> [e \in Entries |-> 0],
   next |-> 0, plan |-> {}, match |-> Nil, status |-> "none"]

TournamentInit ==
  /\ tournament = "open"
  /\ entry = [e \in Entries |-> IF e \in Enrolled THEN Entry0[e] ELSE NoEntry]
  /\ matches = {}
  /\ held = [r \in Requests |-> {}]
  /\ req = [r \in Requests |-> NewRequest]

Goes(r, state) == req' = [req EXCEPT ![r] = state]

(* Faulty: the transaction is left open. *)
ReturnHolding(r, answer) == /\ Goes(r, [NewRequest EXCEPT !.pc = "done", !.ans = answer])
                            /\ UNCHANGED held

(* The end of a request and of its transaction. *)
Return(r, answer) == /\ Goes(r, [NewRequest EXCEPT !.pc = "done", !.ans = answer])
                     /\ held' = [held EXCEPT ![r] = {}]
Answer(r, answer) == Return(r, answer) /\ UNCHANGED tables

(* UPDATE waits while another transaction has the row. *)
CanLock(r, e) == \A q \in Requests \ {r} : e \notin held[q]

-----------------------------------------------------------------------------
(* Register: the tournament must be open... *)
RegisterRead(r) ==
  /\ req[r].pc = "new"
  /\ IF tournament = "open"
     THEN /\ \E u \in Users, team \in Teams \cup {Nil} :
               Goes(r, [req[r] EXCEPT !.pc = "registerCount", !.user = u, !.team = team])
          /\ UNCHANGED <<tables, held>>
     ELSE Answer(r, "refused")

(* ... the user not registered yet, and the leader of the team named... *)
RegisterCount(r) ==
  LET q == req[r] IN
  /\ q.pc = "registerCount"
  /\ IF /\ \A e \in Entered : entry[e].user # q.user
        /\ q.team # Nil => Leader[q.team] = q.user
     THEN Goes(r, [q EXCEPT !.pc = "registerInsert"]) /\ UNCHANGED <<tables, held>>
     ELSE Answer(r, "refused")

(* ... when the registration is inserted, accepted at once. *)
RegisterInsert(r) ==
  /\ req[r].pc = "registerInsert"
  /\ entry' = [entry EXCEPT ![r] = [user |-> req[r].user, team |-> req[r].team, group |-> 0]]
  /\ Return(r, "ok")
  /\ UNCHANGED <<tournament, matches>>

-----------------------------------------------------------------------------
(* Faulty: one group too few for an odd number of registrations. *)
GroupCountDown(n) == n \div 2

GroupCount(n) == (n + 1) \div 2

(* The group of the registration that the shuffle put at position i of n, from 0. *)
GroupAt(i, n) == (i % GroupCount(n)) + 1

(* What rand.Shuffle can do to the list. *)
Shuffles(L) == {turn \in [Entries -> 0..Cardinality(L) - 1] :
                  /\ \A d, e \in L : d # e => turn[d] # turn[e]
                  /\ \A e \in Entries \ L : turn[e] = 0}

(* In each group, in the order of the shuffle, the first meets the second, the third the *)
(* fourth...; the groups are those read with the list, not those being assigned.         *)
Pairing(r, L, turn) ==
  LET mates(e)  == {d \in L : entry[d].group = entry[e].group}
      before(e) == Cardinality({d \in mates(e) : turn[d] < turn[e]})
  IN {[draw |-> r, group |-> entry[p[1]].group, a |-> p[1], b |-> p[2], finished |-> FALSE,
       score |-> <<0, 0>>, winner |-> Nil] :
        p \in {q \in L \X L : /\ entry[q[1]].group \in 1..GroupCount(Cardinality(L))
                              /\ q[2] \in mates(q[1])
                              /\ before(q[1]) % 2 = 0
                              /\ before(q[2]) = before(q[1]) + 1}}

(* DrawGroups: the tournament is open or was drawn before... *)
DrawRead(r) ==
  /\ req[r].pc = "new"
  /\ IF tournament \in {"open", "ready"}
     THEN Goes(r, [req[r] EXCEPT !.pc = "drawList"]) /\ UNCHANGED <<tables, held>>
     ELSE Answer(r, "refused")

(* ... the registrations are listed and shuffled... *)
DrawList(r) ==
  /\ req[r].pc = "drawList"
  /\ IF Cardinality(Entered) >= 2
     THEN /\ \E turn \in Shuffles(Entered) :
               Goes(r, [req[r] EXCEPT !.pc = "drawAssign", !.list = Entered, !.turn = turn,
                                      !.plan = Pairing(r, Entered, turn)])
          /\ UNCHANGED <<tables, held>>
     ELSE Answer(r, "refused")

(* Faulty: each assignment is committed on its own. *)
DrawAssignThroughPool(r) ==
  LET q == req[r]  n == Cardinality(q.list) IN
  /\ q.pc = "drawAssign"
  /\ \E e \in q.list :
       /\ q.turn[e] = q.next
       /\ CanLock(r, e)
       /\ entry' = [entry EXCEPT ![e].group = GroupAt(q.next, n)]
  /\ Goes(r, [q EXCEPT !.next = @ + 1, !.pc = IF q.next + 1 = n THEN "drawMatch" ELSE @])
  /\ UNCHANGED <<tournament, matches, held>>

(* ... each assigned its group in a transaction... *)
DrawAssign(r) ==
  LET q == req[r] IN
  /\ q.pc = "drawAssign"
  /\ \E e \in q.list :
       /\ q.turn[e] = q.next
       /\ CanLock(r, e)
       /\ held' = [held EXCEPT ![r] = @ \cup {e}]
  /\ Goes(r, [q EXCEPT !.next = @ + 1,
                       !.pc = IF q.next + 1 = Cardinality(q.list) THEN "drawMatch" ELSE @])
  /\ UNCHANGED tables

(* ... the matches inserted through the pool, by group and by turn... *)
DrawMatch(r) ==
  LET q == req[r] IN
  /\ q.pc = "drawMatch"
  /\ \/ /\ q.plan = {}
        /\ Goes(r, [q EXCEPT !.pc = "drawSave"])
        /\ UNCHANGED <<tables, held>>
     \/ \E m \in q.plan :
          /\ \A o \in q.plan \ {m} : \/ m.group < o.group
                                     \/ m.group = o.group /\ q.turn[m.a] < q.turn[o.a]
          /\ matches' = matches \cup {m}
          /\ Goes(r, [q EXCEPT !.plan = @ \ {m}])
          /\ UNCHANGED <<tournament, entry, held>>

(* Faulty: the status of a match instead of that of a tournament. *)
DrawSaveWrongStatus(r) ==
  /\ req[r].pc = "drawSave"
  /\ tournament' = "pending"
  /\ Goes(r, [req[r] EXCEPT !.pc = "drawCommit"])
  /\ UNCHANGED <<entry, matches, held>>

(* ... the tournament saved through the pool... *)
DrawSave(r) ==
  /\ req[r].pc = "drawSave"
  /\ tournament' = "ready"
  /\ Goes(r, [req[r] EXCEPT !.pc = "drawCommit"])
  /\ UNCHANGED <<entry, matches, held>>

(* ... and the groups committed. *)
DrawCommit(r) ==
  LET q == req[r] IN
  /\ q.pc = "drawCommit"
  /\ entry' = [e \in Entries |->
                 IF e \in q.list
                 THEN [entry[e] EXCEPT !.group = GroupAt(q.turn[e], Cardinality(q.list))]
                 ELSE entry[e]]
  /\ \E answer \in {"ok", "error"} : Return(r, answer)
  /\ UNCHANGED <<tournament, matches>>

-----------------------------------------------------------------------------
(* SubmitMatchResult: a match that is not finished... *)
ResultRead(r) ==
  /\ req[r].pc = "new"
  /\ \E m \in matches, score \in Scores \X Scores, named \in Teams \cup {Nil} :
       IF m.finished THEN Answer(r, "refused")
       ELSE LET winner == IF named # Nil \/ score[1] = score[2] THEN named
                          ELSE entry[IF score[1] > score[2] THEN m.a ELSE m.b].team
            IN  /\ Goes(r, [req[r] EXCEPT !.pc = "resultSave",
                       !.match = [m EXCEPT !.finished = TRUE, !.score = score, !.winner = winner]])
                /\ UNCHANGED <<tables, held>>

(* ... is saved as it was read, with the result. *)
ResultSave(r) ==
  LET won == req[r].match IN
  /\ req[r].pc = "resultSave"
  /\ matches' = {IF <<m.draw, m.a, m.b>> = <<won.draw, won.a, won.b>> THEN won ELSE m : m \in matches}
  /\ Return(r, "ok")
  /\ UNCHANGED <<tournament, entry>>

(* Update reads the tournament; a request without a status keeps the one read... *)
UpdateRead(r) ==
  /\ req[r].pc = "new"
  /\ IF tournament # "none"
     THEN /\ \E status \in Statuses \cup {tournament} :
               Goes(r, [req[r] EXCEPT !.pc = "updateSave", !.status = status])
          /\ UNCHANGED <<tables, held>>
     ELSE Answer(r, "refused")

(* ... and saves it, again if it was deleted. *)
UpdateSave(r) ==
  /\ req[r].pc = "updateSave"
  /\ tournament' = req[r].status
  /\ Return(r, "ok")
  /\ UNCHANGED <<entry, matches>>

Delete(r) ==
  /\ req[r].pc = "new"
  /\ tournament' = "none"
  /\ Return(r, "ok")
  /\ UNCHANGED <<entry, matches>>

-----------------------------------------------------------------------------
InFlight(r) == req[r].pc \notin {"new", "done"}

(* A statement fails or the server dies: the transaction is rolled back, the rest stays. *)
Fail(r) == InFlight(r) /\ Answer(r, "error")

(* The registration whose lock r needs next. *)
Wanted(r) == IF req[r].pc = "drawAssign" THEN {e \in req[r].list : req[r].turn[e] = req[r].next} ELSE {}

(* Draws that wait for one another: InnoDB rolls one of them back. *)
Deadlocked(S) == \A q \in S : \E p \in S \ {q} : Wanted(q) \cap held[p] # {}
DeadlockVictim(r) == (\E S \in SUBSET Requests : r \in S /\ Deadlocked(S)) /\ Answer(r, "error")

(* POST /tournaments/:id/register and /draw, POST /matches/:id/result, PUT /tournaments/:id *)
Register(r)   == RegisterRead(r) \/ RegisterCount(r) \/ RegisterInsert(r)
DrawGroups(r) == \/ DrawRead(r) \/ DrawList(r) \/ DrawAssign(r) \/ DrawMatch(r)
                 \/ DrawSave(r) \/ DrawCommit(r)
SubmitMatchResult(r) == ResultRead(r) \/ ResultSave(r)
Update(r)     == UpdateRead(r) \/ UpdateSave(r)

Serve(r) ==
  \/ "Register" \in Ops /\ Register(r)
  \/ "Draw"     \in Ops /\ DrawGroups(r)
  \/ "Result"   \in Ops /\ SubmitMatchResult(r)
  \/ "Update"   \in Ops /\ Update(r)
  \/ "Delete"   \in Ops /\ Delete(r)

TournamentNext == \E r \in Requests : Serve(r) \/ Fail(r) \/ DeadlockVictim(r)
TournamentSpec == TournamentInit /\ [][TournamentNext]_vars

(* A request that has arrived keeps running, and InnoDB breaks every deadlock. *)
TournamentFairSpec == /\ TournamentSpec
                      /\ \A r \in Requests : WF_vars(InFlight(r) /\ Serve(r))
                      /\ WF_vars(\E r \in Requests : DeadlockVictim(r))

-----------------------------------------------------------------------------
(* Rows hold values of their columns, and each registration is locked by one draw at most. *)
TypeOK ==
  /\ tournament \in Statuses \cup {"none"}
  /\ entry \in [Entries -> EntryRows] /\ matches \subseteq MatchRows
  /\ held \in [Requests -> SUBSET Entries]
  /\ \A r, q \in Requests : r # q => held[r] \cap held[q] = {}
  /\ req \in [Requests -> RequestStates]

(* Groups 1 to GroupCount, each of one or two of L. *)
Balanced(L, group) ==
  LET groups == 1..GroupCount(Cardinality(L)) IN
  /\ \A e \in L : group[e] \in groups
  /\ \A g \in groups : Cardinality({e \in L : group[e] = g}) \in {1, 2}
Groups == [e \in Entries |-> entry[e].group]

(* Groups change only by whole draws: whenever any registration gets another group, some *)
(* set of at least two has just been divided evenly, and nobody else is touched.         *)
EveryDrawIsFair ==
  [][Groups' # Groups => \E L \in SUBSET Entered :
       /\ Cardinality(L) >= 2 /\ Balanced(L, Groups')
       /\ \A e \in Entries \ L : Groups'[e] = Groups[e]]_vars

(* Concurrent draws over the same registrations never mix: at any moment the groups are *)
(* those of before or an even division, however the draws interleave, fail or deadlock. *)
DrawsDoNotMix ==
  Entered = Enrolled => \/ \A e \in Enrolled : entry[e].group = Entry0[e].group
                        \/ Balanced(Enrolled, Groups)

(* Draws lock registrations in the random order of their shuffles; every request is *)
(* answered all the same.                                                           *)
EveryRequestAnswered == \A r \in Requests : InFlight(r) ~> req[r].pc = "done"

(* tournament_service.go: a draw makes a match for the pair in each group. *)
DrawnPairsHaveMatches ==
  (\A r \in Requests : req[r].ans = "ok") =>
    \A d, e \in Entered :
      d # e /\ entry[d].group = entry[e].group /\ entry[e].group # 0
        => \E m \in matches : {m.a, m.b} = {d, e}
=============================================================================
