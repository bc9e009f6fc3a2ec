---------------------------- MODULE TournamentProofs ----------------------------
(***************************************************************************)
(* Draws of groups, for any number of registrations, requests, users and   *)
(* teams.  First the arithmetic of GroupAt: over any shuffle of at least   *)
(* two registrations it makes groups of one or two.  Then what a draw      *)
(* remembers stays true while others register and draw: its registrations  *)
(* are still entered, and it holds the locks of those it has assigned.     *)
(***************************************************************************)
EXTENDS Tournament, FiniteSetTheorems, TLAPS

-----------------------------------------------------------------------------
(* Even division *)

(* Half of n, rounded up. *)
LEMMA GroupCountRange ==
  ASSUME NEW n \in Nat, n >= 2
  PROVE  /\ GroupCount(n) \in Nat \ {0} /\ GroupCount(n) =< n
         /\ n =< 2 * GroupCount(n)
  BY DEF GroupCount

(* Of the positions below 2 * G, exactly i and i + G fall into the group of i. *)
LEMMA TwoPositionsPerGroup ==
  ASSUME NEW G \in Nat \ {0}, NEW i \in Nat, i < 2 * G, NEW k \in 0..G - 1
  PROVE  /\ i % G \in 0..G - 1
         /\ i % G = k <=> i \in {k, k + G}
  <1>1. CASE i < G
    <2>1. i % G = i
      BY <1>1
    <2> QED
      BY <1>1, <2>1
  <1>2. CASE i >= G
    <2>1. i % G = i - G
      BY <1>2
    <2> QED
      BY <1>2, <2>1
  <1> QED
    BY <1>1, <1>2

(* Every set of registrations is finite. *)
LEMMA FiniteEntries ==
  ASSUME NEW L \in SUBSET Entries
  PROVE  IsFiniteSet(L) /\ Cardinality(L) \in Nat
  BY TournamentNamesAssumption, FS_Subset, FS_CardinalityType

(* A shuffle of n registrations has one at each of the positions 0 to n - 1. *)
LEMMA ShuffleCovers ==
  ASSUME NEW L \in SUBSET Entries, NEW turn \in Shuffles(L), NEW i \in 0..Cardinality(L) - 1
  PROVE  \E e \in L : turn[e] = i
  <1> SUFFICES ASSUME \A e \in L : turn[e] # i
               PROVE  FALSE
    OBVIOUS
  <1> DEFINE others == (0..Cardinality(L) - 1) \ {i}
             at     == [e \in L |-> turn[e]]
  <1>1. IsFiniteSet(L) /\ Cardinality(L) \in Nat
    BY FiniteEntries
  <1>2. IsFiniteSet(others) /\ Cardinality(others) < Cardinality(L)
    <2>1. /\ IsFiniteSet(0..Cardinality(L) - 1)
          /\ Cardinality(0..Cardinality(L) - 1) = Cardinality(L)
      BY <1>1, FS_Interval
    <2>2. PICK positions : positions = 0..Cardinality(L) - 1
      OBVIOUS
    <2>3. /\ IsFiniteSet(positions \ {i})
          /\ Cardinality(positions \ {i}) = Cardinality(positions) - 1
      BY <2>1, <2>2, FS_RemoveElement
    <2> QED
      BY <1>1, <2>1, <2>2, <2>3
  <1>3. at \in [L -> others]
    BY DEF Shuffles
  <1>4. PICK d, e \in L : d # e /\ at[d] = at[e]
    <2> HIDE DEF others, at
    <2> QED
      BY <1>1, <1>2, <1>3, FS_PigeonHole
  <1> QED
    BY <1>4 DEF Shuffles

(* assignGroup: the groups of a draw are 1 to GroupCount, each of one or two. *)
LEMMA DrawsDivideEvenly ==
  ASSUME NEW L \in SUBSET Entries, Cardinality(L) >= 2, NEW turn \in Shuffles(L),
         NEW group, \A e \in L : group[e] = GroupAt(turn[e], Cardinality(L))
  PROVE  Balanced(L, group)
  <1> DEFINE n == Cardinality(L)
             G == GroupCount(n)
  <1>1. /\ n \in Nat /\ IsFiniteSet(L)
        /\ G \in Nat \ {0} /\ G =< n /\ n =< 2 * G
    BY FiniteEntries, GroupCountRange
  <1>2. \A e \in L : turn[e] \in 0..n - 1
    BY DEF Shuffles
  <1>3. \A d, e \in L : turn[d] = turn[e] => d = e
    BY DEF Shuffles
  <1> HIDE DEF n, G
  <1>4. \A e \in L : group[e] = (turn[e] % G) + 1
    BY DEF GroupAt, n, G
  <1>5. \A e \in L : group[e] \in 1..G
    <2> TAKE e \in L
    <2>1. turn[e] \in Nat /\ turn[e] < 2 * G
      BY <1>1, <1>2
    <2>2. 0 \in 0..G - 1
      BY <1>1
    <2>3. turn[e] % G \in 0..G - 1
      BY <1>1, <2>1, <2>2, TwoPositionsPerGroup
    <2> QED
      BY <1>1, <1>4, <2>3
  <1>6. ASSUME NEW g \in 1..G
        PROVE  Cardinality({e \in L : group[e] = g}) \in {1, 2}
    <2> DEFINE S == {e \in L : group[e] = g}
    <2>1. g - 1 \in 0..G - 1 /\ g - 1 \in 0..n - 1
      BY <1>1
    <2>2. \A e \in L : e \in S <=> turn[e] \in {g - 1, g - 1 + G}
      <3> TAKE e \in L
      <3>1. turn[e] \in Nat /\ turn[e] < 2 * G
        BY <1>1, <1>2
      <3>2. turn[e] % G = g - 1 <=> turn[e] \in {g - 1, g - 1 + G}
        BY <1>1, <2>1, <3>1, TwoPositionsPerGroup
      <3>3. turn[e] % G \in Int
        BY <1>1, <3>1
      <3>4. e \in S <=> (turn[e] % G) + 1 = g
        BY <1>4
      <3>5. (turn[e] % G) + 1 = g <=> turn[e] % G = g - 1
        BY <3>3
      <3> QED
        BY <3>2, <3>4, <3>5
    <2>3. PICK d \in L : turn[d] = g - 1
      BY <2>1, ShuffleCovers DEF n
    <2>4. CASE \E e \in L : turn[e] = g - 1 + G
      <3>1. PICK e \in L : turn[e] = g - 1 + G
        BY <2>4
      <3>2. d # e
        BY <1>1, <2>3, <3>1
      <3>3. S = {d} \cup {e}
        BY <1>3, <2>2, <2>3, <3>1
      <3>4. IsFiniteSet({d}) /\ Cardinality({d}) = 1
        BY FS_Singleton
      <3>5. Cardinality({d} \cup {e}) = 1 + 1
        BY <3>2, <3>4, FS_AddElement
      <3> QED
        BY <3>3, <3>5
    <2>5. CASE ~ \E e \in L : turn[e] = g - 1 + G
      <3>1. S = {d}
        BY <1>3, <2>2, <2>3, <2>5
      <3> QED
        BY <3>1, FS_Singleton
    <2> QED
      BY <2>4, <2>5
  <1> QED
    BY <1>5, <1>6 DEF Balanced, n, G

-----------------------------------------------------------------------------
(* The inductive invariant *)

Drawing   == {"drawAssign", "drawMatch", "drawSave", "drawCommit"}
Originals == {e \in Enrolled : Entry0[e].user # Nil}

(* A request has no registration of its own before it is over. *)
RegistrationsInv ==
  /\ \A r \in Requests : req[r].pc # "done" => entry[r] = NoEntry
  /\ \A e \in Enrolled : entry[e].user = Entry0[e].user

(* What a draw remembers fits what it holds: a shuffle of a list of at least two, with all *)
(* that were there at the start, and the locks of those whose turn is over.                *)
DrawReady(q, locks) ==
  /\ Originals \subseteq q.list /\ Cardinality(q.list) >= 2 /\ q.turn \in Shuffles(q.list)
  /\ q.pc = "drawAssign" => q.next < Cardinality(q.list)
  /\ \A e \in q.list : q.pc # "drawAssign" \/ q.turn[e] < q.next => e \in locks

DrawsInv ==
  \A r \in Requests :
    /\ req[r].pc \in {"new", "drawList"} => req[r].next = 0
    /\ req[r].pc \in Drawing => req[r].list \subseteq Entered /\ DrawReady(req[r], held[r])

(* A result that is about to be saved has read a match. *)
ResultsInv == \A r \in Requests : req[r].pc = "resultSave" => req[r].match \in MatchRows

TournamentInv == TypeOK /\ RegistrationsInv /\ DrawsInv /\ ResultsInv /\ DrawsDoNotMix

(* The state of a request that has arrived, and that of one that is over. *)
LEMMA NewRequestType ==
  /\ NewRequest \in RequestStates
  /\ \A answer \in {"ok", "refused", "error"} :
       [NewRequest EXCEPT !.pc = "done", !.ans = answer] \in RequestStates
  <1>1. NewRequest \in RequestStates
    BY DEF NewRequest, RequestStates
  <1>2. [NewRequest EXCEPT !.pc = "done"] \in RequestStates
    BY <1>1 DEF RequestStates
  <1>3. ASSUME NEW answer \in {"ok", "refused", "error"}
        PROVE  [[NewRequest EXCEPT !.pc = "done"] EXCEPT !.ans = answer] \in RequestStates
    BY <1>2 DEF RequestStates
  <1> QED
    BY <1>1, <1>3

LEMMA TournamentStarts == TournamentInit => TournamentInv
  <1> SUFFICES ASSUME TournamentInit PROVE TournamentInv
    OBVIOUS
  <1>1. NoEntry \in EntryRows
    BY DEF NoEntry, EntryRows
  <1>2. entry \in [Entries -> EntryRows]
    BY <1>1, TournamentRowsAssumption DEF TournamentInit, Entries
  <1>3. TypeOK
    BY <1>2, NewRequestType DEF TournamentInit, TypeOK, Statuses
  <1>4. RegistrationsInv
    BY TournamentNamesAssumption DEF TournamentInit, RegistrationsInv, Entries
  <1>5. DrawsInv /\ ResultsInv
    BY DEF TournamentInit, DrawsInv, ResultsInv, NewRequest, Drawing
  <1>6. DrawsDoNotMix
    BY DEF TournamentInit, DrawsDoNotMix, Entries
  <1> QED
    BY <1>3, <1>4, <1>5, <1>6 DEF TournamentInv

(* A step of r keeps the invariant if it leaves the locks and the registrations of others *)
(* alone, takes only free locks, and remembers what a draw has to.                        *)
LEMMA StepKeeps ==
  ASSUME TournamentInv, NEW r \in Requests, req[r].pc # "done",
         NEW state \in RequestStates, Goes(r, state),
         tournament' \in Statuses \cup {"none"}, matches' \in SUBSET MatchRows,
         entry' \in [Entries -> EntryRows], held' \in [Requests -> SUBSET Entries],
         \A q \in Requests \ {r} : held'[q] = held[q] /\ held'[r] \cap held[q] = {},
         \A e \in Entries \ {r} : entry'[e].user = entry[e].user,
         \A q \in Requests \ {r} : entry[q] = NoEntry => entry'[q] = NoEntry,
         state.pc # "done" => entry'[r] = entry[r],
         state.pc \in Drawing => state.list \subseteq Entered /\ DrawReady(state, held'[r]),
         state.pc \in {"new", "drawList"} => state.next = 0,
         state.pc = "resultSave" => state.match \in MatchRows,
         DrawsDoNotMix'
  PROVE  TournamentInv'
  <1>1. /\ req'[r] = state /\ \A q \in Requests \ {r} : req'[q] = req[q]
        /\ req' \in [Requests -> RequestStates]
    BY DEF Goes, TournamentInv, TypeOK
  <1>2. TypeOK'
    <2>1. \A p, q \in Requests : p # q => held'[p] \cap held'[q] = {}
      BY DEF TournamentInv, TypeOK
    <2> QED
      BY <1>1, <2>1 DEF TypeOK
  <1>3. RegistrationsInv'
    <2>1. \A e \in Enrolled : e \in Entries \ {r}
      BY TournamentNamesAssumption DEF Entries
    <2> QED
      BY <1>1, <2>1 DEF TournamentInv, RegistrationsInv
  <1>4. Entered \subseteq Entered'
    <2>1. r \notin Entered
      BY DEF TournamentInv, RegistrationsInv, Entered, NoEntry
    <2> QED
      BY <2>1 DEF Entered
  <1>5. DrawsInv'
    BY <1>1, <1>4 DEF TournamentInv, DrawsInv
  <1>6. ResultsInv'
    BY <1>1 DEF TournamentInv, ResultsInv
  <1> QED
    BY <1>2, <1>3, <1>5, <1>6 DEF TournamentInv

(* Steps that change no registration and no lock. *)
LEMMA ReadKeeps ==
  ASSUME TournamentInv, NEW r \in Requests, req[r].pc # "done",
         NEW state \in RequestStates, Goes(r, state), UNCHANGED <<entry, held>>,
         tournament' \in Statuses \cup {"none"}, matches' \in SUBSET MatchRows,
         state.pc \in Drawing => state.list \subseteq Entered /\ DrawReady(state, held[r]),
         state.pc \in {"new", "drawList"} => state.next = 0,
         state.pc = "resultSave" => state.match \in MatchRows
  PROVE  TournamentInv'
  <1>1. DrawsDoNotMix'
    BY DEF TournamentInv, DrawsDoNotMix, Entered, Balanced, Groups
  <1> QED
    BY <1>1, StepKeeps DEF TournamentInv, TypeOK

(* The end of a request that leaves the registrations as they are. *)
LEMMA ReturnKeeps ==
  ASSUME TournamentInv, NEW r \in Requests, req[r].pc # "done",
         NEW answer \in {"ok", "refused", "error"}, Return(r, answer), UNCHANGED entry,
         tournament' \in Statuses \cup {"none"}, matches' \in SUBSET MatchRows
  PROVE  TournamentInv'
  <1>1. DrawsDoNotMix'
    BY DEF TournamentInv, DrawsDoNotMix, Entered, Balanced, Groups
  <1>2. PICK state \in RequestStates : state = [NewRequest EXCEPT !.pc = "done", !.ans = answer]
    BY NewRequestType
  <1>3. state.pc = "done"
    BY <1>2 DEF NewRequest
  <1>4. /\ held' \in [Requests -> SUBSET Entries] /\ held'[r] = {}
        /\ \A q \in Requests \ {r} : held'[q] = held[q]
    BY DEF Return, TournamentInv, TypeOK
  <1>5. Goes(r, state)
    BY <1>2 DEF Return
  <1> QED
    BY <1>1, <1>3, <1>4, <1>5, StepKeeps DEF TournamentInv, TypeOK, Drawing

LEMMA AnswerKeeps ==
  ASSUME TournamentInv, NEW r \in Requests, req[r].pc # "done",
         NEW answer \in {"ok", "refused", "error"}, Answer(r, answer)
  PROVE  TournamentInv'
  BY ReturnKeeps DEF Answer, tables, TournamentInv, TypeOK

-----------------------------------------------------------------------------
(* Each step keeps it *)

LEMMA RegisterKeeps ==
  ASSUME TournamentInv, NEW r \in Requests, Register(r)
  PROVE  TournamentInv'
  <1> DEFINE q == req[r]
  <1>1. q \in RequestStates
    BY DEF TournamentInv, TypeOK
  <1>2. CASE RegisterRead(r)
    <2>1. CASE tournament = "open"
      <3>1. PICK u \in Users, team \in Teams \cup {Nil} :
              Goes(r, [q EXCEPT !.pc = "registerCount", !.user = u, !.team = team])
        BY <1>2, <2>1 DEF RegisterRead
      <3>2. PICK state \in RequestStates :
              state = [q EXCEPT !.pc = "registerCount", !.user = u, !.team = team]
        BY <1>1 DEF RequestStates
      <3>3. state.pc = "registerCount"
        BY <1>1, <3>2 DEF RequestStates
      <3> QED
        BY <1>2, <2>1, <3>1, <3>2, <3>3, ReadKeeps
        DEF RegisterRead, Drawing, tables, TournamentInv, TypeOK
    <2>2. CASE tournament # "open"
      BY <1>2, <2>2, AnswerKeeps DEF RegisterRead
    <2> QED
      BY <2>1, <2>2
  <1>3. CASE RegisterCount(r)
    <2>1. CASE Goes(r, [q EXCEPT !.pc = "registerInsert"]) /\ UNCHANGED <<tables, held>>
      <3>1. PICK state \in RequestStates : state = [q EXCEPT !.pc = "registerInsert"]
        BY <1>1 DEF RequestStates
      <3>2. state.pc = "registerInsert"
        BY <1>1, <3>1 DEF RequestStates
      <3> QED
        BY <1>3, <2>1, <3>1, <3>2, ReadKeeps
        DEF RegisterCount, Drawing, tables, TournamentInv, TypeOK
    <2>2. CASE Answer(r, "refused")
      BY <1>3, <2>2, AnswerKeeps DEF RegisterCount
    <2> QED
      BY <1>3, <2>1, <2>2 DEF RegisterCount
  <1>4. CASE RegisterInsert(r)
    <2>1. PICK row : row = [user |-> q.user, team |-> q.team, group |-> 0]
      OBVIOUS
    <2>2. row \in EntryRows
      BY <1>1, <2>1 DEF EntryRows, RequestStates
    <2>3. /\ entry' = [entry EXCEPT ![r] = row] /\ q.pc = "registerInsert"
          /\ UNCHANGED <<tournament, matches>> /\ Return(r, "ok")
      BY <1>4, <2>1 DEF RegisterInsert
    <2>4. r \in Entries /\ r \notin Enrolled
      BY TournamentNamesAssumption DEF Entries
    <2>5. entry' \in [Entries -> EntryRows] /\ \A e \in Entries \ {r} : entry'[e] = entry[e]
      BY <2>2, <2>3, <2>4 DEF TournamentInv, TypeOK
    <2>6. DrawsDoNotMix'
      <3>1. entry[r] = NoEntry /\ entry'[r] = row
        BY <2>3, <2>4 DEF TournamentInv, RegistrationsInv, TypeOK
      <3>2. Entered' = Enrolled => Entered = Enrolled
        BY <2>4, <2>5, <3>1 DEF Entered, NoEntry
      <3>3. \A e \in Enrolled : entry'[e] = entry[e] /\ Groups'[e] = Groups[e]
        BY <2>4, <2>5 DEF Entries, Groups
      <3>4. Balanced(Enrolled, Groups) => Balanced(Enrolled, Groups')
        <4>1. \A g : {e \in Enrolled : Groups'[e] = g} = {e \in Enrolled : Groups[e] = g}
          BY <3>3
        <4> QED
          BY <3>3, <4>1 DEF Balanced
      <3> QED
        BY <3>2, <3>3, <3>4 DEF TournamentInv, DrawsDoNotMix, Balanced
    <2>7. PICK state \in RequestStates : state = [NewRequest EXCEPT !.pc = "done", !.ans = "ok"]
      BY NewRequestType
    <2>8. state.pc = "done" /\ Goes(r, state)
      BY <2>3, <2>7 DEF NewRequest, Return
    <2>9. /\ held' \in [Requests -> SUBSET Entries] /\ held'[r] = {}
          /\ \A p \in Requests \ {r} : held'[p] = held[p]
      BY <2>3 DEF Return, TournamentInv, TypeOK
    <2>10. \A p \in Requests \ {r} : entry'[p] = entry[p]
      BY <2>5 DEF Entries
    <2> QED
      BY <2>3, <2>5, <2>6, <2>8, <2>9, <2>10, StepKeeps DEF TournamentInv, TypeOK, Drawing
  <1> QED
    BY <1>2, <1>3, <1>4 DEF Register

(* The pairs of a draw are rows of the table of matches. *)
LEMMA PairingType ==
  ASSUME TypeOK, NEW r \in Requests, NEW L \in SUBSET Entries, NEW turn
  PROVE  Pairing(r, L, turn) \subseteq MatchRows
  <1> SUFFICES ASSUME NEW m \in Pairing(r, L, turn)
               PROVE  m \in MatchRows
    OBVIOUS
  <1>1. PICK p \in L \X L :
          m = [draw |-> r, group |-> entry[p[1]].group, a |-> p[1], b |-> p[2], finished |-> FALSE,
               score |-> <<0, 0>>, winner |-> Nil]
    BY DEF Pairing
  <1>2. p[1] \in Entries /\ p[2] \in Entries /\ entry[p[1]].group \in Nat
    BY DEF TypeOK, EntryRows
  <1>3. <<0, 0>> \in Scores \X Scores
    BY TournamentScoresAssumption
  <1> QED
    BY <1>1, <1>2, <1>3 DEF MatchRows

(* The list of a draw has everybody who was there at the start. *)
LEMMA OriginalsStay ==
  ASSUME TournamentInv
  PROVE  Originals \subseteq Entered
  BY DEF TournamentInv, RegistrationsInv, Originals, Entered, Entries

LEMMA DrawReadKeeps ==
  ASSUME TournamentInv, NEW r \in Requests, DrawRead(r)
  PROVE  TournamentInv'
  <1>1. CASE tournament \in {"open", "ready"}
    <2> req[r] \in RequestStates
      BY DEF TournamentInv, TypeOK
    <2>1. PICK state \in RequestStates : state = [req[r] EXCEPT !.pc = "drawList"]
      BY DEF RequestStates
    <2>2. state.pc = "drawList" /\ state.next = 0
      BY <2>1 DEF DrawRead, TournamentInv, DrawsInv, TypeOK, RequestStates
    <2>3. Goes(r, state) /\ UNCHANGED <<tables, held>> /\ req[r].pc = "new"
      BY <1>1, <2>1 DEF DrawRead
    <2> QED
      BY <2>2, <2>3, ReadKeeps DEF Drawing, tables, TournamentInv, TypeOK
  <1>2. CASE tournament \notin {"open", "ready"}
    BY <1>2, AnswerKeeps DEF DrawRead
  <1> QED
    BY <1>1, <1>2

LEMMA DrawListKeeps ==
  ASSUME TournamentInv, NEW r \in Requests, DrawList(r)
  PROVE  TournamentInv'
  <1>1. CASE Cardinality(Entered) >= 2
    <2>1. PICK turn \in Shuffles(Entered) :
            Goes(r, [req[r] EXCEPT !.pc = "drawAssign", !.list = Entered, !.turn = turn,
                                   !.plan = Pairing(r, Entered, turn)])
      BY <1>1 DEF DrawList
    <2>2. PICK L \in SUBSET Entries : L = Entered
      BY DEF Entered
    <2>3. PICK plan \in SUBSET MatchRows : plan = Pairing(r, L, turn)
      BY <2>2, PairingType DEF TournamentInv
    <2>4. turn \in [Entries -> Nat]
      BY <2>1, <2>2, FiniteEntries DEF Shuffles
    <2>5. req[r].next = 0 /\ req[r].pc = "drawList" /\ UNCHANGED <<tables, held>>
      BY <1>1 DEF DrawList, TournamentInv, DrawsInv
    <2> req[r] \in RequestStates
      BY DEF TournamentInv, TypeOK
    <2>6. PICK state \in RequestStates :
            state = [req[r] EXCEPT !.pc = "drawAssign", !.list = L, !.turn = turn, !.plan = plan]
      <3>1. PICK first \in RequestStates :
              first = [req[r] EXCEPT !.pc = "drawAssign", !.list = L]
        BY DEF RequestStates
      <3>2. PICK second \in RequestStates : second = [first EXCEPT !.turn = turn, !.plan = plan]
        BY <2>4, ZenonT(30) DEF RequestStates
      <3>3. second = [req[r] EXCEPT !.pc = "drawAssign", !.list = L, !.turn = turn, !.plan = plan]
        BY <3>1, <3>2
      <3> QED
        BY <3>3
    <2>7. /\ state.pc = "drawAssign" /\ state.list = L /\ state.turn = turn /\ state.next = 0
      BY <2>5, <2>6 DEF TournamentInv, TypeOK, RequestStates
    <2>8. Goes(r, state)
      BY <2>1, <2>2, <2>3, <2>6
    <2>9. DrawReady(state, held[r])
      <3>1. \A e \in L : turn[e] \in Nat
        BY <2>4
      <3>2. Cardinality(L) \in Nat
        BY FiniteEntries
      <3> QED
        BY <1>1, <2>1, <2>2, <2>7, <3>1, <3>2, OriginalsStay DEF DrawReady
    <2> QED
      BY <2>2, <2>5, <2>7, <2>8, <2>9, ReadKeeps DEF tables, TournamentInv, TypeOK
  <1>2. CASE ~(Cardinality(Entered) >= 2)
    BY <1>2, AnswerKeeps DEF DrawList
  <1> QED
    BY <1>1, <1>2

LEMMA DrawAssignKeeps ==
  ASSUME TournamentInv, NEW r \in Requests, DrawAssign(r)
  PROVE  TournamentInv'
  <1> DEFINE q == req[r]
             n == Cardinality(q.list)
  <1>1. q \in RequestStates /\ q.pc = "drawAssign" /\ UNCHANGED tables
    BY DEF DrawAssign, TournamentInv, TypeOK
  <1>2. /\ q.list \subseteq Entered /\ DrawReady(q, held[r])
        /\ q.turn \in Shuffles(q.list) /\ q.next < n /\ n \in Nat /\ q.next \in Nat
    BY <1>1, FiniteEntries DEF TournamentInv, DrawsInv, Drawing, DrawReady, RequestStates
  <1>3. PICK e \in q.list :
          q.turn[e] = q.next /\ CanLock(r, e) /\ held' = [held EXCEPT ![r] = @ \cup {e}]
    BY DEF DrawAssign
  <1>4. PICK state \in RequestStates :
          state = [q EXCEPT !.next = @ + 1, !.pc = IF q.next + 1 = n THEN "drawMatch" ELSE @]
    <2>1. PICK count \in Nat : count = q.next + 1
      BY <1>2
    <2>2. PICK pc \in {"drawMatch", "drawAssign"} : pc = IF q.next + 1 = n THEN "drawMatch" ELSE q.pc
      BY <1>1
    <2>3. [q EXCEPT !.next = count, !.pc = pc] \in RequestStates
      BY <1>1 DEF RequestStates
    <2> QED
      BY <2>1, <2>2, <2>3
  <1>5. /\ state.list = q.list /\ state.turn = q.turn /\ state.next = q.next + 1
        /\ state.pc = IF q.next + 1 = n THEN "drawMatch" ELSE "drawAssign"
    BY <1>1, <1>4 DEF RequestStates
  <1>6. Goes(r, state)
    BY <1>4 DEF DrawAssign
  <1>7. /\ held' \in [Requests -> SUBSET Entries] /\ held'[r] = held[r] \cup {e}
        /\ \A p \in Requests \ {r} : held'[p] = held[p] /\ held'[r] \cap held[p] = {}
    BY <1>1, <1>3 DEF TournamentInv, TypeOK, CanLock, RequestStates
  <1>8. DrawReady(state, held'[r])
    <2>1. state.pc = "drawAssign" => state.next < n
      BY <1>2, <1>5
    <2>2. \A d \in q.list : q.turn[d] \in 0..n - 1 /\ (q.turn[d] = q.next => d = e)
      BY <1>1, <1>2, <1>3 DEF Shuffles, RequestStates
    <2>3. ASSUME NEW d \in q.list, state.pc # "drawAssign" \/ state.turn[d] < state.next
          PROVE  d \in held'[r]
      <3>1. q.turn[d] < q.next + 1
        BY <1>2, <1>5, <2>2, <2>3
      <3>2. CASE q.turn[d] = q.next
        BY <1>7, <2>2, <3>2
      <3>3. CASE q.turn[d] < q.next
        BY <1>1, <1>2, <1>7, <3>3 DEF DrawReady
      <3> QED
        BY <1>2, <2>2, <3>1, <3>2, <3>3
    <2> QED
      BY <1>2, <1>5, <2>1, <2>3 DEF DrawReady
  <1>9. DrawsDoNotMix'
    BY <1>1 DEF TournamentInv, DrawsDoNotMix, Entered, Balanced, Groups, tables
  <1>10. state.pc \notin {"done", "new", "drawList", "resultSave"}
    BY <1>5
  <1> QED
    BY <1>1, <1>2, <1>5, <1>6, <1>7, <1>8, <1>9, <1>10, StepKeeps DEF TournamentInv, TypeOK, tables

(* A draw that has assigned all goes on with the same list, shuffle and locks. *)
LEMMA DrawGoesOn ==
  ASSUME TournamentInv, NEW r \in Requests, req[r].pc \in Drawing \ {"drawAssign"},
         NEW state \in RequestStates, state.list = req[r].list, state.turn = req[r].turn,
         state.pc \in Drawing \ {"drawAssign"}
  PROVE  state.list \subseteq Entered /\ DrawReady(state, held[r])
  BY DEF TournamentInv, DrawsInv, DrawReady

LEMMA DrawMatchKeeps ==
  ASSUME TournamentInv, NEW r \in Requests, DrawMatch(r)
  PROVE  TournamentInv'
  <1> DEFINE q == req[r]
  <1>1. q \in RequestStates /\ q.pc = "drawMatch"
    BY DEF DrawMatch, TournamentInv, TypeOK
  <1>2. CASE q.plan = {} /\ Goes(r, [q EXCEPT !.pc = "drawSave"]) /\ UNCHANGED <<tables, held>>
    <2>1. PICK state \in RequestStates : state = [q EXCEPT !.pc = "drawSave"]
      BY <1>1 DEF RequestStates
    <2>2. state.pc = "drawSave" /\ state.list = q.list /\ state.turn = q.turn
      BY <1>1, <2>1 DEF RequestStates
    <2> QED
      BY <1>1, <1>2, <2>1, <2>2, DrawGoesOn, ReadKeeps DEF Drawing, tables, TournamentInv, TypeOK
  <1>3. ASSUME NEW m \in q.plan, matches' = matches \cup {m}, Goes(r, [q EXCEPT !.plan = @ \ {m}]),
               UNCHANGED <<tournament, entry, held>>
        PROVE  TournamentInv'
    <2>1. PICK rest \in SUBSET MatchRows : rest = q.plan \ {m}
      BY <1>1 DEF RequestStates
    <2>2. PICK state \in RequestStates : state = [q EXCEPT !.plan = rest]
      BY <1>1, <2>1 DEF RequestStates
    <2>3. state.pc = "drawMatch" /\ state.list = q.list /\ state.turn = q.turn
      BY <1>1, <2>2 DEF RequestStates
    <2>4. Goes(r, state)
      BY <1>3, <2>1, <2>2
    <2>5. matches' \in SUBSET MatchRows
      BY <1>1, <1>3 DEF RequestStates, TournamentInv, TypeOK
    <2> QED
      BY <1>1, <1>3, <2>3, <2>4, <2>5, DrawGoesOn, ReadKeeps DEF Drawing, TournamentInv, TypeOK
  <1> QED
    BY <1>1, <1>2, <1>3 DEF DrawMatch

LEMMA DrawSaveKeeps ==
  ASSUME TournamentInv, NEW r \in Requests, DrawSave(r)
  PROVE  TournamentInv'
  <1>1. req[r] \in RequestStates /\ req[r].pc = "drawSave"
    BY DEF DrawSave, TournamentInv, TypeOK
  <1>2. PICK state \in RequestStates : state = [req[r] EXCEPT !.pc = "drawCommit"]
    BY <1>1 DEF RequestStates
  <1>3. state.pc = "drawCommit" /\ state.list = req[r].list /\ state.turn = req[r].turn
    BY <1>1, <1>2 DEF RequestStates
  <1>4. /\ tournament' \in Statuses \cup {"none"} /\ UNCHANGED <<entry, matches, held>>
        /\ Goes(r, state)
    BY <1>2 DEF DrawSave, Statuses
  <1> QED
    BY <1>1, <1>3, <1>4, DrawGoesOn, ReadKeeps DEF Drawing, TournamentInv, TypeOK

(* What the commit of a draw does to the registrations: its list is divided evenly, and *)
(* nothing else changes.                                                                *)
LEMMA CommitDivides ==
  ASSUME TournamentInv, NEW r \in Requests, DrawCommit(r)
  PROVE  LET L == req[r].list IN
         /\ L \in SUBSET Entries /\ L \subseteq Entered /\ Originals \subseteq L
         /\ Cardinality(L) >= 2 /\ Balanced(L, Groups')
         /\ entry' \in [Entries -> EntryRows]
         /\ \A e \in Entries : entry'[e].user = entry[e].user
         /\ \A e \in Entries \ L : entry'[e] = entry[e]
  <1> DEFINE q == req[r]
             L == q.list
             n == Cardinality(L)
  <1>1. /\ q.pc = "drawCommit" /\ q \in RequestStates
        /\ entry' = [e \in Entries |->
                       IF e \in L THEN [entry[e] EXCEPT !.group = GroupAt(q.turn[e], n)] ELSE entry[e]]
    BY DEF DrawCommit, TournamentInv, TypeOK
  <1>2. L \in SUBSET Entries /\ L \subseteq Entered /\ DrawReady(q, held[r])
    BY <1>1 DEF TournamentInv, DrawsInv, Drawing, Entered
  <1>3. n >= 2 /\ n \in Nat /\ Originals \subseteq L /\ q.turn \in Shuffles(L)
    BY <1>2, FiniteEntries DEF DrawReady
  <1>4. entry \in [Entries -> EntryRows]
    BY DEF TournamentInv, TypeOK
  <1>5. \A e \in L : entry'[e] = [entry[e] EXCEPT !.group = GroupAt(q.turn[e], n)]
    BY <1>1, <1>2
  <1>6. \A e \in Entries \ L : entry'[e] = entry[e]
    BY <1>1
  <1>7. \A e \in L : entry'[e].group = GroupAt(q.turn[e], n) /\ entry'[e].user = entry[e].user
    BY <1>2, <1>4, <1>5 DEF EntryRows
  <1>8. \A e \in L : Groups'[e] = GroupAt(q.turn[e], n)
    BY <1>2, <1>7 DEF Groups
  <1>9. PICK groups : groups = Groups'
    OBVIOUS
  <1>10. Balanced(L, groups)
    BY <1>2, <1>3, <1>8, <1>9, DrawsDivideEvenly
  <1>11. Balanced(L, Groups')
    BY <1>9, <1>10
  <1>12. ASSUME NEW e \in L
         PROVE  entry'[e] \in EntryRows
    <2>1. Balanced(L, groups) => groups[e] \in Nat
      BY DEF Balanced
    <2>2. PICK g \in Nat : g = GroupAt(q.turn[e], n)
      BY <1>8, <1>9, <1>10, <2>1
    <2>3. entry[e] \in EntryRows
      BY <1>2, <1>4
    <2> QED
      BY <1>5, <2>2, <2>3 DEF EntryRows
  <1>13. entry' \in [Entries -> EntryRows]
    BY <1>1, <1>4, <1>6, <1>12
  <1> QED
    BY <1>2, <1>3, <1>6, <1>7, <1>11, <1>13

LEMMA DrawCommitKeeps ==
  ASSUME TournamentInv, NEW r \in Requests, DrawCommit(r)
  PROVE  TournamentInv'
  <1> DEFINE L == req[r].list
  <1>1. /\ L \in SUBSET Entries /\ L \subseteq Entered /\ Originals \subseteq L
        /\ Cardinality(L) >= 2 /\ Balanced(L, Groups')
        /\ entry' \in [Entries -> EntryRows]
        /\ \A e \in Entries : entry'[e].user = entry[e].user
        /\ \A e \in Entries \ L : entry'[e] = entry[e]
    BY CommitDivides
  <1>2. PICK answer \in {"ok", "error"} : Return(r, answer)
    BY DEF DrawCommit
  <1>3. UNCHANGED <<tournament, matches>> /\ req[r].pc = "drawCommit"
    BY DEF DrawCommit
  <1>4. PICK state \in RequestStates : state = [NewRequest EXCEPT !.pc = "done", !.ans = answer]
    BY NewRequestType
  <1>5. state.pc = "done" /\ Goes(r, state)
    BY <1>2, <1>4 DEF NewRequest, Return
  <1>6. /\ held' \in [Requests -> SUBSET Entries] /\ held'[r] = {}
        /\ \A p \in Requests \ {r} : held'[p] = held[p]
    BY <1>2 DEF Return, TournamentInv, TypeOK
  <1>7. \A p \in Requests : entry[p] = NoEntry => entry'[p] = NoEntry
    BY <1>1 DEF Entries, Entered, NoEntry
  <1>8. DrawsDoNotMix'
    <2> SUFFICES ASSUME Entered' = Enrolled
                 PROVE  Balanced(Enrolled, Groups')
      BY DEF DrawsDoNotMix
    <2>1. Entered = Enrolled
      BY <1>1 DEF Entered
    <2>2. Enrolled \subseteq Originals
      BY <2>1 DEF Entered, Originals, TournamentInv, RegistrationsInv
    <2>3. L = Enrolled
      BY <1>1, <2>1, <2>2
    <2> QED
      BY <1>1, <2>3
  <1> QED
    BY <1>1, <1>3, <1>5, <1>6, <1>7, <1>8, StepKeeps DEF TournamentInv, TypeOK, Drawing

LEMMA ResultKeeps ==
  ASSUME TournamentInv, NEW r \in Requests, SubmitMatchResult(r)
  PROVE  TournamentInv'
  <1>1. req[r] \in RequestStates
    BY DEF TournamentInv, TypeOK
  <1>2. CASE ResultRead(r)
    <2>1. PICK m \in matches, score \in Scores \X Scores, named \in Teams \cup {Nil} :
            IF m.finished THEN Answer(r, "refused")
            ELSE LET winner == IF named # Nil \/ score[1] = score[2] THEN named
                               ELSE entry[IF score[1] > score[2] THEN m.a ELSE m.b].team
                 IN  /\ Goes(r, [req[r] EXCEPT !.pc = "resultSave",
                            !.match = [m EXCEPT !.finished = TRUE, !.score = score, !.winner = winner]])
                     /\ UNCHANGED <<tables, held>>
      BY <1>2 DEF ResultRead
    <2>2. CASE m.finished
      BY <1>2, <2>1, <2>2, AnswerKeeps DEF ResultRead
    <2>3. CASE ~m.finished
      <3>1. m \in MatchRows
        BY DEF TournamentInv, TypeOK
      <3>2. PICK side \in Entries : side = IF score[1] > score[2] THEN m.a ELSE m.b
        BY <3>1 DEF MatchRows
      <3>3. PICK winner \in Teams \cup {Nil} :
              winner = IF named # Nil \/ score[1] = score[2] THEN named ELSE entry[side].team
        BY DEF TournamentInv, TypeOK, EntryRows
      <3>4. PICK won \in MatchRows : won = [m EXCEPT !.finished = TRUE, !.score = score, !.winner = winner]
        BY <3>1 DEF MatchRows
      <3>5. PICK state \in RequestStates : state = [req[r] EXCEPT !.pc = "resultSave", !.match = won]
        BY <1>1 DEF RequestStates
      <3>6. state.pc = "resultSave" /\ state.match = won
        BY <1>1, <3>5 DEF RequestStates
      <3>7. Goes(r, state) /\ UNCHANGED <<tables, held>>
        BY <2>1, <2>3, <3>2, <3>3, <3>4, <3>5
      <3> QED
        BY <1>2, <3>6, <3>7, ReadKeeps DEF ResultRead, Drawing, tables, TournamentInv, TypeOK
    <2> QED
      BY <2>2, <2>3
  <1>3. CASE ResultSave(r)
    <2>1. req[r].match \in MatchRows
      BY <1>1, <1>3 DEF ResultSave, TournamentInv, ResultsInv
    <2>2. matches' \in SUBSET MatchRows
      BY <1>3, <2>1 DEF ResultSave, TournamentInv, TypeOK
    <2> QED
      BY <1>3, <2>2, ReturnKeeps DEF ResultSave, TournamentInv, TypeOK
  <1> QED
    BY <1>2, <1>3 DEF SubmitMatchResult

LEMMA EditsKeep ==
  ASSUME TournamentInv, NEW r \in Requests, Update(r) \/ Delete(r)
  PROVE  TournamentInv'
  <1>1. req[r] \in RequestStates
    BY DEF TournamentInv, TypeOK
  <1>2. CASE UpdateRead(r)
    <2>1. CASE tournament # "none"
      <3>1. PICK status \in Statuses \cup {"none"} :
              Goes(r, [req[r] EXCEPT !.pc = "updateSave", !.status = status])
        BY <1>2, <2>1 DEF UpdateRead, TournamentInv, TypeOK
      <3>2. PICK state \in RequestStates :
              state = [req[r] EXCEPT !.pc = "updateSave", !.status = status]
        BY <1>1 DEF RequestStates
      <3>3. state.pc = "updateSave"
        BY <1>1, <3>2 DEF RequestStates
      <3> QED
        BY <1>2, <2>1, <3>1, <3>2, <3>3, ReadKeeps
        DEF UpdateRead, Drawing, tables, TournamentInv, TypeOK
    <2>2. CASE tournament = "none"
      BY <1>2, <2>2, AnswerKeeps DEF UpdateRead
    <2> QED
      BY <2>1, <2>2
  <1>3. CASE UpdateSave(r)
    <2>1. req[r].status \in Statuses \cup {"none"}
      BY <1>1 DEF RequestStates
    <2> QED
      BY <1>3, <2>1, ReturnKeeps DEF UpdateSave, TournamentInv, TypeOK
  <1>4. CASE Delete(r)
    BY <1>4, ReturnKeeps DEF Delete, TournamentInv, TypeOK
  <1> QED
    BY <1>2, <1>3, <1>4 DEF Update

(* A victim waits for a row, so it is a draw under way. *)
LEMMA VictimsWait ==
  ASSUME NEW r \in Requests, DeadlockVictim(r)
  PROVE  req[r].pc = "drawAssign" /\ Answer(r, "error")
  BY DEF DeadlockVictim, Deadlocked, Wanted

LEMMA TournamentStep == TournamentInv /\ [TournamentNext]_vars => TournamentInv'
  <1> SUFFICES ASSUME TournamentInv, [TournamentNext]_vars
               PROVE  TournamentInv'
    OBVIOUS
  <1>1. CASE UNCHANGED vars
    <2>1. TypeOK' /\ RegistrationsInv' /\ ResultsInv'
      BY <1>1 DEF vars, tables, TournamentInv, TypeOK, RegistrationsInv, ResultsInv
    <2>2. Entered' = Entered /\ Groups' = Groups
      BY <1>1 DEF vars, tables, Entered, Groups
    <2>3. DrawsInv'
      BY <1>1, <2>2 DEF vars, TournamentInv, DrawsInv
    <2>4. DrawsDoNotMix'
      BY <1>1, <2>2 DEF vars, tables, TournamentInv, DrawsDoNotMix, Balanced
    <2> QED
      BY <2>1, <2>3, <2>4 DEF TournamentInv
  <1>2. ASSUME NEW r \in Requests, Serve(r)
        PROVE  TournamentInv'
    <2>1. CASE DrawGroups(r)
      BY <2>1, DrawReadKeeps, DrawListKeeps, DrawAssignKeeps, DrawMatchKeeps, DrawSaveKeeps,
         DrawCommitKeeps DEF DrawGroups
    <2> QED
      BY <1>2, <2>1, RegisterKeeps, ResultKeeps, EditsKeep DEF Serve
  <1>3. ASSUME NEW r \in Requests, Fail(r)
        PROVE  TournamentInv'
    BY <1>3, AnswerKeeps DEF Fail, InFlight
  <1>4. ASSUME NEW r \in Requests, DeadlockVictim(r)
        PROVE  TournamentInv'
    BY <1>4, VictimsWait, AnswerKeeps
  <1> QED
    BY <1>1, <1>2, <1>3, <1>4 DEF TournamentNext

-----------------------------------------------------------------------------
(* The theorems *)

(* The invariant above holds in every state the requests can bring about. *)
THEOREM TournamentInvariant == TournamentSpec => []TournamentInv
  BY TournamentStarts, TournamentStep, PTL DEF TournamentSpec

(* Rows hold values of their columns, and each registration is locked by one draw at most. *)
THEOREM TournamentTypeOK == TournamentSpec => []TypeOK
  <1>1. TournamentInv => TypeOK
    BY DEF TournamentInv
  <1> QED
    BY <1>1, TournamentInvariant, PTL

(* As long as nobody registers, the groups are those of the start or an even division of *)
(* all, however draws interleave, fail or deadlock.                                      *)
THEOREM TournamentDrawsDoNotMix == TournamentSpec => []DrawsDoNotMix
  <1>1. TournamentInv => DrawsDoNotMix
    BY DEF TournamentInv
  <1> QED
    BY <1>1, TournamentInvariant, PTL

(* A step that is not the commit of a draw gives nobody another group. *)
LEMMA OnlyCommitsRegroup ==
  ASSUME TournamentInv, [TournamentNext]_vars, \A r \in Requests : ~DrawCommit(r)
  PROVE  Groups' = Groups
  <1>1. CASE UNCHANGED entry
    BY <1>1 DEF Groups
  <1>2. ASSUME NEW r \in Requests, RegisterInsert(r)
        PROVE  Groups' = Groups
    <2>1. r \in Entries /\ entry \in [Entries -> EntryRows] /\ entry[r] = NoEntry
      BY <1>2 DEF Entries, TournamentInv, TypeOK, RegistrationsInv, RegisterInsert
    <2>2. entry' = [entry EXCEPT ![r] = [user |-> req[r].user, team |-> req[r].team, group |-> 0]]
      BY <1>2 DEF RegisterInsert
    <2>3. \A e \in Entries : entry'[e].group = entry[e].group
      BY <2>1, <2>2 DEF NoEntry
    <2> QED
      BY <2>3 DEF Groups
  <1>3. ASSUME NEW r \in Requests, Serve(r), ~RegisterInsert(r)
        PROVE  UNCHANGED entry
    <2>1. CASE Register(r)
      BY <1>3, <2>1 DEF Register, RegisterRead, RegisterCount, Answer, tables
    <2>2. CASE DrawGroups(r)
      BY <2>2, ZenonT(30) DEF DrawGroups, DrawRead, DrawList, DrawAssign, DrawMatch, DrawSave, Answer, tables
    <2>3. CASE SubmitMatchResult(r)
      BY <2>3, ZenonT(30) DEF SubmitMatchResult, ResultRead, ResultSave, Answer, tables
    <2>4. CASE Update(r) \/ Delete(r)
      BY <2>4 DEF Update, UpdateRead, UpdateSave, Delete, Answer, tables
    <2> QED
      BY <1>3, <2>1, <2>2, <2>3, <2>4 DEF Serve
  <1>4. ASSUME NEW r \in Requests, Fail(r) \/ DeadlockVictim(r)
        PROVE  UNCHANGED entry
    BY <1>4 DEF Fail, DeadlockVictim, Answer, tables
  <1>5. UNCHANGED vars => UNCHANGED entry
    BY DEF vars, tables
  <1> QED
    BY <1>1, <1>2, <1>3, <1>4, <1>5 DEF TournamentNext

(* Groups change only by whole draws: an even division of at least two that are entered, *)
(* and nobody else is touched.                                                           *)
THEOREM TournamentEveryDrawIsFair == TournamentSpec => EveryDrawIsFair
  <1> DEFINE Fair == Groups' # Groups => \E L \in SUBSET Entered :
                       /\ Cardinality(L) >= 2 /\ Balanced(L, Groups')
                       /\ \A e \in Entries \ L : Groups'[e] = Groups[e]
  <1>1. TournamentInv /\ [TournamentNext]_vars => [Fair]_vars
    <2> SUFFICES ASSUME TournamentInv, [TournamentNext]_vars
                 PROVE  Fair
      OBVIOUS
    <2>1. ASSUME NEW r \in Requests, DrawCommit(r)
          PROVE  Fair
      <3>1. PICK L : L = req[r].list
        OBVIOUS
      <3>2. /\ L \subseteq Entered /\ Cardinality(L) >= 2 /\ Balanced(L, Groups')
            /\ \A e \in Entries \ L : entry'[e] = entry[e]
        BY <2>1, <3>1, CommitDivides
      <3>3. \A e \in Entries \ L : Groups'[e] = Groups[e]
        BY <3>2 DEF Groups
      <3> QED
        BY <3>2, <3>3
    <2> QED
      BY <2>1, OnlyCommitsRegroup
  <1> QED
    BY <1>1, TournamentInvariant, PTL DEF TournamentSpec, EveryDrawIsFair

(* A draw commits groups only for registrations whose locks it holds. *)
THEOREM TournamentDrawsLockWhatTheyWrite ==
  TournamentSpec => [][\A r \in Requests : DrawCommit(r) => req[r].list \subseteq held[r]]_vars
  <1>1. TournamentInv => \A r \in Requests : DrawCommit(r) => req[r].list \subseteq held[r]
    BY DEF TournamentInv, DrawsInv, DrawReady, Drawing, DrawCommit
  <1> QED
    BY <1>1, TournamentInvariant, PTL DEF TournamentSpec
=============================================================================
