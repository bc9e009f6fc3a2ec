---------------------------- MODULE ScreensProofs ----------------------------
(***************************************************************************)
(* Proofs about BootScreens, for any number of tabs, users, codes and      *)
(* calls under way.                                                        *)
(***************************************************************************)
EXTENDS BootScreens, FiniteSetTheorems, TLAPS

CallsTypeOK == call \in [Slots -> Calls \cup {Nil}]

(* Where a tab is or goes fits the login in its store; localStorage holds that one or none. *)
RoutesInv ==
  \A t \in Tabs :
    /\ nav[t] # Nil => Guard(store[t], nav[t]) = nav[t]
    /\ nav[t] = Nil => page[t] \in Pages /\ Guard(store[t], page[t]) = page[t]
    /\ local[t] \in {Nil, store[t]}

(* A login is under way only while its tab rests on the login page, and only one. *)
IsLogin(k) == call[k] # Nil /\ call[k].kind = "login"
LoginsInv ==
  /\ \A k \in Slots : IsLogin(k) => /\ call[k].from = "page" /\ call[k].who \in Users
                                    /\ page[call[k].tab] = "Login" /\ nav[call[k].tab] = Nil
  /\ \A j, k \in Slots : IsLogin(j) /\ IsLogin(k) /\ call[j].tab = call[k].tab => j = k

Lives == {"none", "active", "used", "expired", "cancelled"}
TicketsInv ==
  /\ visit \in [Codes -> Reservations \cup {Nil}] /\ seatedBy \in [Codes -> Tabs \cup {Nil}]
  /\ ticket \in [Codes -> [life : Lives, for : Reservations \cup {Nil}]]
  /\ \A c \in Issued : ticket[c].life # "none" /\ ticket[c].for \in Reservations

(* What is known of a call: whose code it asks for or brings, and what its scan did. *)
BelongsTo(c, u) == c \in Issued /\ Owner[ticket[c].for] = u
SeatedAt(c, t)  == /\ c \in Issued /\ ticket[c].life = "used" /\ visit[c] = ticket[c].for
                   /\ seatedBy[c] = t
MineInv(m) ==
  IF m.ans = "ok" THEN m.who \in Users /\ (m.what = Nil \/ BelongsTo(m.what, m.who)) ELSE m.what = Nil
GenerateInv(m) ==
  IF m.ans = "ok" THEN m.who \in Users /\ BelongsTo(m.what, m.who) ELSE m.what \in Reservations
VerifyInv(m) ==
  m.what \in Issued /\ (m.ans = "ok" => SeatedAt(m.what, m.tab))
HeardAt(m) == /\ page[m.tab] = "BootCode"
              /\ m.who = Nil \/ store[m.tab] = Nil \/ m.who = store[m.tab]
CallInv(m) ==
  /\ m.kind = "mine" => MineInv(m)
  /\ m.kind = "generate" => GenerateInv(m)
  /\ m.kind = "verify" => VerifyInv(m)
  /\ m.kind \in {"mine", "generate"} /\ m.from = "page" => HeardAt(m)
Underway == {call[k] : k \in Slots} \ {Nil}
CallsInv == \A m \in Underway : CallInv(m)

(* What the pages show. *)
ShownInv ==
  \A t \in Tabs : code[t] # Nil => /\ page[t] = "BootCode" /\ code[t] \in Issued
                                   /\ store[t] # Nil => BelongsTo(code[t], store[t])
PanelInv == \A t \in Tabs : desk[t].result # Nil => SeatedAt(desk[t].result, t)
Scan(t)  == IF desk[t].verifying THEN \E k \in Slots : Waiting(t, "verify", "page") = {k}
            ELSE Waiting(t, "verify", "page") = {}
ScansInv == \A t \in Tabs : Scan(t)

ScreensInv == /\ TypeOK /\ CallsTypeOK /\ RoutesInv /\ LoginsInv /\ TicketsInv
              /\ CallsInv /\ ShownInv /\ PanelInv /\ ScansInv

-----------------------------------------------------------------------------
(* The guard. *)

LEMMA GuardType ==
  ASSUME NEW u \in Users \cup {Nil}, NEW name \in Pages
  PROVE  Guard(u, name) \in Pages /\ Guard(u, name) # Nil
  BY NothingAssumption DEF Guard, Pages

LEMMA GuardTwice ==
  ASSUME NEW u \in Users \cup {Nil}, NEW name \in Pages
  PROVE  Guard(u, Guard(u, name)) = Guard(u, name)
  <1>1. u # Nil => Role[u] \in Roles
    BY RoleAssumption
  <1>2. u # Nil => Guard(u, "Dashboard") = "Dashboard"
    BY <1>1 DEF Guard, Admits
  <1>3. CASE name # "Login" /\ u = Nil
    BY <1>3 DEF Guard
  <1>4. CASE name = "Login" /\ u # Nil
    BY <1>2, <1>4 DEF Guard
  <1>5. CASE name # "Login" /\ u # Nil /\ Role[u] \notin Admits(name)
    BY <1>2, <1>5 DEF Guard
  <1>6. CASE name = "Login" /\ u = Nil
    BY <1>6, NobodyAssumption DEF Guard, Admits
  <1>7. CASE name # "Login" /\ u # Nil /\ Role[u] \in Admits(name)
    BY <1>7 DEF Guard
  <1> QED
    BY <1>3, <1>4, <1>5, <1>6, <1>7

LEMMA GuardHome ==
  /\ Guard(Nil, "Login") = "Login"
  /\ \A u \in Users \cup {Nil} : Guard(u, "Login") = "Login" => u = Nil
  /\ \A name \in Pages : Guard(Nil, name) = "Login"
  /\ \A u \in Users : /\ Guard(u, "BootCode") = "BootCode" => Role[u] = "member"
                      /\ Guard(u, "ScanBoot") = "ScanBoot" => Role[u] \in {"admin", "staff"}
  <1>1. \A u \in Users : u # Nil
    BY NobodyAssumption
  <1> QED
    BY <1>1 DEF Guard, Admits, Pages

-----------------------------------------------------------------------------
(* What the steps of the browser do to the calls. *)

LEMMA CallFields ==
  ASSUME NEW m \in Calls
  PROVE  /\ m.tab \in Tabs /\ m.kind \in Kinds /\ m.who \in Users \cup {Nil}
         /\ m.from \in {"page", "left", "stray", "nobody"}
         /\ m.ans \in {"none", "ok", "refused", "unauthorized"}
         /\ m.what \in Contents \cup {Nil} /\ m # Nil
  BY NothingAssumption DEF Calls

LEMMA SendDoes ==
  ASSUME CallsTypeOK, NEW t \in Tabs, NEW kind \in Kinds, NEW from \in {"page", "stray"},
         NEW who \in Users \cup {Nil}, NEW what \in Contents \cup {Nil}, Send(t, kind, from, who, what)
  PROVE  /\ CallsTypeOK'
         /\ \E k \in Slots :
              /\ call[k] = Nil /\ \A j \in Slots \ {k} : call'[j] = call[j]
              /\ call'[k] # Nil /\ call'[k].tab = t /\ call'[k].kind = kind /\ call'[k].who = who
              /\ call'[k].from = from /\ call'[k].ans = "none" /\ call'[k].what = what
  <1>1. PICK k \in Slots :
          /\ call[k] = Nil
          /\ call' = [call EXCEPT ![k] = [tab |-> t, kind |-> kind, who |-> who, from |-> from,
                                          ans |-> "none", what |-> what]]
    BY DEF Send
  <1>2. /\ call'[k] = [tab |-> t, kind |-> kind, who |-> who, from |-> from, ans |-> "none", what |-> what]
        /\ \A j \in Slots \ {k} : call'[j] = call[j]
    BY <1>1 DEF CallsTypeOK
  <1>3. call'[k] \in Calls
    BY <1>2 DEF Calls
  <1>4. CallsTypeOK'
    BY <1>1, <1>2, <1>3 DEF CallsTypeOK
  <1> QED
    BY <1>1, <1>2, <1>3, <1>4, CallFields

LEMMA ForgetDoes ==
  ASSUME CallsTypeOK, NEW k \in Slots, Forget(k)
  PROVE  CallsTypeOK' /\ call'[k] = Nil /\ \A j \in Slots \ {k} : call'[j] = call[j]
  BY DEF CallsTypeOK, Forget

(* m is the call l, answered. *)
Reply(l, m) == m \in Calls /\ m.tab = l.tab /\ m.kind = l.kind /\ m.who = l.who /\ m.from = l.from

LEMMA RespondDoes ==
  ASSUME CallsTypeOK, NEW k \in Slots, call[k] # Nil,
         NEW ans \in {"ok", "refused", "unauthorized"}, NEW what \in Contents \cup {Nil},
         Respond(k, ans, what)
  PROVE  /\ CallsTypeOK' /\ \A j \in Slots \ {k} : call'[j] = call[j]
         /\ \/ call'[k] = Nil /\ call[k].from = "nobody"
            \/ /\ call'[k] # Nil /\ Reply(call[k], call'[k])
               /\ call'[k].ans = ans /\ call'[k].what = what
  <1>1. call[k] \in Calls
    BY DEF CallsTypeOK
  <1>2. /\ \A j \in Slots \ {k} : call'[j] = call[j]
        /\ call'[k] = IF call[k].from = "nobody" THEN Nil ELSE [call[k] EXCEPT !.ans = ans, !.what = what]
        /\ call' = [j \in Slots |-> call'[j]]
    BY DEF CallsTypeOK, Respond
  <1>3. CASE call[k].from # "nobody"
    <2>1. call'[k] = [tab |-> call[k].tab, kind |-> call[k].kind, who |-> call[k].who,
                      from |-> call[k].from, ans |-> ans, what |-> what]
      BY <1>1, <1>2, <1>3 DEF Calls
    <2>2. call'[k] \in Calls
      BY <1>1, <2>1 DEF Calls
    <2>3. Reply(call[k], call'[k]) /\ call'[k].ans = ans /\ call'[k].what = what
      BY <2>1, <2>2 DEF Reply
    <2>4. CallsTypeOK'
      BY <1>2, <2>2 DEF CallsTypeOK
    <2> QED
      BY <1>2, <2>2, <2>3, <2>4, CallFields
  <1>4. CASE call[k].from = "nobody"
    BY <1>2, <1>4 DEF CallsTypeOK
  <1> QED
    BY <1>3, <1>4

(* m is the call l, which its page does not wait for any more. *)
Orphan(l, m) == /\ m \in Calls /\ m # Nil /\ m.tab = l.tab /\ m.kind = l.kind /\ m.who = l.who
                /\ m.from # "page" /\ m.ans = l.ans /\ m.what = l.what

LEMMA OrphanIs ==
  ASSUME NEW l \in Calls, NEW from \in {"left", "stray", "nobody"}
  PROVE  Orphan(l, [l EXCEPT !.from = from]) /\ [l EXCEPT !.from = from].from = from
  <1>1. [l EXCEPT !.from = from] = [tab |-> l.tab, kind |-> l.kind, who |-> l.who, from |-> from,
                                    ans |-> l.ans, what |-> l.what]
    BY DEF Calls
  <1>2. [l EXCEPT !.from = from] \in Calls
    BY <1>1 DEF Calls
  <1> QED
    BY <1>1, <1>2, CallFields DEF Orphan

LEMMA GiveUpDoes ==
  ASSUME CallsTypeOK, NEW k \in Slots, call[k] # Nil, GiveUp(k)
  PROVE  /\ CallsTypeOK' /\ \A j \in Slots \ {k} : call'[j] = call[j]
         /\ call'[k] = Nil \/ (StillCounts(k) /\ Orphan(call[k], call'[k]))
  <1>1. call[k] \in Calls
    BY DEF CallsTypeOK
  <1>2. CASE Forget(k)
    BY <1>2, ForgetDoes
  <1>3. CASE StillCounts(k) /\ call' = [call EXCEPT ![k].from = "nobody"]
    <2>1. /\ call'[k] = [call[k] EXCEPT !.from = "nobody"] /\ \A j \in Slots \ {k} : call'[j] = call[j]
          /\ call' = [j \in Slots |-> call'[j]]
      BY <1>3 DEF CallsTypeOK
    <2>2. Orphan(call[k], call'[k])
      BY <1>1, <2>1, OrphanIs
    <2> QED
      BY <1>3, <2>1, <2>2 DEF CallsTypeOK, Orphan
  <1> QED
    BY <1>2, <1>3 DEF GiveUp

LEMMA ArriveDoes ==
  ASSUME CallsTypeOK, NEW t \in Tabs, NEW rest \in {"left", "stray"}, Arrive(t, rest)
  PROVE  /\ CallsTypeOK'
         /\ \A j \in Slots : IF call[j] # Nil /\ call[j].tab = t /\ call[j].from = "page"
                             THEN Orphan(call[j], call'[j]) /\ call'[j].from = rest
                             ELSE call'[j] = call[j]
  <1>1. \A j \in Slots : call'[j] = IF call[j] # Nil /\ call[j].tab = t /\ call[j].from = "page"
                                    THEN [call[j] EXCEPT !.from = rest] ELSE call[j]
    BY DEF Arrive
  <1>2. \A j \in Slots : call[j] # Nil => call[j] \in Calls
    BY DEF CallsTypeOK
  <1>3. \A j \in Slots : IF call[j] # Nil /\ call[j].tab = t /\ call[j].from = "page"
                         THEN Orphan(call[j], call'[j]) /\ call'[j].from = rest
                         ELSE call'[j] = call[j]
    <2> SUFFICES ASSUME NEW j \in Slots, call[j] # Nil, call[j].tab = t, call[j].from = "page"
                 PROVE  Orphan(call[j], call'[j]) /\ call'[j].from = rest
      BY <1>1
    <2>1. call[j] \in Calls /\ call'[j] = [call[j] EXCEPT !.from = rest]
      BY <1>1, <1>2
    <2>2. rest \in {"left", "stray", "nobody"}
      OBVIOUS
    <2>3. Orphan(call[j], [call[j] EXCEPT !.from = rest]) /\ [call[j] EXCEPT !.from = rest].from = rest
      BY <2>1, <2>2, OrphanIs
    <2> QED
      BY <2>1, <2>3
  <1>4. call' = [j \in Slots |-> call'[j]]
    BY DEF Arrive
  <1>5. CallsTypeOK'
    BY <1>2, <1>3, <1>4 DEF CallsTypeOK, Orphan
  <1> QED
    BY <1>3, <1>5

LEMMA ReloadDoes ==
  ASSUME CallsTypeOK, NEW t \in Tabs, NEW name, Reload(t, name)
  PROVE  /\ CallsTypeOK'
         /\ \A j \in Slots : \/ call'[j] = Nil
                             \/ call[j] # Nil /\ call[j].tab # t /\ call'[j] = call[j]
                             \/ call[j] # Nil /\ StillCounts(j) /\ Orphan(call[j], call'[j])
         /\ \A j \in Slots : call[j] # Nil /\ call[j].tab # t => call'[j] = call[j]
  <1>1. \A j \in Slots : call'[j] = IF call[j] = Nil \/ call[j].tab # t THEN call[j]
                                    ELSE IF StillCounts(j) THEN [call[j] EXCEPT !.from = "nobody"] ELSE Nil
    BY DEF Reload
  <1>2. \A j \in Slots : call[j] # Nil => call[j] \in Calls
    BY DEF CallsTypeOK
  <1>3. \A j \in Slots : \/ call'[j] = Nil
                         \/ call[j] # Nil /\ call[j].tab # t /\ call'[j] = call[j]
                         \/ call[j] # Nil /\ StillCounts(j) /\ Orphan(call[j], call'[j])
    BY <1>1, <1>2, OrphanIs
  <1>4. call' = [j \in Slots |-> call'[j]]
    BY DEF Reload
  <1>5. CallsTypeOK'
    BY <1>2, <1>3, <1>4 DEF CallsTypeOK, Orphan
  <1> QED
    BY <1>1, <1>3, <1>5

LEMMA PushDoes ==
  ASSUME nav \in [Tabs -> Pages \cup {Nil}], NEW t \in Tabs, NEW u \in Users \cup {Nil},
         NEW name \in Pages, Push(t, u, name)
  PROVE  /\ nav' \in [Tabs -> Pages \cup {Nil}]
         /\ \A s \in Tabs \ {t} : nav'[s] = nav[s]
         /\ nav'[t] = IF Guard(u, name) = page[t] THEN Nil ELSE Guard(u, name)
  <1>1. Guard(u, name) \in Pages
    BY GuardType
  <1> QED
    BY <1>1 DEF Push

-----------------------------------------------------------------------------
(* The tickets: what is known of a code stays true. *)

TicketsGrow ==
  /\ \A c \in Issued : c \in Issued' /\ ticket'[c].for = ticket[c].for
  /\ \A c \in Issued : ticket[c].life = "used" =>
       ticket'[c].life = "used" /\ visit'[c] = visit[c] /\ seatedBy'[c] = seatedBy[c]

LEMMA KnownStays ==
  ASSUME TicketsGrow
  PROVE  /\ \A c, u : BelongsTo(c, u) => BelongsTo(c, u)'
         /\ \A c, t : SeatedAt(c, t) => SeatedAt(c, t)'
  BY DEF TicketsGrow, BelongsTo, SeatedAt

LEMMA TicketFields ==
  ASSUME TicketsInv, NEW c \in Codes
  PROVE  /\ c \in Issued <=> ticket[c].life # "none"
         /\ ticket[c].life \in Lives
         /\ c \in Issued => ticket[c].for \in Reservations /\ ticket[c].for # Nil
         /\ ticket[c] = [life |-> ticket[c].life, for |-> ticket[c].for]
  <1>1. ticket[c] \in [life : Lives, for : Reservations \cup {Nil}]
    BY DEF TicketsInv
  <1>2. Unissued.life = "none"
    BY DEF Unissued
  <1>3. \A i \in Reservations : i # Nil
    BY NobodyAssumption, ScreensAssumption
  <1> QED
    BY <1>1, <1>2, <1>3 DEF TicketsInv, Issued

LEMMA TicketsStay ==
  ASSUME TicketsInv, UNCHANGED <<ticket, visit, seatedBy>>
  PROVE  TicketsInv' /\ TicketsGrow
  BY DEF TicketsInv, TicketsGrow, Issued

LEMMA IssueGrows ==
  ASSUME TicketsInv, NEW c \in Codes, NEW i \in Reservations, Issue(c, i), UNCHANGED seatedBy
  PROVE  TicketsInv' /\ TicketsGrow /\ c \in Issued' /\ ticket'[c].for = i
  <1>1. ticket[c] = Unissued /\ UNCHANGED <<visit, seatedBy>>
    BY DEF Issue
  <1>2. \A d \in Codes : ticket'[d] = IF d = c THEN [life |-> "active", for |-> i]
                                      ELSE IF d \in Live(i) THEN [life |-> "cancelled", for |-> i]
                                      ELSE ticket[d]
    BY DEF Issue
  <1>3. \A d \in Codes : d \in Live(i) => ticket[d].life = "active" /\ ticket[d].for = i
    BY DEF Live
  <1>4. ASSUME NEW d \in Codes
        PROVE  /\ ticket'[d] \in [life : Lives, for : Reservations \cup {Nil}]
               /\ d \in Issued' => ticket'[d].life # "none" /\ ticket'[d].for \in Reservations
               /\ d \in Issued => /\ d \in Issued' /\ ticket'[d].for = ticket[d].for
                                  /\ ticket[d].life = "used" => ticket'[d].life = "used"
    <2>1. Unissued.life = "none" /\ [life |-> "active", for |-> i].life = "active"
          /\ [life |-> "cancelled", for |-> i].life = "cancelled"
      BY DEF Unissued
    <2>2. CASE d = c
      <3>1. ticket'[d] = [life |-> "active", for |-> i] /\ d \notin Issued
        BY <1>1, <1>2, <2>2 DEF Issued
      <3> QED
        BY <3>1, <2>1 DEF Lives
    <2>3. CASE d # c /\ d \in Live(i)
      <3>1. ticket'[d] = [life |-> "cancelled", for |-> i] /\ ticket[d].for = i /\ ticket[d].life = "active"
        BY <1>2, <1>3, <2>3
      <3>2. ticket'[d] # Unissued
        BY <2>1, <3>1
      <3> QED
        BY <3>1, <3>2 DEF Lives, Issued
    <2>4. CASE d # c /\ d \notin Live(i)
      <3>1. ticket'[d] = ticket[d]
        BY <1>2, <2>4
      <3> QED
        BY <3>1 DEF TicketsInv, Issued
    <2> QED
      BY <2>2, <2>3, <2>4
  <1>5. ticket' = [d \in Codes |-> ticket'[d]]
    BY DEF Issue
  <1>6. ticket' \in [Codes -> [life : Lives, for : Reservations \cup {Nil}]]
    BY <1>4, <1>5
  <1>7. ticket'[c] = [life |-> "active", for |-> i] /\ Unissued.life = "none"
    BY <1>2 DEF Unissued
  <1>8. c \in Issued'
    BY <1>7 DEF Issued
  <1>9. TicketsInv'
    BY <1>1, <1>4, <1>6 DEF TicketsInv, Issued
  <1>10. TicketsGrow
    <2>1. \A d \in Issued : d \in Codes
      BY DEF Issued
    <2> QED
      BY <1>1, <1>4, <2>1 DEF TicketsGrow
  <1> QED
    BY <1>7, <1>8, <1>9, <1>10

(* A code that was active gets another life, and may be known to be used from a tab. *)
LEMMA LifeGrows ==
  ASSUME TicketsInv, NEW c \in Codes, ticket[c].life = "active", NEW life \in Lives \ {"none"},
         ticket' = [ticket EXCEPT ![c].life = life],
         visit' \in [Codes -> Reservations \cup {Nil}], \A d \in Codes \ {c} : visit'[d] = visit[d],
         seatedBy' \in [Codes -> Tabs \cup {Nil}], \A d \in Codes \ {c} : seatedBy'[d] = seatedBy[d]
  PROVE  TicketsInv' /\ TicketsGrow /\ c \in Issued' /\ ticket'[c].life = life /\ ticket'[c].for = ticket[c].for
  <1>1. /\ \A d \in Codes \ {c} : ticket'[d] = ticket[d]
        /\ ticket'[c] = [life |-> life, for |-> ticket[c].for] /\ ticket' = [d \in Codes |-> ticket'[d]]
    BY TicketFields DEF TicketsInv
  <1>2. c \in Issued /\ ticket[c].for \in Reservations
    BY TicketFields
  <1>3. c \in Issued' /\ ticket'[c].life = life /\ ticket'[c].for = ticket[c].for
    <2>1. ticket'[c].life # Unissued.life
      BY <1>1 DEF Unissued
    <2> QED
      BY <1>1, <2>1 DEF Issued
  <1>4. \A d \in Codes \ {c} : d \in Issued' <=> d \in Issued
    BY <1>1 DEF Issued
  <1>5. ticket' \in [Codes -> [life : Lives, for : Reservations \cup {Nil}]]
    BY <1>1, <1>2 DEF TicketsInv
  <1>6. TicketsInv'
    BY <1>1, <1>2, <1>3, <1>4, <1>5 DEF TicketsInv, Issued
  <1>7. TicketsGrow
    BY <1>1, <1>3, <1>4 DEF TicketsGrow, Issued
  <1> QED
    BY <1>3, <1>6, <1>7

(* A scan opens the visit of its code. *)
LEMMA RedeemVisits ==
  ASSUME TicketsInv, NEW c \in Codes, Redeem(c, c)
  PROVE  /\ visit' \in [Codes -> Reservations \cup {Nil}] /\ visit'[c] = ticket[c].for
         /\ \A d \in Codes \ {c} : visit'[d] = visit[d]
  <1>1. ticket[c].for \in Reservations
    BY TicketFields DEF Redeem
  <1> QED
    BY <1>1 DEF Redeem, TicketsInv

(* A scan elsewhere, a code that lapses, or a reservation that the desk closes or opens. *)
LEMMA ElsewhereGrows ==
  ASSUME TicketsInv, Elsewhere
  PROVE  TicketsInv' /\ TicketsGrow
  <1>1. UNCHANGED seatedBy /\ seatedBy \in [Codes -> Tabs \cup {Nil}]
    BY DEF Elsewhere, screenVars, TicketsInv
  <1>2. ASSUME NEW c \in Codes, Redeem(c, c)
        PROVE  TicketsInv' /\ TicketsGrow
    BY <1>1, <1>2, RedeemVisits, LifeGrows DEF Redeem, Lives
  <1>3. ASSUME NEW c \in Codes, Lapse(c)
        PROVE  TicketsInv' /\ TicketsGrow
    BY <1>1, <1>3, LifeGrows DEF Lapse, Lives, TicketsInv
  <1>4. ASSUME NEW c \in Codes, NEW i \in Reservations, Issue(c, i)
        PROVE  TicketsInv' /\ TicketsGrow
    BY <1>1, <1>4, IssueGrows
  <1>5. ASSUME NEW i \in Reservations, DeskSaves(i)
        PROVE  TicketsInv' /\ TicketsGrow
    BY <1>1, <1>5, TicketsStay DEF DeskSaves
  <1> QED
    BY <1>2, <1>3, <1>4, <1>5 DEF Elsewhere

-----------------------------------------------------------------------------
(* How each part of the invariant is kept. *)

LEMMA Types ==
  ASSUME ScreensInv
  PROVE  /\ TypeOK /\ CallsTypeOK /\ RoutesInv /\ LoginsInv /\ TicketsInv
         /\ CallsInv /\ ShownInv /\ PanelInv /\ ScansInv
         /\ store \in [Tabs -> Users \cup {Nil}] /\ local \in [Tabs -> Users \cup {Nil}]
         /\ page \in [Tabs -> Pages \cup {Nil}] /\ nav \in [Tabs -> Pages \cup {Nil}]
         /\ due \in [Tabs -> BOOLEAN] /\ code \in [Tabs -> Codes \cup {Nil}]
         /\ desk \in [Tabs -> [verifying : BOOLEAN, result : Codes \cup {Nil}, camera : Cameras]]
         /\ stray \in [Tabs -> Cameras] /\ seatedBy \in [Codes -> Tabs \cup {Nil}]
         /\ \A c \in Codes : c \in Contents /\ c # Nil
         /\ \A i \in Reservations : i \in Contents /\ i # Nil
  BY NobodyAssumption, ScreensAssumption DEF ScreensInv, TypeOK, BrowserTypeOK

LEMMA CallTypes ==
  ASSUME ScreensInv, NEW k \in Slots, call[k] # Nil
  PROVE  /\ call[k] \in Calls /\ call[k].tab \in Tabs /\ call[k].kind \in Kinds
         /\ call[k].who \in Users \cup {Nil} /\ call[k].what \in Contents \cup {Nil}
         /\ CallInv(call[k])
  <1>1. call[k] \in Calls
    BY DEF ScreensInv, CallsTypeOK
  <1>2. call[k] \in Underway
    BY DEF Underway
  <1> QED
    BY <1>1, <1>2, CallFields DEF ScreensInv, CallsInv

(* A tab at which calls for codes are still heard by the member who made them, or by nobody. *)
HearsOn(t) == \/ page[t] = "BootCode" => page'[t] = page[t] /\ store'[t] \in {store[t], Nil}
              \/ \A j \in Slots : call'[j] # Nil /\ call'[j].tab = t => call'[j].from # "page"

(* A slot whose call was dropped, goes on, is not waited for any more, or is known to be right. *)
Follows(j) == \/ call'[j] = Nil
              \/ call'[j] = call[j]
              \/ call[j] # Nil /\ Orphan(call[j], call'[j])
              \/ \E m : m = call'[j] /\ CallInv(m)'

LEMMA FactsStay ==
  ASSUME NEW m, TicketsGrow
  PROVE  (MineInv(m) => MineInv(m)') /\ (GenerateInv(m) => GenerateInv(m)') /\ (VerifyInv(m) => VerifyInv(m)')
  <1>1. MineInv(m) => MineInv(m)'
    BY KnownStays DEF MineInv
  <1>2. GenerateInv(m) => GenerateInv(m)'
    BY KnownStays DEF GenerateInv
  <1>3. VerifyInv(m) => VerifyInv(m)'
    BY KnownStays DEF VerifyInv, TicketsGrow
  <1> QED
    BY <1>1, <1>2, <1>3

LEMMA CallsKeep ==
  ASSUME CallsInv, CallsTypeOK, TicketsGrow, \A t \in Tabs : HearsOn(t), \A j \in Slots : Follows(j)
  PROVE  CallsInv'
  <1> SUFFICES ASSUME NEW m, m \in Underway'
               PROVE  CallInv(m)'
    BY DEF CallsInv
  <1>1. PICK j \in Slots : m = call'[j] /\ m # Nil
    BY DEF Underway
  <1>2. CASE call'[j] = call[j]
    <2>1. CallInv(m) /\ m \in Calls
      BY <1>1, <1>2 DEF CallsInv, Underway, CallsTypeOK
    <2>2. m.tab \in Tabs
      BY <2>1, CallFields
    <2>3. m.kind \in {"mine", "generate"} /\ m.from = "page" => HeardAt(m)'
      BY <1>1, <2>1, <2>2 DEF CallInv, HeardAt, HearsOn
    <2> QED
      BY <2>1, <2>3, FactsStay DEF CallInv
  <1>3. CASE call[j] # Nil /\ Orphan(call[j], call'[j])
    <2>1. PICK l : l = call[j]
      OBVIOUS
    <2>2. CallInv(l) /\ Orphan(l, m)
      BY <1>1, <1>3, <2>1 DEF CallsInv, Underway
    <2>3. /\ MineInv(l)' => MineInv(m)'
          /\ GenerateInv(l)' => GenerateInv(m)'
          /\ VerifyInv(l)' => VerifyInv(m)'
      BY <2>2 DEF Orphan, MineInv, GenerateInv, VerifyInv
    <2> QED
      BY <2>2, <2>3, FactsStay DEF CallInv, Orphan
  <1>4. CASE \E l : l = call'[j] /\ CallInv(l)'
    BY <1>1, <1>4
  <1> QED
    BY <1>1, <1>2, <1>3, <1>4 DEF Follows

LEMMA ShownKeep ==
  ASSUME ShownInv, TicketsGrow,
         \A t \in Tabs : \/ code'[t] = Nil
                         \/ code'[t] = code[t] /\ page'[t] = page[t] /\ store'[t] \in {store[t], Nil}
  PROVE  ShownInv'
  <1> SUFFICES ASSUME NEW t \in Tabs, NEW c, c = code'[t], c # Nil
               PROVE  /\ page'[t] = "BootCode" /\ c \in Issued'
                      /\ store'[t] # Nil => BelongsTo(c, store[t])'
    BY DEF ShownInv
  <1>1. c = code[t] /\ page'[t] = page[t] /\ store'[t] \in {store[t], Nil}
    OBVIOUS
  <1>2. page[t] = "BootCode" /\ c \in Issued /\ (store[t] # Nil => BelongsTo(c, store[t]))
    BY <1>1 DEF ShownInv
  <1>3. store'[t] # Nil => BelongsTo(c, store[t])'
    BY <1>1, <1>2 DEF BelongsTo, TicketsGrow
  <1> QED
    BY <1>1, <1>2, <1>3 DEF TicketsGrow

LEMMA PanelKeep ==
  ASSUME PanelInv, TicketsGrow, \A t \in Tabs : desk'[t].result \in {Nil, desk[t].result}
  PROVE  PanelInv'
  <1> SUFFICES ASSUME NEW t \in Tabs, NEW c, c = desk'[t].result, c # Nil
               PROVE  SeatedAt(c, t)'
    BY DEF PanelInv, SeatedAt, Issued
  <1>1. SeatedAt(c, t)
    BY DEF PanelInv
  <1> QED
    BY <1>1, KnownStays

LEMMA ScansKeep ==
  ASSUME ScansInv, \A t \in Tabs : Waiting(t, "verify", "page")' = Waiting(t, "verify", "page"),
         \A t \in Tabs : desk'[t].verifying = desk[t].verifying
  PROVE  ScansInv'
  BY DEF ScansInv, Scan

LEMMA RoutesKeep ==
  ASSUME RoutesInv, UNCHANGED <<store, local, page, nav>>
  PROVE  RoutesInv'
  BY DEF RoutesInv

LEMMA LoginsKeep ==
  ASSUME LoginsInv,
         \A j \in Slots : IsLogin(j)' => /\ IsLogin(j) /\ call'[j].tab = call[j].tab
                                         /\ call'[j].from = call[j].from /\ call'[j].who = call[j].who
                                         /\ page'[call[j].tab] = page[call[j].tab]
                                         /\ nav'[call[j].tab] = nav[call[j].tab]
  PROVE  LoginsInv'
  <1>1. ASSUME NEW k \in Slots, IsLogin(k)'
        PROVE  /\ call'[k].from = "page" /\ call'[k].who \in Users
               /\ page'[call'[k].tab] = "Login" /\ nav'[call'[k].tab] = Nil
    BY <1>1 DEF LoginsInv
  <1>2. ASSUME NEW j \in Slots, NEW k \in Slots, IsLogin(j)', IsLogin(k)', call'[j].tab = call'[k].tab
        PROVE  j = k
    BY <1>2 DEF LoginsInv
  <1> QED
    BY <1>1, <1>2 DEF LoginsInv

(* Steps that only make, answer or drop calls. *)
LEMMA QuietKeeps ==
  ASSUME ScreensInv, UNCHANGED <<store, local, page, nav, code, desk>>,
         due' \in [Tabs -> BOOLEAN], stray' \in [Tabs -> Cameras],
         CallsTypeOK', TicketsInv', TicketsGrow, LoginsInv', ScansInv',
         \A j \in Slots : Follows(j)
  PROVE  ScreensInv'
  <1>1. \A t \in Tabs : HearsOn(t)
    BY DEF HearsOn
  <1>2. CallsInv'
    BY <1>1, Types, CallsKeep
  <1>3. ShownInv' /\ PanelInv' /\ RoutesInv'
    BY Types, ShownKeep, PanelKeep, RoutesKeep
  <1>4. TypeOK'
    BY Types DEF TypeOK, BrowserTypeOK, TicketsInv, CallsTypeOK
  <1> QED
    BY <1>2, <1>3, <1>4 DEF ScreensInv

-----------------------------------------------------------------------------
(* A call is sent. *)

LEMMA SendKeeps ==
  ASSUME ScreensInv, NEW t \in Tabs, NEW kind, NEW from, NEW what,
         \/ kind = "mine" /\ from = "page" /\ what = Nil /\ page[t] = "BootCode"
         \/ kind = "generate" /\ from = "page" /\ what \in Reservations /\ page[t] = "BootCode"
         \/ kind = "verify" /\ from = "stray" /\ what \in Issued,
         NEW w \in Users \cup {Nil}, w = local[t], Send(t, kind, from, w, what),
         UNCHANGED <<store, local, page, nav, tvars, code, desk, stray, seatedBy>>,
         due' \in [Tabs -> BOOLEAN]
  PROVE  ScreensInv'
  <1>1. /\ kind \in Kinds \ {"login"} /\ from \in {"page", "stray"} /\ what \in Contents \cup {Nil}
        /\ local[t] \in {Nil, store[t]} /\ CallsTypeOK
    BY Types DEF Kinds, Issued, RoutesInv
  <1>2. CallsTypeOK'
    BY <1>1, SendDoes
  <1>3. PICK k \in Slots :
          /\ call[k] = Nil /\ \A j \in Slots \ {k} : call'[j] = call[j]
          /\ call'[k] # Nil /\ call'[k].tab = t /\ call'[k].kind = kind /\ call'[k].who = w
          /\ call'[k].from = from /\ call'[k].ans = "none" /\ call'[k].what = what
    BY <1>1, SendDoes
  <1>4. TicketsInv' /\ TicketsGrow
    BY Types, TicketsStay DEF tvars
  <1>5. PICK m : m = call'[k]
    OBVIOUS
  <1>6. CallInv(m)'
    <2>1. kind = "mine" => MineInv(m)'
      BY <1>3, <1>5 DEF MineInv
    <2>2. kind = "generate" => GenerateInv(m)'
      BY <1>3, <1>5 DEF GenerateInv
    <2>3. kind = "verify" => VerifyInv(m)'
      BY <1>3, <1>4, <1>5 DEF VerifyInv, TicketsGrow
    <2>4. kind # "verify" => HeardAt(m)'
      BY <1>1, <1>3, <1>5 DEF HeardAt
    <2> QED
      BY <1>3, <1>5, <2>1, <2>2, <2>3, <2>4 DEF CallInv
  <1>7. \A j \in Slots : Follows(j)
    BY <1>3, <1>5, <1>6 DEF Follows
  <1>8. LoginsInv'
    BY <1>1, <1>3, Types, LoginsKeep DEF IsLogin
  <1>9. ScansInv'
    <2>1. ~(kind = "verify" /\ from = "page")
      OBVIOUS
    <2>2. \A s \in Tabs : Waiting(s, "verify", "page")' = Waiting(s, "verify", "page")
      BY <1>3, <2>1 DEF Waiting
    <2> QED
      BY <2>2, Types, ScansKeep
  <1> QED
    BY <1>2, <1>4, <1>7, <1>8, <1>9, Types, QuietKeeps

LEMMA LogInKeeps ==
  ASSUME ScreensInv, NEW t \in Tabs, NEW u \in Users, LogIn(t, u), UNCHANGED <<tvars, screenVars>>
  PROVE  ScreensInv'
  <1>1. /\ page[t] = "Login" /\ nav[t] = Nil /\ Waiting(t, "login", "page") = {}
        /\ Send(t, "login", "page", u, Nil) /\ UNCHANGED <<store, local, page, nav>>
    BY DEF LogIn
  <1>2. /\ CallsTypeOK'
        /\ \E k \in Slots :
             /\ call[k] = Nil /\ \A j \in Slots \ {k} : call'[j] = call[j]
             /\ call'[k] # Nil /\ call'[k].tab = t /\ call'[k].kind = "login" /\ call'[k].who = u
             /\ call'[k].from = "page" /\ call'[k].ans = "none" /\ call'[k].what = Nil
    <2>1. "login" \in Kinds /\ "page" \in {"page", "stray"}
      BY DEF Kinds
    <2> QED
      BY <1>1, <2>1, Types, SendDoes
  <1>3. PICK k \in Slots :
          /\ call[k] = Nil /\ \A j \in Slots \ {k} : call'[j] = call[j]
          /\ call'[k] # Nil /\ call'[k].tab = t /\ call'[k].kind = "login" /\ call'[k].who = u
          /\ call'[k].from = "page"
    BY <1>2
  <1>4. TicketsInv' /\ TicketsGrow
    BY Types, TicketsStay DEF tvars, screenVars
  <1>5. PICK m : m = call'[k]
    OBVIOUS
  <1>6. CallInv(m)'
    BY <1>3, <1>5 DEF CallInv
  <1>7. \A j \in Slots : Follows(j)
    BY <1>3, <1>5, <1>6 DEF Follows
  <1>8. LoginsInv'
    <2>1. \A j \in Slots \ {k} : IsLogin(j)' => IsLogin(j) /\ call'[j] = call[j]
      BY <1>3 DEF IsLogin
    <2>2. \A j \in Slots : IsLogin(j) => call[j].tab # t
      BY <1>1, Types DEF LoginsInv, IsLogin, Waiting
    <2>3. ASSUME NEW j \in Slots, IsLogin(j)'
          PROVE  /\ call'[j].from = "page" /\ call'[j].who \in Users
                 /\ page'[call'[j].tab] = "Login" /\ nav'[call'[j].tab] = Nil
      BY <1>1, <1>3, <2>1, <2>3, Types DEF LoginsInv
    <2>4. ASSUME NEW i \in Slots, NEW j \in Slots, IsLogin(i)', IsLogin(j)', call'[i].tab = call'[j].tab
          PROVE  i = j
      BY <1>3, <2>1, <2>2, <2>4, Types DEF LoginsInv
    <2> QED
      BY <2>3, <2>4 DEF LoginsInv
  <1>9. ScansInv'
    <2>1. \A s \in Tabs : Waiting(s, "verify", "page")' = Waiting(s, "verify", "page")
      BY <1>3 DEF Waiting
    <2> QED
      BY <2>1, Types, ScansKeep DEF screenVars
  <1> QED
    BY <1>1, <1>2, <1>4, <1>7, <1>8, <1>9, Types, QuietKeeps DEF screenVars

(* A scan is sent from the page. *)
LEMMA SubmitKeeps ==
  ASSUME ScreensInv, NEW t \in Tabs, NEW c \in Issued, Submit(t, c)
  PROVE  ScreensInv'
  <1>1. /\ ~desk[t].verifying /\ Send(t, "verify", "page", local[t], c)
        /\ desk' = [desk EXCEPT ![t].verifying = TRUE]
        /\ UNCHANGED <<store, local, page, nav, tvars, due, code, stray, seatedBy>>
    BY DEF Submit
  <1>2. /\ CallsTypeOK'
        /\ \E k \in Slots :
             /\ call[k] = Nil /\ \A j \in Slots \ {k} : call'[j] = call[j]
             /\ call'[k] # Nil /\ call'[k].tab = t /\ call'[k].kind = "verify" /\ call'[k].who = local[t]
             /\ call'[k].from = "page" /\ call'[k].ans = "none" /\ call'[k].what = c
    <2>1. /\ "verify" \in Kinds /\ "page" \in {"page", "stray"} /\ c \in Contents \cup {Nil}
          /\ local[t] \in Users \cup {Nil} /\ CallsTypeOK
      BY Types DEF Kinds, Issued
    <2>2. PICK w \in Users \cup {Nil} : w = local[t]
      BY <2>1
    <2>3. Send(t, "verify", "page", w, c)
      BY <1>1, <2>2 DEF Send
    <2>4. CallsTypeOK'
      BY <2>1, <2>3, SendDoes
    <2>5. PICK k \in Slots :
            /\ call[k] = Nil /\ \A j \in Slots \ {k} : call'[j] = call[j]
            /\ call'[k] # Nil /\ call'[k].tab = t /\ call'[k].kind = "verify" /\ call'[k].who = w
            /\ call'[k].from = "page" /\ call'[k].ans = "none" /\ call'[k].what = c
      BY <2>1, <2>3, SendDoes
    <2> QED
      BY <2>2, <2>4, <2>5
  <1>3. PICK k \in Slots :
          /\ call[k] = Nil /\ \A j \in Slots \ {k} : call'[j] = call[j]
          /\ call'[k] # Nil /\ call'[k].tab = t /\ call'[k].kind = "verify"
          /\ call'[k].from = "page" /\ call'[k].ans = "none" /\ call'[k].what = c
    BY <1>2
  <1>4. /\ \A s \in Tabs \ {t} : desk'[s] = desk[s]
        /\ desk'[t].verifying = TRUE /\ desk'[t].result = desk[t].result
        /\ desk' \in [Tabs -> [verifying : BOOLEAN, result : Codes \cup {Nil}, camera : Cameras]]
    <2>1. desk \in [Tabs -> [verifying : BOOLEAN, result : Codes \cup {Nil}, camera : Cameras]]
      BY Types
    <2>2. PICK d \in [verifying : BOOLEAN, result : Codes \cup {Nil}, camera : Cameras] :
            d = [desk[t] EXCEPT !.verifying = TRUE]
      BY <2>1
    <2>3. d.verifying = TRUE /\ d.result = desk[t].result
      BY <2>1, <2>2
    <2>4. desk' = [desk EXCEPT ![t] = d]
      BY <1>1, <2>1, <2>2
    <2> QED
      BY <2>1, <2>3, <2>4
  <1>5. TicketsInv' /\ TicketsGrow
    BY <1>1, Types, TicketsStay DEF tvars
  <1>6. PICK m : m = call'[k]
    OBVIOUS
  <1>7. CallInv(m)'
    BY <1>3, <1>5, <1>6 DEF CallInv, VerifyInv, TicketsGrow
  <1>8. CallsInv'
    <2>1. \A j \in Slots : Follows(j)
      BY <1>3, <1>6, <1>7 DEF Follows
    <2>2. \A s \in Tabs : HearsOn(s)
      BY <1>1 DEF HearsOn
    <2> QED
      BY <1>5, <2>1, <2>2, Types, CallsKeep
  <1>9. LoginsInv'
    BY <1>1, <1>3, Types, LoginsKeep DEF IsLogin
  <1>10. ShownInv' /\ PanelInv' /\ RoutesInv'
    BY <1>1, <1>4, <1>5, Types, ShownKeep, PanelKeep, RoutesKeep
  <1>11. ScansInv'
    <2>1. ASSUME NEW s \in Tabs, s # t
          PROVE  Scan(s)'
      <3>1. Waiting(s, "verify", "page")' = Waiting(s, "verify", "page")
        BY <1>3, <2>1 DEF Waiting
      <3> QED
        BY <1>4, <2>1, <3>1, Types DEF ScansInv, Scan
    <2>2. Waiting(t, "verify", "page")' = {k}
      <3>1. Waiting(t, "verify", "page") = {}
        BY <1>1, Types DEF ScansInv, Scan
      <3> QED
        BY <1>3, <3>1 DEF Waiting
    <2>3. Scan(t)'
      BY <1>4, <2>2 DEF Scan
    <2> QED
      BY <2>1, <2>3 DEF ScansInv
  <1>12. TypeOK'
    BY <1>1, <1>2, <1>4, Types DEF TypeOK, BrowserTypeOK, CallsTypeOK
  <1> QED
    BY <1>2, <1>5, <1>8, <1>9, <1>10, <1>11, <1>12 DEF ScreensInv

-----------------------------------------------------------------------------
(* A call is answered by the server. *)

LEMMA RespondKeeps ==
  ASSUME ScreensInv, NEW k \in Slots, call[k] # Nil,
         NEW ans \in {"ok", "refused", "unauthorized"}, NEW what \in Contents \cup {Nil},
         Respond(k, ans, what), UNCHANGED <<store, local, page, nav, due, code, desk, stray>>,
         TicketsInv', TicketsGrow,
         \A m \in Calls : Reply(call[k], m) /\ m.ans = ans /\ m.what = what =>
            /\ m.kind = "mine" => MineInv(m)'
            /\ m.kind = "generate" => GenerateInv(m)'
            /\ m.kind = "verify" => VerifyInv(m)'
  PROVE  ScreensInv'
  <1>1. /\ CallsTypeOK' /\ \A j \in Slots \ {k} : call'[j] = call[j]
        /\ \/ call'[k] = Nil /\ call[k].from = "nobody"
           \/ /\ call'[k] # Nil /\ Reply(call[k], call'[k])
              /\ call'[k].ans = ans /\ call'[k].what = what
    BY Types, RespondDoes
  <1>2. \A j \in Slots : Follows(j)
    <2>1. CASE call'[k] = Nil
      BY <1>1, <2>1 DEF Follows
    <2>2. CASE call'[k] # Nil
      <3>1. PICK m : m = call'[k]
        OBVIOUS
      <3>2. m \in Calls /\ Reply(call[k], m) /\ m.ans = ans /\ m.what = what
        BY <1>1, <2>2, <3>1 DEF Reply
      <3>3. m.kind \in {"mine", "generate"} /\ m.from = "page" => HeardAt(m)'
        BY <3>2, CallTypes DEF CallInv, HeardAt, Reply
      <3>4. CallInv(m)'
        BY <3>2, <3>3 DEF CallInv
      <3> QED
        BY <1>1, <3>1, <3>4 DEF Follows
    <2> QED
      BY <2>1, <2>2
  <1>3. LoginsInv'
    BY <1>1, Types, LoginsKeep DEF IsLogin, Reply
  <1>4. ScansInv'
    <2>1. \A t \in Tabs : Waiting(t, "verify", "page")' = Waiting(t, "verify", "page")
      BY <1>1 DEF Waiting, Reply
    <2> QED
      BY <2>1, Types, ScansKeep
  <1> QED
    BY <1>1, <1>2, <1>3, <1>4, Types, QuietKeeps

(* The middleware refuses it, or the handler does, or a login is let in. *)
LEMMA RefusalKeeps ==
  ASSUME ScreensInv, NEW k \in Slots, Unauthorized(k) \/ Refused(k) \/ LoginServed(k),
         UNCHANGED <<tvars, screenVars>>
  PROVE  ScreensInv'
  <1>1. call[k] # Nil /\ call[k].ans = "none"
    BY DEF Unauthorized, Refused, LoginServed, Unserved
  <1>2. TicketsInv' /\ TicketsGrow
    BY Types, TicketsStay DEF tvars, screenVars
  <1>3. call[k] \in Calls /\ call[k].what \in Contents \cup {Nil} /\ CallInv(call[k])
    BY <1>1, CallTypes
  <1>4. CASE Unauthorized(k) \/ Refused(k)
    <2>1. PICK ans \in {"refused", "unauthorized"} :
             Respond(k, ans, call[k].what) /\ UNCHANGED <<store, local, page, nav>>
      BY <1>4 DEF Unauthorized, Refused
    <2>2. ASSUME NEW m \in Calls, Reply(call[k], m), m.ans = ans, m.what = call[k].what
          PROVE  /\ m.kind = "mine" => MineInv(m)'
                 /\ m.kind = "generate" => GenerateInv(m)'
                 /\ m.kind = "verify" => VerifyInv(m)'
      <3>1. m.kind = "mine" => MineInv(m)'
        BY <1>1, <1>3, <2>2 DEF CallInv, MineInv, Reply
      <3>2. m.kind = "generate" => GenerateInv(m)'
        BY <1>1, <1>3, <2>2 DEF CallInv, GenerateInv, Reply
      <3>3. m.kind = "verify" => VerifyInv(m)'
        BY <1>1, <1>2, <1>3, <2>2 DEF CallInv, VerifyInv, Reply, TicketsGrow
      <3> QED
        BY <3>1, <3>2, <3>3
    <2> QED
      BY <1>1, <1>2, <1>3, <2>1, <2>2, RespondKeeps DEF screenVars
  <1>5. CASE LoginServed(k)
    <2>1. call[k].kind = "login" /\ Respond(k, "ok", Nil) /\ UNCHANGED <<store, local, page, nav>>
      BY <1>5 DEF LoginServed
    <2>2. \A m \in Calls : Reply(call[k], m) => m.kind = "login"
      BY <2>1 DEF Reply
    <2> QED
      BY <1>1, <1>2, <2>1, <2>2, RespondKeeps DEF screenVars
  <1> QED
    BY <1>4, <1>5

-----------------------------------------------------------------------------
(* The pages send their calls. *)

LEMMA PagesSendKeep ==
  ASSUME ScreensInv, NEW t \in Tabs,
         \/ LoadMine(t) \/ Regenerate(t)
         \/ \E i \in Reservations : OnGenerate(t, i)
         \/ \E c \in Issued : StraySubmit(t, c)
  PROVE  ScreensInv'
  <1>1. PICK w \in Users \cup {Nil} : w = local[t]
    BY Types
  <1>2. CASE LoadMine(t)
    <2>1. Send(t, "mine", "page", w, Nil) /\ page[t] = "BootCode" /\ due' \in [Tabs -> BOOLEAN]
      BY <1>1, <1>2, Types DEF LoadMine, Send
    <2> QED
      BY <1>1, <1>2, <2>1, SendKeeps DEF LoadMine
  <1>3. CASE Regenerate(t)
    <2>1. PICK i : i = ticket[code[t]].for
      OBVIOUS
    <2>2. i \in Reservations
      BY <1>3, <2>1, Types DEF Regenerate, ShownInv, TicketsInv
    <2>3. Send(t, "generate", "page", w, i) /\ page[t] = "BootCode" /\ due' \in [Tabs -> BOOLEAN]
      BY <1>1, <1>3, <2>1, Types DEF Regenerate, Send, screenVars
    <2> QED
      BY <1>1, <1>3, <2>2, <2>3, SendKeeps DEF Regenerate, screenVars
  <1>4. ASSUME NEW i \in Reservations, OnGenerate(t, i)
        PROVE  ScreensInv'
    <2>1. Send(t, "generate", "page", w, i) /\ page[t] = "BootCode" /\ due' \in [Tabs -> BOOLEAN]
      BY <1>1, <1>4, Types DEF OnGenerate, Send, screenVars
    <2> QED
      BY <1>1, <1>4, <2>1, SendKeeps DEF OnGenerate, screenVars
  <1>5. ASSUME NEW c \in Issued, StraySubmit(t, c)
        PROVE  ScreensInv'
    <2>1. Send(t, "verify", "stray", w, c) /\ due' \in [Tabs -> BOOLEAN]
      BY <1>1, <1>5, Types DEF StraySubmit, Send, screenVars
    <2> QED
      BY <1>1, <1>5, <2>1, SendKeeps DEF StraySubmit, screenVars
  <1> QED
    BY <1>2, <1>3, <1>4, <1>5

(* The desk, apart from its calls. *)
LEMMA DeskKeeps ==
  ASSUME ScreensInv, NEW t \in Tabs, Reset(t) \/ CameraStarts(t)
  PROVE  ScreensInv'
  <1>1. /\ UNCHANGED <<store, local, page, nav, call, tvars, due, code, seatedBy>>
        /\ desk' \in [Tabs -> [verifying : BOOLEAN, result : Codes \cup {Nil}, camera : Cameras]]
        /\ stray' \in [Tabs -> Cameras]
        /\ \A s \in Tabs : /\ desk'[s].verifying = desk[s].verifying
                           /\ desk'[s].result \in {Nil, desk[s].result}
    <2> DEFINE Desks == [verifying : BOOLEAN, result : Codes \cup {Nil}, camera : Cameras]
    <2>1. CASE Reset(t)
      <3>1. desk' = [desk EXCEPT ![t].result = Nil, ![t].camera = IF @ = "on" THEN "loose" ELSE @]
            /\ UNCHANGED <<browserVars, tvars, due, code, stray, seatedBy>>
        BY <2>1 DEF Reset
      <3>2. PICK d \in Desks : d = desk[t]
        BY Types
      <3>3. \A s \in Tabs \ {t} : desk'[s] = desk[s]
        BY <3>1, Types
      <3>4. desk'[t] = [verifying |-> d.verifying, result |-> Nil,
                        camera |-> IF d.camera = "on" THEN "loose" ELSE d.camera]
        BY <3>1, <3>2, Types
      <3>5. desk'[t] \in Desks
        BY <3>2, <3>4 DEF Cameras
      <3>6. desk' \in [Tabs -> Desks]
        BY <3>1, <3>3, <3>5, Types
      <3> QED
        BY <3>1, <3>2, <3>3, <3>4, <3>6, Types DEF browserVars
    <2>2. CASE CameraStarts(t)
      <3>1. UNCHANGED <<browserVars, tvars, due, code, seatedBy>>
        BY <2>2 DEF CameraStarts
      <3>2. CASE UNCHANGED stray /\ \E c \in {"on", "off"} : desk' = [desk EXCEPT ![t].camera = c]
        <4>1. PICK c \in {"on", "off"} : desk' = [desk EXCEPT ![t].camera = c]
          BY <3>2
        <4>2. PICK d \in Desks : d = desk[t]
          BY Types
        <4>3. /\ \A s \in Tabs \ {t} : desk'[s] = desk[s]
              /\ desk'[t] = [verifying |-> d.verifying, result |-> d.result, camera |-> c]
          BY <4>1, <4>2, Types
        <4>4. desk'[t] \in Desks
          BY <4>2, <4>3 DEF Cameras
        <4>5. desk' \in [Tabs -> Desks]
          BY <4>1, <4>3, <4>4, Types
        <4> QED
          BY <3>1, <3>2, <4>2, <4>3, <4>5, Types DEF browserVars
      <3>3. CASE UNCHANGED desk /\ \E c \in {"on", "off"} : stray' = [stray EXCEPT ![t] = c]
        BY <3>1, <3>3, Types DEF browserVars, Cameras
      <3> QED
        BY <2>2, <3>2, <3>3 DEF CameraStarts
    <2> QED
      BY <2>1, <2>2
  <1>2. TicketsInv' /\ TicketsGrow
    BY <1>1, Types, TicketsStay DEF tvars
  <1>3. CallsInv' /\ CallsTypeOK'
    <2>1. \A s \in Tabs : HearsOn(s)
      BY <1>1 DEF HearsOn
    <2>2. \A j \in Slots : Follows(j)
      BY <1>1 DEF Follows
    <2> QED
      BY <1>1, <1>2, <2>1, <2>2, Types, CallsKeep DEF CallsTypeOK
  <1>4. LoginsInv'
    BY <1>1, Types DEF LoginsInv, IsLogin
  <1>5. ShownInv' /\ PanelInv' /\ RoutesInv'
    BY <1>1, <1>2, Types, ShownKeep, PanelKeep, RoutesKeep
  <1>6. ScansInv'
    BY <1>1, Types, ScansKeep DEF Waiting
  <1>7. TypeOK'
    BY <1>1, Types DEF TypeOK, BrowserTypeOK, CallsTypeOK
  <1> QED
    BY <1>2, <1>3, <1>4, <1>5, <1>6, <1>7 DEF ScreensInv

-----------------------------------------------------------------------------
(* The handlers of the server. *)

LEMMA GenerateKeeps ==
  ASSUME ScreensInv, NEW k \in Slots, Generate(k)
  PROVE  ScreensInv'
  <1>1. /\ call[k] # Nil /\ call[k].ans = "none" /\ call[k].kind = "generate"
        /\ IsMember(call[k].who) /\ Owner[call[k].what] = call[k].who
        /\ UNCHANGED <<store, local, page, nav, due, code, desk, stray, seatedBy>>
    BY DEF Generate, Unserved, screenVars
  <1>2. PICK i : i = call[k].what
    OBVIOUS
  <1>3. i \in Reservations
    BY <1>1, <1>2, CallTypes DEF CallInv, GenerateInv
  <1>4. PICK c \in Codes : Issue(c, i) /\ Respond(k, "ok", c)
    BY <1>2 DEF Generate, Issue, Live
  <1>5. TicketsInv' /\ TicketsGrow /\ c \in Issued' /\ ticket'[c].for = i
    BY <1>1, <1>3, <1>4, Types, IssueGrows
  <1>6. ASSUME NEW m \in Calls, Reply(call[k], m), m.ans = "ok", m.what = c
        PROVE  m.kind = "generate" /\ GenerateInv(m)'
    <2>1. m.who = call[k].who /\ m.kind = "generate" /\ m.who \in Users
      BY <1>1, <1>6, CallTypes DEF Reply, IsMember
    <2>2. BelongsTo(c, m.who)'
      BY <1>1, <1>2, <1>5, <2>1 DEF BelongsTo
    <2> QED
      BY <1>6, <2>1, <2>2 DEF GenerateInv
  <1>7. c \in Contents \cup {Nil}
    BY Types
  <1> QED
    BY <1>1, <1>4, <1>5, <1>6, <1>7, RespondKeeps

LEMMA FetchMineKeeps ==
  ASSUME ScreensInv, NEW k \in Slots, FetchMine(k)
  PROVE  ScreensInv'
  <1>1. /\ call[k] # Nil /\ call[k].ans = "none" /\ call[k].kind = "mine"
        /\ IsMember(call[k].who)
        /\ UNCHANGED <<store, local, page, nav, due, code, desk, stray, seatedBy, tvars>>
    BY DEF FetchMine, Unserved, screenVars
  <1>2. PICK c \in Mine(call[k].who) \cup {Nil} : Respond(k, "ok", c)
    BY DEF FetchMine
  <1>3. TicketsInv' /\ TicketsGrow
    BY <1>1, Types, TicketsStay DEF tvars
  <1>4. c = Nil \/ (c \in Codes /\ BelongsTo(c, call[k].who))
    BY <1>2, Types, TicketFields DEF Mine, BelongsTo
  <1>5. ASSUME NEW m \in Calls, Reply(call[k], m), m.ans = "ok", m.what = c
        PROVE  m.kind = "mine" /\ MineInv(m)'
    <2>1. m.who = call[k].who /\ m.kind = "mine" /\ m.who \in Users
      BY <1>1, <1>5, CallTypes DEF Reply, IsMember
    <2>2. c = Nil \/ BelongsTo(c, m.who)
      BY <1>4, <2>1 DEF BelongsTo
    <2>3. c = Nil \/ BelongsTo(c, m.who)'
      BY <1>3, <2>2, KnownStays
    <2> QED
      BY <1>5, <2>1, <2>3 DEF MineInv
  <1>6. c \in Contents \cup {Nil}
    BY <1>4, Types
  <1> QED
    BY <1>1, <1>2, <1>3, <1>5, <1>6, RespondKeeps

LEMMA VerifyKeeps ==
  ASSUME ScreensInv, NEW k \in Slots, Verify(k)
  PROVE  ScreensInv'
  <1>1. /\ call[k] # Nil /\ call[k].ans = "none" /\ call[k].kind = "verify"
        /\ UNCHANGED <<store, local, page, nav, due, code, desk, stray>>
    BY DEF Verify, Unserved
  <1>2. PICK c : c = call[k].what
    OBVIOUS
  <1>3. c \in Issued /\ c \in Codes
    BY <1>1, <1>2, CallTypes DEF CallInv, VerifyInv, Issued
  <1>4. /\ Redeem(c, c) /\ Respond(k, "ok", c)
        /\ seatedBy' = [seatedBy EXCEPT ![c] = call[k].tab]
    BY <1>2 DEF Verify, Redeem, Respond
  <1>5. /\ ticket[c].life = "active" /\ ticket' = [ticket EXCEPT ![c].life = "used"]
        /\ visit' \in [Codes -> Reservations \cup {Nil}] /\ visit'[c] = ticket[c].for
        /\ \A d \in Codes \ {c} : visit'[d] = visit[d]
        /\ seatedBy' \in [Codes -> Tabs \cup {Nil}] /\ seatedBy'[c] = call[k].tab
        /\ \A d \in Codes \ {c} : seatedBy'[d] = seatedBy[d]
    BY <1>1, <1>3, <1>4, Types, CallTypes, RedeemVisits DEF Redeem
  <1>6. /\ TicketsInv' /\ TicketsGrow /\ c \in Issued' /\ ticket'[c].life = "used"
        /\ ticket'[c].for = ticket[c].for
    <2>1. "used" \in Lives \ {"none"}
      BY DEF Lives
    <2> QED
      BY <1>3, <1>5, <2>1, Types, LifeGrows
  <1>7. ASSUME NEW m \in Calls, Reply(call[k], m), m.ans = "ok", m.what = c
        PROVE  m.kind = "verify" /\ VerifyInv(m)'
    <2>1. m.tab = call[k].tab /\ m.kind = "verify"
      BY <1>1, <1>7 DEF Reply
    <2>2. SeatedAt(c, m.tab)'
      BY <1>5, <1>6, <2>1 DEF SeatedAt
    <2> QED
      BY <1>6, <1>7, <2>1, <2>2 DEF VerifyInv
  <1>8. c \in Contents \cup {Nil}
    BY <1>3, Types
  <1> QED
    BY <1>1, <1>4, <1>6, <1>7, <1>8, RespondKeeps

LEMMA ElsewhereKeeps ==
  ASSUME ScreensInv, Elsewhere \/ UNCHANGED vars
  PROVE  ScreensInv'
  <1>1. UNCHANGED <<store, local, page, nav, call, due, code, desk, stray>>
    BY DEF Elsewhere, browserVars, screenVars, vars
  <1>2. TicketsInv' /\ TicketsGrow
    BY Types, TicketsStay, ElsewhereGrows DEF vars, tvars, screenVars
  <1>3. \A j \in Slots : Follows(j)
    BY <1>1 DEF Follows
  <1>4. LoginsInv' /\ ScansInv' /\ CallsTypeOK'
    BY <1>1, Types DEF LoginsInv, IsLogin, ScansInv, Scan, Waiting, CallsTypeOK
  <1> QED
    BY <1>1, <1>2, <1>3, <1>4, Types, QuietKeeps

-----------------------------------------------------------------------------
(* A tab goes elsewhere, or its user does. *)

LEMMA LeaveKeeps ==
  ASSUME ScreensInv, NEW t \in Tabs, (\E name \in Pages : Visit(t, name)) \/ LogOut(t),
         UNCHANGED <<tvars, screenVars>>
  PROVE  ScreensInv'
  <1>1. /\ page[t] \notin {Nil, "Login"} /\ UNCHANGED <<page, call, due, code, desk, stray, seatedBy>>
        /\ \A s \in Tabs \ {t} : store'[s] = store[s] /\ local'[s] = local[s]
        /\ store' \in [Tabs -> Users \cup {Nil}] /\ local' \in [Tabs -> Users \cup {Nil}]
        /\ store'[t] \in {store[t], Nil} /\ local'[t] \in {Nil, store'[t]}
    BY Types DEF Visit, LogOut, screenVars, RoutesInv
  <1>2. PICK u \in Users \cup {Nil} : u = store'[t]
    BY <1>1
  <1>3. PICK name \in Pages : Push(t, u, name)
    <2>1. CASE LogOut(t)
      <3>1. "Login" \in Pages /\ u = Nil
        BY <1>2, <2>1, Types DEF LogOut, Pages
      <3> QED
        BY <2>1, <3>1 DEF LogOut
    <2>2. ASSUME NEW name \in Pages, Visit(t, name)
          PROVE  Push(t, u, name)
      BY <1>2, <2>2 DEF Visit, Push
    <2> QED
      BY <2>1, <2>2
  <1>4. /\ nav' \in [Tabs -> Pages \cup {Nil}] /\ \A s \in Tabs \ {t} : nav'[s] = nav[s]
        /\ nav'[t] = IF Guard(u, name) = page[t] THEN Nil ELSE Guard(u, name)
    <2>1. nav \in [Tabs -> Pages \cup {Nil}]
      BY Types
    <2> QED
      BY <1>3, <2>1, PushDoes
  <1>5. Guard(u, name) \in Pages /\ Guard(u, name) # Nil /\ Guard(u, Guard(u, name)) = Guard(u, name)
    BY GuardType, GuardTwice
  <1>6. RoutesInv'
    <2>1. ASSUME NEW s \in Tabs, s # t
          PROVE  /\ nav'[s] # Nil => Guard(store'[s], nav'[s]) = nav'[s]
                 /\ nav'[s] = Nil => page'[s] \in Pages /\ Guard(store'[s], page'[s]) = page'[s]
                 /\ local'[s] \in {Nil, store'[s]}
      BY <1>1, <1>4, <2>1, Types DEF RoutesInv, Guard
    <2>2. /\ nav'[t] # Nil => Guard(store'[t], nav'[t]) = nav'[t]
          /\ nav'[t] = Nil => page'[t] \in Pages /\ Guard(store'[t], page'[t]) = page'[t]
          /\ local'[t] \in {Nil, store'[t]}
      BY <1>1, <1>2, <1>4, <1>5 DEF Guard
    <2> QED
      BY <2>1, <2>2 DEF RoutesInv
  <1>7. TicketsInv' /\ TicketsGrow
    BY Types, TicketsStay DEF tvars, screenVars
  <1>8. CallsInv' /\ CallsTypeOK'
    <2>1. \A s \in Tabs : HearsOn(s)
      BY <1>1 DEF HearsOn
    <2>2. \A j \in Slots : Follows(j)
      BY <1>1 DEF Follows
    <2> QED
      BY <1>1, <1>7, <2>1, <2>2, Types, CallsKeep DEF CallsTypeOK
  <1>9. LoginsInv'
    <2>1. \A j \in Slots : IsLogin(j) => call[j].tab # t /\ call[j].tab \in Tabs
      BY <1>1, Types, CallTypes DEF LoginsInv, IsLogin
    <2> QED
      BY <1>1, <1>4, <2>1, Types, LoginsKeep DEF IsLogin
  <1>10. ShownInv' /\ PanelInv'
    BY <1>1, <1>7, Types, ShownKeep, PanelKeep
  <1>11. ScansInv'
    BY <1>1, Types, ScansKeep DEF Waiting
  <1>12. TypeOK'
    BY <1>1, <1>4, Types DEF TypeOK, BrowserTypeOK, CallsTypeOK
  <1> QED
    BY <1>6, <1>7, <1>8, <1>9, <1>10, <1>11, <1>12 DEF ScreensInv

-----------------------------------------------------------------------------
(* Answers are heard. *)

(* A 401 sends every tab away that does not show the login page. *)
LEMMA InterceptDoes ==
  ASSUME ScreensInv, NEW k \in Slots, call[k] # Nil, Intercept(k), UNCHANGED <<store, page>>
  PROVE  /\ RoutesInv' /\ local' \in [Tabs -> Users \cup {Nil}] /\ nav' \in [Tabs -> Pages \cup {Nil}]
         /\ \A s \in Tabs : page[s] = "Login" /\ nav[s] = Nil => nav'[s] = Nil
  <1>1. PICK t \in Tabs : t = call[k].tab
    BY CallTypes
  <1>2. PICK u \in Users \cup {Nil} : u = store[t]
    BY Types
  <1>3. CASE call[k].ans # "unauthorized"
    BY <1>3, Types, RoutesKeep DEF Intercept
  <1>4. CASE call[k].ans = "unauthorized"
    <2>1. "Login" \in Pages
      BY DEF Pages
    <2>2. local' = [local EXCEPT ![t] = Nil] /\ Push(t, u, "Login")
      BY <1>1, <1>2, <1>4 DEF Intercept, Push
    <2>3. /\ nav' \in [Tabs -> Pages \cup {Nil}] /\ \A s \in Tabs \ {t} : nav'[s] = nav[s]
          /\ nav'[t] = IF Guard(u, "Login") = page[t] THEN Nil ELSE Guard(u, "Login")
      <3>1. nav \in [Tabs -> Pages \cup {Nil}]
        BY Types
      <3> QED
        BY <2>1, <2>2, <3>1, PushDoes
    <2>4. /\ Guard(u, "Login") \in Pages /\ Guard(u, "Login") # Nil
          /\ Guard(u, Guard(u, "Login")) = Guard(u, "Login")
      BY <2>1, GuardType, GuardTwice
    <2>5. /\ \A s \in Tabs \ {t} : local'[s] = local[s]
          /\ local'[t] = Nil /\ local' \in [Tabs -> Users \cup {Nil}]
      BY <2>2, Types
    <2>6. RoutesInv'
      <3>1. ASSUME NEW s \in Tabs, s # t
            PROVE  /\ nav'[s] # Nil => Guard(store'[s], nav'[s]) = nav'[s]
                   /\ nav'[s] = Nil => page'[s] \in Pages /\ Guard(store'[s], page'[s]) = page'[s]
                   /\ local'[s] \in {Nil, store'[s]}
        BY <2>3, <2>5, <3>1, Types DEF RoutesInv, Guard
      <3>2. /\ nav'[t] # Nil => Guard(store'[t], nav'[t]) = nav'[t]
            /\ nav'[t] = Nil => page'[t] \in Pages /\ Guard(store'[t], page'[t]) = page'[t]
            /\ local'[t] \in {Nil, store'[t]}
        BY <1>2, <2>3, <2>4, <2>5 DEF Guard
      <3> QED
        BY <3>1, <3>2 DEF RoutesInv
    <2>7. page[t] = "Login" /\ nav[t] = Nil => nav'[t] = Nil
      <3>1. page[t] = "Login" /\ nav[t] = Nil => Guard(u, "Login") = "Login"
        BY <1>2, Types DEF RoutesInv
      <3> QED
        BY <2>3, <3>1
    <2> QED
      BY <2>3, <2>5, <2>6, <2>7
  <1> QED
    BY <1>3, <1>4

LEMMA LoginLostKeeps ==
  ASSUME ScreensInv, NEW k \in Slots, LoginLost(k), UNCHANGED <<tvars, screenVars>>
  PROVE  ScreensInv'
  <1>1. /\ call[k] # Nil /\ Forget(k)
        /\ UNCHANGED <<store, local, page, nav, due, code, desk, stray, seatedBy>>
    BY DEF LoginLost, GiveUp, StillCounts, screenVars
  <1>2. CallsTypeOK' /\ call'[k] = Nil /\ \A j \in Slots \ {k} : call'[j] = call[j]
    BY <1>1, Types, ForgetDoes
  <1>3. TicketsInv' /\ TicketsGrow
    BY Types, TicketsStay DEF tvars, screenVars
  <1>4. \A j \in Slots : Follows(j)
    BY <1>2 DEF Follows
  <1>5. LoginsInv'
    BY <1>1, <1>2, Types, LoginsKeep DEF IsLogin
  <1>6. ScansInv'
    <2>1. call[k].kind = "login"
      BY DEF LoginLost
    <2>2. \A s \in Tabs : Waiting(s, "verify", "page")' = Waiting(s, "verify", "page")
      BY <1>2, <2>1 DEF Waiting
    <2> QED
      BY <1>1, <2>2, Types, ScansKeep
  <1> QED
    BY <1>1, <1>2, <1>3, <1>4, <1>5, <1>6, Types, QuietKeeps

LEMMA HearLoginKeeps ==
  ASSUME ScreensInv, NEW k \in Slots, HearLogin(k), UNCHANGED <<tvars, screenVars>>
  PROVE  ScreensInv'
  <1>1. /\ call[k] # Nil /\ IsLogin(k) /\ Forget(k)
        /\ UNCHANGED <<page, due, code, desk, stray, seatedBy>>
    BY DEF HearLogin, Answered, IsLogin, screenVars
  <1>2. PICK t \in Tabs : t = call[k].tab
    BY <1>1, CallTypes
  <1>3. PICK u \in Users : u = call[k].who
    BY <1>1, Types DEF LoginsInv
  <1>4. /\ call[k].from = "page" /\ page[t] = "Login" /\ nav[t] = Nil
        /\ \A j \in Slots \ {k} : IsLogin(j) => call[j].tab # t
    BY <1>1, <1>2, Types DEF LoginsInv
  <1>5. CallsTypeOK' /\ call'[k] = Nil /\ \A j \in Slots \ {k} : call'[j] = call[j]
    BY <1>1, Types, ForgetDoes
  <1>6. TicketsInv' /\ TicketsGrow
    BY Types, TicketsStay DEF tvars, screenVars
  <1>7. /\ RoutesInv' /\ store' \in [Tabs -> Users \cup {Nil}] /\ local' \in [Tabs -> Users \cup {Nil}]
        /\ nav' \in [Tabs -> Pages \cup {Nil}]
        /\ \A s \in Tabs \ {t} : store'[s] = store[s] /\ nav'[s] = nav[s]
    <2>1. CASE call[k].ans # "ok"
      BY <1>1, <2>1, Types, RoutesKeep DEF HearLogin
    <2>2. CASE call[k].ans = "ok"
      <3>1. /\ store' = [store EXCEPT ![t] = u] /\ local' = [local EXCEPT ![t] = u]
            /\ Push(t, u, "Dashboard")
        BY <1>2, <1>3, <2>2 DEF HearLogin, Push
      <3>2. "Dashboard" \in Pages /\ nav \in [Tabs -> Pages \cup {Nil}] /\ u \in Users \cup {Nil}
        BY Types DEF Pages
      <3>3. /\ nav' \in [Tabs -> Pages \cup {Nil}] /\ \A s \in Tabs \ {t} : nav'[s] = nav[s]
            /\ nav'[t] = IF Guard(u, "Dashboard") = page[t] THEN Nil ELSE Guard(u, "Dashboard")
        BY <3>1, <3>2, PushDoes
      <3>4. /\ Guard(u, "Dashboard") \in Pages /\ Guard(u, "Dashboard") # Nil
            /\ Guard(u, Guard(u, "Dashboard")) = Guard(u, "Dashboard")
        BY <3>2, GuardType, GuardTwice
      <3>5. /\ \A s \in Tabs \ {t} : store'[s] = store[s] /\ local'[s] = local[s]
            /\ store'[t] = u /\ local'[t] = u
            /\ store' \in [Tabs -> Users \cup {Nil}] /\ local' \in [Tabs -> Users \cup {Nil}]
        BY <3>1, Types
      <3>6. ASSUME NEW s \in Tabs, s # t
            PROVE  /\ nav'[s] # Nil => Guard(store'[s], nav'[s]) = nav'[s]
                   /\ nav'[s] = Nil => page'[s] \in Pages /\ Guard(store'[s], page'[s]) = page'[s]
                   /\ local'[s] \in {Nil, store'[s]}
        BY <1>1, <3>3, <3>5, <3>6, Types DEF RoutesInv, Guard
      <3>7. /\ nav'[t] # Nil => Guard(store'[t], nav'[t]) = nav'[t]
            /\ nav'[t] = Nil => page'[t] \in Pages /\ Guard(store'[t], page'[t]) = page'[t]
            /\ local'[t] \in {Nil, store'[t]}
        BY <1>1, <3>3, <3>4, <3>5 DEF Guard
      <3>8. RoutesInv'
        BY <3>6, <3>7 DEF RoutesInv
      <3> QED
        BY <3>3, <3>5, <3>8
    <2> QED
      BY <2>1, <2>2
  <1>8. CallsInv'
    <2>1. \A s \in Tabs : HearsOn(s)
      BY <1>1, <1>4, <1>7 DEF HearsOn
    <2>2. \A j \in Slots : Follows(j)
      BY <1>5 DEF Follows
    <2> QED
      BY <1>6, <2>1, <2>2, Types, CallsKeep
  <1>9. LoginsInv'
    <2>1. \A j \in Slots : IsLogin(j)' => j # k /\ IsLogin(j) /\ call'[j] = call[j]
      BY <1>5 DEF IsLogin
    <2>2. \A j \in Slots : IsLogin(j) => call[j].tab \in Tabs
      BY CallTypes DEF IsLogin
    <2> QED
      BY <1>1, <1>4, <1>7, <2>1, <2>2, Types, LoginsKeep
  <1>10. ShownInv' /\ PanelInv'
    <2>1. code[t] = Nil
      BY <1>4, Types DEF ShownInv
    <2> QED
      BY <1>1, <1>6, <1>7, <2>1, Types, ShownKeep, PanelKeep
  <1>11. ScansInv'
    <2>1. \A s \in Tabs : Waiting(s, "verify", "page")' = Waiting(s, "verify", "page")
      BY <1>1, <1>5 DEF Waiting, IsLogin
    <2> QED
      BY <1>1, <2>1, Types, ScansKeep
  <1>12. TypeOK'
    BY <1>1, <1>5, <1>7, Types DEF TypeOK, BrowserTypeOK, CallsTypeOK
  <1> QED
    BY <1>5, <1>6, <1>7, <1>8, <1>9, <1>10, <1>11, <1>12 DEF ScreensInv

(* A code is shown that belongs to whoever is logged in. *)
LEMMA HearCodeKeeps ==
  ASSUME ScreensInv, NEW k \in Slots, HearCode(k)
  PROVE  ScreensInv'
  <1>1. /\ call[k] # Nil /\ call[k].kind \in {"mine", "generate"} /\ Forget(k) /\ Intercept(k)
        /\ UNCHANGED <<store, page, due, desk, stray, seatedBy, tvars>>
    BY DEF HearCode, Answered
  <1>2. PICK t \in Tabs : t = call[k].tab
    BY <1>1, CallTypes
  <1>3. CallsTypeOK' /\ call'[k] = Nil /\ \A j \in Slots \ {k} : call'[j] = call[j]
    BY <1>1, Types, ForgetDoes
  <1>4. TicketsInv' /\ TicketsGrow
    BY <1>1, Types, TicketsStay DEF tvars
  <1>5. /\ RoutesInv' /\ local' \in [Tabs -> Users \cup {Nil}] /\ nav' \in [Tabs -> Pages \cup {Nil}]
        /\ \A s \in Tabs : page[s] = "Login" /\ nav[s] = Nil => nav'[s] = Nil
    BY <1>1, InterceptDoes
  <1>6. CallsInv'
    <2>1. \A s \in Tabs : HearsOn(s)
      BY <1>1 DEF HearsOn
    <2>2. \A j \in Slots : Follows(j)
      BY <1>3 DEF Follows
    <2> QED
      BY <1>4, <2>1, <2>2, Types, CallsKeep
  <1>7. LoginsInv'
    <2>1. \A j \in Slots : IsLogin(j)' => j # k /\ IsLogin(j) /\ call'[j] = call[j]
      BY <1>3 DEF IsLogin
    <2>2. \A j \in Slots : IsLogin(j) => /\ call[j].tab \in Tabs /\ page[call[j].tab] = "Login"
                                         /\ nav[call[j].tab] = Nil
      BY CallTypes, Types DEF IsLogin, LoginsInv
    <2> QED
      BY <1>1, <1>5, <2>1, <2>2, Types, LoginsKeep
  <1>8. ShownInv' /\ code' \in [Tabs -> Codes \cup {Nil}]
    <2>1. CASE call[k].from = "page" /\ call[k].ans = "ok"
      <3>1. PICK c : c = call[k].what
        OBVIOUS
      <3>2. PICK u : u = call[k].who
        OBVIOUS
      <3>3. page[t] = "BootCode" /\ (u = Nil \/ store[t] = Nil \/ u = store[t])
        BY <1>1, <1>2, <2>1, <3>2, CallTypes DEF CallInv, HeardAt
      <3>4. u \in Users /\ (c = Nil \/ BelongsTo(c, u))
        BY <1>1, <2>1, <3>1, <3>2, CallTypes DEF CallInv, MineInv, GenerateInv
      <3>5. /\ \A s \in Tabs \ {t} : code'[s] = code[s]
            /\ code'[t] = c /\ code' \in [Tabs -> Codes \cup {Nil}]
        BY <1>2, <2>1, <3>1, <3>4, Types DEF HearCode, BelongsTo, Issued
      <3>6. ASSUME c # Nil
            PROVE  c \in Issued' /\ (store'[t] # Nil => BelongsTo(c, store[t])')
        <4>1. u # Nil
          BY <3>4, NobodyAssumption
        <4>2. PICK w : w = store[t] /\ w = store'[t]
          BY <1>1
        <4>3. w # Nil => BelongsTo(c, w)'
          <5>1. w # Nil => w = u
            BY <3>3, <4>1, <4>2
          <5>2. BelongsTo(c, u)'
            BY <3>4, <3>6, <1>4, KnownStays
          <5> QED
            BY <5>1, <5>2
        <4>4. c \in Issued'
          BY <1>4, <3>4, <3>6 DEF BelongsTo, TicketsGrow
        <4> QED
          BY <4>2, <4>3, <4>4 DEF BelongsTo
      <3>7. ASSUME NEW s \in Tabs, NEW d, d = code'[s], d # Nil, s # t
            PROVE  page'[s] = "BootCode" /\ d \in Issued' /\ (store'[s] # Nil => BelongsTo(d, store[s])')
        <4>1. page[s] = "BootCode" /\ d \in Issued /\ (store[s] # Nil => BelongsTo(d, store[s]))
          BY <3>5, <3>7, Types DEF ShownInv
        <4> QED
          BY <1>1, <1>4, <4>1 DEF BelongsTo, TicketsGrow
      <3>8. ShownInv'
        <4> SUFFICES ASSUME NEW s \in Tabs, NEW d, d = code'[s], d # Nil
                     PROVE  page'[s] = "BootCode" /\ d \in Issued' /\ (store'[s] # Nil => BelongsTo(d, store[s])')
          BY DEF ShownInv, BelongsTo
        <4> QED
          BY <1>1, <3>3, <3>5, <3>6, <3>7 DEF BelongsTo
      <3> QED
        BY <3>5, <3>8
    <2>2. CASE ~(call[k].from = "page" /\ call[k].ans = "ok")
      BY <1>1, <1>4, <2>2, Types, ShownKeep DEF HearCode
    <2> QED
      BY <2>1, <2>2
  <1>9. PanelInv'
    BY <1>1, <1>4, Types, PanelKeep
  <1>10. ScansInv'
    <2>1. \A s \in Tabs : Waiting(s, "verify", "page")' = Waiting(s, "verify", "page")
      BY <1>1, <1>3 DEF Waiting
    <2> QED
      BY <1>1, <2>1, Types, ScansKeep
  <1>11. TypeOK'
    BY <1>1, <1>3, <1>5, <1>8, Types DEF TypeOK, BrowserTypeOK, CallsTypeOK
  <1> QED
    BY <1>3, <1>4, <1>5, <1>6, <1>7, <1>8, <1>9, <1>10, <1>11 DEF ScreensInv

-----------------------------------------------------------------------------
(* A scan is over. *)

Desks == [verifying : BOOLEAN, result : Codes \cup {Nil}, camera : Cameras]

LEMMA AfterScanIs ==
  ASSUME NEW d \in Desks, NEW ok \in BOOLEAN, NEW c, ok => c \in Codes \cup {Nil}
  PROVE  /\ AfterScan(d, ok, c) \in Desks /\ ~AfterScan(d, ok, c).verifying
         /\ AfterScan(d, ok, c).result = IF ok THEN c ELSE d.result
  <1>1. Stopped(d.camera) \in Cameras
    BY DEF Stopped, Cameras, Desks
  <1>2. CASE ok
    <2>1. AfterScan(d, ok, c) = [verifying |-> FALSE, result |-> c, camera |-> Stopped(d.camera)]
      BY <1>2 DEF AfterScan
    <2>2. c \in Codes \cup {Nil}
      BY <1>2
    <2>3. AfterScan(d, ok, c) \in Desks
      BY <1>1, <2>1, <2>2 DEF Desks
    <2>4. ~AfterScan(d, ok, c).verifying /\ AfterScan(d, ok, c).result = c
      BY <2>1
    <2> QED
      BY <1>2, <2>3, <2>4
  <1>3. CASE ~ok
    <2>1. AfterScan(d, ok, c) = [verifying |-> FALSE, result |-> d.result, camera |-> d.camera]
      BY <1>3 DEF AfterScan, Desks
    <2> QED
      BY <1>3, <2>1 DEF Desks
  <1> QED
    BY <1>2, <1>3

(* The page that waits for the scan is told, or gives up. *)
LEMMA ScanEnds ==
  ASSUME ScreensInv, NEW k \in Slots, call[k] # Nil, call[k].kind = "verify", call[k].from = "page",
         \A j \in Slots \ {k} : call'[j] = call[j], call'[k] = Nil \/ call'[k].from # "page",
         NEW t \in Tabs, t = call[k].tab, desk'[t].verifying = FALSE,
         \A s \in Tabs \ {t} : desk'[s] = desk[s]
  PROVE  ScansInv'
  <1>1. ASSUME NEW s \in Tabs, s # t
        PROVE  Scan(s)'
    <2>1. Waiting(s, "verify", "page")' = Waiting(s, "verify", "page")
      BY <1>1 DEF Waiting
    <2> QED
      BY <1>1, <2>1, Types DEF ScansInv, Scan
  <1>2. Waiting(t, "verify", "page") = {k}
    <2>1. k \in Waiting(t, "verify", "page")
      BY DEF Waiting
    <2> QED
      BY <2>1, Types DEF ScansInv, Scan
  <1>3. Waiting(t, "verify", "page")' = {}
    BY <1>2 DEF Waiting
  <1>4. Scan(t)'
    BY <1>3 DEF Scan
  <1> QED
    BY <1>1, <1>4 DEF ScansInv

LEMMA HearVerifyKeeps ==
  ASSUME ScreensInv, NEW k \in Slots, HearVerify(k)
  PROVE  ScreensInv'
  <1>1. /\ call[k] # Nil /\ call[k].kind = "verify" /\ Forget(k) /\ Intercept(k)
        /\ UNCHANGED <<store, page, due, code, seatedBy, tvars>>
    BY DEF HearVerify, Answered
  <1>2. PICK t \in Tabs : t = call[k].tab
    BY <1>1, CallTypes
  <1>3. CallsTypeOK' /\ call'[k] = Nil /\ \A j \in Slots \ {k} : call'[j] = call[j]
    BY <1>1, Types, ForgetDoes
  <1>4. TicketsInv' /\ TicketsGrow
    BY <1>1, Types, TicketsStay DEF tvars
  <1>5. /\ RoutesInv' /\ local' \in [Tabs -> Users \cup {Nil}] /\ nav' \in [Tabs -> Pages \cup {Nil}]
        /\ \A s \in Tabs : page[s] = "Login" /\ nav[s] = Nil => nav'[s] = Nil
    BY <1>1, InterceptDoes
  <1>6. CallsInv'
    <2>1. \A s \in Tabs : HearsOn(s)
      BY <1>1 DEF HearsOn
    <2>2. \A j \in Slots : Follows(j)
      BY <1>3 DEF Follows
    <2> QED
      BY <1>4, <2>1, <2>2, Types, CallsKeep
  <1>7. LoginsInv'
    <2>1. \A j \in Slots : IsLogin(j)' => j # k /\ IsLogin(j) /\ call'[j] = call[j]
      BY <1>3 DEF IsLogin
    <2>2. \A j \in Slots : IsLogin(j) => /\ call[j].tab \in Tabs /\ page[call[j].tab] = "Login"
                                         /\ nav[call[j].tab] = Nil
      BY CallTypes, Types DEF IsLogin, LoginsInv
    <2> QED
      BY <1>1, <1>5, <2>1, <2>2, Types, LoginsKeep
  <1>8. ShownInv'
    BY <1>1, <1>4, Types, ShownKeep
  <1>9. stray' \in [Tabs -> Cameras]
    <2>1. Stopped(stray[t]) \in Cameras
      BY Types DEF Stopped, Cameras
    <2> QED
      BY <1>2, <2>1, Types DEF HearVerify
  <1>10. desk' \in [Tabs -> Desks] /\ PanelInv' /\ ScansInv'
    <2>1. CASE call[k].from = "page"
      <3>1. PICK d \in Desks : d = desk[t]
        BY Types DEF Desks
      <3>2. PICK c : c = call[k].what
        OBVIOUS
      <3>3. PICK ok \in BOOLEAN : ok = (call[k].ans = "ok")
        OBVIOUS
      <3>4. c \in Issued /\ c \in Codes \cup {Nil} /\ (ok => SeatedAt(c, t))
        BY <1>1, <1>2, <3>2, <3>3, CallTypes DEF CallInv, VerifyInv, Issued
      <3>5. desk' = [desk EXCEPT ![t] = AfterScan(d, ok, c)]
        BY <1>2, <2>1, <3>1, <3>2, <3>3, Types DEF HearVerify, AfterScan
      <3>6. /\ AfterScan(d, ok, c) \in Desks /\ ~AfterScan(d, ok, c).verifying
            /\ AfterScan(d, ok, c).result = IF ok THEN c ELSE d.result
        BY <3>4, AfterScanIs
      <3>7. /\ \A s \in Tabs \ {t} : desk'[s] = desk[s]
            /\ desk'[t] \in Desks /\ ~desk'[t].verifying
            /\ desk'[t].result = IF ok THEN c ELSE d.result
            /\ desk' \in [Tabs -> Desks]
        BY <3>5, <3>6, Types DEF Desks
      <3>8. desk'[t].verifying = FALSE
        BY <3>7 DEF Desks
      <3>9. ScansInv'
        BY <1>1, <1>2, <1>3, <2>1, <3>7, <3>8, ScanEnds
      <3>10. PanelInv'
        <4> SUFFICES ASSUME NEW s \in Tabs, NEW e, e = desk'[s].result, e # Nil
                     PROVE  SeatedAt(e, s)'
          BY DEF PanelInv, SeatedAt, Issued
        <4>1. SeatedAt(e, s)
          <5>1. CASE s = t /\ ok
            BY <3>4, <3>7, <5>1
          <5>2. CASE s # t \/ ~ok
            <6>1. e = desk[s].result
              BY <3>1, <3>7, <5>2
            <6> QED
              BY <6>1, Types DEF PanelInv
          <5> QED
            BY <5>1, <5>2
        <4> QED
          BY <1>4, <4>1, KnownStays
      <3> QED
        BY <3>7, <3>9, <3>10
    <2>2. CASE call[k].from # "page"
      <3>1. desk' = desk
        BY <2>2 DEF HearVerify
      <3>2. \A s \in Tabs : Waiting(s, "verify", "page")' = Waiting(s, "verify", "page")
        BY <1>3, <2>2 DEF Waiting
      <3> QED
        BY <1>4, <3>1, <3>2, Types, PanelKeep, ScansKeep DEF Desks
    <2> QED
      BY <2>1, <2>2
  <1>11. TypeOK'
    BY <1>1, <1>3, <1>5, <1>9, <1>10, Types DEF TypeOK, BrowserTypeOK, CallsTypeOK, Desks
  <1> QED
    BY <1>3, <1>4, <1>5, <1>6, <1>7, <1>8, <1>10, <1>11 DEF ScreensInv

LEMMA CallLostKeeps ==
  ASSUME ScreensInv, NEW k \in Slots, CallLost(k)
  PROVE  ScreensInv'
  <1>1. /\ call[k] # Nil /\ call[k].kind # "login" /\ call[k].from # "nobody" /\ GiveUp(k)
        /\ UNCHANGED <<store, local, page, nav, tvars, due, code, stray, seatedBy>>
    BY DEF CallLost
  <1>2. PICK t \in Tabs : t = call[k].tab
    BY <1>1, CallTypes
  <1>3. CallsTypeOK' /\ \A j \in Slots \ {k} : call'[j] = call[j]
    BY <1>1, Types, GiveUpDoes
  <1>4. call'[k] = Nil \/ Orphan(call[k], call'[k])
    BY <1>1, Types, GiveUpDoes
  <1>5. TicketsInv' /\ TicketsGrow
    BY <1>1, Types, TicketsStay DEF tvars
  <1>6. CallsInv'
    <2>1. \A s \in Tabs : HearsOn(s)
      BY <1>1 DEF HearsOn
    <2>2. \A j \in Slots : Follows(j)
      BY <1>1, <1>3, <1>4 DEF Follows
    <2> QED
      BY <1>5, <2>1, <2>2, Types, CallsKeep
  <1>7. LoginsInv'
    <2>1. \A j \in Slots : IsLogin(j)' => j # k /\ IsLogin(j) /\ call'[j] = call[j]
      BY <1>1, <1>3, <1>4 DEF IsLogin, Orphan
    <2> QED
      BY <1>1, <2>1, Types, LoginsKeep
  <1>8. ShownInv' /\ RoutesInv'
    BY <1>1, <1>5, Types, ShownKeep, RoutesKeep
  <1>9. desk' \in [Tabs -> Desks] /\ PanelInv' /\ ScansInv'
    <2>1. CASE call[k].kind = "verify" /\ call[k].from = "page"
      <3>1. PICK d \in Desks : d = desk[t]
        BY Types DEF Desks
      <3>2. desk' = [desk EXCEPT ![t] = AfterScan(d, FALSE, Nil)]
        BY <1>2, <2>1, <3>1, Types DEF CallLost, AfterScan
      <3>3. /\ AfterScan(d, FALSE, Nil) \in Desks /\ ~AfterScan(d, FALSE, Nil).verifying
            /\ AfterScan(d, FALSE, Nil).result = d.result
        BY AfterScanIs
      <3>4. /\ \A s \in Tabs \ {t} : desk'[s] = desk[s]
            /\ desk'[t] \in Desks /\ ~desk'[t].verifying /\ desk'[t].result = desk[t].result
            /\ desk' \in [Tabs -> Desks]
        BY <3>1, <3>2, <3>3, Types DEF Desks
      <3>5. desk'[t].verifying = FALSE
        BY <3>4 DEF Desks
      <3>6. call'[k] = Nil \/ call'[k].from # "page"
        BY <1>4 DEF Orphan
      <3>7. ScansInv'
        BY <1>1, <1>2, <1>3, <2>1, <3>4, <3>5, <3>6, ScanEnds
      <3>8. PanelInv'
        BY <1>5, <3>4, Types, PanelKeep
      <3> QED
        BY <3>4, <3>7, <3>8
    <2>2. CASE ~(call[k].kind = "verify" /\ call[k].from = "page")
      <3>1. desk' = desk
        BY <2>2 DEF CallLost
      <3>2. \A s \in Tabs : Waiting(s, "verify", "page")' = Waiting(s, "verify", "page")
        BY <1>1, <1>3, <1>4, <2>2 DEF Waiting, Orphan
      <3> QED
        BY <1>5, <3>1, <3>2, Types, PanelKeep, ScansKeep DEF Desks
    <2> QED
      BY <2>1, <2>2
  <1>10. TypeOK'
    BY <1>1, <1>3, <1>9, Types DEF TypeOK, BrowserTypeOK, CallsTypeOK, Desks
  <1> QED
    BY <1>3, <1>5, <1>6, <1>7, <1>8, <1>9, <1>10 DEF ScreensInv

-----------------------------------------------------------------------------
(* A page is opened, or the tab loaded again. *)

LEMMA OpenKeeps ==
  ASSUME ScreensInv, NEW t \in Tabs, Open(t)
  PROVE  ScreensInv'
  <1>1. PICK rest \in {"left", "stray"} : Arrive(t, rest)
    <2>1. PICK rest : rest = IF Stopped(desk[t].camera) = "off" THEN "left" ELSE "stray"
      OBVIOUS
    <2> QED
      BY <2>1 DEF Open, Arrive
  <1>2. /\ nav[t] # Nil /\ page' = [page EXCEPT ![t] = nav[t]] /\ nav' = [nav EXCEPT ![t] = Nil]
        /\ UNCHANGED <<store, local, tvars, seatedBy>>
    BY DEF Open, Arrive
  <1>3. /\ page' \in [Tabs -> Pages \cup {Nil}] /\ nav' \in [Tabs -> Pages \cup {Nil}]
        /\ \A s \in Tabs \ {t} : page'[s] = page[s] /\ nav'[s] = nav[s]
        /\ page'[t] = nav[t] /\ nav'[t] = Nil
    BY <1>2, Types
  <1>4. /\ due' \in [Tabs -> BOOLEAN] /\ code' \in [Tabs -> Codes \cup {Nil}]
        /\ code'[t] = Nil /\ \A s \in Tabs \ {t} : code'[s] = code[s]
    BY Types DEF Open
  <1>5. /\ desk' \in [Tabs -> Desks] /\ \A s \in Tabs \ {t} : desk'[s] = desk[s]
        /\ desk'[t].verifying = FALSE /\ desk'[t].result = Nil
    <2>1. PICK camera \in Cameras : desk' = [desk EXCEPT ![t] = [NewDesk EXCEPT !.camera = camera]]
      BY DEF Open, Cameras
    <2>2. /\ [NewDesk EXCEPT !.camera = camera] = [verifying |-> FALSE, result |-> Nil, camera |-> camera]
          /\ desk \in [Tabs -> Desks]
      <3>1. [NewDesk EXCEPT !.camera = camera] = [verifying |-> FALSE, result |-> Nil, camera |-> camera]
        <4>1. NewDesk \in Desks /\ NewDesk.verifying = FALSE /\ NewDesk.result = Nil
          BY DEF NewDesk, Desks, Cameras
        <4>2. PICK d : d = NewDesk
          OBVIOUS
        <4>3. d \in Desks
          BY <4>1, <4>2
        <4>4. [d EXCEPT !.camera = camera] = [verifying |-> d.verifying, result |-> d.result, camera |-> camera]
          BY <4>3 DEF Desks
        <4> QED
          BY <4>1, <4>2, <4>4
      <3> QED
        BY <3>1, Types DEF Desks
    <2>3. desk'[t] = [verifying |-> FALSE, result |-> Nil, camera |-> camera]
          /\ \A s \in Tabs \ {t} : desk'[s] = desk[s]
      BY <2>1, <2>2
    <2>4. desk'[t] \in Desks
      BY <2>3 DEF Desks
    <2> QED
      BY <2>1, <2>2, <2>3, <2>4
  <1>6. stray' \in [Tabs -> Cameras]
    <2>1. Stopped(desk[t].camera) \in Cameras
      BY Types DEF Stopped, Cameras
    <2> QED
      BY <2>1, Types DEF Open
  <1>7. CallsTypeOK'
    BY <1>1, Types, ArriveDoes
  <1>8. \A j \in Slots : IF call[j] # Nil /\ call[j].tab = t /\ call[j].from = "page"
                         THEN Orphan(call[j], call'[j]) /\ call'[j].from = rest
                         ELSE call'[j] = call[j]
    BY <1>1, Types, ArriveDoes
  <1>9. TicketsInv' /\ TicketsGrow
    BY <1>2, Types, TicketsStay DEF tvars
  <1>10. \A j \in Slots : call'[j] # Nil /\ call'[j].tab = t => call'[j].from # "page"
    BY <1>8
  <1>11. CallsInv'
    <2>1. \A s \in Tabs : HearsOn(s)
      BY <1>2, <1>3, <1>10 DEF HearsOn
    <2>2. \A j \in Slots : Follows(j)
      BY <1>8 DEF Follows
    <2> QED
      BY <1>9, <2>1, <2>2, Types, CallsKeep
  <1>12. RoutesInv'
    <2>1. ASSUME NEW s \in Tabs, s # t
          PROVE  /\ nav'[s] # Nil => Guard(store'[s], nav'[s]) = nav'[s]
                 /\ nav'[s] = Nil => page'[s] \in Pages /\ Guard(store'[s], page'[s]) = page'[s]
                 /\ local'[s] \in {Nil, store'[s]}
      BY <1>2, <1>3, <2>1, Types DEF RoutesInv, Guard
    <2>2. Guard(store'[t], page'[t]) = page'[t]
      BY <1>2, <1>3, Types DEF RoutesInv, Guard
    <2>3. page'[t] \in Pages /\ nav'[t] = Nil /\ local'[t] \in {Nil, store'[t]}
      BY <1>2, <1>3, Types DEF RoutesInv
    <2> QED
      BY <2>1, <2>2, <2>3 DEF RoutesInv
  <1>13. LoginsInv'
    <2>1. \A j \in Slots : IsLogin(j)' => IsLogin(j) /\ call[j].tab \in Tabs
      BY <1>8, CallTypes DEF IsLogin, Orphan
    <2>2. \A j \in Slots : IsLogin(j) => call[j].tab # t
      BY <1>2, Types DEF LoginsInv
    <2> QED
      BY <1>3, <1>8, <2>1, <2>2, Types, LoginsKeep DEF IsLogin
  <1>14. ShownInv' /\ PanelInv'
    BY <1>2, <1>3, <1>4, <1>5, <1>9, Types, ShownKeep, PanelKeep
  <1>15. ScansInv'
    <2>1. ASSUME NEW s \in Tabs, s # t
          PROVE  Scan(s)'
      <3>1. Waiting(s, "verify", "page")' = Waiting(s, "verify", "page")
        BY <1>8, <2>1 DEF Waiting, Orphan
      <3> QED
        BY <1>5, <2>1, <3>1, Types DEF ScansInv, Scan
    <2>2. Waiting(t, "verify", "page")' = {}
      BY <1>10 DEF Waiting
    <2>3. Scan(t)'
      BY <1>5, <2>2 DEF Scan
    <2> QED
      BY <2>1, <2>3 DEF ScansInv
  <1>16. TypeOK'
    BY <1>2, <1>3, <1>4, <1>5, <1>6, <1>7, Types DEF TypeOK, BrowserTypeOK, CallsTypeOK, Desks
  <1> QED
    BY <1>7, <1>9, <1>11, <1>12, <1>13, <1>14, <1>15, <1>16 DEF ScreensInv

LEMMA LoadAgainKeeps ==
  ASSUME ScreensInv, NEW t \in Tabs, NEW name \in {Guard(local[t], n) : n \in Pages}, LoadAgain(t, name)
  PROVE  ScreensInv'
  <1>1. Reload(t, name)
    BY DEF LoadAgain
  <1>2. PICK u \in Users \cup {Nil} : u = local[t]
    BY Types
  <1>3. name \in Pages /\ name # Nil /\ Guard(u, name) = name
    <2>1. PICK n \in Pages : name = Guard(u, n)
      BY <1>2 DEF Guard
    <2> QED
      BY <2>1, GuardType, GuardTwice
  <1>4. UNCHANGED <<local, tvars, seatedBy>>
    BY DEF LoadAgain, Reload
  <1>5. /\ store' \in [Tabs -> Users \cup {Nil}]
        /\ page' \in [Tabs -> Pages \cup {Nil}] /\ nav' \in [Tabs -> Pages \cup {Nil}]
        /\ \A s \in Tabs \ {t} : store'[s] = store[s] /\ page'[s] = page[s] /\ nav'[s] = nav[s]
        /\ store'[t] = u /\ page'[t] = Nil /\ nav'[t] = name
    BY <1>1, <1>2, <1>3, Types DEF Reload
  <1>6. /\ due' \in [Tabs -> BOOLEAN] /\ code' \in [Tabs -> Codes \cup {Nil}]
        /\ stray' \in [Tabs -> Cameras]
        /\ code'[t] = Nil /\ \A s \in Tabs \ {t} : code'[s] = code[s]
    BY Types DEF LoadAgain, Cameras
  <1>7. /\ desk' \in [Tabs -> Desks] /\ \A s \in Tabs \ {t} : desk'[s] = desk[s]
        /\ desk'[t].verifying = FALSE /\ desk'[t].result = Nil
    <2>1. NewDesk \in Desks /\ NewDesk.verifying = FALSE /\ NewDesk.result = Nil
      BY DEF NewDesk, Desks, Cameras
    <2> QED
      BY <2>1, Types DEF LoadAgain, Desks
  <1>8. CallsTypeOK'
    BY <1>1, Types, ReloadDoes
  <1>9. /\ \A j \in Slots : \/ call'[j] = Nil
                            \/ call[j] # Nil /\ call[j].tab # t /\ call'[j] = call[j]
                            \/ call[j] # Nil /\ StillCounts(j) /\ Orphan(call[j], call'[j])
        /\ \A j \in Slots : call[j] # Nil /\ call[j].tab # t => call'[j] = call[j]
    BY <1>1, Types, ReloadDoes
  <1>10. TicketsInv' /\ TicketsGrow
    BY <1>4, Types, TicketsStay DEF tvars
  <1>11. \A j \in Slots : call'[j] # Nil /\ call'[j].tab = t => call'[j].from # "page"
    BY <1>9 DEF Orphan
  <1>12. CallsInv'
    <2>1. \A s \in Tabs : HearsOn(s)
      BY <1>5, <1>11 DEF HearsOn
    <2>2. \A j \in Slots : Follows(j)
      BY <1>9 DEF Follows
    <2> QED
      BY <1>10, <2>1, <2>2, Types, CallsKeep
  <1>13. RoutesInv'
    <2>1. ASSUME NEW s \in Tabs, s # t
          PROVE  /\ nav'[s] # Nil => Guard(store'[s], nav'[s]) = nav'[s]
                 /\ nav'[s] = Nil => page'[s] \in Pages /\ Guard(store'[s], page'[s]) = page'[s]
                 /\ local'[s] \in {Nil, store'[s]}
      BY <1>4, <1>5, <2>1, Types DEF RoutesInv, Guard
    <2>2. nav'[t] # Nil /\ Guard(store'[t], nav'[t]) = nav'[t] /\ local'[t] = store'[t]
      BY <1>2, <1>3, <1>4, <1>5 DEF Guard
    <2> QED
      BY <2>1, <2>2 DEF RoutesInv
  <1>14. LoginsInv'
    <2>1. \A j \in Slots : IsLogin(j)' => /\ IsLogin(j) /\ call[j].tab \in Tabs \ {t}
                                          /\ call'[j] = call[j]
      BY <1>9, CallTypes DEF IsLogin, Orphan, StillCounts
    <2> QED
      BY <1>5, <2>1, Types, LoginsKeep
  <1>15. ShownInv' /\ PanelInv'
    BY <1>5, <1>6, <1>7, <1>10, Types, ShownKeep, PanelKeep
  <1>16. ScansInv'
    <2>1. ASSUME NEW s \in Tabs, s # t
          PROVE  Scan(s)'
      <3>1. Waiting(s, "verify", "page")' = Waiting(s, "verify", "page")
        BY <1>9, <2>1 DEF Waiting, Orphan
      <3> QED
        BY <1>7, <2>1, <3>1, Types DEF ScansInv, Scan
    <2>2. Waiting(t, "verify", "page")' = {}
      BY <1>11 DEF Waiting
    <2>3. Scan(t)'
      BY <1>7, <2>2 DEF Scan
    <2> QED
      BY <2>1, <2>3 DEF ScansInv
  <1>17. TypeOK'
    BY <1>4, <1>5, <1>6, <1>7, <1>8, Types DEF TypeOK, BrowserTypeOK, CallsTypeOK, Desks
  <1> QED
    BY <1>8, <1>10, <1>12, <1>13, <1>14, <1>15, <1>16, <1>17 DEF ScreensInv

-----------------------------------------------------------------------------
(* The invariant, and what follows from it. *)

LEMMA ScreensStart == ScreensInit => ScreensInv
  <1> SUFFICES ASSUME ScreensInit
               PROVE  ScreensInv
    OBVIOUS
  <1>1. /\ store = [t \in Tabs |-> Nil] /\ local = [t \in Tabs |-> Nil]
        /\ page = [t \in Tabs |-> "Login"] /\ nav = [t \in Tabs |-> Nil]
        /\ call = [k \in Slots |-> Nil] /\ ticket = [c \in Codes |-> Unissued]
        /\ visit = [c \in Codes |-> Nil] /\ due = [t \in Tabs |-> FALSE]
        /\ code = [t \in Tabs |-> Nil] /\ desk = [t \in Tabs |-> NewDesk]
        /\ stray = [t \in Tabs |-> "off"] /\ seatedBy = [c \in Codes |-> Nil]
    BY ScreensAssumption DEF ScreensInit, BrowserInit, TicketInit
  <1>2. NewDesk = [verifying |-> FALSE, result |-> Nil, camera |-> "off"] /\ "Login" \in Pages
        /\ "off" \in Cameras
    BY DEF NewDesk, Pages, Cameras
  <1>3. TypeOK /\ CallsTypeOK
    <2>1. BrowserTypeOK
      BY <1>1, <1>2 DEF BrowserTypeOK
    <2>2. \A k \in Slots : call[k] = Nil
      BY <1>1
    <2>3. /\ due \in [Tabs -> BOOLEAN] /\ code \in [Tabs -> Codes \cup {Nil}]
          /\ stray \in [Tabs -> Cameras] /\ seatedBy \in [Codes -> Tabs \cup {Nil}]
      BY <1>1, <1>2
    <2>4. desk \in [Tabs -> [verifying : BOOLEAN, result : Codes \cup {Nil}, camera : Cameras]]
      BY <1>1, <1>2
    <2> QED
      BY <1>1, <2>1, <2>2, <2>3, <2>4 DEF TypeOK, CallsTypeOK
  <1>4. RoutesInv
    BY <1>1, <1>2, GuardHome DEF RoutesInv
  <1>5. LoginsInv /\ CallsInv /\ ShownInv /\ PanelInv
    BY <1>1, <1>2 DEF LoginsInv, IsLogin, CallsInv, Underway, ShownInv, PanelInv
  <1>6. TicketsInv
    <2>1. Unissued \in [life : Lives, for : Reservations \cup {Nil}]
      BY ScreensAssumption DEF Unissued, Lives
    <2>2. Issued = {}
      BY <1>1 DEF Issued
    <2> QED
      BY <1>1, <2>1, <2>2 DEF TicketsInv
  <1>7. ScansInv
    BY <1>1, <1>2 DEF ScansInv, Scan, Waiting
  <1> QED
    BY <1>3, <1>4, <1>5, <1>6, <1>7 DEF ScreensInv

LEMMA ScreensStep == ScreensInv /\ [ScreensNext]_vars => ScreensInv'
  <1> SUFFICES ASSUME ScreensInv, [ScreensNext]_vars
               PROVE  ScreensInv'
    OBVIOUS
  <1>1. ASSUME NEW t \in Tabs, Person(t)
        PROVE  ScreensInv'
    <2>1. ASSUME (\E name \in Pages : Visit(t, name)) \/ LogOut(t), UNCHANGED <<tvars, screenVars>>
          PROVE  ScreensInv'
      BY <2>1, LeaveKeeps
    <2>2. ASSUME NEW u \in Users, LogIn(t, u), UNCHANGED <<tvars, screenVars>>
          PROVE  ScreensInv'
      BY <2>2, LogInKeeps
    <2>3. CASE Regenerate(t) \/ \E i \in Reservations : OnGenerate(t, i)
      BY <2>3, PagesSendKeep
    <2>4. ASSUME NEW c \in Issued, Submit(t, c)
          PROVE  ScreensInv'
      BY <2>4, SubmitKeeps
    <2>5. CASE Reset(t)
      BY <2>5, DeskKeeps
    <2>6. ASSUME NEW name \in {Guard(local[t], n) : n \in Pages}, LoadAgain(t, name)
          PROVE  ScreensInv'
      BY <2>6, LoadAgainKeeps
    <2> QED
      BY <1>1, <2>1, <2>2, <2>3, <2>4, <2>5, <2>6 DEF Person
  <1>2. ASSUME NEW t \in Tabs, Page(t)
        PROVE  ScreensInv'
    BY <1>2, OpenKeeps, PagesSendKeep, DeskKeeps DEF Page
  <1>3. ASSUME NEW k \in Slots, Served(k)
        PROVE  ScreensInv'
    BY <1>3, RefusalKeeps, GenerateKeeps, FetchMineKeeps, VerifyKeeps DEF Served
  <1>4. ASSUME NEW k \in Slots, Heard(k)
        PROVE  ScreensInv'
    BY <1>4, HearLoginKeeps, LoginLostKeeps, HearCodeKeeps, HearVerifyKeeps, CallLostKeeps DEF Heard
  <1>5. CASE Elsewhere \/ UNCHANGED vars
    BY <1>5, ElsewhereKeeps
  <1> QED
    BY <1>1, <1>2, <1>3, <1>4, <1>5 DEF ScreensNext

(* The inductive invariant of the pages, the calls they wait for and the admin's panel. *)
THEOREM ScreensInvariant == ScreensSpec => []ScreensInv
  BY ScreensStart, ScreensStep, PTL DEF ScreensSpec

(* Every variable of the tabs keeps its type, calls under way and cameras included. *)
THEOREM ScreensTypeOK == ScreensSpec => []TypeOK
  <1>1. ScreensInv => TypeOK
    BY DEF ScreensInv
  <1> QED
    BY <1>1, ScreensInvariant, PTL

(* A tab that has come to rest shows a page its login opens (resolveRouteGuard), whatever *)
(* order logins, logouts, 401s, reloads and navigations came in.                          *)
THEOREM ScreensPagesFitTheUser == ScreensSpec => []PagesFitTheUser
  <1>1. ScreensInv => PagesFitTheUser
    <2> SUFFICES ASSUME ScreensInv, NEW t \in Tabs, nav[t] = Nil
                 PROVE  /\ page[t] \in Pages
                        /\ page[t] = "Login" <=> store[t] = Nil
                        /\ page[t] = "BootCode" => Role[store[t]] = "member"
                        /\ page[t] = "ScanBoot" => Role[store[t]] \in {"admin", "staff"}
      BY DEF PagesFitTheUser
    <2>1. PICK u \in Users \cup {Nil} : u = store[t]
      BY Types
    <2>2. PICK name \in Pages : name = page[t]
      BY Types DEF RoutesInv
    <2>3. Guard(u, name) = name
      BY <2>1, <2>2, Types DEF RoutesInv
    <2>4. u = Nil => name = "Login"
      BY <2>3, GuardHome
    <2>5. name = "Login" => u = Nil
      BY <2>3, GuardHome
    <2>6. /\ name = "BootCode" => Role[u] = "member"
          /\ name = "ScanBoot" => Role[u] \in {"admin", "staff"}
      BY <2>3, <2>4, GuardHome
    <2> QED
      BY <2>1, <2>2, <2>4, <2>5, <2>6
  <1> QED
    BY <1>1, ScreensInvariant, PTL

(* The boot code a page shows is of the member logged in at the tab (BootCode.vue), though *)
(* answers come late and phones change hands.                                              *)
THEOREM ScreensCodesStayWithTheirMember == ScreensSpec => []CodesStayWithTheirMember
  <1>1. ScreensInv => CodesStayWithTheirMember
    BY Types DEF CodesStayWithTheirMember, ShownInv, BelongsTo
  <1> QED
    BY <1>1, ScreensInvariant, PTL

(* The panel of a desk tells of a seat that its own scan gave (ScanBoot.vue), whatever was *)
(* late, lost or scanned elsewhere as well.                                                *)
THEOREM ScreensPanelTellsTheTruth == ScreensSpec => []PanelTellsTheTruth
  <1>1. ScreensInv => PanelTellsTheTruth
    BY Types DEF PanelTellsTheTruth, PanelInv, SeatedAt
  <1> QED
    BY <1>1, ScreensInvariant, PTL

(* A desk waits for one scan at most, and for none once its button is on again. *)
THEOREM ScreensOneScanAtATime == ScreensSpec => []OneScanAtATime
  <1>1. ScreensInv => OneScanAtATime
    <2> SUFFICES ASSUME ScreensInv, NEW t \in Tabs
                 PROVE  Cardinality(Waiting(t, "verify", "page")) = IF desk[t].verifying THEN 1 ELSE 0
      BY DEF OneScanAtATime
    <2>1. CASE desk[t].verifying
      <3>1. PICK k \in Slots : Waiting(t, "verify", "page") = {k}
        BY <2>1, Types DEF ScansInv, Scan
      <3> QED
        BY <2>1, <3>1, FS_Singleton
    <2>2. CASE ~desk[t].verifying
      <3>1. Waiting(t, "verify", "page") = {}
        BY <2>2, Types DEF ScansInv, Scan
      <3> QED
        BY <2>2, <3>1, FS_EmptySet
    <2> QED
      BY <2>1, <2>2
  <1> QED
    BY <1>1, ScreensInvariant, PTL
=============================================================================
