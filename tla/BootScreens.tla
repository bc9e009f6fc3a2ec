---------------------------- MODULE BootScreens ----------------------------
(***************************************************************************)
(* The two pages of the boot codes in the browsers: BootCode, where a      *)
(* member fetches a code and shows it, and ScanBoot, where staff scan it.  *)
(* The server is BootTicket, which BootCode implements, and the desk of    *)
(* the reservations; a visit goes by the code that opened it.  Time is     *)
(* left out: codes lapse at any moment, and one code may be scanned again  *)
(* as soon as the page takes codes.                                        *)
(***************************************************************************)
EXTENDS Browser, BootTicket, FiniteSets

CONSTANT Owner   \* Owner[i]: the member of reservation i

ASSUME ScreensAssumption ==
  /\ Visits = Codes /\ Contents = Codes \cup Reservations /\ Nobody = Nil
  /\ Owner \in [Reservations -> {u \in Users : Role[u] = "member"}]

VARIABLES
  due,        \* due[t]: BootCode was opened and has not asked for the current code yet
  code,       \* code[t]: the code it shows
  desk,       \* desk[t]: ScanBoot: verifying, result, and its camera
  stray,      \* stray[t]: a camera that runs on although its page was left
  seatedBy    \* history: the tab whose scan used the code, Nil if elsewhere

screenVars == <<due, code, desk, stray, seatedBy>>
vars == <<browserVars, tvars, screenVars>>

(* "loose": scanning, but the page does not know. *)
Cameras == {"off", "starting", "on", "loose"}
NewDesk == [verifying |-> FALSE, result |-> Nil, camera |-> "off"]

Issued == {c \in Codes : ticket[c] # Unissued}
Mine(u) == {c \in Codes : ticket[c].life = "active" /\ Owner[ticket[c].for] = u}
IsMember(u) == u # Nil /\ Role[u] = "member"
IsStaffOrAdmin(u) == u # Nil /\ Role[u] \in {"staff", "admin"}

-----------------------------------------------------------------------------
(* The server. *)

(* POST /boot-codes *)
Generate(k) ==
  /\ Unserved(k) /\ call[k].kind = "generate"
  /\ IsMember(call[k].who) /\ Owner[call[k].what] = call[k].who
  /\ \E c \in Codes : Issue(c, call[k].what) /\ Respond(k, "ok", c)
  /\ UNCHANGED <<store, local, page, nav, screenVars>>

(* GET /boot-codes/mine: the latest active code; none if its five minutes are over. *)
FetchMine(k) ==
  /\ Unserved(k) /\ call[k].kind = "mine" /\ IsMember(call[k].who)
  /\ \E c \in Mine(call[k].who) \cup {Nil} : Respond(k, "ok", c)
  /\ UNCHANGED <<store, local, page, nav, tvars, screenVars>>

(* POST /boot-codes/verify *)
Verify(k) ==
  /\ Unserved(k) /\ call[k].kind = "verify" /\ IsStaffOrAdmin(call[k].who)
  /\ LET c == call[k].what IN
       /\ Redeem(c, c)
       /\ Respond(k, "ok", c)
       /\ seatedBy' = [seatedBy EXCEPT ![c] = call[k].tab]
  /\ UNCHANGED <<store, local, page, nav, due, code, desk, stray>>

-----------------------------------------------------------------------------
(* BootCode.vue *)

(* onMounted, when the stations have come: loadMine. *)
LoadMine(t) ==
  /\ page[t] = "BootCode" /\ due[t]
  /\ Send(t, "mine", "page", local[t], Nil)
  /\ due' = [due EXCEPT ![t] = FALSE]
  /\ UNCHANGED <<store, local, page, nav, tvars, code, desk, stray, seatedBy>>

(* onGenerate: one of the reservations listed; a second click is not kept out. *)
OnGenerate(t, i) ==
  /\ page[t] = "BootCode" /\ ~due[t] /\ code[t] = Nil
  /\ store[t] # Nil /\ Owner[i] = store[t]
  /\ Send(t, "generate", "page", local[t], i)
  /\ UNCHANGED <<store, local, page, nav, tvars, screenVars>>

(* regenerate, for the reservation of the code on show. *)
Regenerate(t) ==
  /\ page[t] = "BootCode" /\ code[t] # Nil /\ store[t] # Nil
  /\ Send(t, "generate", "page", local[t], ticket[code[t]].for)
  /\ UNCHANGED <<store, local, page, nav, tvars, screenVars>>

(* Faulty: what comes with an error is shown as well. *)
HearCodeAnyway(k) ==
  LET t == call[k].tab IN
  /\ Answered(k) /\ call[k].kind \in {"mine", "generate"}
  /\ code' = IF call[k].from = "page" THEN [code EXCEPT ![t] = call[k].what] ELSE code
  /\ Intercept(k) /\ Forget(k)
  /\ UNCHANGED <<store, page, tvars, due, desk, stray, seatedBy>>

(* The answer is shown, the later one heard over the earlier one; an error changes nothing. *)
HearCode(k) ==
  LET t == call[k].tab IN
  /\ Answered(k) /\ call[k].kind \in {"mine", "generate"}
  /\ code' = IF call[k].from = "page" /\ call[k].ans = "ok"
             THEN [code EXCEPT ![t] = call[k].what] ELSE code
  /\ Intercept(k) /\ Forget(k)
  /\ UNCHANGED <<store, page, tvars, due, desk, stray, seatedBy>>

-----------------------------------------------------------------------------
(* ScanBoot.vue *)

(* scanner.start: the camera runs, or cannot. *)
CameraStarts(t) ==
  /\ \/ /\ desk[t].camera = "starting"
        /\ \E c \in {"on", "off"} : desk' = [desk EXCEPT ![t].camera = c]
        /\ UNCHANGED stray
     \/ /\ stray[t] = "starting"
        /\ \E c \in {"on", "off"} : stray' = [stray EXCEPT ![t] = c]
        /\ UNCHANGED desk
  /\ UNCHANGED <<browserVars, tvars, due, code, seatedBy>>

(* submit: typed, while there is a field to type in, or scanned; nothing while verifying. *)
Submit(t, c) ==
  /\ page[t] = "ScanBoot" /\ ~desk[t].verifying
  /\ desk[t].camera \in {"on", "loose"} \/ (desk[t].result = Nil /\ store[t] # Nil)
  /\ Send(t, "verify", "page", local[t], c)
  /\ desk' = [desk EXCEPT ![t].verifying = TRUE]
  /\ UNCHANGED <<store, local, page, nav, tvars, due, code, stray, seatedBy>>

(* The same by a camera whose page was left. *)
StraySubmit(t, c) ==
  /\ stray[t] \in {"on", "loose"} /\ Waiting(t, "verify", "stray") = {}
  /\ Send(t, "verify", "stray", local[t], c)
  /\ UNCHANGED <<store, local, page, nav, tvars, screenVars>>

(* stopScanner stops a camera that the page knows to be on. *)
Stopped(camera) == IF camera = "on" THEN "off" ELSE camera

(* Faulty: a failed scan looks like one that worked. *)
AfterAnyScan(d, ok, c) == [verifying |-> FALSE, result |-> c, camera |-> Stopped(d.camera)]

(* Faulty: verifying is reset only when the scan worked. *)
AfterScanNoReset(d, ok, c) ==
  IF ok THEN [verifying |-> FALSE, result |-> c, camera |-> Stopped(d.camera)] ELSE d

(* submit goes on: the result replaces the scanner; an error leaves the scanner as it was. *)
AfterScan(d, ok, c) ==
  IF ok THEN [verifying |-> FALSE, result |-> c, camera |-> Stopped(d.camera)]
        ELSE [d EXCEPT !.verifying = FALSE]

HearVerify(k) ==
  LET t == call[k].tab  from == call[k].from  ok == call[k].ans = "ok" IN
  /\ Answered(k) /\ call[k].kind = "verify"
  /\ desk' = IF from = "page" THEN [desk EXCEPT ![t] = AfterScan(@, ok, call[k].what)] ELSE desk
  /\ stray' = IF from = "stray" /\ ok THEN [stray EXCEPT ![t] = Stopped(@)] ELSE stray
  /\ Intercept(k) /\ Forget(k)
  /\ UNCHANGED <<store, page, tvars, due, code, seatedBy>>

(* reset: back to the scanner, which cannot start, for its element is not there yet; the *)
(* page takes the camera to be off.                                                      *)
Reset(t) ==
  /\ page[t] = "ScanBoot" /\ desk[t].result # Nil
  /\ desk' = [desk EXCEPT ![t].result = Nil,
                          ![t].camera = IF @ = "on" THEN "loose" ELSE @]
  /\ UNCHANGED <<browserVars, tvars, due, code, stray, seatedBy>>

-----------------------------------------------------------------------------
(* A call that is not answered; the page goes on as after any error. *)
CallLost(k) ==
  /\ call[k] # Nil /\ call[k].kind # "login" /\ call[k].from # "nobody"
  /\ GiveUp(k)
  /\ desk' = IF call[k].kind = "verify" /\ call[k].from = "page"
             THEN [desk EXCEPT ![call[k].tab] = AfterScan(@, FALSE, Nil)] ELSE desk
  /\ UNCHANGED <<store, local, page, nav, tvars, due, code, stray, seatedBy>>

(* onUnmounted of the old page and onMounted of the new one.  A camera that is still     *)
(* starting is not stopped.  Bound: one stray camera per tab.                            *)
Open(t) ==
  LET name   == nav[t]
      camera == Stopped(desk[t].camera)
  IN  /\ Arrive(t, IF camera = "off" THEN "left" ELSE "stray")
      /\ due' = [due EXCEPT ![t] = (name = "BootCode")]
      /\ code' = [code EXCEPT ![t] = Nil]
      /\ desk' = [desk EXCEPT ![t] = [NewDesk EXCEPT !.camera =
                                        IF name = "ScanBoot" THEN "starting" ELSE "off"]]
      /\ camera = "off" \/ stray[t] = "off"
      /\ stray' = IF camera = "off" THEN stray ELSE [stray EXCEPT ![t] = camera]
      /\ UNCHANGED <<tvars, seatedBy>>

(* The tab is loaded again: nothing of its pages is left. *)
LoadAgain(t, name) ==
  /\ Reload(t, name)
  /\ due' = [due EXCEPT ![t] = FALSE] /\ code' = [code EXCEPT ![t] = Nil]
  /\ desk' = [desk EXCEPT ![t] = NewDesk] /\ stray' = [stray EXCEPT ![t] = "off"]
  /\ UNCHANGED <<tvars, seatedBy>>

-----------------------------------------------------------------------------
ScreensInit ==
  /\ BrowserInit /\ TicketInit
  /\ due = [t \in Tabs |-> FALSE] /\ code = [t \in Tabs |-> Nil]
  /\ desk = [t \in Tabs |-> NewDesk] /\ stray = [t \in Tabs |-> "off"]
  /\ seatedBy = [c \in Codes |-> Nil]

(* What the person at tab t does. *)
Person(t) ==
  \/ /\ \/ \E name \in Pages : Visit(t, name)
        \/ \E u \in Users : LogIn(t, u)
        \/ LogOut(t)
     /\ UNCHANGED <<tvars, screenVars>>
  \/ \E i \in Reservations : OnGenerate(t, i)
  \/ Regenerate(t)
  \/ \E c \in Issued : Submit(t, c)
  \/ Reset(t)
  \/ \E name \in {Guard(local[t], n) : n \in Pages} : LoadAgain(t, name)

(* What the browser does of itself. *)
Page(t) == Open(t) \/ LoadMine(t) \/ CameraStarts(t) \/ \E c \in Issued : StraySubmit(t, c)

Served(k) ==
  \/ (Unauthorized(k) \/ Refused(k) \/ LoginServed(k)) /\ UNCHANGED <<tvars, screenVars>>
  \/ Generate(k) \/ FetchMine(k) \/ Verify(k)

Heard(k) ==
  \/ (HearLogin(k) \/ LoginLost(k)) /\ UNCHANGED <<tvars, screenVars>>
  \/ HearCode(k) \/ HearVerify(k) \/ CallLost(k)

(* The reservation desk saves rows it read earlier: Cancel and CheckIn close a reservation, *)
(* and Confirm opens it again, even if a scan has closed it since the row was read.         *)
DeskSaves(i) ==
  /\ bookable' \in {bookable \ {i}, bookable \cup {i}}
  /\ UNCHANGED <<ticket, visit>>

(* Codes are made and scanned at tabs that are not in Tabs, and lapse. *)
Elsewhere ==
  /\ \/ \E c \in Codes : Redeem(c, c) \/ Lapse(c) \/ \E i \in Reservations : Issue(c, i)
     \/ \E i \in Reservations : DeskSaves(i)
  /\ UNCHANGED <<browserVars, screenVars>>

ScreensNext ==
  \/ \E t \in Tabs : Person(t) \/ Page(t)
  \/ \E k \in Slots : Served(k) \/ Heard(k)
  \/ Elsewhere

ScreensSpec == ScreensInit /\ [][ScreensNext]_vars

-----------------------------------------------------------------------------
TypeOK ==
  /\ BrowserTypeOK
  /\ \A k \in Slots : call[k] = Nil \/ call[k] \in Calls
  /\ due \in [Tabs -> BOOLEAN] /\ code \in [Tabs -> Codes \cup {Nil}]
  /\ desk \in [Tabs -> [verifying : BOOLEAN, result : Codes \cup {Nil}, camera : Cameras]]
  /\ stray \in [Tabs -> Cameras] /\ seatedBy \in [Codes -> Tabs \cup {Nil}]

(* A phone that changes hands never shows the boot code of its last user, though answers *)
(* to the calls of one are heard after the next has logged in.                           *)
CodesStayWithTheirMember ==
  \A t \in Tabs : code[t] # Nil /\ store[t] # Nil => Owner[ticket[code[t]].for] = store[t]

(* "Boot succeeded" at a desk is the truth: the code on the panel is used up, it gave its *)
(* reservation the visit, and it was this desk's scan that did, whatever answers were     *)
(* late or lost, whoever scanned the code as well and whatever the reservation desk has   *)
(* saved over the reservation since.                                                      *)
PanelTellsTheTruth ==
  \A t \in Tabs : LET c == desk[t].result IN
    c # Nil => /\ ticket[c].life = "used" /\ visit[c] = ticket[c].for
               /\ seatedBy[c] = t

(* A desk has one scan under way at most, and a scan that failed, was refused or got lost *)
(* does not leave the button off.                                                         *)
OneScanAtATime ==
  \A t \in Tabs : Cardinality(Waiting(t, "verify", "page")) =
                    (IF desk[t].verifying THEN 1 ELSE 0)
=============================================================================
