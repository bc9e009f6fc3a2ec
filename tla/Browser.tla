------------------------------ MODULE Browser ------------------------------
(***************************************************************************)
(* The frontend in the browsers of the hall: one tab each, with the login  *)
(* in the Pinia store and in localStorage, the router and its guard, and   *)
(* API calls that are answered late, not at all, or after the page that    *)
(* made them was left.  Each tab is in a browser of its own.  Login and    *)
(* registration look the same from here; the pages open to every role are  *)
(* one page, Dashboard; calls that only fill lists are left out.           *)
(***************************************************************************)
CONSTANTS
  Tabs,
  Users, Role,   \* user names and the role of each
  Contents,      \* what a call asks for or brings
  Slots,         \* bound: API calls under way at once
  Nil

Roles == {"member", "staff", "admin"}

ASSUME RoleAssumption   == Role \in [Users -> Roles]
ASSUME NobodyAssumption == Nil \notin Users \cup Contents

VARIABLES
  store,   \* store[t]: whose token and profile the store of the tab holds
  local,   \* local[t]: the same of its localStorage
  page,    \* page[t]: the page shown, Nil while the application loads
  nav,     \* nav[t]: the page the router is on its way to, Nil if none
  call     \* call[k]: an API call, from when it is sent to when it is heard

browserVars == <<store, local, page, nav, call>>

-----------------------------------------------------------------------------
Pages == {"Login", "Dashboard", "BootCode", "ScanBoot"}

(* meta.roles of the routes *)
Admits(name) == CASE name = "BootCode" -> {"member"}
                  [] name = "ScanBoot" -> {"admin", "staff"}
                  [] OTHER -> Roles

(* Faulty: the roles of the page are not looked at. *)
GuardIgnoringRoles(u, name) ==
  CASE name # "Login" /\ u = Nil -> "Login"
    [] name = "Login" /\ u # Nil -> "Dashboard"
    [] OTHER -> name

(* resolveRouteGuard: where a tab that holds the login of u gets to that asks for a page. *)
Guard(u, name) ==
  CASE name # "Login" /\ u = Nil -> "Login"
    [] name = "Login" /\ u # Nil -> "Dashboard"
    [] u # Nil /\ Role[u] \notin Admits(name) -> "Dashboard"
    [] OTHER -> name

(* router.push: a later push gives up an earlier navigation; going where one is does nothing. *)
Push(t, u, name) ==
  nav' = [nav EXCEPT ![t] = IF Guard(u, name) = page[t] THEN Nil ELSE Guard(u, name)]

(* A link, the tab bar or the back button. *)
Visit(t, name) ==
  /\ page[t] \notin {Nil, "Login"} /\ name # page[t]
  /\ Push(t, store[t], name)
  /\ UNCHANGED <<store, local, page, call>>

-----------------------------------------------------------------------------
(* API calls. *)
Kinds == {"login", "mine", "generate", "verify"}
Calls == [tab : Tabs, kind : Kinds,
          who : Users \cup {Nil},      \* the token sent along, from localStorage
          from : {"page", "left", "stray", "nobody"},   \* who waits for it
          ans : {"none", "ok", "refused", "unauthorized"},
          what : Contents \cup {Nil}]  \* asked for, then brought

ASSUME NothingAssumption == Nil \notin Pages /\ Nil \notin Calls

(* The calls tab t waits for from that page. *)
Waiting(t, kind, from) ==
  {k \in Slots : call[k] # Nil /\ call[k].tab = t /\ call[k].kind = kind /\ call[k].from = from}

Answered(k) == call[k] # Nil /\ call[k].ans # "none"
Unserved(k) == call[k] # Nil /\ call[k].ans = "none"

Send(t, kind, from, who, what) ==
  \E k \in Slots :
    /\ call[k] = Nil
    /\ call' = [call EXCEPT ![k] = [tab |-> t, kind |-> kind, who |-> who, from |-> from,
                                    ans |-> "none", what |-> what]]

(* The server answers; if the client has stopped waiting, nobody hears it. *)
Respond(k, ans, what) ==
  call' = [call EXCEPT ![k] = IF @.from = "nobody" THEN Nil
                              ELSE [@ EXCEPT !.ans = ans, !.what = what]]

(* The auth middleware: no token, or one that has expired. *)
Unauthorized(k) ==
  /\ Unserved(k) /\ call[k].kind # "login"
  /\ Respond(k, "unauthorized", call[k].what)
  /\ UNCHANGED <<store, local, page, nav>>

(* Any other error: forbidden, in conflict, over the limit, failed. *)
Refused(k) ==
  /\ Unserved(k)
  /\ Respond(k, "refused", call[k].what)
  /\ UNCHANGED <<store, local, page, nav>>

LoginServed(k) ==
  /\ Unserved(k) /\ call[k].kind = "login"
  /\ Respond(k, "ok", Nil)
  /\ UNCHANGED <<store, local, page, nav>>

Forget(k) == call' = [call EXCEPT ![k] = Nil]

(* It may still be served; logins and listings leave no trace at the server. *)
StillCounts(k) == Unserved(k) /\ call[k].kind \in {"generate", "verify"}

(* The client stops waiting after 15 seconds or loses the connection: the server may *)
(* never have got the call, may still serve it, or has served it.                    *)
GiveUp(k) ==
  \/ Forget(k)
  \/ StillCounts(k) /\ call' = [call EXCEPT ![k].from = "nobody"]

(* The response interceptor: a 401 clears localStorage, not the store, and asks for the *)
(* login page.                                                                          *)
Intercept(k) ==
  LET t == call[k].tab IN
  IF call[k].ans = "unauthorized"
  THEN local' = [local EXCEPT ![t] = Nil] /\ Push(t, store[t], "Login")
  ELSE UNCHANGED <<local, nav>>

-----------------------------------------------------------------------------
(* Login and logout. *)

(* onLogin, onRegister: one at a time, for the button is off while one is under way.     *)
(* Bound: nobody submits the form again while the dashboard loads.                       *)
LogIn(t, u) ==
  /\ page[t] = "Login" /\ nav[t] = Nil
  /\ Waiting(t, "login", "page") = {}
  /\ Send(t, "login", "page", u, Nil)
  /\ UNCHANGED <<store, local, page, nav>>

(* setSession and on to the dashboard. *)
HearLogin(k) ==
  LET t == call[k].tab  u == call[k].who IN
  /\ Answered(k) /\ call[k].kind = "login"
  /\ IF call[k].ans = "ok"
     THEN /\ store' = [store EXCEPT ![t] = u] /\ local' = [local EXCEPT ![t] = u]
          /\ Push(t, u, "Dashboard")
     ELSE UNCHANGED <<store, local, nav>>
  /\ Forget(k)
  /\ UNCHANGED page

LoginLost(k) ==
  /\ call[k] # Nil /\ call[k].kind = "login" /\ call[k].from # "nobody"
  /\ GiveUp(k)
  /\ UNCHANGED <<store, local, page, nav>>

LogOut(t) ==
  /\ page[t] \notin {Nil, "Login"}
  /\ store' = [store EXCEPT ![t] = Nil] /\ local' = [local EXCEPT ![t] = Nil]
  /\ Push(t, Nil, "Login")
  /\ UNCHANGED <<page, call>>

-----------------------------------------------------------------------------
(* Faulty: the new page hears what the old one asked for. *)
ArriveHearing(t, rest) ==
  /\ nav[t] # Nil
  /\ page' = [page EXCEPT ![t] = nav[t]]
  /\ nav' = [nav EXCEPT ![t] = Nil]
  /\ UNCHANGED <<store, local, call>>

(* The page the router was on its way to replaces the one shown.  Calls of the old page  *)
(* stay under way; what is left of the page that hears them is `rest`.                   *)
Arrive(t, rest) ==
  /\ nav[t] # Nil
  /\ page' = [page EXCEPT ![t] = nav[t]]
  /\ nav' = [nav EXCEPT ![t] = Nil]
  /\ call' = [k \in Slots |-> IF call[k] # Nil /\ call[k].tab = t /\ call[k].from = "page"
                              THEN [call[k] EXCEPT !.from = rest] ELSE call[k]]
  /\ UNCHANGED <<store, local>>

(* The tab is loaded again, and the guard lets it go to `name`: the store starts from *)
(* localStorage.                                                                      *)
Reload(t, name) ==
  /\ store' = [store EXCEPT ![t] = local[t]]
  /\ page' = [page EXCEPT ![t] = Nil]
  /\ nav' = [nav EXCEPT ![t] = name]
  /\ call' = [k \in Slots |->
                IF call[k] = Nil \/ call[k].tab # t THEN call[k]
                ELSE IF StillCounts(k) THEN [call[k] EXCEPT !.from = "nobody"] ELSE Nil]
  /\ UNCHANGED local

BrowserInit ==
  /\ store = [t \in Tabs |-> Nil] /\ local = [t \in Tabs |-> Nil]
  /\ page = [t \in Tabs |-> "Login"] /\ nav = [t \in Tabs |-> Nil]
  /\ call = [k \in Slots |-> Nil]

-----------------------------------------------------------------------------
BrowserTypeOK ==
  /\ store \in [Tabs -> Users \cup {Nil}] /\ local \in [Tabs -> Users \cup {Nil}]
  /\ page \in [Tabs -> Pages \cup {Nil}] /\ nav \in [Tabs -> Pages \cup {Nil}]

(* A tab never stays on a page that its login does not open, whatever order logins,       *)
(* logouts, late answers and navigations come in: it shows the login page exactly when    *)
(* nobody is logged in, the boot code to members and the scanner to staff, or is leaving. *)
PagesFitTheUser ==
  \A t \in Tabs : nav[t] = Nil =>
    /\ page[t] \in Pages
    /\ page[t] = "Login" <=> store[t] = Nil
    /\ page[t] = "BootCode" => Role[store[t]] = "member"
    /\ page[t] = "ScanBoot" => Role[store[t]] \in {"admin", "staff"}
=============================================================================
