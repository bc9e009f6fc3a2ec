----------------------------- MODULE MCScreens -----------------------------
(* A small instance of BootScreens for TLC: two members and the staff share a tablet. *)
EXTENDS BootScreens, TLC
CONSTANTS amy, bob, sue
MCRole  == amy :> "member" @@ bob :> "member" @@ sue :> "staff"
MCOwner == [i \in Reservations |-> amy]
Symmetry == Permutations(Codes) \cup Permutations(Slots)

CodesLeft == \E c \in Codes : ticket[c].life \in {"none", "active"}
Visited   == {visit[v] : v \in Visits} \ {Nobody}

(* Bound: the desk closes a reservation or opens it again only after a visit, and leaves *)
(* it open only while a code is left to be scanned for it; not every code comes to       *)
(* nothing; and one call at most is under way that no page hears.                        *)
Bound ==
  /\ Reservations \ Visited \subseteq bookable
  /\ bookable \cap Visited # {} => CodesLeft
  /\ CodesLeft \/ Visited # {}
  /\ \E k \in Slots : \A j \in Slots \ {k} : call[j] = Nil \/ call[j].from = "page"
=============================================================================
