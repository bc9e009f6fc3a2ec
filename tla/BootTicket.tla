----------------------------- MODULE BootTicket -----------------------------
(***************************************************************************)
(* What the boot codes promise, with no requests, locks or clock: a code   *)
(* is issued for a bookable reservation and replaces the live ones, and    *)
(* redeeming a live code is one indivisible step that closes the           *)
(* reservation and seats the member.                                       *)
(***************************************************************************)
CONSTANTS Codes, Reservations, Visits, Nobody

VARIABLES
  ticket,   \* ticket[c]: the life of code c, and the reservation it is for
  bookable, \* the reservations that may still be booted
  visit     \* visit[v]: the reservation of a visit to the hall, or Nobody

tvars == <<ticket, bookable, visit>>

Unissued == [life |-> "none", for |-> Nobody]
Live(i)  == {c \in Codes : ticket[c] = [life |-> "active", for |-> i]}

TicketInit == /\ ticket = [c \in Codes |-> Unissued]
              /\ bookable = Reservations
              /\ visit = [v \in Visits |-> Nobody]

Issue(c, i) ==
  /\ ticket[c] = Unissued
  /\ i \in bookable
  /\ ticket' = [d \in Codes |-> IF d = c THEN [life |-> "active", for |-> i]
                                ELSE IF d \in Live(i) THEN [life |-> "cancelled", for |-> i]
                                ELSE ticket[d]]
  /\ UNCHANGED <<bookable, visit>>

Redeem(c, v) ==
  /\ ticket[c].life = "active" /\ ticket[c].for \in bookable
  /\ visit[v] = Nobody
  /\ ticket' = [ticket EXCEPT ![c].life = "used"]
  /\ bookable' = bookable \ {ticket[c].for}
  /\ visit' = [visit EXCEPT ![v] = ticket[c].for]

Lapse(c) ==
  /\ ticket[c].life = "active"
  /\ ticket' = [ticket EXCEPT ![c].life = "expired"]
  /\ UNCHANGED <<bookable, visit>>

TicketNext == \/ \E c \in Codes, i \in Reservations : Issue(c, i)
              \/ \E c \in Codes, v \in Visits : Redeem(c, v)
              \/ \E c \in Codes : Lapse(c)

TicketSpec == TicketInit /\ [][TicketNext]_tvars
=============================================================================
