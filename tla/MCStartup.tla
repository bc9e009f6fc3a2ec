------------------------------ MODULE MCStartup ------------------------------
(* A small instance of Startup for TLC. *)
EXTENDS Startup

SeedsAndGuest == {"admin", "member", "staff", "guest"}

(* All requests are answered and there are no faults left: the server serves on. *)
Finished == /\ process = "serving" /\ faults = MaxFaults
            /\ \A r \in Requests : req[r].pc = "done"
            /\ UNCHANGED vars
MCSpec == Init /\ [][Next \/ Finished]_vars /\ WF_vars(Boot)
=============================================================================
