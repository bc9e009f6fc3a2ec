---------------------------- MODULE MCTournament ----------------------------
(* Small instances of Tournament for TLC. *)
EXTENDS Tournament, TLC
CONSTANTS e1, u1, u2, u3, t1   \* u3 leads t1 and has not registered yet

MCLeader == [team \in Teams |-> u3]
MCEntry0 == [e \in Enrolled |-> [user |-> IF e = e1 THEN u1 ELSE u2, team |-> Nil, group |-> 0]]
=============================================================================
