------------------------------- MODULE MCHall -------------------------------
(* Small instances of Hall for TLC. *)
EXTENDS Hall, TLC

OneSlot     == {<<1, 2>>}
MCBalance0  == [u \in Users |-> 1]
MCPackage0  == [u \in Users |-> 1]
Symmetry    == Permutations(Requests) \cup Permutations(Codes)

Finished == /\ \A r \in Requests : req[r].pc = "done"
            /\ clock = MaxTime
            /\ UNCHANGED vars
MCSpec == HallInit /\ [][HallNext \/ Finished]_vars
=============================================================================
