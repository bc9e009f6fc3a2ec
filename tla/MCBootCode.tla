----------------------------- MODULE MCBootCode -----------------------------
(* A small instance of BootCode for TLC. *)
EXTENDS BootCodeInvariant, TLC

MidSlot    == {<<1, 3>>}
MCBalance0 == [u \in Users |-> 2]
MCPackage0 == [u \in Users |-> 1]
Symmetry   == Permutations(Requests) \cup Permutations(Codes) \cup Permutations(Booked)

(* All requests are answered and time is up: nothing is left to happen. *)
Finished == /\ \A r \in Requests : req[r].pc = "done"
            /\ clock = MaxTime
            /\ UNCHANGED vars
MCNext == BootNext \/ Finished
(* The refusals of a broken station or a member who may not play only end requests sooner, *)
(* and every check of a boot code takes a reserved station for an idle one.                *)
MCInit == /\ BootInit
          /\ \A u \in Users : user[u].eligible
          /\ \A s \in Stations : station[s] = "idle"
MCSpec == MCInit /\ [][MCNext]_vars
=============================================================================
