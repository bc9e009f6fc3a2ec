----------------------------- MODULE MCHallPool -----------------------------
(* A small instance of HallPool for TLC. *)
EXTENDS HallPool
CONSTANTS r1, r2, r3

OneSlot     == {<<1, 2>>}
MCBalance0  == [u \in Users |-> 1]
MCPackage0  == [u \in Users |-> 1]

(* Requests differ by nothing but their names: let them arrive in the order of these. *)
InOrder == \A p \in {<<r1, r2>>, <<r2, r3>>} : req[p[1]].pc = "new" => req'[p[2]].pc = "new"
(* The refusals of a broken station or a member who may not play only end requests sooner. *)
MCInit  == /\ PoolInit
           /\ \A u \in Users : user[u].eligible
           /\ \A s \in Stations : station[s] # "fault"
MCSpec  == MCInit /\ [][PoolNext /\ InOrder]_poolVars /\ PoolFairness
=============================================================================
