------------------------------ MODULE MCWallet ------------------------------
(* Small instances of Wallet for TLC. *)
EXTENDS Wallet, TLC
CONSTANT o1    \* the package that expires first

Minutes(n)  == n * 5
Coins(n)    == n * Cent
Shifts      == {Minutes(20), Minutes(60)}     \* a third of an hour is no decimal(10,2)
TopUps      == {Coins(500)}
NewPrices   == {Coins(700)}
MCBalance0  == [u \in Users |-> Coins(600)]
MCOwned0    == [p \in Owned |-> [status |-> "active", user |-> CHOOSE u \in Users : TRUE,
                                 total |-> Hour, left |-> IF p = o1 THEN 99 ELSE 150,
                                 expire |-> IF p = o1 THEN 0 ELSE 1]]
MCProduct0  == [p \in Products |-> [status |-> "active", price |-> Coins(400), hours |-> Hour,
                                    days |-> 1]]
Symmetry    == Permutations(Requests)

Finished == /\ \A r \in Requests : req[r].pc = "done"
            /\ clock = MaxTime
            /\ UNCHANGED vars
MCSpec == WalletInit /\ [][WalletNext \/ Finished]_vars
=============================================================================
