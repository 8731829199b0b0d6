---------------------------- MODULE MCCheckDeposit ----------------------------
(* Small instances of CheckDeposit.                                        *)
EXTENDS CreditRefinement, FiniteSets, TLC

Symmetry == Permutations(Deposits) \cup Permutations(Reviews)

(* Clients that wait for one submission to be answered before the next.    *)
InFlight == {d \in Deposits : pc[d] \notin {"idle", "done"}}

SerialSpec == Init /\ [][Next /\ Cardinality(InFlight') <= 1]_vars
===============================================================================
