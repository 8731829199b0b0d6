----------------------------- MODULE MCSettlement -----------------------------
(* Small instances of Settlement.                                          *)
EXTENDS SettlementRefinement, FiniteSets, TLC

CONSTANTS d1, d2, d3

(* Two deposits of the first day, one of the second.                       *)
MCCreatedAt == [d \in Deposits |-> IF d = d3 THEN 2 ELSE 1]

Symmetry == Permutations(Runs) \cup Permutations(Retries)

(* An operator who waits for a run to end before triggering the next.      *)
Running == {r \in Runs : pc[r] \notin {"idle", "done"}}
SerialNext == Next /\ Cardinality(Running') <= 1
SerialSpec == Init /\ [][SerialNext]_vars
===============================================================================
