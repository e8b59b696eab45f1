---------------------------- MODULE MCCloudCalls ----------------------------
(* CloudCalls and its budget on small instances.                           *)
EXTENDS CloudBudget, TLC

CONSTANTS c1, c2, w1, w2, a1, a2, owner, boss, org

MCReserve == [c \in Calls |-> IF c = c2 THEN 2 ELSE 1]
Symmetry  == Permutations(Workers) \cup Permutations(Approvals)
=============================================================================
