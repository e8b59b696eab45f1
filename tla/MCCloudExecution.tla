-------------------------- MODULE MCCloudExecution --------------------------
(* CloudExecution on a small instance.                                     *)
EXTENDS CloudExecution, TLC

CONSTANTS w1, w2, owner, boss, org

MCDecision == [k \in Steps |-> CASE k = 0 -> "approve" [] k = 1 -> "deny" [] OTHER -> "allow"]
MCReserve  == [model |-> 1, tool |-> 1]
MCSpend    == [model |-> 2, tool |-> 2]
Symmetry   == Permutations(Workers)
=============================================================================
