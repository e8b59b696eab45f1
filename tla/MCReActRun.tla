----------------------------- MODULE MCReActRun -----------------------------
(* ReActRun on small instances.                                            *)
EXTENDS ReActRun, TLC

CONSTANTS read, write, p1, p2

\* One repeatable call on which the policy may say anything, and one
\* non-idempotent call that always needs an approval.
MCEffectClass == [c \in Calls |-> IF c = read THEN "read_only" ELSE "non_idempotent"]
MCPolicy      == [c \in Calls |-> IF c = read THEN Decisions ELSE {"require_approval"}]

Symmetry == Permutations(Procs)
=============================================================================
