---------------------------- MODULE MCParallelRuns ----------------------------
(* ParallelRuns on small instances.                                        *)
EXTENDS ParallelRuns, TLC

CONSTANTS r1, r2, draft, check, write, other

\* Two calls and a tool that needs the first of them, against the call of another run.
ToolGraph == (r1 :> <<draft, write, check>>) @@ (r2 :> <<other>>)
ToolDeps  == [n \in Node |-> IF n = write THEN {draft} ELSE {}]

\* A call and a tool that needs it, against the call of another run.
BarrierGraph == (r1 :> <<draft, write>>) @@ (r2 :> <<other>>)

\* One call of each run.
CallGraph == (r1 :> <<draft>>) @@ (r2 :> <<other>>)
CallDeps  == [n \in Node |-> {}]
=============================================================================
