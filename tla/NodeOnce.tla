------------------------------- MODULE NodeOnce -------------------------------
(***************************************************************************)
(* What a durable run (R2) promises of its nodes, whichever owner advances *)
(* it: a node begins when what it depends on is complete; a request that   *)
(* cannot be repeated is made once, and a model request not before the     *)
(* node is put in doubt; a node in doubt stays there until somebody knows  *)
(* the end of it; and a result, of a node or of the run, is final.         *)
(*                                                                         *)
(* Processes, crashes, approvals, budgets and capacity have no place here: *)
(* Orchestration and ParallelRuns are shown to implement this module.      *)
(***************************************************************************)
EXTENDS Naturals

CONSTANTS
  Node,
  Joins,         \* nodes that call nobody
  DoubtFirst,    \* nodes that are in doubt before they are called
  Once,          \* nodes whose call cannot be repeated
  After,         \* the nodes a node depends on
  Run,
  Home           \* the run of each node

VARIABLES
  phase,    \* open, begun, in doubt, completed, failed or cancelled
  calls,    \* how often its tool or the provider was entered
  closed    \* the runs that have a terminal result

nodeVars == <<phase, calls, closed>>

NodeInit ==
  /\ phase = [n \in Node |-> "open"]
  /\ calls = [n \in Node |-> 0]
  /\ closed = {}

\* The run of the node goes on, and the node may begin.
Enabled(n) == Home[n] \notin closed /\ \A d \in After[n] : phase[d] = "completed"

Begin(n) ==
  /\ Enabled(n) /\ phase[n] = "open"
  /\ phase' = [phase EXCEPT ![n] = "begun"]
  /\ UNCHANGED <<calls, closed>>

\* A join is complete at once.
Join(n) ==
  /\ n \in Joins
  /\ Enabled(n) /\ phase[n] = "open"
  /\ phase' = [phase EXCEPT ![n] = "completed"]
  /\ UNCHANGED <<calls, closed>>

Call(n) ==
  /\ n \notin Joins
  /\ Enabled(n) /\ phase[n] = IF n \in DoubtFirst THEN "doubt" ELSE "begun"
  /\ n \in Once => calls[n] = 0
  /\ calls' = [calls EXCEPT ![n] = @ + 1]
  /\ UNCHANGED <<phase, closed>>

PutInDoubt(n) ==
  /\ Enabled(n) /\ phase[n] = "begun"
  /\ phase' = [phase EXCEPT ![n] = "doubt"]
  /\ UNCHANGED <<calls, closed>>

Settle(n) ==
  /\ Enabled(n) /\ phase[n] \in {"begun", "doubt"}
  /\ \E s \in {"completed", "failed"} : phase' = [phase EXCEPT ![n] = s]
  /\ UNCHANGED <<calls, closed>>

\* The run is over: nothing in it is in doubt, and what is not settled may be cancelled.
Close(r) ==
  /\ r \notin closed
  /\ \A n \in Node : Home[n] = r => phase[n] # "doubt"
  /\ \E dropped \in SUBSET {n \in Node : Home[n] = r /\ phase[n] \in {"open", "begun"}} :
       phase' = [n \in Node |-> IF n \in dropped THEN "cancelled" ELSE phase[n]]
  /\ closed' = closed \cup {r}
  /\ UNCHANGED calls

NodeNext ==
  \/ \E n \in Node : Begin(n) \/ Join(n) \/ Call(n) \/ PutInDoubt(n) \/ Settle(n)
  \/ \E r \in Run : Close(r)

NodeSpec == NodeInit /\ [][NodeNext]_nodeVars
=============================================================================
