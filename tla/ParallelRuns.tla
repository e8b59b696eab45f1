----------------------------- MODULE ParallelRuns -----------------------------
(***************************************************************************)
(* Several R2 runs on one event loop that share a provider: the owner of   *)
(* each run (sdk/parallel_runner.py, advance_parallel) with its durable    *)
(* node facts (sdk/durable.py, state/orchestration.py), the worker tasks   *)
(* that enter the provider, and the provider itself, which goes on with a  *)
(* request whether or not anybody still waits for it.                      *)
(*                                                                         *)
(* `turn` is the coroutine the loop is running: it keeps the turn from one *)
(* await to the next, one action per durable write, and the process may    *)
(* die between any two of them.                                            *)
(***************************************************************************)
EXTENDS ModelDispatcher

CONSTANTS
  Run,           \* the runs that share the provider
  Graph,         \* the nodes of each run, in the order of its definition
  Deps,          \* the nodes a node depends on
  Tool,          \* the nodes that are tools; the others are model calls
  MaxInFlight,   \* ParallelExecution.max_in_flight
  Recancelled,   \* the runs whose caller may be cancelled while the owner cleans up
  ClaimInDoubt,  \* the runs whose claim write may raise although it is committed
  NoRun, NoNode,
  MaxCrashes     \* bound of the model: processes lost

NodesOf(r) == Elements(Graph[r])

ASSUME RunConstants ==
  /\ Graph \in [Run -> Seq(Node)]
  /\ \A n \in Node : \E r \in Run : n \in NodesOf(r)
  /\ \A r, s \in Run : r # s => NodesOf(r) \cap NodesOf(s) = {}
  /\ Deps \in [Node -> SUBSET Node]
  /\ Tool \subseteq Node
  /\ MaxInFlight \in {1, 2}
  /\ Recancelled \subseteq Run
  /\ ClaimInDoubt \subseteq Run
  /\ NoRun \notin Run /\ NoNode \notin Node
  /\ MaxCrashes \in Nat

RunOf(n) == CHOOSE r \in Run : n \in NodesOf(r)

VARIABLES
  node,          \* NodeProgress.status (durable)
  ended,         \* the runs whose result is terminal (durable)
  pc,            \* where the owner of each run is
  at,            \* the node it has in hand
  flights,       \* its `active`: the requests it waits for
  halt,          \* why it stops: {} while it does not
  turn,          \* the owner the event loop is running
  worker,        \* the worker task of each node
  provider,      \* the request of each node at the provider
  entered,       \* history: how often the provider was entered for a node
  crashes

factVars  == <<node, ended>>
ownerVars == <<pc, at, flights, halt, turn>>
callVars  == <<worker, provider, entered>>
vars      == <<dispatcherVars, factVars, ownerVars, callVars, crashes>>

Statuses == {"pending", "admitted", "unknown", "completed", "failed", "cancelled"}
Places   == {"off", "enter", "top", "round", "wait", "prepare", "mark", "unused",
             "release", "tool", "abandon", "cancel", "clean", "cleared", "leave"}
Workers  == {"none", "spawned", "entered", "returned", "unpriced", "refused", "lost"}

TypeOK ==
  /\ DispatcherTypeOK
  /\ node \in [Node -> Statuses]
  /\ ended \subseteq Run
  /\ pc \in [Run -> Places]
  /\ at \in [Run -> Node \cup {NoNode}]
  /\ flights \in [Run -> SUBSET Node]
  /\ halt \in [Run -> SUBSET {"drain", "stop", "raised"}]
  /\ turn \in Run \cup {NoRun}
  /\ worker \in [Node -> Workers]
  /\ provider \in [Node -> {"idle", "processing", "done"}]
  /\ entered \in [Node -> Nat]
  /\ crashes \in 0..MaxCrashes

Init ==
  /\ DispatcherInit
  /\ node = [n \in Node |-> "pending"]
  /\ ended = {}
  /\ pc = [r \in Run |-> "off"]
  /\ at = [r \in Run |-> NoNode]
  /\ flights = [r \in Run |-> {}]
  /\ halt = [r \in Run |-> {}]
  /\ turn = NoRun
  /\ worker = [n \in Node |-> "none"]
  /\ provider = [n \in Node |-> "idle"]
  /\ entered = [n \in Node |-> 0]
  /\ crashes = 0

-----------------------------------------------------------------------------
(* Shorthands of the owner's steps.                                        *)

SettledNode(n) == node[n] \in {"completed", "failed"}
Returned(n)    == worker[n] \in {"returned", "unpriced", "refused", "lost"}
Confirmed(n)   == worker[n] \in {"returned", "unpriced", "refused"}

Waiting(r) == {n \in NodesOf(r) : future[n] # "none"}
Ready(r)   == {i \in DOMAIN Graph[r] :
                 /\ node[Graph[r][i]] \in {"pending", "admitted"}
                 /\ \A d \in Deps[Graph[r][i]] : node[d] = "completed"}
\* The first ready node in the order of the definition; none when none is ready.
FirstReady(r) == {Graph[r][i] : i \in {i \in Ready(r) : \A j \in Ready(r) : i <= j}}

Has(r, place)   == pc[r] = place /\ turn = r
Goto(r, place)  == pc' = [pc EXCEPT ![r] = place]
Keep(r)         == turn' = r
Yield           == turn' = NoRun
Halting(r, why) == halt' = [halt EXCEPT ![r] = @ \cup why]
\* The owner looks around: every returned fact of this round is committed.
Looking(r) == Has(r, "round") /\ \A n \in flights[r] : ~Returned(n)

-----------------------------------------------------------------------------
(* Start, resume and reconciliation of a run, and the round of its owner.  *)

\* start() and resume(): the OS lock of the harness admits one owner per run.
Enter(r) ==
  /\ up /\ turn = NoRun
  /\ pc[r] = "off" /\ r \notin ended
  /\ Goto(r, "enter") /\ Keep(r)
  /\ UNCHANGED <<dispatcherVars, factVars, at, flights, halt, callVars, crashes>>

\* reconcile(): the receipt of an unknown node settles it; the run then advances.
Reconcile(r, n) ==
  /\ up /\ turn = NoRun
  /\ pc[r] = "off" /\ r \notin ended
  /\ n \in NodesOf(r) /\ node[n] = "unknown"
  /\ n \notin Tool => provider[n] = "done"
  /\ \E s \in {"completed", "failed"} : node' = [node EXCEPT ![n] = s]
  /\ Goto(r, "enter") /\ Keep(r)
  /\ UNCHANGED <<dispatcherVars, ended, at, flights, halt, callVars, crashes>>

\* A node settled by its owner or by a receipt proves that its request is over.
Provable(n) == n \in unresolved /\ SettledNode(n)
ConfirmSettled(r) ==
  /\ Has(r, "enter")
  /\ \E n \in NodesOf(r) : Provable(n) /\ ConfirmEnded(n)
  /\ UNCHANGED <<up, factVars, ownerVars, callVars, crashes>>

\* A request an earlier owner sent is uncertain: the run drains, it is not sent again.
Prologue(r) ==
  /\ Has(r, "enter")
  /\ ~\E n \in NodesOf(r) : Provable(n)
  /\ Halting(r, IF \E n \in NodesOf(r) : node[n] \in {"unknown", "failed"} THEN {"drain"} ELSE {})
  /\ Goto(r, "top")
  /\ UNCHANGED <<dispatcherVars, factVars, at, flights, turn, callVars, crashes>>

\* The owner looks up when a request returned or its future is resolved.
Roused(r) == \/ \E n \in flights[r] : Returned(n)
             \/ \E n \in Waiting(r) : future[n] # "pending"

\* _guard() may find the run cancelled or past its deadline, or the rights of its
\* caller withdrawn.  Each may happen at any time, so what the guard finds is left
\* open and cancel_requested is no variable of its own.  A poll that finds nothing
\* new changes nothing and is left out.
Findings == {{}, {"stop"}, {"raised"}}
Guard(r, why) ==
  /\ \/ Has(r, "top")
     \/ pc[r] = "wait" /\ turn = NoRun /\ (Roused(r) \/ ~(why \subseteq halt[r]))
  /\ Halting(r, why)
  /\ Goto(r, "round") /\ Keep(r)
  /\ UNCHANGED <<dispatcherVars, factVars, at, flights, callVars, crashes>>

\* _settle(): what the worker returned is committed to the run; what it lost stays
\* unknown.  The cleanup does the same for requests it stops waiting for.
Fact(n) == IF worker[n] = "returned" THEN {"completed", "failed"}
           ELSE IF worker[n] = "refused" THEN {"failed"} ELSE {"unknown"}
Settle(r) ==
  /\ \E n \in flights[r] :
       /\ (Has(r, "round") /\ Returned(n)) \/ Has(r, "clean")
       /\ \E s \in Fact(n) :
            /\ node' = [node EXCEPT ![n] = s]
            /\ Halting(r, IF s = "completed" THEN {} ELSE {"drain"})
       /\ at' = [at EXCEPT ![r] = n]
  /\ Goto(r, IF pc[r] = "round" THEN "release" ELSE "cleared")
  /\ UNCHANGED <<dispatcherVars, ended, flights, turn, callVars, crashes>>

\* ... and then the capacity: only a response, or the proof that nothing was sent,
\* frees the slot.
Release(r) ==
  /\ Has(r, "release") \/ Has(r, "cleared")
  /\ Finish(at[r], Confirmed(at[r]))
  /\ flights' = [flights EXCEPT ![r] = @ \ {at[r]}]
  /\ at' = [at EXCEPT ![r] = NoNode]
  /\ worker' = [worker EXCEPT ![at[r]] = IF Returned(at[r]) THEN "none" ELSE @]
  /\ Goto(r, IF pc[r] = "release" THEN "round" ELSE "clean")
  /\ UNCHANGED <<up, factVars, halt, turn, provider, entered, crashes>>

-----------------------------------------------------------------------------
(* A round that admits: from the queue to the worker task.                 *)

\* The first ready node is a model call: it asks for capacity and waits.
Ask(r) ==
  /\ Looking(r) /\ halt[r] = {} /\ Waiting(r) = {}
  /\ Cardinality(flights[r]) < MaxInFlight
  /\ \E n \in FirstReady(r) \ Tool :
       \/ Requestable(n) /\ Request(n) /\ UNCHANGED halt
       \/ ~Requestable(n) /\ Halting(r, {"stop"}) /\ UNCHANGED <<claim, memoryVars>>
  /\ Goto(r, "top")
  /\ UNCHANGED <<up, factVars, at, flights, turn, callVars, crashes>>

\* The future is resolved.  A grant is reserved in the run's budget; from there the
\* node is in the owner's hand.
Admit(r) ==
  /\ Looking(r) /\ halt[r] = {}
  /\ \E n \in Waiting(r) :
       /\ future[n] = "granted"
       /\ node' = [node EXCEPT ![n] = "admitted"]
       /\ future' = [future EXCEPT ![n] = "none"]
       /\ at' = [at EXCEPT ![r] = n]
  /\ Goto(r, "prepare")
  /\ UNCHANGED <<claim, up, queue, active, unresolved, ended, flights, halt, turn,
                 callVars, crashes>>

\* CapacityError of the future, of sent() in a domain that needs reconciliation, or
\* _StopAdmission of a guard or the budget: the slot is given back and the run stops.
\* Any other exception also ends the loop.
GiveUp(r) ==
  /\ \E n \in Node :
       /\ \/ Looking(r) /\ halt[r] = {} /\ n \in Waiting(r) /\ future[n] # "pending"
          \/ Has(r, "prepare") /\ n = at[r]
       /\ Withdraw(n)
  /\ at' = [at EXCEPT ![r] = NoNode]
  /\ \/ Halting(r, {"stop"}) /\ Goto(r, "top")
     \/ Halting(r, {"raised"}) /\ Goto(r, "abandon")
  /\ UNCHANGED <<up, factVars, flights, turn, callVars, crashes>>

\* prepare_model_once() fails: the node is settled, then its slot is given back.
PreparationFails(r) ==
  /\ Has(r, "prepare")
  /\ node' = [node EXCEPT ![at[r]] = "failed"]
  /\ Goto(r, "unused")
  /\ UNCHANGED <<dispatcherVars, ended, at, flights, halt, turn, callVars, crashes>>

Unused(r) ==
  /\ Has(r, "unused")
  /\ Withdraw(at[r])
  /\ at' = [at EXCEPT ![r] = NoNode]
  /\ Halting(r, {"drain"}) /\ Goto(r, "top")
  /\ UNCHANGED <<up, factVars, flights, turn, callVars, crashes>>

\* The dispatcher's claim is on disk first, the sending marker of the run next, and
\* the worker is created last.
ClaimSent(r) ==
  /\ Has(r, "prepare")
  /\ Sendable(at[r]) /\ Sent(at[r])
  /\ Goto(r, "mark")
  /\ UNCHANGED <<up, memoryVars, factVars, at, flights, halt, turn, callVars, crashes>>

\* sent() raises although its row is committed: withdraw() finds the claim sent and
\* keeps the slot, and without a sending marker nothing makes it unresolved.
ClaimFails(r) ==
  /\ r \in ClaimInDoubt /\ Has(r, "mark")
  /\ Withdraw(at[r])
  /\ at' = [at EXCEPT ![r] = NoNode]
  /\ Halting(r, {"raised"}) /\ Goto(r, "abandon")
  /\ UNCHANGED <<up, factVars, flights, turn, callVars, crashes>>

\* Faulty: the worker is created before its marker is saved.
MarkedLater(n) == UNCHANGED node
Marked(n) == node' = [node EXCEPT ![n] = "unknown"]
Mark(r) ==
  /\ Has(r, "mark")
  /\ Marked(at[r])
  /\ worker' = [worker EXCEPT ![at[r]] = "spawned"]
  /\ flights' = [flights EXCEPT ![r] = @ \cup {at[r]}]
  /\ at' = [at EXCEPT ![r] = NoNode]
  /\ Goto(r, "top")
  /\ UNCHANGED <<dispatcherVars, ended, halt, turn, provider, entered, crashes>>

\* Saving the marker raises, before or after its commit: the slot stays unresolved.
MarkFails(r) ==
  /\ Has(r, "mark")
  /\ \E s \in {node[at[r]], "unknown"} : node' = [node EXCEPT ![at[r]] = s]
  /\ Finish(at[r], FALSE)
  /\ at' = [at EXCEPT ![r] = NoNode]
  /\ Halting(r, {"raised"}) /\ Goto(r, "abandon")
  /\ UNCHANGED <<up, ended, flights, turn, callVars, crashes>>

\* A tool in front is a barrier: it waits for the requests of the run, then has the
\* run for itself while other runs go on.
\* Faulty: a tool starts beside the requests of its run.
RunHasRoom(r) == Cardinality(flights[r]) < MaxInFlight
RunIsQuiet(r) == flights[r] = {}
StartTool(r) ==
  /\ Looking(r) /\ halt[r] = {} /\ Waiting(r) = {} /\ RunIsQuiet(r)
  /\ \E n \in FirstReady(r) \cap Tool :
       \/ /\ node' = [node EXCEPT ![n] = "admitted"]
          /\ at' = [at EXCEPT ![r] = n]
          /\ Goto(r, "tool") /\ Yield
          /\ UNCHANGED halt
       \/ /\ Halting(r, {"stop"}) /\ Goto(r, "top")
          /\ UNCHANGED <<node, at, turn>>
  /\ UNCHANGED <<dispatcherVars, ended, flights, callVars, crashes>>

ToolEnds(r) ==
  /\ pc[r] = "tool" /\ turn = NoRun
  /\ \/ \E s \in {"completed", "failed", "unknown"} :
          /\ node' = [node EXCEPT ![at[r]] = s]
          /\ Halting(r, IF s = "completed" THEN {} ELSE {"drain"})
          /\ Goto(r, "top")
     \/ Halting(r, {"stop"}) /\ Goto(r, "top") /\ UNCHANGED node
     \/ Halting(r, {"raised"}) /\ Goto(r, "abandon") /\ UNCHANGED node
  /\ at' = [at EXCEPT ![r] = NoNode]
  /\ Keep(r)
  /\ UNCHANGED <<dispatcherVars, ended, flights, callVars, crashes>>

-----------------------------------------------------------------------------
(* A round that waits, and the ways out of the loop.                       *)

\* Nothing can be admitted now: no room, a tool in front, or no ready node.
NothingToAdmit(r) ==
  \/ Cardinality(flights[r]) >= MaxInFlight
  \/ Ready(r) = {}
  \/ FirstReady(r) \cap Tool # {} /\ ~RunIsQuiet(r)

\* asyncio.wait(): other coroutines run until something returned, or the poll interval.
Await(r) ==
  /\ Looking(r)
  /\ IF halt[r] = {}
     THEN IF Waiting(r) = {} THEN flights[r] # {} /\ NothingToAdmit(r)
                             ELSE \A n \in Waiting(r) : future[n] = "pending"
     ELSE Waiting(r) = {} /\ flights[r] # {}
  /\ Goto(r, "wait") /\ Yield
  /\ UNCHANGED <<dispatcherVars, factVars, at, flights, halt, callVars, crashes>>

\* A run that stops no longer waits for capacity, granted or not.
StopWaiting(r) ==
  /\ Looking(r) /\ halt[r] # {}
  /\ \E n \in Waiting(r) : Withdraw(n)
  /\ UNCHANGED <<up, factVars, ownerVars, callVars, crashes>>

LeaveLoop(r) ==
  /\ Looking(r) /\ Waiting(r) = {} /\ flights[r] = {}
  /\ halt[r] # {} \/ Ready(r) = {}
  /\ Goto(r, "leave")
  /\ UNCHANGED <<dispatcherVars, factVars, at, flights, halt, turn, callVars, crashes>>

\* drain_timeout_seconds is over: the owner stops waiting for what it sent.
DrainTimeout(r) ==
  /\ pc[r] = "wait" /\ turn = NoRun /\ ~Roused(r)
  /\ halt[r] # {} /\ flights[r] # {}
  /\ Goto(r, "abandon") /\ Keep(r)
  /\ UNCHANGED <<dispatcherVars, factVars, at, flights, halt, callVars, crashes>>

\* The finally block: the workers are cancelled and get one poll interval.
Abandon(r) ==
  /\ Has(r, "abandon")
  /\ \/ flights[r] = {} /\ Goto(r, "leave") /\ UNCHANGED turn
     \/ flights[r] # {} /\ Goto(r, "cancel") /\ Yield
  /\ UNCHANGED <<dispatcherVars, factVars, at, flights, halt, callVars, crashes>>

\* By then a task that never ran is gone; one whose adapter refuses to stop is not.
CleanUp(r) ==
  /\ pc[r] = "cancel" /\ turn = NoRun
  /\ \A n \in flights[r] : worker[n] # "spawned"
  /\ Goto(r, "clean") /\ Keep(r)
  /\ UNCHANGED <<dispatcherVars, factVars, at, flights, halt, callVars, crashes>>

\* The caller is cancelled during that interval: the wait raises, and the loop that
\* accounts for the flights is never entered.
CancelledInCleanup(r) ==
  /\ r \in Recancelled /\ pc[r] = "cancel" /\ turn = NoRun
  /\ worker' = [n \in Node |-> IF n \in flights[r] /\ worker[n] = "spawned" THEN "lost"
                                                                       ELSE worker[n]]
  /\ flights' = [flights EXCEPT ![r] = {}]
  /\ halt' = [halt EXCEPT ![r] = {}]
  /\ Goto(r, "off")
  /\ UNCHANGED <<dispatcherVars, factVars, at, turn, provider, entered, crashes>>

Cleaned(r) ==
  /\ Has(r, "clean") /\ flights[r] = {}
  /\ Goto(r, "leave")
  /\ UNCHANGED <<dispatcherVars, factVars, at, flights, halt, turn, callVars, crashes>>

\* _finish(): an unknown node keeps the run open for reconciliation; a run that was
\* stopped drops the nodes it did not settle.
\* Faulty: a run is closed over a node nobody knows the end of.
ClosesOverUnknown(r) == "raised" \notin halt[r]
Closes(r) == "raised" \notin halt[r] /\ ~\E n \in NodesOf(r) : node[n] = "unknown"
Finished(r) ==
  /\ Has(r, "leave") /\ Closes(r)
  /\ ended' = ended \cup {r}
  /\ node' = [n \in Node |-> IF n \in NodesOf(r) /\ ~SettledNode(n)
                                /\ "stop" \in halt[r]
                             THEN "cancelled" ELSE node[n]]
  /\ halt' = [halt EXCEPT ![r] = {}]
  /\ Goto(r, "off") /\ Yield
  /\ UNCHANGED <<dispatcherVars, at, flights, callVars, crashes>>

\* The run stays open: it needs reconciliation, or an exception leaves it as it is.
Suspended(r) ==
  /\ Has(r, "leave")
  /\ halt' = [halt EXCEPT ![r] = {}]
  /\ Goto(r, "off") /\ Yield
  /\ UNCHANGED <<dispatcherVars, factVars, at, flights, callVars, crashes>>

-----------------------------------------------------------------------------
(* The worker tasks, the provider and the host.                            *)

\* validate_send() is the last check before the provider is entered.
ValidateSend(n) ==
  /\ turn = NoRun /\ worker[n] = "spawned" /\ pc[RunOf(n)] # "cancel"
  /\ \/ worker' = [worker EXCEPT ![n] = "refused"] /\ UNCHANGED <<provider, entered>>
     \/ /\ worker' = [worker EXCEPT ![n] = "entered"]
        /\ provider' = [provider EXCEPT ![n] = "processing"]
        /\ entered' = [entered EXCEPT ![n] = @ + 1]
  /\ UNCHANGED <<dispatcherVars, factVars, ownerVars, crashes>>

\* The response arrives, with or without a usage that can be charged ...
Answer(n) ==
  /\ turn = NoRun /\ worker[n] = "entered" /\ provider[n] = "done"
  /\ \E w \in {"returned", "unpriced"} : worker' = [worker EXCEPT ![n] = w]
  /\ UNCHANGED <<dispatcherVars, factVars, ownerVars, provider, entered, crashes>>

\* ... or never: request timeout, transport failure, or the task is cancelled.
Lose(n) ==
  /\ turn = NoRun
  /\ \/ worker[n] = "entered"
     \/ worker[n] = "spawned" /\ pc[RunOf(n)] = "cancel"
  /\ worker' = [worker EXCEPT ![n] = "lost"]
  /\ UNCHANGED <<dispatcherVars, factVars, ownerVars, provider, entered, crashes>>

ProviderEnds(n) ==
  /\ provider[n] = "processing"
  /\ provider' = [provider EXCEPT ![n] = "done"]
  /\ UNCHANGED <<dispatcherVars, factVars, ownerVars, worker, entered, crashes>>

\* The host vouches for an idle backend; it is trusted not to do so while it works.
HostConfirms(n) ==
  /\ up /\ turn = NoRun
  /\ n \in unresolved /\ provider[n] # "processing"
  /\ ConfirmEnded(n)
  /\ UNCHANGED <<up, factVars, ownerVars, callVars, crashes>>

Forgotten ==
  /\ Down
  /\ pc' = [r \in Run |-> "off"]
  /\ at' = [r \in Run |-> NoNode]
  /\ flights' = [r \in Run |-> {}]
  /\ halt' = [r \in Run |-> {}]
  /\ turn' = NoRun
  /\ worker' = [n \in Node |-> "none"]
  /\ UNCHANGED <<factVars, provider, entered>>

Crash ==
  /\ up /\ crashes < MaxCrashes
  /\ crashes' = crashes + 1
  /\ Forgotten

\* The context manager ends when no harness call is left in it.
Close ==
  /\ up /\ turn = NoRun
  /\ \A r \in Run : pc[r] = "off"
  /\ Closable /\ \A n \in Node : worker[n] \notin {"spawned", "entered"}
  /\ Forgotten
  /\ UNCHANGED crashes

Reopen ==
  /\ ~up
  /\ Up
  /\ UNCHANGED <<factVars, ownerVars, callVars, crashes>>

-----------------------------------------------------------------------------
OwnerSteps(r) ==
  \/ ConfirmSettled(r) \/ Prologue(r) \/ Settle(r) \/ Release(r)
  \/ Ask(r) \/ Admit(r) \/ GiveUp(r) \/ PreparationFails(r) \/ Unused(r)
  \/ ClaimSent(r) \/ Mark(r) \/ MarkFails(r) \/ StartTool(r) \/ ToolEnds(r)
  \/ Await(r) \/ StopWaiting(r) \/ LeaveLoop(r) \/ DrainTimeout(r) \/ Abandon(r)
  \/ CleanUp(r) \/ Cleaned(r) \/ Finished(r) \/ Suspended(r)

Next ==
  \/ \E r \in Run : Enter(r) \/ OwnerSteps(r) \/ CancelledInCleanup(r) \/ ClaimFails(r)
  \/ \E r \in Run, why \in Findings : Guard(r, why)
  \/ \E r \in Run, n \in Node : Reconcile(r, n)
  \/ \E n \in Node : ValidateSend(n) \/ Answer(n) \/ Lose(n) \/ ProviderEnds(n)
                     \/ HostConfirms(n)
  \/ Crash \/ Close \/ Reopen

Spec == Init /\ [][Next]_vars

\* asyncio runs every ready handle in turn, a tool ends within its timeout, and
\* wait_for() ends a request of an adapter that cooperates (a tool has no worker task).
\* Nobody has to cancel a run, and no deadline has to pass: an owner that waits is not
\* saved by its guard.
FairSpec ==
  /\ Spec
  /\ \A r \in Run : SF_vars(OwnerSteps(r) \/ Guard(r, {}))
  /\ \A n \in Node \ Tool : SF_vars(ValidateSend(n) \/ Answer(n) \/ Lose(n))

-----------------------------------------------------------------------------
(* Properties.                                                             *)

\* The provider never works on more requests than it has slots, whoever has stopped
\* waiting for them and however often the process was replaced (ModelDispatcher).
CapacityHolds == Cardinality({n \in Node : provider[n] = "processing"}) <= Capacity

\* A call that entered the provider is recorded as sent in its run first, is never
\* dropped as cancelled, and is never sent a second time (ADR 035, decisions 1 and 5).
RecordedBeforeEntry ==
  \A n \in Node : /\ entered[n] <= 1
                  /\ entered[n] = 1 => node[n] \in {"unknown", "completed", "failed"}

\* A slot that is in use and not unresolved belongs to an owner that will give it
\* back: one that waits with a grant, has the node in hand, or has it in flight.
SlotsAreOwned ==
  \A n \in active \ unresolved :
    LET r == RunOf(n) IN pc[r] # "off" /\ (future[n] = "granted" \/ at[r] = n \/ n \in flights[r])

\* While a tool of a run executes the provider works on no request of that run, of an
\* earlier owner included (ADR 035, decision 6).
ToolHasTheRun ==
  \A r \in Run : pc[r] = "tool" => \A n \in NodesOf(r) : provider[n] # "processing"

\* A run with a terminal result has no request at the provider and no unknown node.
TerminalIsIdle ==
  \A r \in ended : \A n \in NodesOf(r) : provider[n] # "processing" /\ node[n] # "unknown"

\* The phase of a node.
Phase(n) ==
  CASE node[n] = "pending" -> "open"
    [] node[n] = "admitted" -> "begun"
    [] node[n] = "unknown" -> "doubt"
    [] OTHER -> node[n]

Nodewise == INSTANCE NodeOnce WITH
  Joins <- {}, DoubtFirst <- Node \ Tool, Once <- Node \ Tool,
  After <- Deps, Home <- [n \in Node |-> RunOf(n)],
  phase <- [n \in Node |-> Phase(n)], calls <- entered, closed <- ended

\* Concurrent owners keep what NodeOnce promises of each node, whoever lost a request or
\* its slot: the same contract as that of the serial owner (ADR 035).
ParallelContract == Nodewise!NodeSpec

\* Every owner gets out of its loop: nobody waits for ever for capacity, for a run that
\* holds it, or for a request nobody answers.
OwnersLeave == \A r \in Run : pc[r] # "off" ~> pc[r] = "off"

\* What ADR 035, decision 4 says: cancellation leaves sent capacity unresolved.
CancellationLeavesUnresolved ==
  \A n \in active : claim[n] = "sent" /\ pc[RunOf(n)] = "off" => n \in unresolved
=============================================================================
