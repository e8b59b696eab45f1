------------------------- MODULE ParallelFactsProofs -------------------------
(***************************************************************************)
(* What the durable facts of several R2 runs say is true, for any number   *)
(* of runs, nodes, slots, crashes and restarts: a call that entered the    *)
(* provider was recorded first, a tool has its run for itself, and a run   *)
(* with a result is idle.                                                  *)
(*                                                                         *)
(* All three need to know what the provider works on, which no row says.   *)
(* The argument: a request is at the provider only if its node is unknown, *)
(* and an owner that does not halt waits for every unknown node.           *)
(*                                                                         *)
(* Then the slots the runs share: unless an owner is cancelled again while *)
(* it cleans up, every slot in use has an owner that is there to give it   *)
(* back.                                                                   *)
(*                                                                         *)
(* The last section shows that the owners implement NodeOnce.  That needs  *)
(* what the facts do not say: a node that waits for capacity was ready     *)
(* when it asked, and what an owner waits for is in doubt.                 *)
(***************************************************************************)
EXTENDS ParallelRunsProofs

-----------------------------------------------------------------------------
(* The inductive invariant.                                                *)

\* What a row says of a node that was sent, or ended unsent.
Known == {"unknown", "completed", "failed"}

\* A node waits for capacity.
Waits(n) == future[n] # "none"

\* What is true of each node: it is known to have been sent before a worker can enter
\* the provider for it, and it is not sent yet while it waits.
NodeSound(n) ==
  /\ entered[n] \in {0, 1}
  /\ entered[n] = 1 => node[n] \in Known
  /\ provider[n] = "processing" => entered[n] = 1
  /\ worker[n] = "spawned" => entered[n] = 0 /\ node[n] = "unknown"
  /\ Waits(n) => n \notin Tool /\ node[n] \in {"pending", "admitted"}
  /\ n \in Elements(queue) => Waits(n)

\* What is true of each owner: what it has in flight was sent, what it is about to send
\* was not, and while it does not halt it knows the end of all it does not wait for.
RunSound(r) ==
  /\ \A n \in flights[r] : node[n] \in Known
  /\ pc[r] \in {"prepare", "mark"} => node[at[r]] = "admitted"
  /\ pc[r] \in {"release", "cleared"} /\ halt[r] = {} => node[at[r]] = "completed"
  /\ pc[r] \notin {"off", "enter"} /\ halt[r] = {} =>
       \A n \in NodesOf(r) : node[n] = "unknown" => n \in flights[r]
  /\ pc[r] = "tool" => at[r] \in NodesOf(r) /\ halt[r] = {} /\ flights[r] = {}
  /\ r \in ended => pc[r] = "off" /\ \A n \in NodesOf(r) : node[n] # "unknown"

\* Where an owner has no node waiting for capacity; elsewhere it has one at most.
Past(r) == pc[r] \notin {"top", "round", "wait", "release"} \/ (pc[r] = "wait" /\ halt[r] # {})

WaitSound(r) ==
  /\ \A m, n \in NodesOf(r) : Waits(m) /\ Waits(n) => m = n
  /\ Past(r) => \A n \in NodesOf(r) : ~Waits(n)

FactsInvariant ==
  /\ \A n \in Node : NodeSound(n)
  /\ \A r \in Run : RunSound(r) /\ WaitSound(r)

-----------------------------------------------------------------------------
(* What is typed, and who waits.                                           *)

\* The types the steps below need.
LEMMA Typed ==
  ASSUME CapacityInvariant
  PROVE  /\ node \in [Node -> Statuses] /\ ended \subseteq Run
         /\ pc \in [Run -> Places] /\ at \in [Run -> Node \cup {NoNode}]
         /\ flights \in [Run -> SUBSET Node]
         /\ halt \in [Run -> SUBSET {"drain", "stop", "raised"}]
         /\ worker \in [Node -> Workers]
         /\ provider \in [Node -> {"idle", "processing", "done"}]
         /\ entered \in [Node -> Nat]
         /\ queue \in Seq(Node) /\ future \in [Node -> Futures]
         /\ active \subseteq Node
BY DEF CapacityInvariant, TypeOK, DispatcherTypeOK

\* A drain makes nobody wait who did not, and answers only who waits.
LEMMA DrainWaits ==
  ASSUME NEW q \in Seq(Node), NEW a \in SUBSET Node, NEW u, NEW c, NEW f \in [Node -> Futures],
         \A n \in Elements(q) : f[n] # "none",
         Drain(q, a, u, c, f)
  PROVE  /\ \A m \in Node : Waits(m)' <=> f[m] # "none"
         /\ Elements(queue') \subseteq Elements(q)
<1>1. CASE u # {}
  <2>1. queue' = <<>> /\ future' = [n \in Node |-> IF n \in Elements(q) THEN "refused" ELSE f[n]]
    BY <1>1 DEF Drain
  <2> QED
    BY <2>1 DEF Waits, Elements
<1>2. CASE u = {}
  <2> DEFINE first == Smaller(Len(q), Free(a))
             granted == {q[i] : i \in 1..first}
  <2>1. /\ queue' = SubSeq(q, first + 1, Len(q))
        /\ future' = [n \in Node |-> IF n \in granted THEN "granted" ELSE f[n]]
    BY <1>2 DEF Drain
  <2>2. first \in Nat /\ first <= Len(q)
    <3>1. IsFiniteSet(a)
      BY FS_Subset, DispatcherConstants
    <3>2. Cardinality(a) \in Nat
      BY <3>1, FS_CardinalityType
    <3>3. Free(a) \in Nat
      BY <3>2, DispatcherConstants DEF Free
    <3> QED
      BY <3>3 DEF Smaller
  <2> HIDE DEF first
  <2>3. granted \subseteq Elements(q)
    BY <2>2 DEF Elements
  <2>4. Elements(queue') \subseteq Elements(q)
    <3>1. /\ queue' \in Seq(Node) /\ Len(queue') = Len(q) - first
          /\ \A i \in 1..(Len(q) - first) : queue'[i] = q[first + i]
      BY <2>1, <2>2
    <3>2. \A i \in 1..(Len(q) - first) : first + i \in DOMAIN q
      BY <2>2
    <3> QED
      BY <3>1, <3>2 DEF Elements
  <2> HIDE DEF granted
  <2> QED
    BY <2>1, <2>3, <2>4 DEF Waits
<1> QED
  BY <1>1, <1>2

\* Only a request makes a node wait, and only a withdrawal ends its wait.
LEMMA MethodWaits ==
  ASSUME CapacityInvariant, FactsInvariant, up, NEW n \in Node
  PROVE  /\ Request(n) => /\ \A m \in Node : Waits(m)' <=> Waits(m) \/ m = n
                          /\ Elements(queue') \subseteq Elements(queue) \cup {n}
         /\ Withdraw(n) => /\ \A m \in Node : Waits(m)' <=> Waits(m) /\ m # n
                           /\ Elements(queue') \subseteq Elements(queue) \ {n}
         /\ Finish(n, TRUE) \/ Finish(n, FALSE) \/ ConfirmEnded(n) =>
              /\ \A m \in Node : Waits(m)' <=> Waits(m)
              /\ Elements(queue') \subseteq Elements(queue)
<1>0. /\ queue \in Seq(Node) /\ future \in [Node -> Futures] /\ active \in SUBSET Node
      /\ Elements(queue) \subseteq Node
      /\ \A m \in Elements(queue) : future[m] # "none"
  <2>1. /\ queue \in Seq(Node) /\ future \in [Node -> Futures] /\ active \in SUBSET Node
        /\ Elements(queue) \subseteq Node
    BY Typed DEF Elements
  <2> QED
    BY <2>1 DEF FactsInvariant, NodeSound, Waits
<1>1. ASSUME Request(n)
      PROVE  /\ \A m \in Node : Waits(m)' <=> Waits(m) \/ m = n
             /\ Elements(queue') \subseteq Elements(queue) \cup {n}
  <2> DEFINE q == Append(queue, n)
             f == [future EXCEPT ![n] = "pending"]
  <2>1. q \in Seq(Node) /\ Elements(q) \subseteq Elements(queue) \cup {n}
    BY <1>0 DEF Elements
  <2>2. /\ f \in [Node -> Futures]
        /\ \A m \in Node : f[m] # "none" <=> future[m] # "none" \/ m = n
    BY <1>0 DEF Futures
  <2>3. PICK a, u, c : a \in SUBSET Node /\ Drain(q, a, u, c, f)
    BY <1>0, <1>1 DEF Request
  <2> HIDE DEF q, f
  <2>4. \A m \in Elements(q) : f[m] # "none"
    BY <1>0, <2>1, <2>2
  <2> QED
    BY <2>1, <2>2, <2>3, <2>4, DrainWaits DEF Waits
<1>2. ASSUME Withdraw(n)
      PROVE  /\ \A m \in Node : Waits(m)' <=> Waits(m) /\ m # n
             /\ Elements(queue') \subseteq Elements(queue) \ {n}
  <2> DEFINE q == Without(queue, n)
             f == [future EXCEPT ![n] = "none"]
  <2>1. q \in Seq(Node) /\ Elements(q) \subseteq Elements(queue) \ {n}
    <3>1. \A i, j \in 1..Len(queue) : queue[i] = queue[j] => i = j
      BY DEF CapacityInvariant, DispatcherSound, SlotsSound
    <3>2. /\ q \in Seq(Node)
          /\ \A i \in 1..Len(q) : \E k \in 1..Len(queue) : q[i] = queue[k]
      BY <1>0, <3>1, WithoutSound
    <3>3. n \notin Elements(q)
      <4>1. CASE n \notin Elements(queue)
        BY <4>1 DEF Without
      <4>2. CASE n \in Elements(queue)
        <5> DEFINE k == Position(queue, n)
        <5>1. k \in 1..Len(queue) /\ queue[k] = n
          BY <1>0, <4>2 DEF Position, Elements
        <5>2. q = [i \in 1..(Len(queue) - 1) |-> IF i < k THEN queue[i] ELSE queue[i + 1]]
          BY <4>2 DEF Without
        <5> HIDE DEF k, q
        <5>3. \A i \in 1..(Len(queue) - 1) : q[i] # n
          BY <1>0, <3>1, <5>1, <5>2
        <5> QED
          BY <5>2, <5>3 DEF Elements
      <4> QED
        BY <4>1, <4>2
    <3> HIDE DEF q
    <3> QED
      BY <1>0, <3>2, <3>3 DEF Elements
  <2>2. /\ f \in [Node -> Futures]
        /\ \A m \in Node : f[m] # "none" <=> future[m] # "none" /\ m # n
    BY <1>0 DEF Futures
  <2>3. PICK a, u, c : a \in SUBSET Node /\ Drain(q, a, u, c, f)
    BY <1>0, <1>2 DEF Withdraw
  <2> HIDE DEF q, f
  <2>4. \A m \in Elements(q) : f[m] # "none"
    BY <1>0, <2>1, <2>2
  <2> QED
    BY <2>1, <2>2, <2>3, <2>4, DrainWaits DEF Waits
<1>3. ASSUME Finish(n, TRUE) \/ Finish(n, FALSE) \/ ConfirmEnded(n)
      PROVE  /\ \A m \in Node : Waits(m)' <=> Waits(m)
             /\ Elements(queue') \subseteq Elements(queue)
  <2>1. PICK a, u, c : a \in SUBSET Node /\ Drain(queue, a, u, c, future)
    BY <1>0, <1>3 DEF Finish, ConfirmEnded
  <2> QED
    BY <1>0, <2>1, DrainWaits DEF Waits
<1> QED
  BY <1>1, <1>2, <1>3

-----------------------------------------------------------------------------
(* Steps of one run leave the others alone.                                *)

\* Nothing in the hands of an owner changed.
Alike(q) == pc'[q] = pc[q] /\ at'[q] = at[q] /\ halt'[q] = halt[q] /\ flights'[q] = flights[q]

\* A step of one run that keeps what is true of it and of the nodes.
LEMMA OneRunActs ==
  ASSUME CapacityInvariant, FactsInvariant, NEW r \in Run,
         \A m \in Node : NodeSound(m)', RunSound(r)', WaitSound(r)',
         \A q \in Run \ {r} : Alike(q),
         \A m \in Node : m \notin NodesOf(r) => node'[m] = node[m] /\ (Waits(m)' => Waits(m)),
         ended' \subseteq ended \cup {r}
  PROVE  FactsInvariant'
<1> SUFFICES ASSUME NEW q \in Run \ {r} PROVE RunSound(q)' /\ WaitSound(q)'
  BY DEF FactsInvariant
<1>1. /\ \A m \in NodesOf(q) : node'[m] = node[m] /\ (Waits(m)' => Waits(m))
      /\ NodesOf(q) \subseteq Node
  BY NodesOfDisjoint
<1>2. flights[q] \subseteq NodesOf(q) /\ (pc[q] \in HandPlaces => at[q] \in NodesOf(q))
  BY DEF CapacityInvariant, OwnersSound, OwnerSound
<1>3. RunSound(q) /\ WaitSound(q) /\ Alike(q)
  BY DEF FactsInvariant
<1>4. q \in ended' => q \in ended
  OBVIOUS
<1>5. \A n \in flights'[q] : node'[n] \in Known
  BY <1>1, <1>2, <1>3 DEF RunSound, Alike
<1>6. pc'[q] \in {"prepare", "mark"} => node'[at'[q]] = "admitted"
  BY <1>1, <1>2, <1>3 DEF RunSound, Alike, HandPlaces
<1>7. pc'[q] \in {"release", "cleared"} /\ halt'[q] = {} => node'[at'[q]] = "completed"
  BY <1>1, <1>2, <1>3 DEF RunSound, Alike, HandPlaces
<1>8. RunSound(q)'
  BY <1>1, <1>3, <1>4, <1>5, <1>6, <1>7 DEF RunSound, Alike
<1>9. WaitSound(q)'
  BY <1>1, <1>3 DEF WaitSound, Past, Alike
<1> QED
  BY <1>8, <1>9

\* A step of one run that writes no fact and calls no provider.
LEMMA QuietStep ==
  ASSUME CapacityInvariant, FactsInvariant, NEW r \in Run,
         UNCHANGED <<node, ended, provider, entered>>,
         \A m \in Node : worker'[m] = "spawned" => worker[m] = "spawned",
         \A m \in Node : (Waits(m)' => Waits(m)) /\ (m \in Elements(queue') => Waits(m)'),
         \A q \in Run \ {r} : Alike(q), RunSound(r)', WaitSound(r)'
  PROVE  FactsInvariant'
<1>1. \A m \in Node : NodeSound(m)'
  BY DEF FactsInvariant, NodeSound
<1> QED
  BY <1>1, OneRunActs

\* Where an owner may only leave its wait with nobody waiting, WaitSound is kept.
LEMMA WaitKept ==
  ASSUME FactsInvariant, NEW r \in Run, \A m \in Node : Waits(m)' => Waits(m),
         Past(r)' => Past(r) \/ \A n \in NodesOf(r) : ~Waits(n)'
  PROVE  WaitSound(r)'
BY NodesOfDisjoint DEF FactsInvariant, WaitSound

\* A step that leaves queue and futures alone leaves alone who waits and who is queued.
LEMMA QueueKept ==
  ASSUME FactsInvariant, UNCHANGED <<queue, future>>
  PROVE  \A m \in Node : (Waits(m)' <=> Waits(m)) /\ (m \in Elements(queue') => Waits(m)')
BY DEF FactsInvariant, NodeSound, Waits

-----------------------------------------------------------------------------
(* The steps of an owner that leave facts and dispatcher alone.            *)

\* The steps of the loop that neither save a row nor call the dispatcher.
LEMMA LoopFacts ==
  ASSUME NEW r \in Run, CapacityInvariant, FactsInvariant,
         \/ Enter(r) \/ Prologue(r) \/ (\E why \in Findings : Guard(r, why)) \/ Await(r)
         \/ LeaveLoop(r) \/ DrainTimeout(r) \/ Abandon(r) \/ CleanUp(r) \/ Cleaned(r)
         \/ Suspended(r) \/ CancelledInCleanup(r)
  PROVE  FactsInvariant'
<1>0. RunSound(r) /\ OwnerSound(r)
  BY DEF FactsInvariant, CapacityInvariant, OwnersSound
<1>1. UNCHANGED <<dispatcherVars, factVars, at, provider, entered>>
  BY DEF Enter, Prologue, Guard, Await, LeaveLoop, DrainTimeout, Abandon, CleanUp, Cleaned,
         Suspended, CancelledInCleanup, callVars
<1>2. /\ \A m \in Node : worker'[m] = "spawned" => worker[m] = "spawned"
      /\ \A m \in Node : (Waits(m)' <=> Waits(m)) /\ (m \in Elements(queue') => Waits(m)')
  <2>1. worker' = worker \/ CancelledInCleanup(r)
    BY DEF Enter, Prologue, Guard, Await, LeaveLoop, DrainTimeout, Abandon, CleanUp, Cleaned,
           Suspended, callVars
  <2>2. UNCHANGED <<queue, future>>
    BY <1>1 DEF dispatcherVars
  <2> QED
    BY <2>1, <2>2, Typed, QueueKept DEF CancelledInCleanup
<1>3. \A q \in Run \ {r} : Alike(q)
  BY Typed DEF Alike, Goto, Halting, Enter, Prologue, Guard, Await, LeaveLoop, DrainTimeout, Abandon,
               CleanUp, Cleaned, Suspended, CancelledInCleanup
<1>4. RunSound(r)'
  <2> USE <1>0, <1>1, Typed DEF factVars, Goto, Halting, Has, Looking
  <2>1. CASE Enter(r)
    BY <2>1 DEF Enter, RunSound, OwnerSound
  <2>2. CASE Prologue(r)
    BY <2>2 DEF Prologue, RunSound, OwnerSound
  <2>3. ASSUME NEW why \in Findings, Guard(r, why) PROVE RunSound(r)'
    BY <2>3 DEF Guard, RunSound
  <2>4. CASE Await(r)
    BY <2>4 DEF Await, RunSound
  <2>5. CASE LeaveLoop(r) \/ Cleaned(r)
    BY <2>5 DEF LeaveLoop, Cleaned, RunSound
  <2>6. CASE DrainTimeout(r)
    BY <2>6 DEF DrainTimeout, RunSound
  <2>7. CASE Abandon(r)
    BY <2>7 DEF Abandon, RunSound
  <2>8. CASE CleanUp(r)
    BY <2>8 DEF CleanUp, RunSound
  <2>9. CASE Suspended(r)
    BY <2>9 DEF Suspended, RunSound
  <2>10. CASE CancelledInCleanup(r)
    BY <2>10 DEF CancelledInCleanup, RunSound
  <2> QED
    BY <2>1, <2>2, <2>3, <2>4, <2>5, <2>6, <2>7, <2>8, <2>9, <2>10
<1>5. WaitSound(r)'
  <2>1. Past(r)' => Past(r) \/ \A n \in Waiting(r) : FALSE
    <3> USE Typed DEF Past, Goto, Halting, Has, Looking
    <3>1. CASE Enter(r) \/ Prologue(r) \/ DrainTimeout(r) \/ CleanUp(r) \/ Cleaned(r)
               \/ Suspended(r) \/ CancelledInCleanup(r) \/ Abandon(r)
      BY <3>1 DEF Enter, Prologue, DrainTimeout, CleanUp, Cleaned, Suspended, CancelledInCleanup,
                  Abandon
    <3>2. CASE (\E why \in Findings : Guard(r, why)) \/ Await(r) \/ LeaveLoop(r)
      BY <3>2 DEF Guard, Await, LeaveLoop
    <3> QED
      BY <3>1, <3>2
  <2>2. (\A n \in Waiting(r) : FALSE) => \A n \in NodesOf(r) : ~Waits(n)
    BY DEF Waiting, Waits
  <2> QED
    BY <1>2, <2>1, <2>2, WaitKept, NodesOfDisjoint
<1> QED
  BY <1>1, <1>2, <1>3, <1>4, <1>5, QuietStep DEF factVars

-----------------------------------------------------------------------------
(* The steps of an owner that call the dispatcher.                         *)

\* An owner acts only in a live process.
LEMMA OwnerUp ==
  ASSUME CapacityInvariant, NEW r \in Run, pc[r] # "off"
  PROVE  up
BY DEF CapacityInvariant, DispatcherSound

\* The steps that only call the dispatcher: giving a slot back and withdrawing a request.
LEMMA CapacityFacts ==
  ASSUME NEW r \in Run, CapacityInvariant, FactsInvariant,
         \/ ConfirmSettled(r) \/ Release(r) \/ GiveUp(r) \/ Unused(r) \/ ClaimSent(r)
         \/ StopWaiting(r) \/ ClaimFails(r)
  PROVE  FactsInvariant'
<1>0. RunSound(r) /\ OwnerSound(r)
  BY DEF FactsInvariant, CapacityInvariant, OwnersSound
<1>1. UNCHANGED <<node, ended, provider, entered>>
  BY DEF ConfirmSettled, Release, GiveUp, Unused, ClaimSent, StopWaiting, ClaimFails,
         factVars, callVars
<1>2. \A m \in Node : worker'[m] = "spawned" => worker[m] = "spawned"
  <2>1. worker' = worker \/ Release(r)
    BY DEF ConfirmSettled, GiveUp, Unused, ClaimSent, StopWaiting, ClaimFails, callVars
  <2> QED
    BY <2>1, Typed DEF Release
<1>3. \A m \in Node : (Waits(m)' => Waits(m)) /\ (m \in Elements(queue') => Waits(m)')
  <2>0. /\ NodesOf(r) \subseteq Node /\ Waiting(r) \subseteq Node
        /\ \A m \in Node : m \in Elements(queue) => Waits(m)
    BY NodesOfDisjoint DEF Waiting, FactsInvariant, NodeSound
  <2>1. pc[r] # "off"
    BY DEF ConfirmSettled, Release, GiveUp, Unused, ClaimSent, StopWaiting,
         ClaimFails, Has, Looking
  <2>2. up
    BY <2>1, OwnerUp
  <2>3. CASE \E n \in Node : Withdraw(n) \/ Finish(n, TRUE) \/ Finish(n, FALSE) \/ ConfirmEnded(n)
    BY <2>0, <2>2, <2>3, MethodWaits
  <2>4. CASE ConfirmSettled(r) \/ GiveUp(r) \/ StopWaiting(r)
    BY <2>0, <2>3, <2>4 DEF ConfirmSettled, GiveUp, StopWaiting
  <2>5. CASE Release(r) \/ Unused(r) \/ ClaimFails(r)
    <3>1. at[r] \in Node
      BY <1>0, <2>0, <2>5 DEF Release, Unused, ClaimFails, Has, OwnerSound, HandPlaces
    <3>2. Withdraw(at[r]) \/ Finish(at[r], TRUE) \/ Finish(at[r], FALSE)
      BY <2>5 DEF Release, Unused, ClaimFails, Finish
    <3> QED
      BY <2>3, <3>1, <3>2
  <2>6. CASE ClaimSent(r)
    BY <2>6, QueueKept DEF ClaimSent, memoryVars
  <2> QED
    BY <2>4, <2>5, <2>6
<1>4. \A q \in Run \ {r} : Alike(q)
  BY Typed DEF Alike, Goto, Halting, ConfirmSettled, Release, GiveUp, Unused, ClaimSent,
               StopWaiting, ClaimFails, ownerVars
<1>5. RunSound(r)'
  <2> USE <1>0, <1>1, Typed DEF Goto, Halting, Has, Looking
  <2>1. CASE ConfirmSettled(r) \/ StopWaiting(r)
    BY <2>1 DEF ConfirmSettled, StopWaiting, RunSound, ownerVars
  <2>2. CASE Release(r)
    BY <2>2 DEF Release, RunSound
  <2>3. CASE GiveUp(r)
    BY <2>3 DEF GiveUp, RunSound
  <2>4. CASE Unused(r) \/ ClaimFails(r)
    BY <2>4 DEF Unused, ClaimFails, RunSound
  <2>5. CASE ClaimSent(r)
    BY <2>5 DEF ClaimSent, RunSound
  <2> QED
    BY <2>1, <2>2, <2>3, <2>4, <2>5
<1>6. WaitSound(r)'
  <2>1. CASE GiveUp(r) /\ ~Past(r)
    <3>1. PICK n \in Waiting(r) : Withdraw(n)
      BY <2>1 DEF GiveUp, Past, Has
    <3>2. n \in NodesOf(r) /\ NodesOf(r) \subseteq Node /\ up /\ WaitSound(r) /\ Waits(n)
      BY <2>1, <3>1, NodesOfDisjoint, OwnerUp DEF Waiting, Waits, Past, FactsInvariant
    <3>3. \A m \in NodesOf(r) : ~Waits(m)'
      BY <3>1, <3>2, MethodWaits DEF WaitSound
    <3> QED
      BY <1>3, <3>3, WaitKept
  <2>2. CASE ~(GiveUp(r) /\ ~Past(r))
    <3>1. Past(r)' => Past(r)
      BY <2>2, Typed DEF Past, Goto, Halting, Has, Looking, ConfirmSettled, Release, GiveUp, Unused,
                         ClaimSent, StopWaiting, ClaimFails, ownerVars
    <3> QED
      BY <1>3, <3>1, WaitKept
  <2> QED
    BY <2>1, <2>2
<1> QED
  BY <1>1, <1>2, <1>3, <1>4, <1>5, <1>6, QuietStep

-----------------------------------------------------------------------------
(* The steps that write facts.                                             *)

\* What an owner has in hand is a node of its run.
LEMMA InHand ==
  ASSUME CapacityInvariant, FactsInvariant, NEW r \in Run, pc[r] \in HandPlaces \cup {"tool"}
  PROVE  at[r] \in NodesOf(r) /\ at[r] \in Node
BY NodesOfDisjoint DEF CapacityInvariant, OwnersSound, OwnerSound, FactsInvariant, RunSound

\* What it has in hand before the marker is saved was not sent and no longer waits.
LEMMA NotYetSent ==
  ASSUME CapacityInvariant, FactsInvariant, NEW r \in Run, pc[r] \in {"prepare", "mark"}
  PROVE  /\ at[r] \in NodesOf(r) /\ at[r] \in Node
         /\ node[at[r]] = "admitted" /\ ~Waits(at[r])
<1>1. at[r] \in NodesOf(r) /\ at[r] \in Node
  BY InHand DEF HandPlaces
<1> QED
  BY <1>1 DEF FactsInvariant, RunSound, WaitSound, Past

\* Asking for capacity makes one node wait, of an owner that had none waiting.
LEMMA AskFacts ==
  ASSUME NEW r \in Run, CapacityInvariant, FactsInvariant, Ask(r)
  PROVE  FactsInvariant'
<1>1. PICK n \in FirstReady(r) \ Tool : \/ Requestable(n) /\ Request(n) /\ UNCHANGED halt
                                        \/ Halting(r, {"stop"}) /\ UNCHANGED <<claim, memoryVars>>
  BY DEF Ask
<1>2. n \in NodesOf(r) /\ n \in Node /\ node[n] \in {"pending", "admitted"}
  BY NodesOfDisjoint DEF FirstReady, Ready
<1>3. up /\ pc[r] = "round"
  BY OwnerUp DEF Ask, Looking, Has
<1>4. /\ \A m \in Node : Waits(m)' => Waits(m) \/ m = n
      /\ \A m \in Node : m \in Elements(queue') => Waits(m)'
  <2>1. CASE Request(n)
    BY <1>2, <1>3, <2>1, MethodWaits DEF FactsInvariant, NodeSound
  <2>2. CASE UNCHANGED memoryVars
    BY <2>2, QueueKept DEF memoryVars
  <2> QED
    BY <1>1, <2>1, <2>2
<1>5. UNCHANGED <<node, ended, flights, provider, entered, worker, at>>
  BY DEF Ask, factVars, callVars
<1>6. \A m \in Node : NodeSound(m)'
  BY <1>1, <1>2, <1>4, <1>5 DEF FactsInvariant, NodeSound
<1>7. pc'[r] = "top" /\ (halt'[r] = {} => halt[r] = {})
  BY Typed DEF Ask, Goto
<1>8. RunSound(r)'
  BY <1>3, <1>5, <1>7 DEF FactsInvariant, RunSound
<1>9. \A q \in Run \ {r} : Alike(q)
  BY <1>1, <1>5, Typed DEF Ask, Goto, Halting, Alike
<1>10. WaitSound(r)'
  <2>1. \A m \in NodesOf(r) : ~Waits(m)
    BY DEF Ask, Waiting, Waits
  <2> QED
    BY <1>4, <1>7, <2>1, NodesOfDisjoint DEF WaitSound, Past
<1> QED
  BY <1>2, <1>4, <1>5, <1>6, <1>8, <1>9, <1>10, OneRunActs

\* Capacity was granted or refused: the node no longer waits, and its admission is saved.
LEMMA AdmitFacts ==
  ASSUME NEW r \in Run, CapacityInvariant, FactsInvariant, Admit(r)
  PROVE  FactsInvariant'
<1>1. PICK n \in NodesOf(r) : /\ future[n] = "granted"
                              /\ node' = [node EXCEPT ![n] = "admitted"]
                              /\ future' = [future EXCEPT ![n] = "none"]
                              /\ at' = [at EXCEPT ![r] = n]
  BY DEF Admit, Waiting
<1>2. n \in Node /\ up /\ pc[r] = "round" /\ halt[r] = {}
  BY NodesOfDisjoint, OwnerUp DEF Admit, Looking, Has
<1>3. NodeSound(n) /\ Waits(n) /\ WaitSound(r)
  BY <1>1, <1>2 DEF FactsInvariant, Waits
<1>4. n \notin Elements(queue)
  <2>1. n \in active
    BY <1>1, <1>2 DEF CapacityInvariant, DispatcherSound, SlotsSound, Occupied
  <2> QED
    BY <1>2, <2>1, Typed DEF CapacityInvariant, DispatcherSound, SlotsSound, Elements
<1>5. UNCHANGED <<queue, ended, flights, halt, provider, entered, worker>>
  BY DEF Admit, callVars
<1>6. \A m \in Node \ {n} : node'[m] = node[m] /\ (Waits(m)' <=> Waits(m))
  BY <1>1, <1>5, Typed DEF Waits
<1>7. node'[n] = "admitted" /\ ~Waits(n)' /\ at'[r] = n /\ pc'[r] = "prepare"
  BY <1>1, <1>2, <1>4, <1>5, Typed DEF Waits, Admit, Goto
<1>8. \A m \in Node : NodeSound(m)'
  BY <1>3, <1>4, <1>5, <1>6, <1>7 DEF FactsInvariant, NodeSound, Known
<1>9. RunSound(r)'
  <2>1. RunSound(r) /\ n \notin flights[r]
    BY <1>3 DEF FactsInvariant, RunSound, NodeSound, Known
  <2>2. NodesOf(r) \subseteq Node /\ flights[r] \subseteq Node
    BY NodesOfDisjoint, Typed
  <2> QED
    BY <1>2, <1>5, <1>6, <1>7, <2>1, <2>2 DEF RunSound, Waits
<1>10. \A q \in Run \ {r} : Alike(q)
  BY <1>1, <1>5, Typed DEF Admit, Goto, Alike
<1>11. WaitSound(r)'
  BY <1>3, <1>6, <1>7, NodesOfDisjoint DEF WaitSound
<1> QED
  BY <1>1, <1>5, <1>6, <1>8, <1>9, <1>10, <1>11, OneRunActs

\* Settling saves the end of a node that was sent.
LEMMA SettleFacts ==
  ASSUME NEW r \in Run, CapacityInvariant, FactsInvariant, Settle(r)
  PROVE  FactsInvariant'
<1>1. PICK n, s :
        /\ n \in flights[r]
        /\ (Has(r, "round") /\ Returned(n)) \/ Has(r, "clean")
        /\ s \in Fact(n)
        /\ node' = [node EXCEPT ![n] = s]
        /\ Halting(r, IF s = "completed" THEN {} ELSE {"drain"})
        /\ at' = [at EXCEPT ![r] = n]
  BY DEF Settle
<1>2. /\ n \in NodesOf(r) /\ n \in Node /\ s \in Known /\ worker[n] # "spawned"
      /\ RunSound(r)
  <2>1. OwnerSound(r) /\ RunSound(r)
    BY DEF CapacityInvariant, OwnersSound, FactsInvariant
  <2> QED
    BY <1>1, <2>1, NodesOfDisjoint DEF OwnerSound, Fact, Known, Has, Returned
<1>3. node[n] \in Known /\ ~Waits(n)
  BY <1>1, <1>2 DEF RunSound, FactsInvariant, NodeSound, Known
<1>4. UNCHANGED <<queue, future, ended, flights, provider, entered, worker>>
  BY DEF Settle, callVars, dispatcherVars
<1>5. /\ \A m \in Node \ {n} : node'[m] = node[m]
      /\ node'[n] = s
      /\ \A m \in Node : Waits(m)' <=> Waits(m)
  BY <1>1, <1>2, <1>4, Typed DEF Waits
<1>6. \A m \in Node : NodeSound(m)'
  BY <1>2, <1>3, <1>4, <1>5 DEF FactsInvariant, NodeSound
<1>7. RunSound(r)'
  <2>1. pc'[r] \in {"release", "cleared"} /\ at'[r] = n /\ pc[r] \in {"round", "clean"}
    BY <1>1, Typed DEF Settle, Goto, Has
  <2>2. halt'[r] = {} => s = "completed" /\ halt[r] = {}
    BY <1>1, Typed DEF Halting
  <2>3. NodesOf(r) \subseteq Node /\ flights[r] \subseteq Node
    BY NodesOfDisjoint, Typed
  <2> QED
    BY <1>2, <1>4, <1>5, <2>1, <2>2, <2>3 DEF RunSound
<1>8. \A q \in Run \ {r} : Alike(q)
  BY <1>1, <1>4, Typed DEF Settle, Goto, Halting, Alike
<1>9. WaitSound(r)'
  <2>1. Past(r)' => Past(r)
    BY <1>1, Typed DEF Settle, Goto, Has, Past
  <2> QED
    BY <1>5, <2>1, WaitKept
<1> QED
  BY <1>2, <1>4, <1>5, <1>6, <1>7, <1>8, <1>9, OneRunActs

\* A preparation that fails ends a node that was never sent.
LEMMA PreparationFailsFacts ==
  ASSUME NEW r \in Run, CapacityInvariant, FactsInvariant, PreparationFails(r)
  PROVE  FactsInvariant'
<1> DEFINE n == at[r]
<1>1. pc[r] = "prepare" /\ n \in NodesOf(r) /\ n \in Node /\ RunSound(r)
  BY InHand DEF PreparationFails, Has, HandPlaces, FactsInvariant
<1>2. node[n] = "admitted" /\ ~Waits(n)
  BY <1>1, NotYetSent
<1>3. UNCHANGED <<queue, future, ended, flights, halt, at, provider, entered, worker>>
  BY DEF PreparationFails, callVars, dispatcherVars
<1>4. /\ \A m \in Node \ {n} : node'[m] = node[m]
      /\ node'[n] = "failed"
      /\ \A m \in Node : Waits(m)' <=> Waits(m)
  BY <1>1, <1>3, Typed DEF PreparationFails, Waits
<1> HIDE DEF n
<1>5. \A m \in Node : NodeSound(m)'
  BY <1>2, <1>3, <1>4 DEF FactsInvariant, NodeSound, Known
<1>6. RunSound(r)'
  <2>1. pc'[r] = "unused"
    BY Typed DEF PreparationFails, Goto
  <2>2. NodesOf(r) \subseteq Node /\ flights[r] \subseteq Node
    BY NodesOfDisjoint, Typed
  <2> QED
    BY <1>1, <1>3, <1>4, <2>1, <2>2 DEF RunSound, Known
<1>7. \A q \in Run \ {r} : Alike(q)
  BY <1>3, Typed DEF PreparationFails, Goto, Alike
<1>9. WaitSound(r)'
  BY <1>1, <1>4, WaitKept DEF Past
<1> QED
  BY <1>1, <1>3, <1>4, <1>5, <1>6, <1>7, <1>9, OneRunActs

\* The sending marker is saved before the worker that can enter the provider exists.
LEMMA MarkFacts ==
  ASSUME NEW r \in Run, CapacityInvariant, FactsInvariant, Mark(r)
  PROVE  FactsInvariant'
<1> DEFINE n == at[r]
<1>1. pc[r] = "mark" /\ n \in NodesOf(r) /\ n \in Node /\ RunSound(r)
  BY InHand DEF Mark, Has, HandPlaces, FactsInvariant
<1>2. node[n] = "admitted" /\ ~Waits(n)
  BY <1>1, NotYetSent
<1>3. entered[n] = 0
  BY <1>1, <1>2 DEF FactsInvariant, NodeSound, Known
<1>4. UNCHANGED <<queue, future, ended, halt, provider, entered>>
  BY DEF Mark, dispatcherVars
<1>5. /\ \A m \in Node \ {n} : node'[m] = node[m] /\ worker'[m] = worker[m]
      /\ node'[n] = "unknown"
      /\ \A m \in Node : Waits(m)' <=> Waits(m)
      /\ flights'[r] = flights[r] \cup {n}
      /\ pc'[r] = "top"
  BY <1>1, <1>4, Typed DEF Mark, Marked, Waits, Goto
<1>6. \A q \in Run \ {r} : Alike(q)
  BY <1>4, Typed DEF Mark, Goto, Alike
<1> HIDE DEF n
<1>7. \A m \in Node : NodeSound(m)'
  BY <1>2, <1>3, <1>4, <1>5 DEF FactsInvariant, NodeSound, Known
<1>8. RunSound(r)'
  <2>1. NodesOf(r) \subseteq Node /\ flights[r] \subseteq Node
    BY NodesOfDisjoint, Typed
  <2> QED
    BY <1>1, <1>4, <1>5, <2>1 DEF RunSound, Known
<1>9. WaitSound(r)'
  BY <1>1, <1>5, WaitKept DEF Past
<1> QED
  BY <1>1, <1>4, <1>5, <1>6, <1>7, <1>8, <1>9, OneRunActs

\* A marker that may have been saved without the owner knowing halts the owner.
LEMMA MarkFailsFacts ==
  ASSUME NEW r \in Run, CapacityInvariant, FactsInvariant, MarkFails(r)
  PROVE  FactsInvariant'
<1> DEFINE n == at[r]
<1>1. pc[r] = "mark" /\ n \in NodesOf(r) /\ n \in Node /\ RunSound(r) /\ up
  BY InHand, OwnerUp DEF MarkFails, Has, HandPlaces, FactsInvariant
<1>2. node[n] = "admitted" /\ ~Waits(n)
  BY <1>1, NotYetSent
<1>3. UNCHANGED <<ended, flights, provider, entered, worker>>
  BY DEF MarkFails, callVars
<1>4. /\ \A m \in Node \ {n} : node'[m] = node[m]
      /\ node'[n] \in {"admitted", "unknown"}
      /\ pc'[r] = "abandon" /\ halt'[r] # {}
  BY <1>1, <1>2, Typed DEF MarkFails, Goto, Halting
<1>5. \A m \in Node : (Waits(m)' => Waits(m)) /\ (m \in Elements(queue') => Waits(m)')
  BY <1>1, MethodWaits DEF MarkFails, FactsInvariant, NodeSound
<1>6. \A q \in Run \ {r} : Alike(q)
  BY <1>3, Typed DEF MarkFails, Goto, Halting, Alike
<1> HIDE DEF n
<1>7. \A m \in Node : NodeSound(m)'
  BY <1>2, <1>3, <1>4, <1>5 DEF FactsInvariant, NodeSound, Known
<1>8. RunSound(r)'
  <2>1. flights[r] \subseteq Node
    BY Typed
  <2> QED
    BY <1>1, <1>2, <1>3, <1>4, <2>1 DEF RunSound, Known
<1>9. WaitSound(r)'
  BY <1>1, <1>5, WaitKept DEF Past
<1> QED
  BY <1>1, <1>3, <1>4, <1>5, <1>6, <1>7, <1>8, <1>9, OneRunActs

\* A tool starts where the owner has nothing in flight, so where no node is unknown.
LEMMA StartToolFacts ==
  ASSUME NEW r \in Run, CapacityInvariant, FactsInvariant, StartTool(r)
  PROVE  FactsInvariant'
<1>0. /\ pc[r] = "round" /\ halt[r] = {} /\ flights[r] = {} /\ RunSound(r)
      /\ UNCHANGED <<queue, future, ended, flights, provider, entered, worker>>
      /\ \A q \in Run \ {r} : Alike(q)
  BY Typed DEF StartTool, Looking, Has, RunIsQuiet, FactsInvariant, callVars, dispatcherVars, Alike,
               Goto, Halting
<1>1. /\ \A m \in Node : (Waits(m)' <=> Waits(m)) /\ (m \in Elements(queue') => Waits(m)')
      /\ WaitSound(r)'
  <2>1. \A m \in Node : (Waits(m)' <=> Waits(m)) /\ (m \in Elements(queue') => Waits(m)')
    BY <1>0, QueueKept
  <2>2. \A m \in NodesOf(r) : ~Waits(m)
    BY DEF StartTool, Waiting, Waits
  <2> QED
    BY <2>1, <2>2, WaitKept, NodesOfDisjoint
<1>2. CASE \E n \in FirstReady(r) \cap Tool :
             /\ node' = [node EXCEPT ![n] = "admitted"]
             /\ at' = [at EXCEPT ![r] = n]
             /\ Goto(r, "tool")
             /\ UNCHANGED halt
  <2>1. PICK n \in FirstReady(r) \cap Tool : /\ node' = [node EXCEPT ![n] = "admitted"]
                                             /\ at' = [at EXCEPT ![r] = n]
    BY <1>2
  <2>2. n \in NodesOf(r) /\ n \in Node /\ node[n] \in {"pending", "admitted"}
    BY NodesOfDisjoint DEF FirstReady, Ready
  <2>3. /\ \A m \in Node \ {n} : node'[m] = node[m]
        /\ node'[n] = "admitted" /\ at'[r] = n /\ pc'[r] = "tool" /\ halt'[r] = {}
    BY <1>0, <1>2, <2>1, <2>2, Typed DEF Goto
  <2>4. \A m \in Node : NodeSound(m)'
    BY <1>0, <1>1, <2>2, <2>3 DEF FactsInvariant, NodeSound, Known
  <2>5. NodesOf(r) \subseteq Node
    BY NodesOfDisjoint
  <2>6. RunSound(r)'
    BY <1>0, <2>2, <2>3, <2>5 DEF RunSound
  <2> QED
    BY <1>0, <1>1, <2>2, <2>3, <2>4, <2>6, OneRunActs
<1>3. CASE UNCHANGED <<node, at>> /\ pc'[r] = "top" /\ halt'[r] # {}
  <2>1. RunSound(r)'
    BY <1>0, <1>3 DEF RunSound
  <2> QED
    BY <1>0, <1>1, <1>3, <2>1, QuietStep
<1>4. \/ \E n \in FirstReady(r) \cap Tool :
            /\ node' = [node EXCEPT ![n] = "admitted"]
            /\ at' = [at EXCEPT ![r] = n]
            /\ Goto(r, "tool")
            /\ UNCHANGED halt
      \/ UNCHANGED <<node, at>> /\ pc'[r] = "top" /\ halt'[r] # {}
  <2>1. /\ Goto(r, "top") => pc'[r] = "top"
        /\ Halting(r, {"stop"}) => halt'[r] # {}
    BY Typed DEF Goto, Halting
  <2> QED
    BY <2>1 DEF StartTool
<1> QED
  BY <1>2, <1>3, <1>4

\* The end of a tool settles the node of the tool alone.
LEMMA ToolEndsFacts ==
  ASSUME NEW r \in Run, CapacityInvariant, FactsInvariant, ToolEnds(r)
  PROVE  FactsInvariant'
<1> DEFINE n == at[r]
<1>0. /\ pc[r] = "tool" /\ halt[r] = {} /\ flights[r] = {} /\ RunSound(r)
      /\ n \in NodesOf(r) /\ n \in Node /\ n \in Tool
      /\ UNCHANGED <<queue, future, ended, flights, provider, entered, worker>>
      /\ \A q \in Run \ {r} : Alike(q)
  <2>1. pc[r] = "tool" /\ RunSound(r) /\ OwnerSound(r)
    BY DEF ToolEnds, FactsInvariant, CapacityInvariant, OwnersSound
  <2>2. /\ UNCHANGED <<queue, future, ended, flights, provider, entered, worker>>
        /\ \A q \in Run \ {r} : Alike(q)
    BY Typed DEF ToolEnds, callVars, dispatcherVars, Alike, Goto, Halting
  <2> QED
    BY <2>1, <2>2, NodesOfDisjoint DEF RunSound, OwnerSound
<1>1. worker[n] # "spawned" /\ ~Waits(n)
  <2>1. claim[n] = "none"
    BY <1>0, OwnerUp DEF CapacityInvariant, DispatcherSound, SlotsSound
  <2>2. worker[n] # "spawned"
    BY <1>0, <2>1 DEF CapacityInvariant, CallsSound, OwnersSound, OwnerSound
  <2> QED
    BY <1>0, <2>2 DEF FactsInvariant, NodeSound
<1>2. \A m \in Node : Waits(m)' <=> Waits(m)
  BY <1>0 DEF Waits
<1>3. PICK s : /\ node' = [node EXCEPT ![n] = s]
               /\ s = node[n] \/ s \in Known
               /\ pc'[r] \in {"top", "abandon"}
               /\ halt'[r] = {} => s = "completed"
  <2> DEFINE Ended(s) == /\ node' = [node EXCEPT ![n] = s]
                         /\ Halting(r, IF s = "completed" THEN {} ELSE {"drain"})
                         /\ Goto(r, "top")
             Kept     == node' = node /\ pc'[r] \in {"top", "abandon"} /\ halt'[r] # {}
  <2>1. ASSUME NEW s \in Known, Ended(s)
        PROVE  /\ node' = [node EXCEPT ![n] = s]
               /\ pc'[r] \in {"top", "abandon"}
               /\ halt'[r] = {} => s = "completed"
    <3>1. pc'[r] = "top"
      BY <2>1, Typed DEF Goto
    <3>2. halt'[r] = {} => s = "completed"
      BY <2>1, Typed DEF Halting
    <3> QED
      BY <2>1, <3>1, <3>2
  <2>2. ASSUME Kept
        PROVE  /\ node' = [node EXCEPT ![n] = node[n]]
               /\ pc'[r] \in {"top", "abandon"}
               /\ halt'[r] # {}
    BY <1>0, <2>2, Typed
  <2>3. (\E s \in Known : Ended(s)) \/ Kept
    <3>1. \/ \E s \in Known : Ended(s)
          \/ Halting(r, {"stop"}) /\ Goto(r, "top") /\ node' = node
          \/ Halting(r, {"raised"}) /\ Goto(r, "abandon") /\ node' = node
      BY ZenonT(30) DEF ToolEnds, Known
    <3>2. ASSUME Halting(r, {"stop"}), Goto(r, "top"), node' = node PROVE Kept
      BY <3>2, Typed DEF Halting, Goto
    <3>3. ASSUME Halting(r, {"raised"}), Goto(r, "abandon"), node' = node PROVE Kept
      BY <3>3, Typed DEF Halting, Goto
    <3> HIDE DEF Ended, Kept
    <3> QED
      BY <3>1, <3>2, <3>3
  <2> HIDE DEF Ended, Kept, n
  <2>4. CASE Kept
    BY <2>2, <2>4
  <2>5. CASE \E s \in Known : Ended(s)
    BY <2>1, <2>5
  <2> QED
    BY <2>3, <2>4, <2>5
<1>4. (\A m \in Node \ {n} : node'[m] = node[m]) /\ node'[n] = s
  BY <1>0, <1>3, Typed
<1> HIDE DEF n
<1>5. \A m \in Node : NodeSound(m)'
  BY <1>0, <1>1, <1>2, <1>3, <1>4 DEF FactsInvariant, NodeSound, Known
<1>6. RunSound(r)'
  <2>1. NodesOf(r) \subseteq Node
    BY NodesOfDisjoint
  <2> QED
    BY <1>0, <1>3, <1>4, <2>1 DEF RunSound, Known
<1>7. WaitSound(r)'
  BY <1>0, <1>2, WaitKept DEF Past
<1> QED
  BY <1>0, <1>2, <1>4, <1>5, <1>6, <1>7, OneRunActs

\* A node that was sent and not settled keeps its run open, so closing drops none.
LEMMA FinishedFacts ==
  ASSUME NEW r \in Run, CapacityInvariant, FactsInvariant, Finished(r)
  PROVE  FactsInvariant'
<1>1. /\ pc[r] = "leave" /\ RunSound(r) /\ flights[r] = {}
      /\ \A n \in NodesOf(r) : node[n] # "unknown"
      /\ UNCHANGED <<queue, future, flights, provider, entered, worker>>
      /\ ended' = ended \cup {r}
  BY DEF Finished, Has, Closes, FactsInvariant, CapacityInvariant, OwnersSound, OwnerSound, callVars,
         dispatcherVars
<1>2. /\ \A m \in Node : m \notin NodesOf(r) => node'[m] = node[m]
      /\ \A m \in Node : node'[m] = node[m] \/ (node'[m] = "cancelled" /\ ~SettledNode(m)
                                                /\ m \in NodesOf(r) /\ ~Waits(m))
      /\ \A m \in Node : Waits(m)' <=> Waits(m)
  <2>1. \A m \in NodesOf(r) : ~Waits(m)
    BY <1>1 DEF FactsInvariant, WaitSound, Past
  <2> QED
    BY <1>1, <2>1 DEF Finished, Waits
<1>3. \A m \in Node : NodeSound(m)'
  BY <1>1, <1>2 DEF FactsInvariant, NodeSound, Known, SettledNode
<1>4. pc'[r] = "off"
  BY Typed DEF Finished, Goto
<1>5. RunSound(r)'
  BY <1>1, <1>2, <1>4, NodesOfDisjoint DEF RunSound
<1>6. \A q \in Run \ {r} : Alike(q)
  BY <1>1, Typed DEF Finished, Goto, Alike
<1>7. WaitSound(r)'
  BY <1>1, <1>2, WaitKept DEF Past
<1> QED
  BY <1>1, <1>2, <1>3, <1>5, <1>6, <1>7, OneRunActs

\* What a receipt settles has no worker left.
LEMMA ReconcileFacts ==
  ASSUME NEW r \in Run, NEW n \in Node, CapacityInvariant, FactsInvariant, Reconcile(r, n)
  PROVE  FactsInvariant'
<1>1. /\ pc[r] = "off" /\ r \notin ended /\ n \in NodesOf(r) /\ node[n] = "unknown"
      /\ RunSound(r) /\ flights[r] = {}
      /\ UNCHANGED <<queue, future, ended, flights, halt, at, provider, entered, worker>>
  BY DEF Reconcile, FactsInvariant, CapacityInvariant, OwnersSound, OwnerSound, callVars,
         dispatcherVars
<1>2. PICK s \in {"completed", "failed"} : node' = [node EXCEPT ![n] = s]
  BY DEF Reconcile
<1>3. /\ \A m \in Node \ {n} : node'[m] = node[m]
      /\ node'[n] = s
      /\ \A m \in Node : Waits(m)' <=> Waits(m)
      /\ pc'[r] = "enter"
  BY <1>1, <1>2, Typed DEF Waits, Reconcile, Goto
<1>4. worker[n] # "spawned"
  BY <1>1, NodesOfDisjoint DEF CapacityInvariant, CallsSound, OwnersSound, OwnerSound
<1>5. \A m \in Node : NodeSound(m)'
  BY <1>1, <1>3, <1>4 DEF FactsInvariant, NodeSound, Known
<1>6. RunSound(r)'
  BY <1>1, <1>3 DEF RunSound
<1>7. \A q \in Run \ {r} : Alike(q)
  BY <1>1, Typed DEF Reconcile, Goto, Alike
<1>8. WaitSound(r)'
  BY <1>1, <1>3, WaitKept DEF Past
<1> QED
  BY <1>1, <1>3, <1>5, <1>6, <1>7, <1>8, OneRunActs

-----------------------------------------------------------------------------
(* Workers, the provider, the host, and the process.                       *)

\* Workers, the provider and the host change no row.
LEMMA OutsideFacts ==
  ASSUME NEW n \in Node, CapacityInvariant, FactsInvariant,
         ValidateSend(n) \/ Answer(n) \/ Lose(n) \/ ProviderEnds(n) \/ HostConfirms(n)
  PROVE  FactsInvariant'
<1>1. UNCHANGED <<node, ended, pc, at, flights, halt>>
  BY DEF ValidateSend, Answer, Lose, ProviderEnds, HostConfirms, factVars, ownerVars
<1>2. \A m \in Node : (Waits(m)' <=> Waits(m)) /\ (m \in Elements(queue') => Waits(m)')
  <2>1. CASE HostConfirms(n)
    BY <2>1, MethodWaits DEF HostConfirms, FactsInvariant, NodeSound
  <2>2. CASE ValidateSend(n) \/ Answer(n) \/ Lose(n) \/ ProviderEnds(n)
    BY <2>2, QueueKept DEF ValidateSend, Answer, Lose, ProviderEnds, dispatcherVars
  <2> QED
    BY <2>1, <2>2
<1>3. \A m \in Node : NodeSound(m)'
  <2>1. CASE ValidateSend(n)
    <3>1. NodeSound(n) /\ worker[n] = "spawned"
      BY <2>1 DEF FactsInvariant, ValidateSend
    <3>2. /\ \A m \in Node \ {n} : /\ worker'[m] = worker[m] /\ provider'[m] = provider[m]
                                   /\ entered'[m] = entered[m]
          /\ worker'[n] # "spawned"
          /\ \/ provider'[n] = provider[n] /\ entered'[n] = entered[n]
             \/ entered'[n] = entered[n] + 1
      BY <2>1, Typed DEF ValidateSend
    <3> QED
      BY <1>1, <1>2, <3>1, <3>2 DEF FactsInvariant, NodeSound, Known
  <2>2. CASE Answer(n) \/ Lose(n) \/ ProviderEnds(n) \/ HostConfirms(n)
    <3>1. /\ \A m \in Node : /\ worker'[m] = "spawned" => worker[m] = "spawned"
                             /\ provider'[m] = "processing" => provider[m] = "processing"
          /\ UNCHANGED entered
      BY <2>2, Typed DEF Answer, Lose, ProviderEnds, HostConfirms, callVars
    <3> QED
      BY <1>1, <1>2, <3>1 DEF FactsInvariant, NodeSound
  <2> QED
    BY <2>1, <2>2
<1>4. ASSUME NEW r \in Run PROVE RunSound(r)' /\ WaitSound(r)'
  <2>1. RunSound(r)'
    BY <1>1 DEF FactsInvariant, RunSound
  <2>2. WaitSound(r)'
    BY <1>1, <1>2, WaitKept DEF Past
  <2> QED
    BY <2>1, <2>2
<1> QED
  BY <1>3, <1>4 DEF FactsInvariant

\* A crash loses what is in memory, and every fact stays.
LEMMA ProcessFacts ==
  ASSUME CapacityInvariant, FactsInvariant, Crash \/ Close \/ Reopen
  PROVE  FactsInvariant'
<1>1. UNCHANGED <<node, ended, provider, entered>>
  BY DEF Crash, Close, Reopen, Forgotten, factVars, callVars
<1>2. \A r \in Run : pc'[r] = "off" /\ flights'[r] = {}
  BY DEF Crash, Close, Reopen, Forgotten, ownerVars, CapacityInvariant, DispatcherSound, OwnersSound,
         OwnerSound
<1>3. \A m \in Node : /\ ~Waits(m)' /\ m \notin Elements(queue')
                      /\ worker'[m] = "spawned" => worker[m] = "spawned"
  <2>1. CASE Crash \/ Close
    BY <2>1 DEF Crash, Close, Forgotten, Down, Waits, Elements
  <2>2. CASE Reopen
    BY <2>2 DEF Reopen, Up, callVars, Waits, Elements, CapacityInvariant, DispatcherSound
  <2> QED
    BY <2>1, <2>2
<1>4. \A m \in Node : NodeSound(m)'
  BY <1>1, <1>3 DEF FactsInvariant, NodeSound
<1>5. \A r \in Run : RunSound(r)'
  BY <1>1, <1>2 DEF FactsInvariant, RunSound
<1>6. \A r \in Run : WaitSound(r)'
  BY <1>3, WaitKept, NodesOfDisjoint
<1> QED
  BY <1>4, <1>5, <1>6 DEF FactsInvariant

-----------------------------------------------------------------------------
(* The theorems.                                                           *)

\* Nothing was sent at the start.
LEMMA FactsInit == Init => FactsInvariant
<1> SUFFICES ASSUME Init PROVE FactsInvariant
  OBVIOUS
<1>1. /\ \A n \in Node : /\ ~Waits(n) /\ entered[n] = 0 /\ node[n] = "pending"
                         /\ worker[n] = "none" /\ provider[n] = "idle"
                         /\ n \notin Elements(queue)
      /\ \A r \in Run : pc[r] = "off" /\ flights[r] = {}
      /\ ended = {}
  BY DEF Init, DispatcherInit, Waits, Elements
<1> QED
  BY <1>1, NodesOfDisjoint DEF FactsInvariant, NodeSound, RunSound, WaitSound

\* Every action keeps the invariant.
LEMMA FactsStep == CapacityInvariant /\ FactsInvariant /\ [Next]_vars => FactsInvariant'
<1> SUFFICES ASSUME CapacityInvariant, FactsInvariant, [Next]_vars PROVE FactsInvariant'
  OBVIOUS
<1>1. ASSUME NEW r \in Run, OwnerSteps(r) PROVE FactsInvariant'
  BY <1>1, LoopFacts, CapacityFacts, AskFacts, AdmitFacts, SettleFacts, PreparationFailsFacts,
     MarkFacts, MarkFailsFacts, StartToolFacts, ToolEndsFacts, FinishedFacts
  DEF OwnerSteps
<1>2. ASSUME NEW r \in Run, Enter(r) \/ CancelledInCleanup(r) \/ ClaimFails(r)
      PROVE  FactsInvariant'
  BY <1>2, LoopFacts, CapacityFacts
<1>3. ASSUME NEW r \in Run, NEW why \in Findings, Guard(r, why) PROVE FactsInvariant'
  BY <1>3, LoopFacts
<1>4. ASSUME NEW r \in Run, NEW n \in Node, Reconcile(r, n) PROVE FactsInvariant'
  BY <1>4, ReconcileFacts
<1>5. ASSUME NEW n \in Node,
             ValidateSend(n) \/ Answer(n) \/ Lose(n) \/ ProviderEnds(n) \/ HostConfirms(n)
      PROVE  FactsInvariant'
  BY <1>5, OutsideFacts
<1>6. CASE Crash \/ Close \/ Reopen
  BY <1>6, ProcessFacts
<1>7. CASE UNCHANGED vars
  BY <1>7 DEF FactsInvariant, NodeSound, RunSound, WaitSound, Past, Waits, Elements, vars,
              dispatcherVars, factVars, ownerVars, callVars
<1> QED
  BY <1>1, <1>2, <1>3, <1>4, <1>5, <1>6, <1>7 DEF Next

\* Both invariants hold in every reachable state.
LEMMA FactsHold == Spec => [](CapacityInvariant /\ FactsInvariant)
<1> QED
  BY FactsInit, FactsStep, CapacityInvariantHolds, PTL DEF Spec

\* A request that entered the provider has its row first, is not sent again, and is not
\* dropped when its run is stopped (ADR 035, decisions 1 and 5).
THEOREM RecordedFirst == Spec => []RecordedBeforeEntry
<1>1. CapacityInvariant /\ FactsInvariant => RecordedBeforeEntry
  BY DEF FactsInvariant, NodeSound, Known, RecordedBeforeEntry
<1> QED
  BY <1>1, FactsHold, PTL

\* No request of the run is at the provider while one of its tools executes, not even
\* one an earlier owner lost (ADR 035, decision 6).
THEOREM ToolIsAlone == Spec => []ToolHasTheRun
<1>1. CapacityInvariant /\ FactsInvariant => ToolHasTheRun
  <2> SUFFICES ASSUME CapacityInvariant, FactsInvariant, NEW r \in Run, pc[r] = "tool",
                      NEW n \in NodesOf(r), provider[n] = "processing"
               PROVE  FALSE
    BY DEF ToolHasTheRun
  <2>1. n \in Node /\ NodeSound(n) /\ RunSound(r)
    BY NodesOfDisjoint DEF FactsInvariant
  <2>2. node[n] = "unknown"
    BY <2>1 DEF CapacityInvariant, CallsSound, SettledNode, NodeSound, Known
  <2> QED
    BY <2>1, <2>2 DEF RunSound
<1> QED
  BY <1>1, FactsHold, PTL

\* A run that was given a terminal result leaves nothing behind: no request at the
\* provider and no node whose end nobody knows (_finish()).
THEOREM TerminalStaysIdle == Spec => []TerminalIsIdle
<1>1. CapacityInvariant /\ FactsInvariant => TerminalIsIdle
  <2> SUFFICES ASSUME CapacityInvariant, FactsInvariant, NEW r \in ended, NEW n \in NodesOf(r)
               PROVE  provider[n] # "processing" /\ node[n] # "unknown"
    BY DEF TerminalIsIdle
  <2>1. r \in Run /\ n \in Node /\ NodeSound(n) /\ RunSound(r)
    BY NodesOfDisjoint, Typed DEF FactsInvariant
  <2>2. node[n] # "unknown"
    BY <2>1 DEF RunSound
  <2>3. provider[n] = "processing" => node[n] = "unknown"
    BY <2>1 DEF CapacityInvariant, CallsSound, SettledNode, NodeSound, Known
  <2> QED
    BY <2>2, <2>3
<1> QED
  BY <1>1, FactsHold, PTL

-----------------------------------------------------------------------------
(* Who gives a slot back.                                                   *)

\* An owner holds the slot of a node: it was granted one it has not picked up, it has
\* the node in hand, or it has it in flight.
Holds(r, n) ==
  \/ future[n] = "granted"
  \/ pc[r] \in HandPlaces /\ at[r] = n
  \/ n \in flights[r]

InUseFor(n) == n \in active \ unresolved

SlotsHeld == \A r \in Run, n \in Node : n \in NodesOf(r) /\ InUseFor(n) => Holds(r, n)

\* A drain takes slots for those it grants one, and touches nobody else who has one.
DrainedSlots(a, u, f) ==
  \A m \in Node : InUseFor(m)' =>
    future'[m] = "granted" \/ (m \in a \ u /\ future'[m] = f[m])

LEMMA DrainKeepsSlots ==
  ASSUME NEW q \in Seq(Node), NEW a \in SUBSET Node, NEW u, NEW c, NEW f \in [Node -> Futures],
         Elements(q) \cap a = {}, Drain(q, a, u, c, f)
  PROVE  DrainedSlots(a, u, f)
<1>1. CASE u # {}
  <2>1. /\ active' = a /\ unresolved' = u
        /\ future' = [n \in Node |-> IF n \in Elements(q) THEN "refused" ELSE f[n]]
    BY <1>1 DEF Drain
  <2> QED
    BY <2>1 DEF DrainedSlots, InUseFor
<1>2. CASE u = {}
  <2> DEFINE granted == {q[i] : i \in 1..Smaller(Len(q), Free(a))}
  <2>1. /\ unresolved' = u /\ active' = a \cup granted
        /\ future' = [n \in Node |-> IF n \in granted THEN "granted" ELSE f[n]]
    BY <1>2 DEF Drain
  <2> HIDE DEF granted
  <2> QED
    BY <2>1 DEF DrainedSlots, InUseFor
<1> QED
  BY <1>1, <1>2

\* What the dispatcher's methods do to the slots in use and to what their owners know.
LEMMA MethodSlots ==
  ASSUME CapacityInvariant, FactsInvariant, up, NEW n \in Node
  PROVE  /\ Requestable(n) /\ Request(n) =>
              DrainedSlots(active, unresolved, [future EXCEPT ![n] = "pending"])
         /\ Withdraw(n) =>
              DrainedSlots(IF Unsent(n) THEN active \ {n} ELSE active, unresolved,
                           [future EXCEPT ![n] = "none"])
         /\ Finish(n, TRUE) \/ ConfirmEnded(n) =>
              DrainedSlots(active \ {n}, unresolved \ {n}, future)
         /\ Finish(n, FALSE) => DrainedSlots(active, unresolved \cup {n}, future)
<1>0. /\ queue \in Seq(Node) /\ future \in [Node -> Futures] /\ active \in SUBSET Node
      /\ Elements(queue) \cap active = {}
      /\ \A i, j \in 1..Len(queue) : queue[i] = queue[j] => i = j
  BY Typed DEF CapacityInvariant, DispatcherSound, SlotsSound, Elements
<1>1. ASSUME Requestable(n), Request(n)
      PROVE  DrainedSlots(active, unresolved, [future EXCEPT ![n] = "pending"])
  <2> DEFINE q == Append(queue, n)
             f == [future EXCEPT ![n] = "pending"]
  <2>1. q \in Seq(Node) /\ Elements(q) \subseteq Elements(queue) \cup {n}
    BY <1>0 DEF Elements
  <2>2. f \in [Node -> Futures] /\ n \notin active
    BY <1>0, <1>1 DEF Futures, Requestable
  <2>3. Drain(q, active, unresolved, claim, f)
    BY <1>1 DEF Request
  <2> HIDE DEF q, f
  <2>4. DrainedSlots(active, unresolved, f)
    BY <1>0, <2>1, <2>2, <2>3, DrainKeepsSlots
  <2> QED
    BY <2>4 DEF f
<1>2. ASSUME Withdraw(n)
      PROVE  DrainedSlots(IF Unsent(n) THEN active \ {n} ELSE active, unresolved,
                          [future EXCEPT ![n] = "none"])
  <2> DEFINE q == Without(queue, n)
             f == [future EXCEPT ![n] = "none"]
             a == IF Unsent(n) THEN active \ {n} ELSE active
  <2>1. q \in Seq(Node) /\ \A i \in 1..Len(q) : \E k \in 1..Len(queue) : q[i] = queue[k]
    BY <1>0, WithoutSound
  <2>2. f \in [Node -> Futures] /\ a \in SUBSET Node /\ a \subseteq active
    BY <1>0 DEF Futures
  <2>3. PICK c : Drain(q, a, unresolved, c, f)
    BY <1>2 DEF Withdraw
  <2> HIDE DEF q, f, a
  <2>4. Elements(q) \cap a = {}
    BY <1>0, <2>1, <2>2 DEF Elements
  <2>5. DrainedSlots(a, unresolved, f)
    BY <2>1, <2>2, <2>3, <2>4, DrainKeepsSlots
  <2> QED
    BY <2>5 DEF a, f
<1>3. ASSUME Finish(n, TRUE) \/ ConfirmEnded(n)
      PROVE  DrainedSlots(active \ {n}, unresolved \ {n}, future)
  <2>1. PICK c : Drain(queue, active \ {n}, unresolved \ {n}, c, future)
    BY <1>3 DEF Finish, ConfirmEnded
  <2> QED
    BY <1>0, <2>1, DrainKeepsSlots
<1>4. ASSUME Finish(n, FALSE) PROVE DrainedSlots(active, unresolved \cup {n}, future)
  <2>1. PICK c : Drain(queue, active, unresolved \cup {n}, c, future)
    BY <1>4 DEF Finish
  <2> QED
    BY <1>0, <2>1, DrainKeepsSlots
<1> QED
  BY <1>1, <1>2, <1>3, <1>4

\* A step of one run keeps the slots held when it keeps those of its own nodes.
LEMMA HeldKept ==
  ASSUME CapacityInvariant, SlotsHeld, NEW r \in Run,
         \A q \in Run \ {r} : Alike(q),
         \A m \in Node : InUseFor(m)' => future'[m] = "granted" \/ InUseFor(m),
         \A m \in Node \ NodesOf(r) :
           InUseFor(m)' => future'[m] = "granted" \/ future'[m] = future[m],
         \A m \in NodesOf(r) : InUseFor(m)' /\ InUseFor(m) /\ Holds(r, m) => Holds(r, m)'
  PROVE  SlotsHeld'
<1> SUFFICES ASSUME NEW q \in Run, NEW m \in Node, m \in NodesOf(q), InUseFor(m)',
                    future'[m] # "granted"
             PROVE  Holds(q, m)'
  BY DEF SlotsHeld, Holds
<1>1. InUseFor(m) /\ Holds(q, m)
  BY DEF SlotsHeld
<1>2. CASE q = r
  BY <1>1, <1>2
<1>3. CASE q # r
  <2>1. m \notin NodesOf(r) /\ Alike(q)
    BY <1>3, NodesOfDisjoint
  <2> QED
    BY <1>1, <2>1 DEF Holds, Alike
<1> QED
  BY <1>2, <1>3

\* The steps that leave the slots alone, and what the owner holds besides.
LEMMA LoopSlots ==
  ASSUME NEW r \in Run, Recancelled = {}, CapacityInvariant, FactsInvariant, SlotsHeld,
         \/ Enter(r) \/ Prologue(r) \/ (\E why \in Findings : Guard(r, why)) \/ Settle(r)
         \/ PreparationFails(r) \/ ClaimSent(r) \/ Mark(r) \/ StartTool(r) \/ ToolEnds(r)
         \/ Await(r) \/ LeaveLoop(r) \/ DrainTimeout(r) \/ Abandon(r) \/ CleanUp(r)
         \/ Cleaned(r) \/ Finished(r) \/ Suspended(r) \/ CancelledInCleanup(r)
         \/ \E n \in Node : Reconcile(r, n)
  PROVE  SlotsHeld'
<1>1. UNCHANGED <<active, unresolved, future>>
  BY DEF Enter, Prologue, Guard, Settle, PreparationFails, ClaimSent, Mark, StartTool, ToolEnds,
     Await, LeaveLoop, DrainTimeout, Abandon, CleanUp, Cleaned, Finished, Suspended,
     CancelledInCleanup, Reconcile, dispatcherVars, memoryVars
<1>2. \A q \in Run \ {r} : Alike(q)
  <2> USE Typed DEF Alike, Goto, Halting, ownerVars
  <2>1. CASE \/ Enter(r) \/ Prologue(r) \/ (\E why \in Findings : Guard(r, why)) \/ Settle(r)
             \/ PreparationFails(r) \/ ClaimSent(r) \/ Mark(r) \/ (\E n \in Node : Reconcile(r, n))
    BY <2>1 DEF Enter, Prologue, Guard, Settle, PreparationFails, ClaimSent, Mark, Reconcile
  <2>2. CASE StartTool(r)
    BY <2>2 DEF StartTool
  <2>3. CASE ToolEnds(r)
    BY <2>3 DEF ToolEnds
  <2>4. CASE \/ Await(r) \/ LeaveLoop(r) \/ DrainTimeout(r) \/ Abandon(r) \/ CleanUp(r)
             \/ Cleaned(r) \/ Finished(r) \/ Suspended(r) \/ CancelledInCleanup(r)
    BY <2>4 DEF Await, LeaveLoop, DrainTimeout, Abandon, CleanUp, Cleaned, Finished, Suspended,
       CancelledInCleanup
  <2> QED
    BY <2>1, <2>2, <2>3, <2>4
<1>3. \/ pc[r] \notin HandPlaces /\ flights[r] \subseteq flights'[r]
      \/ /\ pc[r] \in {"prepare", "mark"} /\ pc'[r] \in HandPlaces /\ at'[r] = at[r]
         /\ flights'[r] = flights[r]
      \/ pc[r] = "mark" /\ flights'[r] = flights[r] \cup {at[r]}
  <2> USE Typed DEF HandPlaces, Goto, Has, Looking
  <2>1. CASE \/ Enter(r) \/ Prologue(r) \/ (\E why \in Findings : Guard(r, why)) \/ Settle(r)
             \/ StartTool(r) \/ ToolEnds(r) \/ (\E n \in Node : Reconcile(r, n))
    BY <2>1 DEF Enter, Prologue, Guard, Settle, StartTool, ToolEnds, Reconcile
  <2>2. CASE PreparationFails(r) \/ ClaimSent(r) \/ Mark(r)
    BY <2>2 DEF PreparationFails, ClaimSent, Mark
  <2>3. CASE \/ Await(r) \/ LeaveLoop(r) \/ DrainTimeout(r) \/ Abandon(r) \/ CleanUp(r)
             \/ Cleaned(r) \/ Finished(r) \/ Suspended(r) \/ CancelledInCleanup(r)
    BY <2>3 DEF Await, LeaveLoop, DrainTimeout, Abandon, CleanUp, Cleaned, Finished, Suspended,
       CancelledInCleanup
  <2> QED
    BY <2>1, <2>2, <2>3
<1>4. \A m \in NodesOf(r) : Holds(r, m) => Holds(r, m)'
  BY <1>1, <1>3 DEF Holds
<1> QED
  BY <1>1, <1>2, <1>4, HeldKept DEF InUseFor

\* The steps that give a slot back or leave it unresolved.
LEMMA CapacitySlots ==
  ASSUME NEW r \in Run, CapacityInvariant, FactsInvariant, SlotsHeld,
         \/ ConfirmSettled(r) \/ Release(r) \/ Unused(r) \/ MarkFails(r)
  PROVE  SlotsHeld'
<1>1. up
  BY OwnerUp DEF ConfirmSettled, Release, Unused, MarkFails, Has
<1>2. \A q \in Run \ {r} : Alike(q)
  BY Typed DEF Alike, Goto, Halting, ownerVars, ConfirmSettled, Release, Unused, MarkFails
<1>3. CASE ConfirmSettled(r)
  <2>1. PICK n \in NodesOf(r) : ConfirmEnded(n) /\ n \in Node
    BY <1>3, NodesOfDisjoint DEF ConfirmSettled
  <2>2. DrainedSlots(active \ {n}, unresolved \ {n}, future)
    BY <1>1, <2>1, MethodSlots
  <2>3. UNCHANGED <<pc, at, flights>>
    BY <1>3 DEF ConfirmSettled, ownerVars
  <2> QED
    BY <1>2, <2>2, <2>3, HeldKept, NodesOfDisjoint DEF DrainedSlots, InUseFor, Holds
<1>4. ASSUME NEW n \in Node, n = at[r], pc[r] \in HandPlaces,
             flights[r] \ {n} \subseteq flights'[r],
             \/ DrainedSlots(active \ {n}, unresolved \ {n}, future)
             \/ DrainedSlots(active, unresolved \cup {n}, future)
             \/ DrainedSlots(active \ {n}, unresolved, [future EXCEPT ![n] = "none"])
      PROVE  SlotsHeld'
  <2>1. \A m \in Node : InUseFor(m)' =>
          future'[m] = "granted" \/ (InUseFor(m) /\ m # n /\ future'[m] = future[m])
    BY <1>4, Typed DEF DrainedSlots, InUseFor
  <2>2. \A m \in NodesOf(r) : InUseFor(m)' /\ Holds(r, m) => Holds(r, m)'
    BY <1>4, <2>1, NodesOfDisjoint DEF Holds
  <2> QED
    BY <1>2, <2>1, <2>2, HeldKept
<1>5. CASE Release(r) \/ MarkFails(r)
  <2>1. pc[r] \in HandPlaces /\ at[r] \in Node
    BY <1>5, InHand DEF Release, MarkFails, Has, HandPlaces
  <2>2. Finish(at[r], TRUE) \/ Finish(at[r], FALSE)
    BY <1>5 DEF Release, MarkFails, Finish
  <2>3. flights[r] \ {at[r]} \subseteq flights'[r]
    BY <1>5, Typed DEF Release, MarkFails
  <2> QED
    BY <1>1, <1>4, <2>1, <2>2, <2>3, MethodSlots
<1>6. CASE Unused(r)
  <2>1. pc[r] = "unused" /\ at[r] \in Node /\ Withdraw(at[r]) /\ UNCHANGED flights
    BY <1>6, InHand DEF Unused, Has, HandPlaces
  <2>2. claim[at[r]] = "reserved"
    BY <2>1 DEF CapacityInvariant, OwnersSound, OwnerSound
  <2>3. Unsent(at[r])
    BY <1>1, <2>1, <2>2 DEF CapacityInvariant, DispatcherSound, SlotsSound, Occupied, Unsent
  <2> QED
    BY <1>1, <1>4, <2>1, <2>3, MethodSlots DEF HandPlaces
<1> QED
  BY <1>3, <1>5, <1>6

\* A withdrawal of a node that waits, or is in hand before it is sent, gives its slot
\* back if it has one.
LEMMA WithdrawSlots ==
  ASSUME NEW r \in Run, CapacityInvariant, FactsInvariant, SlotsHeld, up,
         NEW n \in NodesOf(r), Withdraw(n), UNCHANGED flights,
         \/ pc[r] \notin HandPlaces /\ future[n] # "none"
         \/ pc[r] = "prepare" /\ n = at[r],
         \A q \in Run \ {r} : Alike(q)
  PROVE  SlotsHeld'
<1>1. n \in Node /\ RunSound(r) /\ NodeSound(n)
  BY NodesOfDisjoint DEF FactsInvariant
<1>2. InUseFor(n) => Unsent(n)
  <2>1. ASSUME InUseFor(n), pc[r] \notin HandPlaces, future[n] # "none" PROVE claim[n] = "reserved"
    <3>1. future[n] = "granted"
      BY <1>1, <2>1 DEF SlotsHeld, Holds, RunSound, NodeSound, Waits, Known
    <3> QED
      BY <1>1, <3>1 DEF CapacityInvariant, DispatcherSound, SlotsSound
  <2>2. ASSUME pc[r] = "prepare", n = at[r] PROVE claim[n] = "reserved"
    BY <2>2 DEF CapacityInvariant, OwnersSound, OwnerSound
  <2> QED
    BY <2>1, <2>2 DEF Unsent, InUseFor
<1>3. \A m \in Node : InUseFor(m)' =>
        future'[m] = "granted" \/ (InUseFor(m) /\ m # n /\ future'[m] = future[m])
  <2>1. DrainedSlots(IF Unsent(n) THEN active \ {n} ELSE active, unresolved,
                     [future EXCEPT ![n] = "none"])
    BY <1>1, MethodSlots
  <2>2. future \in [Node -> Futures]
    BY Typed
  <2>3. ASSUME NEW m \in Node, InUseFor(m)', future'[m] # "granted"
        PROVE  InUseFor(m) /\ m # n /\ future'[m] = [future EXCEPT ![n] = "none"][m]
    <3>1. /\ m \in (IF Unsent(n) THEN active \ {n} ELSE active) \ unresolved
          /\ future'[m] = [future EXCEPT ![n] = "none"][m]
      BY <2>1, <2>3 DEF DrainedSlots
    <3> QED
      BY <1>2, <3>1 DEF InUseFor
  <2> QED
    BY <2>2, <2>3
<1>4. \A m \in NodesOf(r) : InUseFor(m)' /\ Holds(r, m) => Holds(r, m)'
  BY <1>3, NodesOfDisjoint DEF Holds, HandPlaces
<1> QED
  BY <1>3, <1>4, HeldKept

\* Asking takes a slot only for a waiter that is granted one.
LEMMA AskSlots ==
  ASSUME NEW r \in Run, CapacityInvariant, FactsInvariant, SlotsHeld, Ask(r)
  PROVE  SlotsHeld'
<1>1. up /\ pc[r] = "round"
  BY OwnerUp DEF Ask, Looking, Has
<1>2. \A q \in Run \ {r} : Alike(q)
  BY Typed DEF Ask, Goto, Halting, Alike
<1>3. UNCHANGED flights
  BY DEF Ask
<1>4. CASE UNCHANGED memoryVars
  BY <1>1, <1>2, <1>3, <1>4, HeldKept DEF memoryVars, InUseFor, Holds, HandPlaces
<1>5. ASSUME NEW n \in NodesOf(r), Requestable(n), Request(n) PROVE SlotsHeld'
  <2>1. n \in Node /\ n \notin active
    BY <1>5, NodesOfDisjoint DEF Requestable
  <2>2. DrainedSlots(active, unresolved, [future EXCEPT ![n] = "pending"])
    BY <1>1, <1>5, <2>1, MethodSlots
  <2>3. \A m \in Node : InUseFor(m)' =>
          future'[m] = "granted" \/ (InUseFor(m) /\ future'[m] = future[m])
    BY <2>1, <2>2, Typed DEF DrainedSlots, InUseFor
  <2>4. \A m \in NodesOf(r) : InUseFor(m)' /\ Holds(r, m) => Holds(r, m)'
    BY <1>1, <1>3, <2>3, NodesOfDisjoint DEF Holds, HandPlaces
  <2> QED
    BY <1>2, <2>3, <2>4, HeldKept
<1> QED
  BY <1>4, <1>5, NodesOfDisjoint DEF Ask

\* A grant that is picked up is in hand.
LEMMA AdmitSlots ==
  ASSUME NEW r \in Run, CapacityInvariant, FactsInvariant, SlotsHeld, Admit(r)
  PROVE  SlotsHeld'
<1>1. PICK n \in NodesOf(r) : /\ future' = [future EXCEPT ![n] = "none"]
                              /\ at' = [at EXCEPT ![r] = n]
  BY DEF Admit, Waiting
<1>2. /\ pc[r] = "round" /\ pc'[r] = "prepare" /\ at'[r] = n
      /\ UNCHANGED <<active, unresolved, flights>>
      /\ \A m \in Node \ {n} : future'[m] = future[m]
  BY <1>1, Typed DEF Admit, Looking, Has, Goto
<1>3. \A q \in Run \ {r} : Alike(q)
  BY <1>1, <1>2, Typed DEF Admit, Goto, Alike
<1>4. \A m \in NodesOf(r) : Holds(r, m) => Holds(r, m)'
  BY <1>2, NodesOfDisjoint DEF Holds, HandPlaces
<1> QED
  BY <1>2, <1>3, <1>4, HeldKept DEF InUseFor

\* Withdrawing, from the loop or on the way out of it.
LEMMA GiveUpSlots ==
  ASSUME NEW r \in Run, CapacityInvariant, FactsInvariant, SlotsHeld,
         GiveUp(r) \/ StopWaiting(r)
  PROVE  SlotsHeld'
<1>1. up /\ UNCHANGED flights
  BY OwnerUp DEF GiveUp, StopWaiting, Looking, Has, ownerVars
<1>2. \A q \in Run \ {r} : Alike(q)
  BY Typed DEF Alike, Goto, Halting, ownerVars, GiveUp, StopWaiting
<1>3. \E n \in NodesOf(r) :
        /\ Withdraw(n)
        /\ \/ pc[r] \notin HandPlaces /\ future[n] # "none"
           \/ pc[r] = "prepare" /\ n = at[r]
  <2>1. CASE StopWaiting(r)
    BY <2>1 DEF StopWaiting, Looking, Has, Waiting, HandPlaces
  <2>2. CASE GiveUp(r)
    BY <2>2, InHand DEF GiveUp, Looking, Has, Waiting, HandPlaces
  <2> QED
    BY <2>1, <2>2
<1> QED
  BY <1>1, <1>2, <1>3, WithdrawSlots

\* Steps outside the owners hold what was held, and a process that starts finds every
\* claim it inherits unresolved.
LEMMA OutsideSlots ==
  ASSUME CapacityInvariant, FactsInvariant, SlotsHeld,
         \/ \E n \in Node : \/ ValidateSend(n) \/ Answer(n) \/ Lose(n) \/ ProviderEnds(n)
                            \/ HostConfirms(n)
         \/ Crash \/ Close \/ Reopen \/ UNCHANGED vars
  PROVE  SlotsHeld'
<1>1. ASSUME NEW n \in Node, ValidateSend(n) \/ Answer(n) \/ Lose(n) \/ ProviderEnds(n)
      PROVE  SlotsHeld'
  <2>1. UNCHANGED <<active, unresolved, future, pc, at, flights>>
    BY <1>1 DEF ValidateSend, Answer, Lose, ProviderEnds, dispatcherVars, ownerVars
  <2> QED
    BY <2>1 DEF SlotsHeld, InUseFor, Holds
<1>2. ASSUME NEW n \in Node, HostConfirms(n) PROVE SlotsHeld'
  <2>1. DrainedSlots(active \ {n}, unresolved \ {n}, future)
    BY <1>2, MethodSlots DEF HostConfirms
  <2>2. UNCHANGED <<pc, at, flights>>
    BY <1>2 DEF HostConfirms, ownerVars
  <2> QED
    BY <2>1, <2>2 DEF DrainedSlots, SlotsHeld, InUseFor, Holds
<1>3. CASE Crash \/ Close \/ Reopen
  <2>1. active' \ unresolved' = {}
    BY <1>3 DEF Crash, Close, Reopen, Forgotten, Down, Up
  <2> QED
    BY <2>1 DEF SlotsHeld, InUseFor
<1>4. CASE UNCHANGED vars
  BY <1>4 DEF vars, dispatcherVars, ownerVars, SlotsHeld, InUseFor, Holds
<1> QED
  BY <1>1, <1>2, <1>3, <1>4

LEMMA SlotsStep ==
  ASSUME Recancelled = {}, ClaimInDoubt = {}
  PROVE  CapacityInvariant /\ FactsInvariant /\ SlotsHeld /\ [Next]_vars => SlotsHeld'
<1> SUFFICES ASSUME CapacityInvariant, FactsInvariant, SlotsHeld, [Next]_vars PROVE SlotsHeld'
  OBVIOUS
<1>1. ASSUME NEW r \in Run, OwnerSteps(r) PROVE SlotsHeld'
  BY <1>1, LoopSlots, CapacitySlots, AskSlots, AdmitSlots, GiveUpSlots DEF OwnerSteps
<1>2. ASSUME NEW r \in Run,
             \/ Enter(r) \/ CancelledInCleanup(r) \/ ClaimFails(r)
             \/ (\E why \in Findings : Guard(r, why))
             \/ \E n \in Node : Reconcile(r, n)
      PROVE  SlotsHeld'
  BY <1>2, LoopSlots DEF ClaimFails
<1> QED
  BY <1>1, <1>2, OutsideSlots DEF Next

\* Unless a caller is cancelled while its owner cleans up, or a write that raises commits
\* its claim, every slot in use has an owner at work that will give it back, whatever
\* waits, fails, is withdrawn, lost or restarted: capacity never leaks
\* (advance_parallel() of sdk/parallel_runner.py, ModelDispatcher of sdk/parallel.py).
THEOREM NoSlotLeaks ==
  ASSUME Recancelled = {}, ClaimInDoubt = {}
  PROVE  Spec => []SlotsAreOwned
<1>1. Init => SlotsHeld
  BY DEF Init, DispatcherInit, SlotsHeld, InUseFor
<1>2. CapacityInvariant /\ FactsInvariant /\ SlotsHeld => SlotsAreOwned
  <2> SUFFICES ASSUME CapacityInvariant, FactsInvariant, SlotsHeld, NEW n \in active \ unresolved
               PROVE  /\ pc[RunOf(n)] # "off"
                      /\ future[n] = "granted" \/ at[RunOf(n)] = n \/ n \in flights[RunOf(n)]
    BY DEF SlotsAreOwned
  <2> DEFINE r == RunOf(n)
  <2>1. n \in Node /\ r \in Run /\ n \in NodesOf(r)
    BY Typed, RunConstants DEF RunOf
  <2> HIDE DEF r
  <2>2. Holds(r, n)
    BY <2>1 DEF SlotsHeld, InUseFor
  <2>3. future[n] = "granted" => pc[r] # "off"
    BY <2>1 DEF FactsInvariant, WaitSound, Past, Waits
  <2>4. n \in flights[r] => pc[r] # "off"
    BY <2>1 DEF CapacityInvariant, OwnersSound, OwnerSound
  <2>5. /\ pc[r] # "off"
        /\ future[n] = "granted" \/ at[r] = n \/ n \in flights[r]
    BY <2>2, <2>3, <2>4 DEF Holds, HandPlaces
  <2> QED
    BY <2>5 DEF r
<1> QED
  BY <1>1, <1>2, SlotsStep, FactsHold, PTL DEF Spec

-----------------------------------------------------------------------------
(* The owners implement NodeOnce.                                          *)

\* What a node rests on is complete.
DepsDone(n) == \A d \in Deps[n] : node[d] = "completed"

\* A node that began, or waits for capacity, rests on completed nodes.
Ordered(n) == node[n] \notin {"pending", "cancelled"} \/ Waits(n) => DepsDone(n)

\* What an owner waits for is in doubt until it is settled, and is let go right after;
\* the tool in hand began and is not settled.
InDoubt(r) ==
  /\ \A n \in flights[r] : node[n] = "unknown" \/ (pc[r] \in {"release", "cleared"} /\ n = at[r])
  /\ pc[r] = "tool" => node[at[r]] = "admitted"

OrderInvariant == (\A n \in Node : Ordered(n)) /\ (\A r \in Run : InDoubt(r))

\* The steps the contract speaks of: one node moves on, the provider is entered for a
\* node, a run ends.
Quiet == UNCHANGED <<node, ended, entered>>

Advances(n) ==
  /\ RunOf(n) \notin ended /\ UNCHANGED <<ended, entered>>
  /\ \A m \in Node \ {n} : node'[m] = node[m]
  /\ \/ node[n] \in {"pending", "admitted"} /\ node'[n] = "admitted" /\ DepsDone(n)
     \/ node[n] = "admitted" /\ node'[n] \in {"admitted"} \cup Known
     \/ node[n] = "unknown" /\ node'[n] \in Known

Calls(n) ==
  /\ RunOf(n) \notin ended /\ n \notin Tool /\ node[n] = "unknown" /\ entered[n] = 0
  /\ entered' = [entered EXCEPT ![n] = @ + 1]
  /\ UNCHANGED <<node, ended>>

Ends(r) ==
  /\ r \notin ended /\ ended' = ended \cup {r} /\ UNCHANGED entered
  /\ \A n \in NodesOf(r) : node[n] # "unknown"
  /\ \A n \in Node : \/ node'[n] = node[n]
                     \/ n \in NodesOf(r) /\ node[n] \in {"pending", "admitted"}
                        /\ node'[n] = "cancelled"

OneKind == Quiet \/ (\E n \in Node : Advances(n) \/ Calls(n)) \/ (\E r \in Run : Ends(r))

\* The run of a node is the one it is defined in.
LEMMA RunOfNode ==
  /\ \A r \in Run : \A n \in NodesOf(r) : RunOf(n) = r
  /\ \A n \in Node : RunOf(n) \in Run /\ n \in NodesOf(RunOf(n))
<1>1. \A n \in Node : \E r \in Run : n \in NodesOf(r)
  BY RunConstants
<1>2. \A n \in Node : RunOf(n) \in Run /\ n \in NodesOf(RunOf(n))
  BY <1>1 DEF RunOf
<1> QED
  BY <1>2, NodesOfDisjoint

\* A run goes on while its owner is at work.
LEMMA Open ==
  ASSUME CapacityInvariant, FactsInvariant, NEW r \in Run, pc[r] # "off", NEW n \in NodesOf(r)
  PROVE  RunOf(n) \notin ended /\ n \in Node
BY RunOfNode, NodesOfDisjoint DEF FactsInvariant, RunSound

\* The steps of an owner that save no row.
LEMMA OwnerIsQuiet ==
  ASSUME NEW r \in Run, CapacityInvariant, FactsInvariant, OrderInvariant,
         \/ Enter(r) \/ Prologue(r) \/ (\E why \in Findings : Guard(r, why)) \/ Await(r)
         \/ LeaveLoop(r) \/ DrainTimeout(r) \/ Abandon(r) \/ CleanUp(r) \/ Cleaned(r)
         \/ Suspended(r) \/ CancelledInCleanup(r)
         \/ ConfirmSettled(r) \/ GiveUp(r) \/ Unused(r) \/ ClaimSent(r) \/ StopWaiting(r)
         \/ Ask(r) \/ Release(r) \/ ClaimFails(r)
  PROVE  Quiet /\ InDoubt(r)'
<1>1. Quiet
  BY DEF Quiet, Enter, Prologue, Guard, Await, LeaveLoop, DrainTimeout, Abandon, CleanUp, Cleaned,
         Suspended, CancelledInCleanup, ConfirmSettled, GiveUp, Unused, ClaimSent, StopWaiting, Ask,
         Release, ClaimFails, factVars, callVars
<1>2. pc'[r] # "tool"
  <2> USE Typed DEF Goto, Has, Looking, ownerVars
  <2>1. CASE \/ Enter(r) \/ Prologue(r) \/ (\E why \in Findings : Guard(r, why)) \/ Await(r)
             \/ LeaveLoop(r) \/ DrainTimeout(r) \/ Abandon(r) \/ CleanUp(r) \/ Cleaned(r)
             \/ Suspended(r) \/ CancelledInCleanup(r)
    BY <2>1 DEF Enter, Prologue, Guard, Await, LeaveLoop, DrainTimeout, Abandon, CleanUp, Cleaned,
                Suspended, CancelledInCleanup
  <2>2. CASE \/ ConfirmSettled(r) \/ GiveUp(r) \/ Unused(r) \/ ClaimSent(r) \/ StopWaiting(r)
             \/ Ask(r) \/ Release(r) \/ ClaimFails(r)
    BY <2>2 DEF ConfirmSettled, GiveUp, Unused, ClaimSent, StopWaiting, Ask, Release,
                ClaimFails
  <2> QED
    BY <2>1, <2>2
<1>3. \A n \in flights'[r] : n \in flights[r] /\ node[n] = "unknown"
  <2>1. CASE Release(r)
    <3>1. flights'[r] = flights[r] \ {at[r]}
      BY <2>1, Typed DEF Release
    <3> QED
      BY <3>1 DEF OrderInvariant, InDoubt
  <2>2. CASE ~Release(r)
    <3>1. pc[r] \notin {"release", "cleared"}
      BY <2>2 DEF Enter, Prologue, Guard, Await, LeaveLoop, DrainTimeout, Abandon, CleanUp, Cleaned,
         Suspended, CancelledInCleanup, ConfirmSettled, GiveUp, Unused, ClaimSent, StopWaiting, Ask,
         ClaimFails, Has, Looking
    <3>2. flights'[r] \in {flights[r], {}}
      BY <2>2, Typed DEF Enter, Prologue, Guard, Await, LeaveLoop, DrainTimeout, Abandon, CleanUp,
         Cleaned, Suspended, CancelledInCleanup, ConfirmSettled, GiveUp, Unused, ClaimSent, StopWaiting,
         Ask, ClaimFails, ownerVars
    <3> QED
      BY <3>1, <3>2 DEF OrderInvariant, InDoubt
  <2> QED
    BY <2>1, <2>2
<1> QED
  BY <1>1, <1>2, <1>3 DEF InDoubt, Quiet

\* A node granted capacity was ready when it asked.
LEMMA AdmitMoves ==
  ASSUME NEW r \in Run, CapacityInvariant, FactsInvariant, OrderInvariant, Admit(r)
  PROVE  (\E n \in Node : Advances(n)) /\ InDoubt(r)'
<1>1. PICK n \in NodesOf(r) : future[n] = "granted" /\ node' = [node EXCEPT ![n] = "admitted"]
  BY DEF Admit, Waiting
<1>2. n \in Node /\ RunOf(n) \notin ended /\ pc[r] = "round" /\ UNCHANGED <<ended, entered, flights>>
  BY Open DEF Admit, Looking, Has, callVars
<1>3. node[n] \in {"pending", "admitted"} /\ DepsDone(n)
  BY <1>1, <1>2 DEF FactsInvariant, NodeSound, OrderInvariant, Ordered, Waits
<1>4. (\A m \in Node \ {n} : node'[m] = node[m]) /\ node'[n] = "admitted"
  BY <1>1, <1>2, Typed
<1>5. Advances(n)
  BY <1>2, <1>3, <1>4 DEF Advances
<1>6. InDoubt(r)'
  <2>1. pc'[r] = "prepare" /\ flights[r] \subseteq Node
    BY Typed DEF Admit, Goto
  <2> QED
    BY <1>2, <1>3, <1>4, <2>1 DEF OrderInvariant, InDoubt
<1> QED
  BY <1>2, <1>5, <1>6

\* What returned is settled once: its node is in doubt until then.
LEMMA SettleMoves ==
  ASSUME NEW r \in Run, CapacityInvariant, FactsInvariant, OrderInvariant, Settle(r)
  PROVE  (\E n \in Node : Advances(n)) /\ InDoubt(r)'
<1>1. PICK n, s :
        /\ n \in flights[r] /\ s \in Fact(n)
        /\ node' = [node EXCEPT ![n] = s] /\ at' = [at EXCEPT ![r] = n]
        /\ pc[r] \in {"round", "clean"}
  BY DEF Settle, Has
<1>2. n \in NodesOf(r) /\ s \in Known
  BY <1>1 DEF CapacityInvariant, OwnersSound, OwnerSound, Fact, Known
<1>3. n \in Node /\ RunOf(n) \notin ended /\ UNCHANGED <<ended, entered, flights>>
  BY <1>1, <1>2, Open DEF Settle, callVars
<1>4. node[n] = "unknown"
  BY <1>1 DEF OrderInvariant, InDoubt
<1>5. (\A m \in Node \ {n} : node'[m] = node[m]) /\ node'[n] = s
  BY <1>1, <1>3, Typed
<1>6. Advances(n)
  BY <1>2, <1>3, <1>4, <1>5 DEF Advances
<1>7. InDoubt(r)'
  <2>1. pc'[r] \in {"release", "cleared"} /\ at'[r] = n /\ flights[r] \subseteq Node
    BY <1>1, Typed DEF Settle, Goto
  <2> QED
    BY <1>1, <1>3, <1>5, <2>1 DEF OrderInvariant, InDoubt
<1> QED
  BY <1>3, <1>6, <1>7

\* The node in hand is prepared in vain, is marked, or its marker fails.
LEMMA HandMoves ==
  ASSUME NEW r \in Run, CapacityInvariant, FactsInvariant, OrderInvariant,
         PreparationFails(r) \/ Mark(r) \/ MarkFails(r)
  PROVE  (\E n \in Node : Advances(n)) /\ InDoubt(r)'
<1> DEFINE n == at[r]
<1>1. pc[r] \in {"prepare", "mark"} /\ UNCHANGED <<ended, entered>>
  BY DEF PreparationFails, Mark, MarkFails, Has, callVars
<1>2. n \in NodesOf(r) /\ n \in Node /\ node[n] = "admitted"
  BY <1>1, NotYetSent
<1>3. RunOf(n) \notin ended
  BY <1>1, <1>2, Open
<1>4. /\ \A m \in Node \ {n} : node'[m] = node[m]
      /\ node'[n] \in {"admitted"} \cup Known
      /\ \/ flights' = flights
         \/ flights'[r] = flights[r] \cup {n} /\ node'[n] = "unknown"
      /\ pc'[r] \in {"unused", "top", "abandon"}
  <2>1. CASE PreparationFails(r)
    BY <1>2, <2>1, Typed DEF PreparationFails, Known, Goto
  <2>2. CASE Mark(r)
    BY <1>2, <2>2, Typed DEF Mark, Marked, Known, Goto
  <2>3. CASE MarkFails(r)
    BY <1>2, <2>3, Typed DEF MarkFails, Marked, Known, Goto
  <2> QED
    BY <2>1, <2>2, <2>3
<1> HIDE DEF n
<1>5. Advances(n)
  BY <1>1, <1>2, <1>3, <1>4 DEF Advances
<1>6. InDoubt(r)'
  <2>1. \A m \in flights[r] : m \in Node /\ node[m] = "unknown"
    <3>1. InDoubt(r)
      BY DEF OrderInvariant
    <3>2. flights[r] \subseteq Node
      BY Typed
    <3> QED
      BY <1>1, <3>1, <3>2 DEF InDoubt
  <2>2. \A m \in flights'[r] : node'[m] = "unknown"
    BY <1>2, <1>4, <2>1
  <2> QED
    BY <1>4, <2>2 DEF InDoubt
<1> QED
  BY <1>2, <1>5, <1>6

\* A tool that starts is ready.
LEMMA StartToolMoves ==
  ASSUME NEW r \in Run, CapacityInvariant, FactsInvariant, OrderInvariant, StartTool(r)
  PROVE  (Quiet \/ \E n \in Node : Advances(n)) /\ InDoubt(r)'
<1>1. /\ pc[r] = "round" /\ flights[r] = {}
      /\ UNCHANGED <<ended, entered, flights>>
  BY DEF StartTool, Looking, Has, RunIsQuiet, callVars
<1>2. PICK n \in FirstReady(r) \cap Tool :
        \/ node' = [node EXCEPT ![n] = "admitted"] /\ at' = [at EXCEPT ![r] = n] /\ Goto(r, "tool")
        \/ node' = node /\ Goto(r, "top")
  BY DEF StartTool
<1>3. n \in NodesOf(r) /\ node[n] \in {"pending", "admitted"} /\ DepsDone(n)
  BY NodesOfDisjoint DEF FirstReady, Ready, DepsDone
<1>4. n \in Node /\ RunOf(n) \notin ended
  BY <1>1, <1>3, Open
<1>5. CASE node' = [node EXCEPT ![n] = "admitted"] /\ at' = [at EXCEPT ![r] = n] /\ Goto(r, "tool")
  <2>1. (\A m \in Node \ {n} : node'[m] = node[m]) /\ node'[n] = "admitted" /\ at'[r] = n
    BY <1>4, <1>5, Typed
  <2>2. Advances(n)
    BY <1>1, <1>3, <1>4, <2>1 DEF Advances
  <2> QED
    BY <1>1, <1>4, <2>1, <2>2 DEF InDoubt
<1>6. CASE node' = node /\ Goto(r, "top")
  <2>1. pc'[r] = "top"
    BY <1>6, Typed DEF Goto
  <2> QED
    BY <1>1, <1>6, <2>1 DEF InDoubt, Quiet
<1> QED
  BY <1>2, <1>5, <1>6

\* A tool that ends settles its node, or leaves it as it began.
LEMMA ToolEndsMoves ==
  ASSUME NEW r \in Run, CapacityInvariant, FactsInvariant, OrderInvariant, ToolEnds(r)
  PROVE  (Quiet \/ \E n \in Node : Advances(n)) /\ InDoubt(r)'
<1> DEFINE n == at[r]
<1>1. /\ pc[r] = "tool" /\ UNCHANGED <<ended, entered, flights>>
      /\ flights[r] = {} /\ n \in NodesOf(r) /\ node[n] = "admitted"
  BY DEF ToolEnds, callVars, FactsInvariant, RunSound, OrderInvariant, InDoubt
<1>2. n \in Node /\ RunOf(n) \notin ended
  BY <1>1, Open
<1>3. node' = node \/ \E s \in Known : node' = [node EXCEPT ![n] = s]
  BY ZenonT(30) DEF ToolEnds, Known
<1>4. pc'[r] \in {"top", "abandon"}
  BY Typed DEF ToolEnds, Goto
<1>5. InDoubt(r)'
  BY <1>1, <1>4 DEF InDoubt
<1>6. CASE node' = node
  BY <1>1, <1>5, <1>6 DEF Quiet
<1>7. ASSUME NEW s \in Known, node' = [node EXCEPT ![n] = s] PROVE Advances(n)
  <2>1. (\A m \in Node \ {n} : node'[m] = node[m]) /\ node'[n] = s
    BY <1>2, <1>7, Typed
  <2> QED
    BY <1>1, <1>2, <2>1 DEF Advances
<1> QED
  BY <1>2, <1>3, <1>5, <1>6, <1>7

\* A receipt settles a node in doubt of a run that goes on.
LEMMA ReconcileMoves ==
  ASSUME NEW r \in Run, NEW n \in Node, CapacityInvariant, FactsInvariant, OrderInvariant,
         Reconcile(r, n)
  PROVE  Advances(n) /\ InDoubt(r)'
<1>1. /\ pc[r] = "off" /\ r \notin ended /\ n \in NodesOf(r) /\ node[n] = "unknown"
      /\ UNCHANGED <<ended, entered, flights>>
      /\ flights[r] = {}
  BY DEF Reconcile, callVars, CapacityInvariant, OwnersSound, OwnerSound
<1>2. PICK s \in {"completed", "failed"} : node' = [node EXCEPT ![n] = s]
  BY DEF Reconcile
<1>3. (\A m \in Node \ {n} : node'[m] = node[m]) /\ node'[n] = s /\ pc'[r] = "enter"
  BY <1>2, Typed DEF Reconcile, Goto
<1> QED
  BY <1>1, <1>3, RunOfNode DEF Advances, Known, InDoubt

\* A run ends when nothing in it is in doubt.
LEMMA FinishedMoves ==
  ASSUME NEW r \in Run, CapacityInvariant, FactsInvariant, OrderInvariant, Finished(r)
  PROVE  Ends(r) /\ InDoubt(r)'
<1>1. /\ pc[r] = "leave" /\ r \notin ended /\ flights[r] = {}
      /\ \A n \in NodesOf(r) : node[n] # "unknown"
      /\ UNCHANGED <<flights, entered>> /\ ended' = ended \cup {r}
  BY DEF Finished, Has, Closes, FactsInvariant, RunSound, CapacityInvariant, OwnersSound, OwnerSound,
         callVars
<1>2. \A n \in Node : \/ node'[n] = node[n]
                      \/ n \in NodesOf(r) /\ ~SettledNode(n) /\ node'[n] = "cancelled"
  BY DEF Finished
<1>3. \A n \in Node : node[n] \in Statuses
  BY Typed
<1>4. Ends(r)
  BY <1>1, <1>2, <1>3 DEF Ends, SettledNode, Statuses
<1>5. pc'[r] = "off"
  BY Typed DEF Finished, Goto
<1> QED
  BY <1>1, <1>4, <1>5 DEF InDoubt

\* Only a worker whose node is in doubt enters the provider, and it is the first to.
LEMMA OutsideMoves ==
  ASSUME NEW n \in Node, CapacityInvariant, FactsInvariant, OrderInvariant,
         ValidateSend(n) \/ Answer(n) \/ Lose(n) \/ ProviderEnds(n) \/ HostConfirms(n)
  PROVE  (Quiet \/ Calls(n)) /\ \A r \in Run : InDoubt(r)'
<1>1. UNCHANGED <<node, ended, pc, at, flights>>
  BY DEF ValidateSend, Answer, Lose, ProviderEnds, HostConfirms, factVars, ownerVars
<1>2. \A r \in Run : InDoubt(r)'
  BY <1>1 DEF OrderInvariant, InDoubt
<1>3. CASE entered' = entered
  BY <1>1, <1>2, <1>3 DEF Quiet
<1>4. CASE entered' # entered
  <2>1. ValidateSend(n) /\ worker[n] = "spawned" /\ entered' = [entered EXCEPT ![n] = @ + 1]
    BY <1>4 DEF ValidateSend, Answer, Lose, ProviderEnds, HostConfirms, callVars
  <2>2. entered[n] = 0 /\ node[n] = "unknown"
    BY <2>1 DEF FactsInvariant, NodeSound
  <2>3. PICK r \in Run : n \in flights[r]
    BY <2>1 DEF CapacityInvariant, CallsSound
  <2>4. OwnerSound(r)
    BY DEF CapacityInvariant, OwnersSound
  <2>5. pc[r] # "off" /\ n \in NodesOf(r) /\ claim[n] = "sent"
    BY <2>3, <2>4 DEF OwnerSound
  <2>6. n \notin Tool
    BY <2>5 DEF CapacityInvariant, DispatcherSound, SlotsSound
  <2>7. RunOf(n) \notin ended
    BY <2>5, Open
  <2> QED
    BY <1>1, <1>2, <2>1, <2>2, <2>6, <2>7 DEF Calls
<1> QED
  BY <1>3, <1>4

\* A lost process leaves no owner, and changes no row.
LEMMA ProcessMoves ==
  ASSUME CapacityInvariant, FactsInvariant, OrderInvariant, Crash \/ Close \/ Reopen
  PROVE  Quiet /\ \A r \in Run : InDoubt(r)'
<1>1. Quiet
  BY DEF Quiet, Crash, Close, Reopen, Forgotten, factVars, callVars
<1>2. \A r \in Run : pc'[r] = "off" /\ flights'[r] = {}
  BY DEF Crash, Close, Reopen, Forgotten, ownerVars, CapacityInvariant, DispatcherSound, OwnersSound,
         OwnerSound
<1> QED
  BY <1>1, <1>2 DEF InDoubt

\* A step of one run leaves in doubt what the other owners wait for.
LEMMA OthersInDoubt ==
  ASSUME NEW r \in Run, CapacityInvariant, FactsInvariant, OrderInvariant,
         Enter(r) \/ OwnerSteps(r) \/ CancelledInCleanup(r) \/ ClaimFails(r)
           \/ (\E why \in Findings : Guard(r, why)) \/ (\E n \in Node : Reconcile(r, n))
  PROVE  \A q \in Run \ {r} : InDoubt(q)'
<1>1. \A q \in Run \ {r} : Alike(q)
  <2> USE Typed DEF Alike, Goto, Halting, ownerVars
  <2>1. CASE \/ Enter(r) \/ Prologue(r) \/ (\E why \in Findings : Guard(r, why)) \/ Settle(r)
             \/ PreparationFails(r) \/ ClaimSent(r) \/ Mark(r) \/ (\E n \in Node : Reconcile(r, n))
    BY <2>1 DEF Enter, Prologue, Guard, Settle, PreparationFails, ClaimSent, Mark, Reconcile
  <2>2. CASE StartTool(r)
    BY <2>2 DEF StartTool
  <2>3. CASE ToolEnds(r)
    BY <2>3 DEF ToolEnds
  <2>4. CASE \/ Await(r) \/ LeaveLoop(r) \/ DrainTimeout(r) \/ Abandon(r) \/ CleanUp(r)
             \/ Cleaned(r) \/ Finished(r) \/ Suspended(r) \/ CancelledInCleanup(r)
    BY <2>4 DEF Await, LeaveLoop, DrainTimeout, Abandon, CleanUp, Cleaned, Finished, Suspended,
       CancelledInCleanup
  <2>5. CASE ConfirmSettled(r) \/ Release(r) \/ Unused(r) \/ StopWaiting(r) \/ MarkFails(r)
             \/ ClaimFails(r)
    BY <2>5 DEF ConfirmSettled, Release, Unused, StopWaiting, MarkFails, ClaimFails
  <2>6. CASE Ask(r)
    BY <2>6 DEF Ask
  <2>7. CASE Admit(r)
    BY <2>7 DEF Admit
  <2>8. CASE GiveUp(r)
    BY <2>8 DEF GiveUp
  <2> QED
    BY <2>1, <2>2, <2>3, <2>4, <2>5, <2>6, <2>7, <2>8 DEF OwnerSteps
<1>2. \A m \in Node : m \notin NodesOf(r) => node'[m] = node[m]
  <2>1. CASE node' = node
    BY <2>1
  <2>2. CASE \E m \in NodesOf(r), s \in Statuses : node' = [node EXCEPT ![m] = s]
    BY <2>2, NodesOfDisjoint, Typed
  <2>3. CASE Finished(r)
    BY <2>3 DEF Finished
  <2>4. CASE Settle(r)
    <3>1. PICK m, s : m \in flights[r] /\ s \in Fact(m) /\ node' = [node EXCEPT ![m] = s]
      BY <2>4 DEF Settle
    <3>2. m \in NodesOf(r) /\ s \in Statuses
      BY <3>1 DEF CapacityInvariant, OwnersSound, OwnerSound, Fact, Statuses
    <3> QED
      BY <2>2, <3>1, <3>2
  <2>5. CASE Admit(r)
    <3>1. PICK m \in NodesOf(r) : node' = [node EXCEPT ![m] = "admitted"]
      BY <2>5 DEF Admit, Waiting
    <3> QED
      BY <2>2, <3>1 DEF Statuses
  <2>6. CASE PreparationFails(r) \/ Mark(r) \/ MarkFails(r)
    <3>1. at[r] \in NodesOf(r) /\ at[r] \in Node
      BY <2>6, InHand DEF PreparationFails, Mark, MarkFails, Has, HandPlaces
    <3>2. \A m \in Node \ {at[r]} : node'[m] = node[m]
      BY <2>6, <3>1, Typed DEF PreparationFails, Mark, Marked, MarkFails
    <3> QED
      BY <3>1, <3>2
  <2>7. CASE StartTool(r)
    <3>1. node' = node \/ \E m \in FirstReady(r) : node' = [node EXCEPT ![m] = "admitted"]
      BY <2>7 DEF StartTool
    <3> QED
      BY <2>1, <2>2, <3>1, NodesOfDisjoint DEF Statuses
  <2>8. CASE ToolEnds(r)
    <3>1. at[r] \in NodesOf(r)
      BY <2>8, InHand DEF ToolEnds
    <3>2. node' = node \/ \E s \in Known : node' = [node EXCEPT ![at[r]] = s]
      BY <2>8, ZenonT(30) DEF ToolEnds, Known
    <3> QED
      BY <2>1, <2>2, <3>1, <3>2 DEF Statuses, Known
  <2>9. CASE \E n \in Node : Reconcile(r, n)
    <3>1. \E n \in NodesOf(r), s \in {"completed", "failed"} : node' = [node EXCEPT ![n] = s]
      BY <2>9 DEF Reconcile
    <3> QED
      BY <2>2, <3>1 DEF Statuses
  <2>10. CASE \/ Enter(r) \/ Prologue(r) \/ (\E why \in Findings : Guard(r, why)) \/ Await(r)
              \/ LeaveLoop(r) \/ DrainTimeout(r) \/ Abandon(r) \/ CleanUp(r) \/ Cleaned(r)
              \/ Suspended(r) \/ CancelledInCleanup(r)
              \/ ConfirmSettled(r) \/ GiveUp(r) \/ Unused(r) \/ ClaimSent(r) \/ StopWaiting(r)
              \/ Ask(r) \/ Release(r) \/ ClaimFails(r)
    BY <2>1, <2>10, OwnerIsQuiet DEF Quiet
  <2> QED
    BY <2>3, <2>4, <2>5, <2>6, <2>7, <2>8, <2>9, <2>10 DEF OwnerSteps
<1> SUFFICES ASSUME NEW q \in Run \ {r} PROVE InDoubt(q)'
  OBVIOUS
<1>3. flights[q] \subseteq NodesOf(q) /\ (pc[q] = "tool" => at[q] \in NodesOf(q))
  BY InHand DEF CapacityInvariant, OwnersSound, OwnerSound
<1>4. \A m \in NodesOf(q) : node'[m] = node[m]
  BY <1>2, NodesOfDisjoint
<1>5. InDoubt(q) /\ Alike(q)
  BY <1>1 DEF OrderInvariant
<1> QED
  BY <1>3, <1>4, <1>5 DEF InDoubt, Alike

\* Every step is of one kind, and keeps in doubt what the owners wait for.
LEMMA StepIsOneKind ==
  ASSUME CapacityInvariant, FactsInvariant, OrderInvariant, [Next]_vars
  PROVE  OneKind /\ \A r \in Run : InDoubt(r)'
<1>1. ASSUME NEW r \in Run, OwnerSteps(r) \/ Enter(r) \/ CancelledInCleanup(r) \/ ClaimFails(r)
                            \/ \E why \in Findings : Guard(r, why)
      PROVE  OneKind /\ \A q \in Run : InDoubt(q)'
  <2>1. OneKind /\ InDoubt(r)'
    BY <1>1, OwnerIsQuiet, AdmitMoves, SettleMoves, HandMoves, StartToolMoves, ToolEndsMoves,
       FinishedMoves
    DEF OwnerSteps, OneKind
  <2>2. \A q \in Run \ {r} : InDoubt(q)'
    BY <1>1, OthersInDoubt
  <2> QED
    BY <2>1, <2>2
<1>2. ASSUME NEW r \in Run, NEW n \in Node, Reconcile(r, n)
      PROVE  OneKind /\ \A q \in Run : InDoubt(q)'
  BY <1>2, ReconcileMoves, OthersInDoubt DEF OneKind
<1>3. ASSUME NEW n \in Node,
             ValidateSend(n) \/ Answer(n) \/ Lose(n) \/ ProviderEnds(n) \/ HostConfirms(n)
      PROVE  OneKind /\ \A q \in Run : InDoubt(q)'
  BY <1>3, OutsideMoves DEF OneKind
<1>4. CASE Crash \/ Close \/ Reopen
  BY <1>4, ProcessMoves DEF OneKind
<1>5. CASE UNCHANGED vars
  <2>1. UNCHANGED <<node, ended, entered, pc, at, flights>>
    BY <1>5 DEF vars, factVars, ownerVars, callVars
  <2> QED
    BY <2>1 DEF OneKind, Quiet, OrderInvariant, InDoubt
<1> QED
  BY <1>1, <1>2, <1>3, <1>4, <1>5 DEF Next

\* Only a node that is ready begins to wait for capacity.
LEMMA ReadyWaits ==
  ASSUME CapacityInvariant, FactsInvariant, [Next]_vars
  PROVE  \A m \in Node : Waits(m)' => Waits(m) \/ DepsDone(m)
<1>1. CASE UNCHANGED future
  BY <1>1 DEF Waits
<1>2. ASSUME NEW n \in Node, up,
             Withdraw(n) \/ Finish(n, TRUE) \/ Finish(n, FALSE) \/ ConfirmEnded(n)
      PROVE  \A m \in Node : Waits(m)' => Waits(m)
  BY <1>2, MethodWaits
<1>3. ASSUME NEW r \in Run, OwnerSteps(r)
      PROVE  \A m \in Node : Waits(m)' => Waits(m) \/ DepsDone(m)
  <2>1. CASE \/ Prologue(r) \/ Settle(r) \/ PreparationFails(r) \/ ClaimSent(r) \/ Mark(r)
             \/ StartTool(r) \/ ToolEnds(r) \/ Await(r) \/ LeaveLoop(r) \/ DrainTimeout(r)
             \/ Abandon(r) \/ CleanUp(r) \/ Cleaned(r) \/ Finished(r) \/ Suspended(r)
    BY <1>1, <2>1 DEF Prologue, Settle, PreparationFails, ClaimSent, Mark, StartTool, ToolEnds, Await,
       LeaveLoop, DrainTimeout, Abandon, CleanUp, Cleaned, Finished, Suspended, dispatcherVars, memoryVars
  <2>2. CASE ConfirmSettled(r) \/ GiveUp(r) \/ StopWaiting(r)
    <3>1. up
      BY <2>2, OwnerUp DEF ConfirmSettled, GiveUp, StopWaiting, Has, Looking
    <3>2. \E n \in Node : Withdraw(n) \/ ConfirmEnded(n)
      BY <2>2, NodesOfDisjoint DEF ConfirmSettled, GiveUp, StopWaiting, Waiting
    <3> QED
      BY <1>2, <3>1, <3>2
  <2>3. CASE Release(r) \/ Unused(r) \/ MarkFails(r)
    <3>1. up /\ at[r] \in Node
      BY <2>3, OwnerUp, InHand DEF Release, Unused, MarkFails, Has, HandPlaces
    <3>2. Withdraw(at[r]) \/ Finish(at[r], TRUE) \/ Finish(at[r], FALSE)
      BY <2>3 DEF Release, Unused, MarkFails, Finish
    <3> QED
      BY <1>2, <3>1, <3>2
  <2>4. CASE Ask(r)
    <3>1. PICK n \in FirstReady(r) : Request(n) \/ UNCHANGED memoryVars
      BY <2>4 DEF Ask
    <3>2. n \in Node /\ DepsDone(n) /\ up
      BY <2>4, NodesOfDisjoint, OwnerUp DEF Ask, Looking, Has, FirstReady, Ready, DepsDone
    <3>3. CASE Request(n)
      BY <3>2, <3>3, MethodWaits
    <3> QED
      BY <1>1, <3>1, <3>3 DEF memoryVars
  <2>5. CASE Admit(r)
    BY <2>5, Typed DEF Admit, Waits
  <2> QED
    BY <1>3, <2>1, <2>2, <2>3, <2>4, <2>5 DEF OwnerSteps
<1>4. ASSUME NEW r \in Run, Enter(r) \/ CancelledInCleanup(r) \/ (\E why \in Findings : Guard(r, why))
                            \/ \E n \in Node : Reconcile(r, n)
      PROVE  UNCHANGED future
  BY <1>4 DEF Enter, CancelledInCleanup, Guard, Reconcile, dispatcherVars
<1>5. ASSUME NEW r \in Run, ClaimFails(r) PROVE \A m \in Node : Waits(m)' => Waits(m)
  <2>1. up /\ at[r] \in Node /\ Withdraw(at[r])
    BY <1>5, OwnerUp, InHand DEF ClaimFails, Has, HandPlaces
  <2> QED
    BY <1>2, <2>1
<1>6. ASSUME NEW n \in Node,
             ValidateSend(n) \/ Answer(n) \/ Lose(n) \/ ProviderEnds(n) \/ HostConfirms(n)
      PROVE  \A m \in Node : Waits(m)' => Waits(m)
  <2>1. CASE HostConfirms(n)
    BY <1>2, <2>1 DEF HostConfirms
  <2>2. CASE ValidateSend(n) \/ Answer(n) \/ Lose(n) \/ ProviderEnds(n)
    BY <1>1, <2>2 DEF ValidateSend, Answer, Lose, ProviderEnds, dispatcherVars, Waits
  <2> QED
    BY <1>6, <2>1, <2>2
<1>7. CASE Crash \/ Close \/ Reopen
  <2>1. CASE Crash \/ Close
    BY <2>1 DEF Crash, Close, Forgotten, Down, Waits
  <2>2. CASE Reopen
    BY <2>2 DEF Reopen, Up, Waits, CapacityInvariant, DispatcherSound
  <2> QED
    BY <1>7, <2>1, <2>2
<1>8. CASE UNCHANGED vars
  BY <1>1, <1>8 DEF vars, dispatcherVars
<1> QED
  BY <1>1, <1>3, <1>4, <1>5, <1>6, <1>7, <1>8 DEF Next

\* Every action keeps the order of the nodes.
LEMMA OrderStep ==
  ASSUME CapacityInvariant, FactsInvariant, OrderInvariant, [Next]_vars
  PROVE  OrderInvariant'
<1>1. OneKind /\ \A r \in Run : InDoubt(r)'
  BY StepIsOneKind
<1>2. \A m \in Node : /\ node[m] = "completed" => node'[m] = "completed"
                      /\ node'[m] \notin {"pending", "cancelled"} => DepsDone(m)
  BY <1>1 DEF OneKind, Quiet, Advances, Calls, Ends, OrderInvariant, Ordered
<1>3. \A m \in Node : DepsDone(m) => DepsDone(m)'
  <2>1. \A m \in Node : Deps[m] \subseteq Node
    BY RunConstants
  <2> QED
    BY <1>2, <2>1 DEF DepsDone
<1>4. \A m \in Node : Waits(m)' => DepsDone(m)
  BY ReadyWaits DEF OrderInvariant, Ordered
<1> QED
  BY <1>1, <1>2, <1>3, <1>4 DEF OrderInvariant, Ordered

\* The phase of every node.
phases == [n \in Node |-> Phase(n)]

\* What the phase of a node is at each of its statuses.
LEMMA Phased ==
  ASSUME NEW n \in Node
  PROVE  /\ node[n] = "pending" => phases[n] = "open"
         /\ node[n] = "admitted" => phases[n] = "begun"
         /\ node[n] = "unknown" => phases[n] = "doubt"
         /\ node[n] \in {"completed", "failed", "cancelled"} => phases[n] = node[n]
BY DEF phases, Phase

\* A node whose dependencies are complete may go on in a run that is not over.
LEMMA MayGoOn ==
  ASSUME NEW n \in Node, DepsDone(n), RunOf(n) \notin ended
  PROVE  Nodewise!Enabled(n)
<1>1. \A d \in Deps[n] : phases[d] = "completed"
  <2>1. Deps[n] \subseteq Node
    BY RunConstants
  <2> QED
    BY <2>1, Phased DEF DepsDone
<1> QED
  BY <1>1 DEF Nodewise!Enabled, phases

\* A node that moves on takes a step of the contract, or stays in its phase.
LEMMA AdvancesKeep ==
  ASSUME CapacityInvariant, OrderInvariant, NEW n \in Node, Advances(n)
  PROVE  Nodewise!NodeNext \/ UNCHANGED <<phases, entered, ended>>
<1>1. Nodewise!Enabled(n)
  <2>1. DepsDone(n)
    BY DEF Advances, OrderInvariant, Ordered
  <2> QED
    BY <2>1, MayGoOn DEF Advances
<1>2. \A p : phases'[n] = p => phases' = [phases EXCEPT ![n] = p]
  <2>1. \A m \in Node \ {n} : phases'[m] = phases[m]
    BY DEF Advances, phases, Phase
  <2> QED
    BY <2>1 DEF phases
<1>3. /\ node'[n] = "admitted" => phases'[n] = "begun"
      /\ node'[n] = "unknown" => phases'[n] = "doubt"
      /\ node'[n] \in {"completed", "failed"} => phases'[n] = node'[n]
  BY DEF phases, Phase
<1>4. UNCHANGED <<ended, entered>>
  BY DEF Advances
<1> USE Phased DEF phases
<1>5. CASE node[n] = "pending" /\ node'[n] = "admitted"
  <2>1. Nodewise!Begin(n)
    BY <1>1, <1>2, <1>3, <1>4, <1>5 DEF Nodewise!Begin
  <2> QED
    BY <2>1 DEF Nodewise!NodeNext
<1>6. CASE node[n] = "admitted" /\ node'[n] = "unknown"
  <2>1. Nodewise!PutInDoubt(n)
    BY <1>1, <1>2, <1>3, <1>4, <1>6 DEF Nodewise!PutInDoubt
  <2> QED
    BY <2>1 DEF Nodewise!NodeNext
<1>7. CASE node[n] \in {"admitted", "unknown"} /\ node'[n] \in {"completed", "failed"}
  <2>1. Nodewise!Settle(n)
    BY <1>1, <1>2, <1>3, <1>4, <1>7 DEF Nodewise!Settle
  <2> QED
    BY <2>1 DEF Nodewise!NodeNext
<1>8. CASE node[n] \in {"admitted", "unknown"} /\ node'[n] = node[n]
  <2>1. phases' = phases
    BY <1>2, <1>3, <1>8
  <2> QED
    BY <1>4, <2>1
<1> QED
  BY <1>5, <1>6, <1>7, <1>8 DEF Advances, Known

\* The provider is entered for a model request that is in doubt, for the first time.
LEMMA CallsKeep ==
  ASSUME CapacityInvariant, OrderInvariant, NEW n \in Node, Calls(n)
  PROVE  Nodewise!NodeNext
<1>1. Nodewise!Enabled(n)
  <2>1. DepsDone(n)
    BY DEF Calls, OrderInvariant, Ordered
  <2> QED
    BY <2>1, MayGoOn DEF Calls
<1>2. phases' = phases /\ phases[n] = "doubt"
  BY Phased DEF Calls, phases, Phase
<1>3. Nodewise!Call(n)
  BY <1>1, <1>2 DEF Nodewise!Call, Calls, phases
<1> QED
  BY <1>3 DEF Nodewise!NodeNext

\* A run that ends has nothing in doubt, and drops only what did not settle.
LEMMA EndsKeep ==
  ASSUME CapacityInvariant, NEW r \in Run, Ends(r)
  PROVE  Nodewise!NodeNext
<1> DEFINE dropped == {n \in Node : node'[n] # node[n]}
<1>1. phases' = [n \in Node |-> IF n \in dropped THEN "cancelled" ELSE phases[n]]
  <2>1. \A n \in Node : phases'[n] = IF n \in dropped THEN "cancelled" ELSE phases[n]
    BY DEF Ends, phases, Phase
  <2> QED
    BY <2>1 DEF phases
<1>2. dropped \in SUBSET {n \in Node : RunOf(n) = r /\ phases[n] \in {"open", "begun"}}
  BY RunOfNode, Phased DEF Ends
<1>3. \A n \in Node : RunOf(n) = r => phases[n] # "doubt"
  <2>1. \A n \in Node : node[n] \in Statuses
    BY Typed
  <2>2. \A n \in Node : RunOf(n) = r => node[n] # "unknown"
    BY RunOfNode DEF Ends
  <2> QED
    BY <2>1, <2>2, Phased DEF Statuses
<1> HIDE DEF dropped
<1>4. Nodewise!Close(r)
  BY <1>1, <1>2, <1>3 DEF Nodewise!Close, Ends, phases
<1> QED
  BY <1>4 DEF Nodewise!NodeNext

\* The concurrent owners implement NodeOnce: whoever lost a request, its slot or the
\* process, each step is a step of one node, the end of a run, or changes nothing of
\* what the contract speaks of (advance_parallel(), reconcile(), validate_send()).
THEOREM OwnersKeepContract == Spec => ParallelContract
<1>1. Init => OrderInvariant
  <2> SUFFICES ASSUME Init PROVE OrderInvariant
    OBVIOUS
  <2>1. /\ \A n \in Node : node[n] = "pending" /\ ~Waits(n)
        /\ \A r \in Run : pc[r] = "off" /\ flights[r] = {}
    BY DEF Init, DispatcherInit, Waits
  <2> QED
    BY <2>1 DEF OrderInvariant, Ordered, InDoubt
<1>2. CapacityInvariant /\ FactsInvariant /\ OrderInvariant /\ [Next]_vars => OrderInvariant'
  BY OrderStep
<1>3. Init => Nodewise!NodeInit
  <2> SUFFICES ASSUME Init PROVE Nodewise!NodeInit
    OBVIOUS
  <2>1. ended = {} /\ entered = [n \in Node |-> 0] /\ \A n \in Node : Phase(n) = "open"
    BY DEF Init, Phase
  <2> QED
    BY <2>1 DEF Nodewise!NodeInit
<1>4. CapacityInvariant /\ FactsInvariant /\ OrderInvariant /\ [Next]_vars
        => [Nodewise!NodeNext]_(Nodewise!nodeVars)
  <2> SUFFICES ASSUME CapacityInvariant, FactsInvariant, OrderInvariant, [Next]_vars
               PROVE  Nodewise!NodeNext \/ UNCHANGED <<phases, entered, ended>>
    BY DEF Nodewise!nodeVars, phases
  <2>1. CASE Quiet
    BY <2>1 DEF Quiet, phases, Phase
  <2>2. OneKind
    BY StepIsOneKind
  <2> QED
    BY <2>1, <2>2, AdvancesKeep, CallsKeep, EndsKeep DEF OneKind
<1> QED
  BY <1>1, <1>2, <1>3, <1>4, FactsHold, PTL DEF Spec, ParallelContract, Nodewise!NodeSpec
=============================================================================
