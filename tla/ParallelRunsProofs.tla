-------------------------- MODULE ParallelRunsProofs --------------------------
(***************************************************************************)
(* The provider is never overloaded, for any number of runs, nodes, slots, *)
(* crashes and restarts.                                                   *)
(*                                                                         *)
(* The argument: a slot in memory is a claim on disk, the two change       *)
(* together, and whatever the provider works on has a claim marked sent.   *)
(* So the requests at the provider are some of the occupied slots.  What   *)
(* has to be shown is that a claim is ended only for a request that is     *)
(* over, and that takes the owners' and the workers' bookkeeping.          *)
(***************************************************************************)
EXTENDS ParallelRuns, FiniteSetTheorems, SequenceTheorems, TLAPS

-----------------------------------------------------------------------------
(* The inductive invariant.                                                *)

Occupied(c) == {n \in Node : c[n] \in {"reserved", "sent"}}

\* The memory and the ledger of a dispatcher in use: queue q, slots a, unresolved u,
\* claims c and futures f.
SlotsSound(q, a, u, c, f) ==
  /\ a = Occupied(c)
  /\ Cardinality(a) <= Capacity
  /\ \A n \in u : c[n] = "sent"
  /\ \A n \in Node : f[n] = "granted" => c[n] = "reserved"
  /\ \A n \in Tool : c[n] = "none"
  /\ \A i \in 1..Len(q) : q[i] \notin a \cup Tool
  /\ \A i, j \in 1..Len(q) : q[i] = q[j] => i = j

\* Without a process nothing is in memory, and the ledger keeps its claims.
DispatcherSound ==
  /\ up => SlotsSound(queue, active, unresolved, claim, future)
  /\ ~up => /\ SlotsSound(<<>>, Occupied(claim), {}, claim, future)
            /\ queue = <<>> /\ active = {} /\ unresolved = {}
            /\ \A n \in Node : future[n] = "none"
            /\ \A r \in Run : pc[r] = "off"

\* What the provider works on has a sent claim, and no fact about it is settled; a
\* worker that has yet to enter it is in flight, and one that returned a response or
\* a refusal leaves nothing behind at the provider.
CallsSound ==
  \A n \in Node :
    /\ provider[n] = "processing" => claim[n] = "sent" /\ ~SettledNode(n)
    /\ worker[n] = "spawned" =>
         /\ provider[n] # "processing"
         /\ ~SettledNode(n)
         /\ \E r \in Run : n \in flights[r]
    /\ Confirmed(n) => provider[n] # "processing"

HandPlaces == {"prepare", "mark", "unused", "release", "cleared"}

\* What an owner has in flight occupies a slot and is not given up; what it has in
\* hand is in the state its place says.
OwnerSound(r) ==
  /\ flights[r] \subseteq NodesOf(r)
  /\ \A n \in flights[r] : claim[n] = "sent" /\ n \notin unresolved
  /\ pc[r] \in {"off", "enter", "leave"} => flights[r] = {}
  /\ pc[r] \in {"clean", "cleared"} => \A n \in flights[r] : worker[n] # "spawned"
  /\ pc[r] \in HandPlaces => turn = r /\ at[r] \in NodesOf(r)
  /\ pc[r] \in {"prepare", "unused"} => claim[at[r]] = "reserved"
  /\ pc[r] = "prepare" => future[at[r]] = "none"
  /\ pc[r] = "mark" => /\ claim[at[r]] = "sent"
                       /\ at[r] \notin unresolved \cup flights[r]
                       /\ provider[at[r]] # "processing"
  /\ pc[r] \in {"release", "cleared"} => at[r] \in flights[r] /\ worker[at[r]] # "spawned"
  /\ pc[r] = "tool" => at[r] \in Tool

OwnersSound == \A r \in Run : OwnerSound(r)

CapacityInvariant == TypeOK /\ DispatcherSound /\ CallsSound /\ OwnersSound

-----------------------------------------------------------------------------
(* The dispatcher's methods.                                               *)

LEMMA NodesOfDisjoint ==
  /\ \A r \in Run : NodesOf(r) \subseteq Node
  /\ \A r, s \in Run, n \in Node : n \in NodesOf(r) /\ n \in NodesOf(s) => r = s
  /\ \A r \in Run : FirstReady(r) \subseteq NodesOf(r)
<1>1. ASSUME NEW r \in Run PROVE NodesOf(r) \subseteq Node
  BY RunConstants DEF NodesOf, Elements
<1>2. ASSUME NEW r \in Run PROVE FirstReady(r) \subseteq NodesOf(r)
  BY DEF FirstReady, Ready, NodesOf, Elements
<1> QED
  BY <1>1, <1>2, RunConstants

\* What a drain over unresolved u and claims c leaves: sound slots, and untouched the
\* claims that occupied one.
Drained(u, c) ==
  /\ SlotsSound(queue', active', unresolved', claim', future')
  /\ claim' \in [Node -> Stages] /\ queue' \in Seq(Node)
  /\ active' \subseteq Node /\ unresolved' \subseteq active'
  /\ future' \in [Node -> Futures]
  /\ unresolved' = u
  /\ \A n \in Node : c[n] \in {"reserved", "sent"} => claim'[n] = c[n]

LEMMA DrainSound ==
  ASSUME NEW q \in Seq(Node), NEW a \in SUBSET Node, NEW u \in SUBSET Node,
         NEW c \in [Node -> Stages], NEW f \in [Node -> Futures],
         SlotsSound(q, a, u, c, f), Drain(q, a, u, c, f)
  PROVE  Drained(u, c)
<1>1. a = Occupied(c) /\ u \subseteq a /\ Cardinality(a) <= Capacity
  BY DEF SlotsSound, Occupied
<1>2. CASE u # {}
  <2>1. /\ queue' = <<>> /\ active' = a /\ unresolved' = u /\ claim' = c
        /\ future' = [n \in Node |-> IF n \in Elements(q) THEN "refused" ELSE f[n]]
    BY <1>2 DEF Drain
  <2> QED
    BY <1>1, <2>1 DEF Drained, SlotsSound, Futures
<1>3. CASE u = {}
  <2> DEFINE first   == Smaller(Len(q), Free(a))
             granted == {q[i] : i \in 1..first}
  <2>1. /\ queue' = SubSeq(q, first + 1, Len(q)) /\ active' = a \cup granted
        /\ unresolved' = {}
        /\ future' = [n \in Node |-> IF n \in granted THEN "granted" ELSE f[n]]
        /\ claim' = [n \in Node |-> IF n \in granted THEN "reserved" ELSE c[n]]
    BY <1>3 DEF Drain
  <2>2. IsFiniteSet(a) /\ Cardinality(a) \in Nat
    BY FS_Subset, FS_CardinalityType, DispatcherConstants
  <2>3. /\ Free(a) \in Nat /\ Cardinality(a) + Free(a) <= Capacity
        /\ first \in Nat /\ first <= Len(q) /\ first <= Free(a)
    BY <1>1, <2>2, DispatcherConstants DEF Free, Smaller
  <2>4. granted \subseteq Node /\ granted \cap (a \cup Tool) = {}
    BY <2>3 DEF SlotsSound
  <2>5. Cardinality(a \cup granted) <= Capacity
    <3>1. IsFiniteSet(1..first) /\ Cardinality(1..first) = first
      BY <2>3, FS_Interval
    <3>2. IsFiniteSet(granted) /\ Cardinality(granted) <= first
      <4>1. [i \in 1..first |-> q[i]] \in Surjection(1..first, granted)
        BY DEF Surjection
      <4> QED
        BY <3>1, <4>1, FS_Surjection
    <3>3. /\ Cardinality(granted) \in Nat
          /\ IsFiniteSet(a \cap granted) /\ Cardinality(a \cap granted) \in Nat
      BY <2>2, <3>2, FS_CardinalityType, FS_Intersection
    <3>4. Cardinality(a \cup granted)
            = Cardinality(a) + Cardinality(granted) - Cardinality(a \cap granted)
      BY <2>2, <3>2, FS_Union
    <3> QED
      BY <2>2, <2>3, <3>2, <3>3, <3>4, DispatcherConstants
  <2>6. a \cup granted = Occupied(claim')
    BY <1>1, <2>1, <2>4 DEF Occupied
  <2>7. /\ queue' \in Seq(Node)
        /\ Len(queue') = Len(q) - first
        /\ \A i \in 1..Len(queue') : queue'[i] = q[i + first]
    BY <2>1, <2>3
  <2>8. /\ \A i \in 1..Len(queue') : queue'[i] \notin active' \cup Tool
        /\ \A i, j \in 1..Len(queue') : queue'[i] = queue'[j] => i = j
    <3>1. ASSUME NEW i \in 1..Len(queue') PROVE queue'[i] \notin active' \cup Tool
      <4>1. i + first \in 1..Len(q) /\ queue'[i] = q[i + first]
        BY <2>3, <2>7
      <4>2. \A k \in 1..first : q[k] # q[i + first]
        BY <2>3, <4>1 DEF SlotsSound
      <4> QED
        BY <2>1, <4>1, <4>2 DEF SlotsSound
    <3>2. ASSUME NEW i \in 1..Len(queue'), NEW j \in 1..Len(queue'), queue'[i] = queue'[j]
          PROVE i = j
      <4>1. i + first \in 1..Len(q) /\ j + first \in 1..Len(q) /\ q[i + first] = q[j + first]
        BY <2>3, <2>7, <3>2
      <4>2. i + first = j + first
        BY <4>1 DEF SlotsSound
      <4> QED
        BY <2>3, <4>2
    <3> QED
      BY <3>1, <3>2
  <2>9. \A n \in Node : c[n] \in {"reserved", "sent"} => n \notin granted
    BY <1>1, <2>4 DEF Occupied
  <2>10. SlotsSound(queue', active', unresolved', claim', future')
    BY <2>1, <2>4, <2>5, <2>6, <2>8, <2>9, RunConstants DEF SlotsSound
  <2> QED
    BY <1>1, <1>3, <2>1, <2>4, <2>7, <2>9, <2>10 DEF Drained, Stages, Futures
<1> QED
  BY <1>2, <1>3

\* What a method leaves of the slots when the only one it may take away is n's.
SlotStep(n) ==
  /\ DispatcherTypeOK'
  /\ SlotsSound(queue', active', unresolved', claim', future')
  /\ unresolved' \subseteq unresolved
  /\ \A m \in Node : claim[m] \in {"reserved", "sent"} /\ m # n => claim'[m] = claim[m]

InUse == up /\ up' = up /\ DispatcherTypeOK /\ SlotsSound(queue, active, unresolved, claim, future)

LEMMA RequestSound ==
  ASSUME NEW n \in Node \ Tool, InUse, Requestable(n), Request(n)
  PROVE  SlotStep(n) /\ (claim[n] \in {"reserved", "sent"} => claim'[n] = claim[n])
<1> DEFINE q == Append(queue, n)
           f == [future EXCEPT ![n] = "pending"]
<1>1. q \in Seq(Node) /\ f \in [Node -> Futures]
  BY DEF InUse, DispatcherTypeOK, Futures
<1>2. /\ Len(q) = Len(queue) + 1
      /\ q[Len(queue) + 1] = n
      /\ \A i \in 1..Len(queue) : q[i] = queue[i] /\ queue[i] # n
  BY DEF InUse, DispatcherTypeOK, Requestable, Elements
<1>3. n \notin active
  BY DEF Requestable
<1>4. SlotsSound(q, active, unresolved, claim, f)
  <2>1. \A i \in 1..Len(q) : q[i] \notin active \cup Tool
    BY <1>1, <1>2, <1>3 DEF InUse, SlotsSound, DispatcherTypeOK
  <2>2. \A i, j \in 1..Len(q) : q[i] = q[j] => i = j
    BY <1>1, <1>2 DEF InUse, SlotsSound, DispatcherTypeOK
  <2> QED
    BY <2>1, <2>2 DEF InUse, SlotsSound, DispatcherTypeOK
<1>5. Drain(q, active, unresolved, claim, f)
  BY DEF Request
<1> HIDE DEF q, f
<1>6. Drained(unresolved, claim)
  BY <1>1, <1>4, <1>5, DrainSound DEF InUse, DispatcherTypeOK
<1> QED
  BY <1>6 DEF Drained, InUse, DispatcherTypeOK, SlotStep

LEMMA FewerSlots ==
  ASSUME NEW a \in SUBSET Node, NEW n, Cardinality(a) <= Capacity
  PROVE  Cardinality(a \ {n}) <= Capacity
<1>1. IsFiniteSet(a)
  BY FS_Subset, DispatcherConstants
<1>2. IsFiniteSet(a \ {n}) /\ a \ {n} \in SUBSET a
  BY <1>1, FS_RemoveElement
<1>3. Cardinality(a \ {n}) <= Cardinality(a)
  BY <1>1, <1>2, FS_Subset
<1>4. Cardinality(a) \in Nat /\ Cardinality(a \ {n}) \in Nat
  BY <1>1, <1>2, FS_CardinalityType
<1> QED
  BY <1>3, <1>4, DispatcherConstants

\* A request that is over gives its slot back, one that is not keeps it unresolved.
LEMMA FinishSound ==
  ASSUME NEW n \in Node, NEW confirmed \in BOOLEAN, InUse, claim[n] = "sent",
         Finish(n, confirmed)
  PROVE  /\ confirmed => SlotStep(n)
         /\ ~confirmed =>
              /\ DispatcherTypeOK'
              /\ SlotsSound(queue', active', unresolved', claim', future')
              /\ unresolved' = unresolved \cup {n}
              /\ \A m \in Node : claim[m] \in {"reserved", "sent"} => claim'[m] = claim[m]
<1>1. active \subseteq Node /\ n \in active
  BY DEF InUse, DispatcherTypeOK, SlotsSound, Occupied
<1>2. CASE confirmed
  <2> DEFINE a == active \ {n}
             u == unresolved \ {n}
             c == [claim EXCEPT ![n] = "ended"]
  <2>1. c \in [Node -> Stages] /\ a \subseteq Node /\ u \subseteq Node
    BY DEF InUse, DispatcherTypeOK, Stages
  <2>2. Cardinality(a) <= Capacity
    BY <1>1, FewerSlots DEF InUse, SlotsSound
  <2>3. SlotsSound(queue, a, u, c, future)
    BY <1>1, <2>2, RunConstants DEF InUse, SlotsSound, DispatcherTypeOK, Occupied
  <2>4. Drain(queue, a, u, c, future)
    BY <1>2 DEF Finish
  <2>5. \A m \in Node : claim[m] \in {"reserved", "sent"} /\ m # n => c[m] = claim[m]
    BY DEF InUse, DispatcherTypeOK
  <2>6. u \subseteq unresolved
    OBVIOUS
  <2> HIDE DEF a, u, c
  <2>7. Drained(u, c)
    BY <2>1, <2>3, <2>4, DrainSound DEF InUse, DispatcherTypeOK
  <2> QED
    BY <1>2, <2>5, <2>6, <2>7 DEF Drained, InUse, DispatcherTypeOK, SlotStep
<1>3. CASE ~confirmed
  <2> DEFINE u == unresolved \cup {n}
             c == [claim EXCEPT ![n] = "sent"]
  <2>1. c = claim /\ u \subseteq Node
    BY DEF InUse, DispatcherTypeOK
  <2>2. SlotsSound(queue, active, u, claim, future)
    BY DEF InUse, SlotsSound
  <2>3. Drain(queue, active, u, claim, future)
    BY <1>3, <2>1 DEF Finish
  <2>4. Drained(u, claim)
    BY <2>1, <2>2, <2>3, DrainSound DEF InUse, DispatcherTypeOK
  <2> QED
    BY <1>3, <2>4 DEF Drained, InUse, DispatcherTypeOK
<1> QED
  BY <1>2, <1>3

\* The word of a receipt or of the host ends a request like its response does.
LEMMA ConfirmEndedSound ==
  ASSUME NEW n \in unresolved, InUse, ConfirmEnded(n)
  PROVE  SlotStep(n) /\ n \in Node /\ claim[n] = "sent"
<1>1. n \in Node /\ claim[n] = "sent"
  BY DEF InUse, DispatcherTypeOK, SlotsSound
<1>2. Finish(n, TRUE)
  BY DEF Finish, ConfirmEnded
<1> QED
  BY <1>1, <1>2, FinishSound

LEMMA WithoutSound ==
  ASSUME NEW q \in Seq(Node), NEW n \in Node, \A i, j \in 1..Len(q) : q[i] = q[j] => i = j
  PROVE  /\ Without(q, n) \in Seq(Node)
         /\ \A i \in 1..Len(Without(q, n)) : \E k \in 1..Len(q) : Without(q, n)[i] = q[k]
         /\ \A i, j \in 1..Len(Without(q, n)) : Without(q, n)[i] = Without(q, n)[j] => i = j
<1>1. CASE n \notin Elements(q)
  BY <1>1 DEF Without
<1>2. CASE n \in Elements(q)
  <2> DEFINE p == Position(q, n)
             w == Without(q, n)
  <2>1. p \in 1..Len(q)
    BY <1>2 DEF Position, Elements
  <2>2. w = [i \in 1..(Len(q) - 1) |-> IF i < p THEN q[i] ELSE q[i + 1]]
    BY <1>2 DEF Without
  <2> HIDE DEF p, w
  <2>3. Len(q) \in Nat /\ Len(q) - 1 \in Nat
    BY <2>1
  <2>4. w \in Seq(Node) /\ Len(w) = Len(q) - 1
    BY <2>1, <2>2, <2>3
  <2>5. \A i \in 1..Len(w) : w[i] = q[IF i < p THEN i ELSE i + 1]
    BY <2>1, <2>2, <2>4
  <2>6. \A i \in 1..Len(w) : (IF i < p THEN i ELSE i + 1) \in 1..Len(q)
    BY <2>1, <2>3, <2>4
  <2>7. ASSUME NEW i \in 1..Len(w), NEW j \in 1..Len(w), w[i] = w[j] PROVE i = j
    BY <2>1, <2>3, <2>4, <2>5, <2>6, <2>7
  <2> QED
    BY <2>4, <2>5, <2>6, <2>7 DEF w
<1> QED
  BY <1>1, <1>2

\* A waiter that leaves gives back a slot it has not used, and no other.
LEMMA WithdrawSound ==
  ASSUME NEW n \in Node, InUse, Withdraw(n)
  PROVE  SlotStep(n) /\ (claim[n] = "sent" => claim'[n] = "sent")
<1> DEFINE q == Without(queue, n)
           f == [future EXCEPT ![n] = "none"]
<1>1. /\ q \in Seq(Node)
      /\ f \in [Node -> Futures]
      /\ \A i \in 1..Len(q) : q[i] \notin active \cup Tool
      /\ \A i, j \in 1..Len(q) : q[i] = q[j] => i = j
  <2>1. queue \in Seq(Node) /\ \A i, j \in 1..Len(queue) : queue[i] = queue[j] => i = j
    BY DEF InUse, DispatcherTypeOK, SlotsSound
  <2>2. f \in [Node -> Futures]
    BY DEF InUse, DispatcherTypeOK, Futures
  <2> HIDE DEF f
  <2>3. /\ q \in Seq(Node)
        /\ \A i \in 1..Len(q) : \E k \in 1..Len(queue) : q[i] = queue[k]
        /\ \A i, j \in 1..Len(q) : q[i] = q[j] => i = j
    BY <2>1, WithoutSound
  <2>4. \A k \in 1..Len(queue) : queue[k] \notin active \cup Tool
    BY DEF InUse, SlotsSound
  <2> HIDE DEF q
  <2>5. \A i \in 1..Len(q) : q[i] \notin active \cup Tool
    BY <2>3, <2>4
  <2> QED
    BY <2>2, <2>3, <2>5
<1>2. CASE Unsent(n)
  <2> DEFINE a == active \ {n}
             c == [claim EXCEPT ![n] = "ended"]
  <2>1. c \in [Node -> Stages] /\ a \subseteq Node /\ unresolved \subseteq Node
    BY DEF InUse, DispatcherTypeOK, Stages
  <2>2. Cardinality(a) <= Capacity
    BY FewerSlots DEF InUse, DispatcherTypeOK, SlotsSound
  <2>3. SlotsSound(q, a, unresolved, c, f)
    BY <1>1, <1>2, <2>2, RunConstants
    DEF InUse, SlotsSound, DispatcherTypeOK, Occupied, Unsent
  <2>4. Drain(q, a, unresolved, c, f)
    BY <1>2 DEF Withdraw
  <2>5. \A m \in Node : claim[m] \in {"reserved", "sent"} /\ m # n => c[m] = claim[m]
    BY DEF InUse, DispatcherTypeOK
  <2>6. unresolved \in SUBSET Node
    BY <2>1
  <2> HIDE DEF q, f, a, c
  <2>7. Drained(unresolved, c)
    BY <1>1, <2>1, <2>3, <2>4, <2>6, DrainSound
  <2> QED
    BY <1>2, <2>5, <2>7 DEF Drained, InUse, DispatcherTypeOK, SlotStep, Unsent
<1>3. CASE ~Unsent(n)
  <2>1. SlotsSound(q, active, unresolved, claim, f)
    BY <1>1 DEF InUse, SlotsSound, DispatcherTypeOK
  <2>2. Drain(q, active, unresolved, claim, f)
    BY <1>3 DEF Withdraw
  <2> HIDE DEF q, f
  <2>3. Drained(unresolved, claim)
    BY <1>1, <2>1, <2>2, DrainSound DEF InUse, DispatcherTypeOK
  <2> QED
    BY <2>3 DEF Drained, InUse, DispatcherTypeOK, SlotStep
<1> QED
  BY <1>2, <1>3

-----------------------------------------------------------------------------
(* The quiet steps leave the dispatcher alone.                              *)

\* The abbreviations of the actions; what is cited below are the facts and the actions.
USE DEF Has, Goto, Keep, Yield, Halting, Looking, Waiting, Returned, dispatcherVars,
        memoryVars, factVars, ownerVars, callVars

LEMMA EnterStep ==
  ASSUME NEW r \in Run, CapacityInvariant, Enter(r)
  PROVE  CapacityInvariant'
<1>1. TypeOK'
  BY DEF CapacityInvariant, TypeOK, DispatcherTypeOK, Places, Enter
<1>2. DispatcherSound'
  BY DEF CapacityInvariant, DispatcherSound, Enter
<1>3. CallsSound'
  BY DEF CapacityInvariant, CallsSound, SettledNode, Confirmed, Enter
<1>4. OwnersSound'
  BY RunConstants DEF CapacityInvariant, OwnersSound, OwnerSound, HandPlaces, Enter
<1> QED
  BY <1>1, <1>2, <1>3, <1>4 DEF CapacityInvariant

LEMMA ReconcileStep ==
  ASSUME NEW r \in Run, NEW n \in Node, CapacityInvariant, Reconcile(r, n)
  PROVE  CapacityInvariant'
<1>1. TypeOK'
  BY DEF CapacityInvariant, TypeOK, DispatcherTypeOK, Statuses, Places, Reconcile
<1>2. DispatcherSound'
  BY DEF CapacityInvariant, DispatcherSound, Reconcile
<1>3. CallsSound'
  BY NodesOfDisjoint
  DEF CapacityInvariant, DispatcherSound, SlotsSound, CallsSound, SettledNode, Confirmed,
      OwnersSound, OwnerSound, Reconcile
<1>4. OwnersSound'
  BY RunConstants DEF CapacityInvariant, OwnersSound, OwnerSound, HandPlaces, Reconcile
<1> QED
  BY <1>1, <1>2, <1>3, <1>4 DEF CapacityInvariant

LEMMA PrologueStep ==
  ASSUME NEW r \in Run, CapacityInvariant, Prologue(r)
  PROVE  CapacityInvariant'
<1>1. TypeOK'
  BY DEF CapacityInvariant, TypeOK, DispatcherTypeOK, Places, Prologue
<1>2. DispatcherSound'
  BY DEF CapacityInvariant, DispatcherSound, Prologue
<1>3. CallsSound'
  BY DEF CapacityInvariant, CallsSound, SettledNode, Confirmed, Prologue
<1>4. OwnersSound'
  BY DEF CapacityInvariant, OwnersSound, OwnerSound, HandPlaces, Prologue
<1> QED
  BY <1>1, <1>2, <1>3, <1>4 DEF CapacityInvariant

LEMMA GuardStep ==
  ASSUME NEW r \in Run, NEW why \in Findings, CapacityInvariant, Guard(r, why)
  PROVE  CapacityInvariant'
<1>1. TypeOK'
  BY DEF CapacityInvariant, TypeOK, DispatcherTypeOK, Places, Guard, Findings
<1>2. DispatcherSound'
  BY DEF CapacityInvariant, DispatcherSound, Guard
<1>3. CallsSound'
  BY DEF CapacityInvariant, CallsSound, SettledNode, Confirmed, Guard
<1>4. OwnersSound'
  BY RunConstants DEF CapacityInvariant, OwnersSound, OwnerSound, HandPlaces, Guard
<1> QED
  BY <1>1, <1>2, <1>3, <1>4 DEF CapacityInvariant

LEMMA SettleStep ==
  ASSUME NEW r \in Run, CapacityInvariant, Settle(r)
  PROVE  CapacityInvariant'
<1>1. TypeOK'
  BY DEF CapacityInvariant, TypeOK, DispatcherTypeOK, Statuses, Places, Settle, Fact
<1>2. DispatcherSound'
  BY DEF CapacityInvariant, DispatcherSound, Settle
<1>3. CallsSound'
  BY DEF CapacityInvariant, CallsSound, SettledNode, Confirmed, Settle, Fact
<1>4. OwnersSound'
  BY DEF CapacityInvariant, TypeOK, OwnersSound, OwnerSound, Settle
<1> QED
  BY <1>1, <1>2, <1>3, <1>4 DEF CapacityInvariant

LEMMA PreparationFailsStep ==
  ASSUME NEW r \in Run, CapacityInvariant, PreparationFails(r)
  PROVE  CapacityInvariant'
<1>1. TypeOK'
  BY DEF CapacityInvariant, TypeOK, DispatcherTypeOK, Statuses, Places, PreparationFails
<1>2. DispatcherSound'
  BY DEF CapacityInvariant, DispatcherSound, PreparationFails
<1>3. CallsSound'
  BY DEF CapacityInvariant, CallsSound, SettledNode, Confirmed, OwnersSound, OwnerSound,
         PreparationFails
<1>4. OwnersSound'
  BY DEF CapacityInvariant, OwnersSound, OwnerSound, HandPlaces, PreparationFails
<1> QED
  BY <1>1, <1>2, <1>3, <1>4 DEF CapacityInvariant

LEMMA MarkStep ==
  ASSUME NEW r \in Run, CapacityInvariant, Mark(r)
  PROVE  CapacityInvariant'
<1>1. TypeOK'
  <2>1. at[r] \in Node
    BY NodesOfDisjoint DEF CapacityInvariant, OwnersSound, OwnerSound, HandPlaces, Mark
  <2> QED
    BY <2>1
    DEF CapacityInvariant, TypeOK, DispatcherTypeOK, Statuses, Places, Workers, Mark, Marked
<1>2. DispatcherSound'
  BY DEF CapacityInvariant, DispatcherSound, Mark
<1>3. CallsSound'
  BY DEF CapacityInvariant, TypeOK, CallsSound, SettledNode, Confirmed, OwnersSound,
         OwnerSound, Mark, Marked
<1>4. OwnersSound'
  BY RunConstants DEF CapacityInvariant, TypeOK, OwnersSound, OwnerSound, HandPlaces, Mark
<1> QED
  BY <1>1, <1>2, <1>3, <1>4 DEF CapacityInvariant

LEMMA StartToolStep ==
  ASSUME NEW r \in Run, CapacityInvariant, StartTool(r)
  PROVE  CapacityInvariant'
<1>1. TypeOK'
  <2>1. FirstReady(r) \subseteq Node
    BY NodesOfDisjoint
  <2>2. node' \in [Node -> Statuses] /\ at' \in [Run -> Node \cup {NoNode}]
    BY <2>1 DEF CapacityInvariant, TypeOK, Statuses, StartTool
  <2>3. pc' \in [Run -> Places] /\ turn' \in Run \cup {NoRun}
    BY DEF CapacityInvariant, TypeOK, Places, StartTool
  <2>4. halt' \in [Run -> SUBSET {"drain", "stop", "raised"}]
    BY DEF CapacityInvariant, TypeOK, StartTool
  <2> QED
    BY <2>2, <2>3, <2>4 DEF CapacityInvariant, TypeOK, DispatcherTypeOK, StartTool
<1>2. DispatcherSound'
  BY DEF CapacityInvariant, DispatcherSound, StartTool
<1>3. CallsSound'
  BY DEF CapacityInvariant, TypeOK, CallsSound, SettledNode, Confirmed, StartTool
<1>4. OwnersSound'
  <2>2. pc[r] = "round" /\ pc'[r] \in {"tool", "top"}
    BY DEF CapacityInvariant, TypeOK, StartTool
  <2>3. pc'[r] = "tool" => at'[r] \in Tool
    BY DEF CapacityInvariant, TypeOK, StartTool
  <2>4. /\ \A q \in Run : q # r => pc'[q] = pc[q] /\ at'[q] = at[q] /\ (turn = q <=> turn' = q)
        /\ UNCHANGED <<flights, claim, unresolved, future, worker, provider>>
    BY RunConstants DEF CapacityInvariant, TypeOK, StartTool
  <2> QED
    BY <2>2, <2>3, <2>4 DEF CapacityInvariant, OwnersSound, OwnerSound, HandPlaces
<1> QED
  BY <1>1, <1>2, <1>3, <1>4 DEF CapacityInvariant

LEMMA ToolEndsStep ==
  ASSUME NEW r \in Run, CapacityInvariant, ToolEnds(r)
  PROVE  CapacityInvariant'
<1>1. TypeOK'
  <2>1. at[r] \in Node
    BY RunConstants DEF CapacityInvariant, OwnersSound, OwnerSound, ToolEnds
  <2>2. node' \in [Node -> Statuses]
    BY <2>1 DEF CapacityInvariant, TypeOK, Statuses, ToolEnds
  <2>3. pc' \in [Run -> Places] /\ halt' \in [Run -> SUBSET {"drain", "stop", "raised"}]
    BY DEF CapacityInvariant, TypeOK, Places, ToolEnds
  <2> QED
    BY <2>2, <2>3 DEF CapacityInvariant, TypeOK, DispatcherTypeOK, ToolEnds
<1>2. DispatcherSound'
  BY DEF CapacityInvariant, DispatcherSound, ToolEnds
<1>3. CallsSound'
  <2>1. /\ at[r] \in Node /\ provider[at[r]] # "processing" /\ worker[at[r]] # "spawned"
    <3>1. at[r] \in Tool /\ up
      BY DEF CapacityInvariant, DispatcherSound, OwnersSound, OwnerSound, ToolEnds
    <3>2. at[r] \in Node /\ claim[at[r]] = "none"
      BY <3>1, RunConstants DEF CapacityInvariant, DispatcherSound, SlotsSound
    <3> QED
      BY <3>2, NodesOfDisjoint DEF CapacityInvariant, CallsSound, OwnersSound, OwnerSound
  <2>2. \A n \in Node : n # at[r] => node'[n] = node[n]
    BY DEF CapacityInvariant, TypeOK, ToolEnds
  <2> QED
    BY <2>1, <2>2 DEF CapacityInvariant, CallsSound, SettledNode, Confirmed, ToolEnds
<1>4. OwnersSound'
  BY RunConstants
  DEF CapacityInvariant, TypeOK, OwnersSound, OwnerSound, HandPlaces, ToolEnds
<1> QED
  BY <1>1, <1>2, <1>3, <1>4 DEF CapacityInvariant

LEMMA AwaitStep ==
  ASSUME NEW r \in Run, CapacityInvariant, Await(r)
  PROVE  CapacityInvariant'
<1>1. TypeOK'
  BY DEF CapacityInvariant, TypeOK, DispatcherTypeOK, Places, Await
<1>2. DispatcherSound'
  BY DEF CapacityInvariant, DispatcherSound, Await
<1>3. CallsSound'
  BY DEF CapacityInvariant, CallsSound, SettledNode, Confirmed, Await
<1>4. OwnersSound'
  BY DEF CapacityInvariant, OwnersSound, OwnerSound, HandPlaces, Await
<1> QED
  BY <1>1, <1>2, <1>3, <1>4 DEF CapacityInvariant

LEMMA LeaveLoopStep ==
  ASSUME NEW r \in Run, CapacityInvariant, LeaveLoop(r)
  PROVE  CapacityInvariant'
<1>1. TypeOK'
  BY DEF CapacityInvariant, TypeOK, DispatcherTypeOK, Places, LeaveLoop
<1>2. DispatcherSound'
  BY DEF CapacityInvariant, DispatcherSound, LeaveLoop
<1>3. CallsSound'
  BY DEF CapacityInvariant, CallsSound, SettledNode, Confirmed, LeaveLoop
<1>4. OwnersSound'
  BY DEF CapacityInvariant, OwnersSound, OwnerSound, HandPlaces, LeaveLoop
<1> QED
  BY <1>1, <1>2, <1>3, <1>4 DEF CapacityInvariant

LEMMA DrainTimeoutStep ==
  ASSUME NEW r \in Run, CapacityInvariant, DrainTimeout(r)
  PROVE  CapacityInvariant'
<1>1. TypeOK'
  BY DEF CapacityInvariant, TypeOK, DispatcherTypeOK, Places, DrainTimeout
<1>2. DispatcherSound'
  BY DEF CapacityInvariant, DispatcherSound, DrainTimeout
<1>3. CallsSound'
  BY DEF CapacityInvariant, CallsSound, SettledNode, Confirmed, DrainTimeout
<1>4. OwnersSound'
  BY RunConstants DEF CapacityInvariant, OwnersSound, OwnerSound, HandPlaces, DrainTimeout
<1> QED
  BY <1>1, <1>2, <1>3, <1>4 DEF CapacityInvariant

LEMMA AbandonStep ==
  ASSUME NEW r \in Run, CapacityInvariant, Abandon(r)
  PROVE  CapacityInvariant'
<1>1. TypeOK'
  <2>1. pc' \in [Run -> Places]
    BY DEF CapacityInvariant, TypeOK, Places, Abandon
  <2>2. turn' \in Run \cup {NoRun}
    BY DEF CapacityInvariant, TypeOK, Abandon
  <2> QED
    BY <2>1, <2>2 DEF CapacityInvariant, TypeOK, DispatcherTypeOK, Abandon
<1>2. DispatcherSound'
  BY DEF CapacityInvariant, DispatcherSound, Abandon
<1>3. CallsSound'
  BY DEF CapacityInvariant, CallsSound, SettledNode, Confirmed, Abandon
<1>4. OwnersSound'
  BY DEF CapacityInvariant, TypeOK, OwnersSound, OwnerSound, HandPlaces, Abandon
<1> QED
  BY <1>1, <1>2, <1>3, <1>4 DEF CapacityInvariant

LEMMA CleanUpStep ==
  ASSUME NEW r \in Run, CapacityInvariant, CleanUp(r)
  PROVE  CapacityInvariant'
<1>1. TypeOK'
  BY DEF CapacityInvariant, TypeOK, DispatcherTypeOK, Places, CleanUp
<1>2. DispatcherSound'
  BY DEF CapacityInvariant, DispatcherSound, CleanUp
<1>3. CallsSound'
  BY DEF CapacityInvariant, CallsSound, SettledNode, Confirmed, CleanUp
<1>4. OwnersSound'
  BY RunConstants DEF CapacityInvariant, OwnersSound, OwnerSound, HandPlaces, CleanUp
<1> QED
  BY <1>1, <1>2, <1>3, <1>4 DEF CapacityInvariant

LEMMA CancelledInCleanupStep ==
  ASSUME NEW r \in Run, CapacityInvariant, CancelledInCleanup(r)
  PROVE  CapacityInvariant'
<1>1. TypeOK'
  BY DEF CapacityInvariant, TypeOK, DispatcherTypeOK, Places, Workers, CancelledInCleanup
<1>2. DispatcherSound'
  BY DEF CapacityInvariant, DispatcherSound, CancelledInCleanup
<1>3. CallsSound'
  BY DEF CapacityInvariant, CallsSound, SettledNode, Confirmed, CancelledInCleanup
<1>4. OwnersSound'
  BY DEF CapacityInvariant, TypeOK, OwnersSound, OwnerSound, HandPlaces, CancelledInCleanup
<1> QED
  BY <1>1, <1>2, <1>3, <1>4 DEF CapacityInvariant

LEMMA CleanedStep ==
  ASSUME NEW r \in Run, CapacityInvariant, Cleaned(r)
  PROVE  CapacityInvariant'
<1>1. TypeOK'
  BY DEF CapacityInvariant, TypeOK, DispatcherTypeOK, Places, Cleaned
<1>2. DispatcherSound'
  BY DEF CapacityInvariant, DispatcherSound, Cleaned
<1>3. CallsSound'
  BY DEF CapacityInvariant, CallsSound, SettledNode, Confirmed, Cleaned
<1>4. OwnersSound'
  BY DEF CapacityInvariant, OwnersSound, OwnerSound, HandPlaces, Cleaned
<1> QED
  BY <1>1, <1>2, <1>3, <1>4 DEF CapacityInvariant

LEMMA FinishedStep ==
  ASSUME NEW r \in Run, CapacityInvariant, Finished(r)
  PROVE  CapacityInvariant'
<1>1. TypeOK'
  BY DEF CapacityInvariant, TypeOK, DispatcherTypeOK, Statuses, Places, Finished
<1>2. DispatcherSound'
  BY DEF CapacityInvariant, DispatcherSound, Finished
<1>3. CallsSound'
  BY DEF CapacityInvariant, CallsSound, SettledNode, Confirmed, Finished
<1>4. OwnersSound'
  BY DEF CapacityInvariant, OwnersSound, OwnerSound, HandPlaces, Finished
<1> QED
  BY <1>1, <1>2, <1>3, <1>4 DEF CapacityInvariant

LEMMA SuspendedStep ==
  ASSUME NEW r \in Run, CapacityInvariant, Suspended(r)
  PROVE  CapacityInvariant'
<1>1. TypeOK'
  BY DEF CapacityInvariant, TypeOK, DispatcherTypeOK, Places, Suspended
<1>2. DispatcherSound'
  BY DEF CapacityInvariant, DispatcherSound, Suspended
<1>3. CallsSound'
  BY DEF CapacityInvariant, CallsSound, SettledNode, Confirmed, Suspended
<1>4. OwnersSound'
  BY DEF CapacityInvariant, OwnersSound, OwnerSound, HandPlaces, Suspended
<1> QED
  BY <1>1, <1>2, <1>3, <1>4 DEF CapacityInvariant

LEMMA ValidateSendStep ==
  ASSUME NEW n \in Node, CapacityInvariant, ValidateSend(n)
  PROVE  CapacityInvariant'
<1>1. TypeOK'
  <2>1. entered' \in [Node -> Nat]
    BY DEF CapacityInvariant, TypeOK, ValidateSend
  <2>2. /\ worker' \in [Node -> Workers]
        /\ provider' \in [Node -> {"idle", "processing", "done"}]
    BY DEF CapacityInvariant, TypeOK, Workers, ValidateSend
  <2> QED
    BY <2>1, <2>2 DEF CapacityInvariant, TypeOK, DispatcherTypeOK, ValidateSend
<1>2. DispatcherSound'
  BY DEF CapacityInvariant, DispatcherSound, ValidateSend
<1>3. CallsSound'
  BY DEF CapacityInvariant, TypeOK, CallsSound, SettledNode, Confirmed, OwnersSound,
         OwnerSound, ValidateSend
<1>4. OwnersSound'
  BY RunConstants
  DEF CapacityInvariant, TypeOK, OwnersSound, OwnerSound, HandPlaces, ValidateSend
<1> QED
  BY <1>1, <1>2, <1>3, <1>4 DEF CapacityInvariant

LEMMA AnswerStep ==
  ASSUME NEW n \in Node, CapacityInvariant, Answer(n)
  PROVE  CapacityInvariant'
<1>1. TypeOK'
  BY DEF CapacityInvariant, TypeOK, DispatcherTypeOK, Workers, Answer
<1>2. DispatcherSound'
  BY DEF CapacityInvariant, DispatcherSound, Answer
<1>3. CallsSound'
  BY DEF CapacityInvariant, CallsSound, SettledNode, Confirmed, Answer
<1>4. OwnersSound'
  BY DEF CapacityInvariant, OwnersSound, OwnerSound, Answer
<1> QED
  BY <1>1, <1>2, <1>3, <1>4 DEF CapacityInvariant

LEMMA LoseStep ==
  ASSUME NEW n \in Node, CapacityInvariant, Lose(n)
  PROVE  CapacityInvariant'
<1>1. TypeOK'
  BY DEF CapacityInvariant, TypeOK, DispatcherTypeOK, Workers, Lose
<1>2. DispatcherSound'
  BY DEF CapacityInvariant, DispatcherSound, Lose
<1>3. CallsSound'
  BY DEF CapacityInvariant, CallsSound, SettledNode, Confirmed, Lose
<1>4. OwnersSound'
  BY DEF CapacityInvariant, OwnersSound, OwnerSound, Lose
<1> QED
  BY <1>1, <1>2, <1>3, <1>4 DEF CapacityInvariant

LEMMA ProviderEndsStep ==
  ASSUME NEW n \in Node, CapacityInvariant, ProviderEnds(n)
  PROVE  CapacityInvariant'
<1>1. TypeOK'
  BY DEF CapacityInvariant, TypeOK, DispatcherTypeOK, ProviderEnds
<1>2. DispatcherSound'
  BY DEF CapacityInvariant, DispatcherSound, ProviderEnds
<1>3. CallsSound'
  BY DEF CapacityInvariant, CallsSound, SettledNode, Confirmed, ProviderEnds
<1>4. OwnersSound'
  BY DEF CapacityInvariant, OwnersSound, OwnerSound, ProviderEnds
<1> QED
  BY <1>1, <1>2, <1>3, <1>4 DEF CapacityInvariant

HIDE DEF Has, Goto, Keep, Yield, Halting, Looking, Waiting, Returned, dispatcherVars,
         memoryVars, factVars, ownerVars, callVars

-----------------------------------------------------------------------------
(* The steps that call the dispatcher.                                     *)

LEMMA OwnerIsUp ==
  ASSUME CapacityInvariant, up \/ \E r \in Run : pc[r] # "off", up' = up
  PROVE  InUse
BY DEF CapacityInvariant, TypeOK, DispatcherSound, InUse

\* Requests of the fields of TypeOK that a dispatcher's method does not write.
LEMMA TypesFromParts ==
  ASSUME TypeOK, DispatcherTypeOK', UNCHANGED <<ended, provider, entered, crashes>>,
         node' \in [Node -> Statuses], worker' \in [Node -> Workers],
         pc' \in [Run -> Places], at' \in [Run -> Node \cup {NoNode}],
         flights' \in [Run -> SUBSET Node],
         halt' \in [Run -> SUBSET {"drain", "stop", "raised"}],
         turn' \in Run \cup {NoRun}
  PROVE  TypeOK'
BY DEF TypeOK

\* The slot of a request that is over is given back while no owner has one in hand.
LEMMA EndedStep ==
  ASSUME CapacityInvariant, NEW n \in unresolved, ConfirmEnded(n), up, provider[n] # "processing",
         UNCHANGED <<up, factVars, ownerVars, callVars, crashes>>,
         \A r \in Run : pc[r] \notin HandPlaces
  PROVE  CapacityInvariant'
<1>1. SlotStep(n) /\ n \in Node
  BY OwnerIsUp, ConfirmEndedSound
<1>2. TypeOK'
  BY <1>1, TypesFromParts
  DEF CapacityInvariant, TypeOK, SlotStep, factVars, ownerVars, callVars
<1>3. DispatcherSound'
  BY <1>1 DEF DispatcherSound, SlotStep
<1>4. CallsSound'
  BY <1>1 DEF CapacityInvariant, CallsSound, SettledNode, Confirmed, SlotStep,
              factVars, ownerVars, callVars
<1>5. OwnersSound'
  <2>1. \A r \in Run : \A m \in flights[r] : m \in Node /\ m # n /\ claim'[m] = "sent"
    BY <1>1, NodesOfDisjoint DEF CapacityInvariant, OwnersSound, OwnerSound, SlotStep
  <2> QED
    BY <1>1, <2>1 DEF CapacityInvariant, OwnersSound, OwnerSound, HandPlaces, SlotStep,
                      ownerVars, callVars
<1> QED
  BY <1>2, <1>3, <1>4, <1>5 DEF CapacityInvariant

LEMMA ConfirmSettledStep ==
  ASSUME NEW r \in Run, CapacityInvariant, ConfirmSettled(r)
  PROVE  CapacityInvariant'
<1>1. PICK n \in NodesOf(r) : Provable(n) /\ ConfirmEnded(n)
  BY DEF ConfirmSettled
<1>2. provider[n] # "processing"
  BY <1>1, NodesOfDisjoint DEF CapacityInvariant, CallsSound, Provable
<1>3. up
  BY DEF CapacityInvariant, DispatcherSound, ConfirmSettled, Has
<1>4. \A s \in Run : pc[s] \notin HandPlaces
  BY DEF CapacityInvariant, OwnersSound, OwnerSound, ConfirmSettled, Has, HandPlaces
<1> QED
  BY <1>1, <1>2, <1>3, <1>4, EndedStep DEF ConfirmSettled, Provable

LEMMA HostConfirmsStep ==
  ASSUME NEW n \in Node, CapacityInvariant, HostConfirms(n)
  PROVE  CapacityInvariant'
<1>1. \A s \in Run : pc[s] \notin HandPlaces
  BY RunConstants DEF CapacityInvariant, OwnersSound, OwnerSound, HostConfirms
<1> QED
  BY <1>1, EndedStep DEF HostConfirms

\* A waiter that leaves disturbs nobody's request.
LEMMA WithdrawStep ==
  ASSUME CapacityInvariant, NEW r \in Run, NEW n \in Node, Withdraw(n),
         pc[r] # "off", turn = r, up' = up,
         UNCHANGED <<factVars, flights, turn, callVars, crashes>>,
         \/ UNCHANGED <<pc, at, halt>> /\ pc[r] = "round"
         \/ /\ at' = [at EXCEPT ![r] = NoNode]
            /\ \E p \in {"top", "abandon"} : pc' = [pc EXCEPT ![r] = p]
            /\ \E why \in SUBSET {"drain", "stop", "raised"} :
                 halt' = [halt EXCEPT ![r] = @ \cup why]
  PROVE  CapacityInvariant'
<1>1. SlotStep(n) /\ (claim[n] = "sent" => claim'[n] = "sent")
  BY OwnerIsUp, WithdrawSound
<1>2. up /\ up'
  BY OwnerIsUp DEF InUse
<1>3. TypeOK'
  <2>1. pc' \in [Run -> Places]
    BY DEF CapacityInvariant, TypeOK, Places
  <2>2. at' \in [Run -> Node \cup {NoNode}]
    BY DEF CapacityInvariant, TypeOK
  <2>3. halt' \in [Run -> SUBSET {"drain", "stop", "raised"}]
    <3>1. CASE UNCHANGED halt
      BY <3>1 DEF CapacityInvariant, TypeOK
    <3>2. ASSUME NEW why \in SUBSET {"drain", "stop", "raised"},
                 halt' = [halt EXCEPT ![r] = @ \cup why]
          PROVE  halt' \in [Run -> SUBSET {"drain", "stop", "raised"}]
      <4>1. halt[r] \cup why \in SUBSET {"drain", "stop", "raised"}
        BY DEF CapacityInvariant, TypeOK
      <4> QED
        BY <3>2, <4>1 DEF CapacityInvariant, TypeOK
    <3> QED
      BY <3>1, <3>2
  <2> QED
    BY <1>1, <2>1, <2>2, <2>3, TypesFromParts
    DEF CapacityInvariant, TypeOK, SlotStep, factVars, callVars
<1>4. DispatcherSound'
  BY <1>1, <1>2 DEF DispatcherSound, SlotStep
<1>5. \A m \in Node : claim[m] = "sent" => claim'[m] = "sent"
  BY <1>1 DEF SlotStep
<1>6. CallsSound'
  BY <1>5 DEF CapacityInvariant, CallsSound, SettledNode, Confirmed, factVars, callVars
<1>7. OwnersSound'
  <2>1. \A s \in Run : s # r => pc'[s] = pc[s] /\ at'[s] = at[s] /\ pc[s] \notin HandPlaces
    BY DEF CapacityInvariant, TypeOK, OwnersSound, OwnerSound
  <2>2. pc'[r] \in {"top", "abandon", "round"}
    BY DEF CapacityInvariant, TypeOK
  <2>3. \A s \in Run : \A m \in flights[s] : claim'[m] = "sent" /\ m \notin unresolved'
    BY <1>1, <1>5, NodesOfDisjoint DEF CapacityInvariant, OwnersSound, OwnerSound, SlotStep
  <2> QED
    BY <2>1, <2>2, <2>3 DEF CapacityInvariant, OwnersSound, OwnerSound, HandPlaces, callVars
<1> QED
  BY <1>3, <1>4, <1>6, <1>7 DEF CapacityInvariant

LEMMA StopWaitingStep ==
  ASSUME NEW r \in Run, CapacityInvariant, StopWaiting(r)
  PROVE  CapacityInvariant'
<1>1. PICK n \in Node : Withdraw(n)
  BY NodesOfDisjoint DEF StopWaiting, Waiting
<1> QED
  BY <1>1, WithdrawStep DEF StopWaiting, Looking, Has, factVars, ownerVars, callVars

LEMMA GiveUpStep ==
  ASSUME NEW r \in Run, CapacityInvariant, GiveUp(r)
  PROVE  CapacityInvariant'
<1>1. PICK n \in Node : Withdraw(n)
  BY DEF GiveUp
<1>2. pc[r] # "off" /\ turn = r
  BY DEF GiveUp, Looking, Has
<1>3. \E p \in {"top", "abandon"} : pc' = [pc EXCEPT ![r] = p]
  BY DEF GiveUp, Goto
<1>4. \E why \in SUBSET {"drain", "stop", "raised"} : halt' = [halt EXCEPT ![r] = @ \cup why]
  BY DEF GiveUp, Halting
<1> QED
  BY <1>1, <1>2, <1>3, <1>4, WithdrawStep DEF GiveUp

LEMMA UnusedStep ==
  ASSUME NEW r \in Run, CapacityInvariant, Unused(r)
  PROVE  CapacityInvariant'
<1>1. at[r] \in Node
  BY NodesOfDisjoint DEF CapacityInvariant, OwnersSound, OwnerSound, HandPlaces, Unused, Has
<1>2. pc[r] # "off" /\ turn = r
  BY DEF Unused, Has
<1>3. \E p \in {"top", "abandon"} : pc' = [pc EXCEPT ![r] = p]
  BY DEF Unused, Goto
<1>4. \E why \in SUBSET {"drain", "stop", "raised"} : halt' = [halt EXCEPT ![r] = @ \cup why]
  BY DEF Unused, Halting
<1> QED
  BY <1>1, <1>2, <1>3, <1>4, WithdrawStep DEF Unused

LEMMA ClaimFailsStep ==
  ASSUME NEW r \in Run, CapacityInvariant, ClaimFails(r)
  PROVE  CapacityInvariant'
<1>1. at[r] \in Node
  BY NodesOfDisjoint DEF CapacityInvariant, OwnersSound, OwnerSound, HandPlaces, ClaimFails, Has
<1>2. pc[r] # "off" /\ turn = r
  BY DEF ClaimFails, Has
<1>3. \E p \in {"top", "abandon"} : pc' = [pc EXCEPT ![r] = p]
  BY DEF ClaimFails, Goto
<1>4. \E why \in SUBSET {"drain", "stop", "raised"} : halt' = [halt EXCEPT ![r] = @ \cup why]
  BY DEF ClaimFails, Halting
<1> QED
  BY <1>1, <1>2, <1>3, <1>4, WithdrawStep DEF ClaimFails

LEMMA AskStep ==
  ASSUME NEW r \in Run, CapacityInvariant, Ask(r)
  PROVE  CapacityInvariant'
<1>1. PICK n \in FirstReady(r) \ Tool :
        \/ Requestable(n) /\ Request(n) /\ UNCHANGED halt
        \/ ~Requestable(n) /\ Halting(r, {"stop"}) /\ UNCHANGED <<claim, memoryVars>>
  BY DEF Ask
<1>2. InUse /\ n \in Node
  BY OwnerIsUp, NodesOfDisjoint DEF Ask, Looking, Has
<1>3. /\ DispatcherTypeOK'
      /\ SlotsSound(queue', active', unresolved', claim', future')
      /\ unresolved' \subseteq unresolved
      /\ \A m \in Node : claim[m] \in {"reserved", "sent"} => claim'[m] = claim[m]
      /\ up'
  <2>1. CASE Requestable(n) /\ Request(n)
    BY <1>2, <2>1, RequestSound DEF SlotStep, InUse
  <2>2. CASE UNCHANGED <<claim, memoryVars>>
    BY <1>2, <2>2 DEF InUse, DispatcherTypeOK, memoryVars
  <2> QED
    BY <1>1, <2>1, <2>2
<1>4. TypeOK'
  <2>1. pc' \in [Run -> Places]
    BY DEF CapacityInvariant, TypeOK, Places, Ask, Goto
  <2>2. halt' \in [Run -> SUBSET {"drain", "stop", "raised"}]
    BY DEF CapacityInvariant, TypeOK, Ask, Halting
  <2> QED
    BY <1>3, <2>1, <2>2, TypesFromParts DEF CapacityInvariant, TypeOK, Ask, factVars, callVars
<1>5. DispatcherSound'
  BY <1>3 DEF DispatcherSound
<1>6. CallsSound'
  BY <1>3 DEF CapacityInvariant, CallsSound, SettledNode, Confirmed, Ask, factVars, callVars
<1>7. OwnersSound'
  <2>1. /\ \A s \in Run : s # r => pc'[s] = pc[s] /\ pc[s] \notin HandPlaces
        /\ pc'[r] = "top"
    BY DEF CapacityInvariant, TypeOK, OwnersSound, OwnerSound, Ask, Looking, Has, Goto
  <2>2. \A s \in Run : \A m \in flights[s] : claim'[m] = "sent" /\ m \notin unresolved'
    BY <1>3, NodesOfDisjoint DEF CapacityInvariant, OwnersSound, OwnerSound
  <2> QED
    BY <2>1, <2>2
    DEF CapacityInvariant, OwnersSound, OwnerSound, HandPlaces, Ask, callVars
<1> QED
  BY <1>4, <1>5, <1>6, <1>7 DEF CapacityInvariant

LEMMA AdmitStep ==
  ASSUME NEW r \in Run, CapacityInvariant, Admit(r)
  PROVE  CapacityInvariant'
<1>1. PICK n \in Waiting(r) :
        /\ future[n] = "granted"
        /\ node' = [node EXCEPT ![n] = "admitted"]
        /\ future' = [future EXCEPT ![n] = "none"]
        /\ at' = [at EXCEPT ![r] = n]
  BY DEF Admit
<1>2. InUse /\ n \in NodesOf(r) /\ n \in Node
  BY OwnerIsUp, NodesOfDisjoint DEF Admit, Looking, Has, Waiting
<1>3. claim[n] = "reserved"
  BY <1>1, <1>2 DEF InUse, SlotsSound
<1>4. TypeOK'
  <2>1. future' \in [Node -> Futures] /\ node' \in [Node -> Statuses]
    BY <1>1, <1>2 DEF CapacityInvariant, TypeOK, DispatcherTypeOK, Futures, Statuses
  <2>2. pc' \in [Run -> Places] /\ at' \in [Run -> Node \cup {NoNode}]
    BY <1>1, <1>2 DEF CapacityInvariant, TypeOK, Places, Admit, Goto
  <2> QED
    BY <2>1, <2>2, TypesFromParts
    DEF CapacityInvariant, TypeOK, DispatcherTypeOK, Admit, callVars
<1>5. DispatcherSound'
  BY <1>1, <1>2 DEF DispatcherSound, InUse, DispatcherTypeOK, SlotsSound, Admit
<1>6. CallsSound'
  BY <1>1, <1>2
  DEF CapacityInvariant, TypeOK, CallsSound, SettledNode, Confirmed, Admit, callVars
<1>7. OwnersSound'
  <2>1. /\ \A s \in Run : s # r => pc'[s] = pc[s] /\ at'[s] = at[s] /\ pc[s] \notin HandPlaces
        /\ pc'[r] = "prepare" /\ at'[r] = n /\ turn = r
    BY <1>1 DEF CapacityInvariant, TypeOK, OwnersSound, OwnerSound, Admit, Looking, Has, Goto
  <2>2. future'[n] = "none"
    BY <1>1, <1>2 DEF InUse, DispatcherTypeOK
  <2> QED
    BY <1>2, <1>3, <2>1, <2>2
    DEF CapacityInvariant, OwnersSound, OwnerSound, HandPlaces, Admit, callVars
<1> QED
  BY <1>4, <1>5, <1>6, <1>7 DEF CapacityInvariant

LEMMA ClaimSentStep ==
  ASSUME NEW r \in Run, CapacityInvariant, ClaimSent(r)
  PROVE  CapacityInvariant'
<1> DEFINE n == at[r]
<1>1. /\ InUse /\ n \in NodesOf(r) /\ n \in Node
      /\ claim[n] = "reserved" /\ turn = r /\ pc[r] = "prepare"
  BY OwnerIsUp, NodesOfDisjoint
  DEF CapacityInvariant, OwnersSound, OwnerSound, HandPlaces, ClaimSent, Has
<1>2. claim' = [claim EXCEPT ![n] = "sent"] /\ unresolved = {}
  BY DEF ClaimSent, Sent, Sendable
<1>3. provider[n] # "processing" /\ \A s \in Run : n \notin flights[s]
  BY <1>1 DEF CapacityInvariant, CallsSound, OwnersSound, OwnerSound
<1> HIDE DEF n
<1>4. TypeOK'
  <2>1. claim' \in [Node -> Stages]
    BY <1>2 DEF CapacityInvariant, TypeOK, DispatcherTypeOK, Stages
  <2>2. pc' \in [Run -> Places]
    BY DEF CapacityInvariant, TypeOK, Places, ClaimSent, Goto
  <2> QED
    BY <2>1, <2>2, TypesFromParts
    DEF CapacityInvariant, TypeOK, DispatcherTypeOK, ClaimSent, memoryVars, factVars, callVars
<1>5. DispatcherSound'
  <2>1. Occupied(claim') = Occupied(claim)
    BY <1>1, <1>2 DEF InUse, DispatcherTypeOK, Occupied
  <2>2. n \in active /\ future[n] # "granted"
    BY DEF n, ClaimSent, Sendable, CapacityInvariant, OwnersSound, OwnerSound, HandPlaces, Has
  <2>3. \A m \in Node : claim'[m] = IF m = n THEN "sent" ELSE claim[m]
    BY <1>2 DEF CapacityInvariant, TypeOK, DispatcherTypeOK
  <2>4. n \notin Tool
    BY <1>1 DEF InUse, SlotsSound
  <2>5. SlotsSound(queue, active, unresolved, claim', future)
    BY <1>1, <1>2, <2>1, <2>2, <2>3, <2>4, RunConstants DEF InUse, SlotsSound
  <2> QED
    BY <1>1, <2>5 DEF DispatcherSound, InUse, ClaimSent, memoryVars
<1>6. CallsSound'
  BY <1>1, <1>2, <1>3
  DEF CapacityInvariant, TypeOK, DispatcherTypeOK, CallsSound, SettledNode, Confirmed,
      ClaimSent, factVars, callVars
<1>7. OwnersSound'
  <2>1. /\ \A s \in Run : s # r => pc'[s] = pc[s] /\ pc[s] \notin HandPlaces
        /\ pc'[r] = "mark"
    BY <1>1 DEF CapacityInvariant, TypeOK, OwnersSound, OwnerSound, ClaimSent, Goto
  <2> QED
    BY <1>1, <1>2, <1>3, <2>1
    DEF n, CapacityInvariant, TypeOK, DispatcherTypeOK, OwnersSound, OwnerSound, HandPlaces,
        ClaimSent, memoryVars, callVars
<1> QED
  BY <1>4, <1>5, <1>6, <1>7 DEF CapacityInvariant

LEMMA ReleaseStep ==
  ASSUME NEW r \in Run, CapacityInvariant, Release(r)
  PROVE  CapacityInvariant'
<1> DEFINE n == at[r]
<1>1. /\ InUse /\ n \in NodesOf(r) /\ n \in Node /\ n \in flights[r] /\ turn = r
      /\ claim[n] = "sent" /\ worker[n] # "spawned"
      /\ pc[r] \in {"release", "cleared"}
  BY OwnerIsUp, NodesOfDisjoint
  DEF CapacityInvariant, OwnersSound, OwnerSound, HandPlaces, Release, Has
<1>2. Finish(n, Confirmed(n)) /\ Confirmed(n) \in BOOLEAN
  BY DEF Release, Confirmed
<1>3. Confirmed(n) => provider[n] # "processing"
  BY <1>1 DEF CapacityInvariant, CallsSound
<1>4. /\ DispatcherTypeOK'
      /\ SlotsSound(queue', active', unresolved', claim', future')
      /\ unresolved' \subseteq unresolved \cup {n}
      /\ \A m \in Node : claim[m] = "sent" /\ (m # n \/ ~Confirmed(n)) => claim'[m] = "sent"
      /\ up'
  <2>1. up' = up
    BY DEF Release
  <2> HIDE DEF n
  <2>2. CASE Confirmed(n)
    <3>1. SlotStep(n)
      BY <1>1, <1>2, <2>2, FinishSound
    <3> QED
      BY <1>1, <2>1, <2>2, <3>1 DEF SlotStep, InUse
  <2>3. CASE ~Confirmed(n)
    <3>1. /\ DispatcherTypeOK'
          /\ SlotsSound(queue', active', unresolved', claim', future')
          /\ unresolved' = unresolved \cup {n}
          /\ \A m \in Node : claim[m] \in {"reserved", "sent"} => claim'[m] = claim[m]
      BY <1>1, <1>2, <2>3, FinishSound
    <3> QED
      BY <1>1, <2>1, <2>3, <3>1 DEF InUse
  <2> QED
    BY <2>2, <2>3
<1>5. /\ flights' = [flights EXCEPT ![r] = @ \ {n}]
      /\ at' = [at EXCEPT ![r] = NoNode]
      /\ \A m \in Node : worker'[m] = worker[m] \/ (m = n /\ worker'[m] = "none")
      /\ worker' \in [Node -> Workers]
      /\ UNCHANGED <<up, factVars, halt, turn, provider, entered, crashes>>
  BY <1>1 DEF Release, CapacityInvariant, TypeOK, Workers
<1>6. /\ pc' \in [Run -> Places]
      /\ pc'[r] \in {"round", "clean"}
      /\ pc'[r] = "clean" => pc[r] = "cleared"
      /\ \A s \in Run : s # r => pc'[s] = pc[s] /\ at'[s] = at[s] /\ pc[s] \notin HandPlaces
  BY <1>1, <1>5 DEF CapacityInvariant, TypeOK, OwnersSound, OwnerSound, Places, Release, Goto
<1> HIDE DEF n
<1>7. TypeOK'
  <2>1. flights' \in [Run -> SUBSET Node] /\ at' \in [Run -> Node \cup {NoNode}]
    BY <1>5 DEF CapacityInvariant, TypeOK
  <2> QED
    BY <1>4, <1>5, <1>6, <2>1, TypesFromParts DEF CapacityInvariant, TypeOK, factVars
<1>8. DispatcherSound'
  BY <1>4 DEF DispatcherSound
<1>9. CallsSound'
  <2>1. \A m \in Node : provider'[m] = "processing" => claim'[m] = "sent" /\ ~SettledNode(m)'
    BY <1>3, <1>4, <1>5 DEF CapacityInvariant, CallsSound, SettledNode, factVars
  <2>2. \A m \in Node : worker'[m] = "spawned" =>
          /\ provider'[m] # "processing" /\ ~SettledNode(m)'
          /\ \E s \in Run : m \in flights'[s]
    BY <1>1, <1>5 DEF CapacityInvariant, TypeOK, CallsSound, SettledNode, factVars
  <2>3. \A m \in Node : Confirmed(m)' => provider'[m] # "processing"
    BY <1>5 DEF CapacityInvariant, CallsSound, Confirmed
  <2> QED
    BY <2>1, <2>2, <2>3 DEF CallsSound
<1>10. OwnersSound'
  <2>1. \A s \in Run : /\ flights'[s] \subseteq flights[s] /\ n \notin flights'[s]
                       /\ flights[s] \subseteq NodesOf(s)
    BY <1>1, <1>5, NodesOfDisjoint DEF CapacityInvariant, TypeOK, OwnersSound, OwnerSound
  <2>2. \A s \in Run : \A m \in flights'[s] : claim'[m] = "sent" /\ m \notin unresolved'
    BY <1>4, <2>1, NodesOfDisjoint DEF CapacityInvariant, OwnersSound, OwnerSound
  <2>3. \A s \in Run : pc'[s] \in {"clean", "cleared"} =>
          \A m \in flights'[s] : worker'[m] # "spawned"
    <3>1. \A s \in Run : pc'[s] \in {"clean", "cleared"} => pc[s] \in {"clean", "cleared"}
      BY <1>6
    <3>2. \A s \in Run : \A m \in flights'[s] : m \in flights[s] /\ m \in Node
      BY <2>1, NodesOfDisjoint
    <3>3. \A m \in Node : worker'[m] = "spawned" => worker[m] = "spawned"
      BY <1>5
    <3> QED
      BY <3>1, <3>2, <3>3 DEF CapacityInvariant, OwnersSound, OwnerSound
  <2>4. \A s \in Run : pc'[s] \in {"off", "enter", "leave"} => flights'[s] = {}
    BY <1>6, <2>1 DEF CapacityInvariant, OwnersSound, OwnerSound
  <2>5. \A s \in Run : /\ pc'[s] \notin HandPlaces
                       /\ pc'[s] = "tool" => at'[s] \in Tool
    BY <1>6 DEF CapacityInvariant, OwnersSound, OwnerSound, HandPlaces
  <2> QED
    BY <2>1, <2>2, <2>3, <2>4, <2>5 DEF OwnersSound, OwnerSound, HandPlaces
<1> QED
  BY <1>7, <1>8, <1>9, <1>10 DEF CapacityInvariant

LEMMA MarkFailsStep ==
  ASSUME NEW r \in Run, CapacityInvariant, MarkFails(r)
  PROVE  CapacityInvariant'
<1> DEFINE n == at[r]
<1>1. /\ InUse /\ n \in NodesOf(r) /\ n \in Node /\ claim[n] = "sent" /\ turn = r
      /\ n \notin flights[r] /\ provider[n] # "processing"
  BY OwnerIsUp, NodesOfDisjoint
  DEF CapacityInvariant, OwnersSound, OwnerSound, HandPlaces, MarkFails, Has
<1>2. \A s \in Run : n \notin flights[s]
  BY <1>1, NodesOfDisjoint DEF CapacityInvariant, OwnersSound, OwnerSound
<1>3. /\ DispatcherTypeOK'
      /\ SlotsSound(queue', active', unresolved', claim', future')
      /\ unresolved' = unresolved \cup {n}
      /\ \A m \in Node : claim[m] = "sent" => claim'[m] = "sent"
      /\ up'
  <2>1. Finish(n, FALSE) /\ up' = up
    BY DEF MarkFails
  <2> HIDE DEF n
  <2>2. /\ DispatcherTypeOK'
        /\ SlotsSound(queue', active', unresolved', claim', future')
        /\ unresolved' = unresolved \cup {n}
        /\ \A m \in Node : claim[m] \in {"reserved", "sent"} => claim'[m] = claim[m]
    BY <1>1, <2>1, FinishSound
  <2> QED
    BY <1>1, <2>1, <2>2 DEF InUse
<1>4. /\ node' \in [Node -> Statuses]
      /\ \A m \in Node : SettledNode(m)' => SettledNode(m)
      /\ at' = [at EXCEPT ![r] = NoNode]
      /\ pc' \in [Run -> Places] /\ pc'[r] = "abandon"
      /\ \A s \in Run : s # r => pc'[s] = pc[s] /\ at'[s] = at[s] /\ pc[s] \notin HandPlaces
      /\ UNCHANGED <<up, ended, flights, turn, callVars, crashes>>
  <2>1. PICK st \in {node[n], "unknown"} : node' = [node EXCEPT ![n] = st]
    BY DEF MarkFails
  <2>2. node' \in [Node -> Statuses] /\ \A m \in Node : SettledNode(m)' => SettledNode(m)
    BY <1>1, <2>1 DEF CapacityInvariant, TypeOK, Statuses, SettledNode
  <2> QED
    BY <1>1, <2>2
    DEF CapacityInvariant, TypeOK, OwnersSound, OwnerSound, Places, MarkFails, Goto
<1>5. halt' \in [Run -> SUBSET {"drain", "stop", "raised"}]
  BY DEF CapacityInvariant, TypeOK, MarkFails, Halting
<1> HIDE DEF n
<1>6. TypeOK'
  <2>1. at' \in [Run -> Node \cup {NoNode}]
    BY <1>4 DEF CapacityInvariant, TypeOK
  <2> QED
    BY <1>3, <1>4, <1>5, <2>1, TypesFromParts DEF CapacityInvariant, TypeOK, callVars
<1>7. DispatcherSound'
  BY <1>3 DEF DispatcherSound
<1>8. CallsSound'
  BY <1>3, <1>4 DEF CapacityInvariant, CallsSound, Confirmed, callVars
<1>9. OwnersSound'
  <2>1. \A s \in Run : \A m \in flights[s] : claim'[m] = "sent" /\ m \notin unresolved'
    BY <1>2, <1>3, NodesOfDisjoint DEF CapacityInvariant, OwnersSound, OwnerSound
  <2> QED
    BY <1>4, <2>1 DEF CapacityInvariant, OwnersSound, OwnerSound, HandPlaces, callVars
<1> QED
  BY <1>6, <1>7, <1>8, <1>9 DEF CapacityInvariant

-----------------------------------------------------------------------------
(* The process goes and comes back.                                        *)

LEMMA ForgottenStep ==
  ASSUME CapacityInvariant, Forgotten, crashes' \in 0..MaxCrashes
  PROVE  CapacityInvariant'
<1>1. TypeOK'
  <2>1. DispatcherTypeOK'
    <3>1. queue' \in Seq(Node) /\ future' \in [Node -> Futures] /\ claim' = claim
      BY DEF Futures, Forgotten, Down
    <3>2. up' = FALSE /\ active' = {} /\ unresolved' = {}
      BY DEF Forgotten, Down
    <3> QED
      BY <3>1, <3>2 DEF CapacityInvariant, TypeOK, DispatcherTypeOK
  <2>2. /\ pc' \in [Run -> Places] /\ at' \in [Run -> Node \cup {NoNode}]
        /\ flights' \in [Run -> SUBSET Node]
        /\ worker' \in [Node -> Workers] /\ turn' \in Run \cup {NoRun}
    BY DEF Places, Workers, Forgotten
  <2>3. halt' \in [Run -> SUBSET {"drain", "stop", "raised"}]
    BY DEF Forgotten
  <2> QED
    BY <2>1, <2>2, <2>3 DEF CapacityInvariant, TypeOK, Forgotten, factVars
<1>2. DispatcherSound'
  <2>1. /\ Cardinality(Occupied(claim)) <= Capacity
        /\ \A n \in Tool : claim[n] = "none"
    BY DEF CapacityInvariant, DispatcherSound, SlotsSound
  <2> QED
    BY <2>1 DEF DispatcherSound, SlotsSound, Occupied, Forgotten, Down
<1>3. CallsSound'
  BY DEF CapacityInvariant, CallsSound, SettledNode, Confirmed, Forgotten, Down, factVars
<1>4. OwnersSound'
  BY DEF OwnersSound, OwnerSound, HandPlaces, Forgotten
<1> QED
  BY <1>1, <1>2, <1>3, <1>4 DEF CapacityInvariant

LEMMA ReopenStep ==
  ASSUME CapacityInvariant, Reopen
  PROVE  CapacityInvariant'
<1>1. ~up /\ up' = TRUE
  BY DEF Reopen, Up
<1>2. /\ \A m \in Node : claim'[m] = IF claim[m] = "reserved" THEN "ended" ELSE claim[m]
      /\ claim' \in [Node -> Stages]
  BY DEF CapacityInvariant, TypeOK, DispatcherTypeOK, Stages, Reopen, Up
<1>3. active' = Occupied(claim') /\ active' \subseteq Occupied(claim) /\ unresolved' = active'
  BY <1>2 DEF Occupied, StillSent, Reopen, Up
<1>4. TypeOK'
  BY <1>1, <1>2, <1>3
  DEF CapacityInvariant, TypeOK, DispatcherTypeOK, Reopen, Up, Occupied, factVars, ownerVars,
      callVars
<1>5. DispatcherSound'
  <2>1. /\ Cardinality(Occupied(claim)) <= Capacity
        /\ \A n \in Tool : claim[n] = "none"
        /\ queue = <<>> /\ \A n \in Node : future[n] = "none"
    BY <1>1 DEF CapacityInvariant, DispatcherSound, SlotsSound
  <2>2. Cardinality(active') <= Capacity
    <3>1. IsFiniteSet(Occupied(claim))
      BY FS_Subset, DispatcherConstants DEF Occupied
    <3>2. /\ Cardinality(active') <= Cardinality(Occupied(claim))
          /\ IsFiniteSet(active')
      BY <1>3, <3>1, FS_Subset
    <3>3. Cardinality(active') \in Nat /\ Cardinality(Occupied(claim)) \in Nat
      BY <3>1, <3>2, FS_CardinalityType
    <3> QED
      BY <2>1, <3>2, <3>3, DispatcherConstants
  <2>3. \A n \in unresolved' : claim'[n] = "sent"
    BY <1>2, <1>3 DEF Occupied
  <2>4. \A n \in Tool : claim'[n] = "none"
    BY <1>2, <2>1, RunConstants
  <2>5. queue' = <<>> /\ \A n \in Node : future'[n] = "none"
    BY <2>1 DEF Reopen, Up
  <2> QED
    BY <1>1, <1>3, <2>2, <2>3, <2>4, <2>5 DEF DispatcherSound, SlotsSound
<1>6. CallsSound'
  BY <1>2
  DEF CapacityInvariant, CallsSound, SettledNode, Confirmed, Reopen, factVars, ownerVars,
      callVars
<1>7. OwnersSound'
  <2>1. \A r \in Run : pc[r] = "off"
    BY <1>1 DEF CapacityInvariant, DispatcherSound
  <2> QED
    BY <2>1 DEF CapacityInvariant, OwnersSound, OwnerSound, HandPlaces, Reopen, ownerVars
<1> QED
  BY <1>4, <1>5, <1>6, <1>7 DEF CapacityInvariant

-----------------------------------------------------------------------------
(* The theorems.                                                           *)

LEMMA CapacityInit == Init => CapacityInvariant
<1> SUFFICES ASSUME Init PROVE CapacityInvariant
  OBVIOUS
<1>1. TypeOK
  <2>1. DispatcherTypeOK
    BY DEF Init, DispatcherInit, DispatcherTypeOK, Stages, Futures
  <2>2. /\ node \in [Node -> Statuses] /\ ended \subseteq Run
        /\ provider \in [Node -> {"idle", "processing", "done"}]
        /\ entered \in [Node -> Nat]
        /\ crashes \in 0..MaxCrashes
    BY RunConstants DEF Init, Statuses
  <2>3. /\ pc \in [Run -> Places] /\ at \in [Run -> Node \cup {NoNode}]
        /\ flights \in [Run -> SUBSET Node]
        /\ worker \in [Node -> Workers] /\ turn \in Run \cup {NoRun}
    BY DEF Init, Places, Workers
  <2>4. halt \in [Run -> SUBSET {"drain", "stop", "raised"}]
    BY DEF Init
  <2> QED
    BY <2>1, <2>2, <2>3, <2>4 DEF TypeOK
<1>2. DispatcherSound
  <2>1. Occupied(claim) = {}
    BY DEF Init, DispatcherInit, Occupied
  <2>2. Cardinality({}) <= Capacity
    BY FS_EmptySet, DispatcherConstants
  <2>3. up /\ queue = <<>> /\ active = {} /\ unresolved = {}
    BY DEF Init, DispatcherInit
  <2>4. \A n \in Node : claim[n] = "none" /\ future[n] = "none"
    BY DEF Init, DispatcherInit
  <2>5. SlotsSound(queue, active, unresolved, claim, future)
    BY <2>1, <2>2, <2>3, <2>4, RunConstants DEF SlotsSound
  <2> QED
    BY <2>3, <2>5 DEF DispatcherSound
<1>3. CallsSound /\ OwnersSound
  BY DEF Init, CallsSound, Confirmed, OwnersSound, OwnerSound, HandPlaces
<1> QED
  BY <1>1, <1>2, <1>3 DEF CapacityInvariant

LEMMA CapacityStep == CapacityInvariant /\ [Next]_vars => CapacityInvariant'
<1> SUFFICES ASSUME CapacityInvariant, [Next]_vars PROVE CapacityInvariant'
  OBVIOUS
<1>1. ASSUME NEW r \in Run, OwnerSteps(r) PROVE CapacityInvariant'
  BY <1>1, ConfirmSettledStep, PrologueStep, SettleStep, ReleaseStep, AskStep, AdmitStep,
     GiveUpStep, PreparationFailsStep, UnusedStep, ClaimSentStep, MarkStep, MarkFailsStep,
     StartToolStep, ToolEndsStep, AwaitStep, StopWaitingStep, LeaveLoopStep,
     DrainTimeoutStep, AbandonStep, CleanUpStep, CleanedStep, FinishedStep, SuspendedStep
  DEF OwnerSteps
<1>2. ASSUME NEW r \in Run, Enter(r) \/ CancelledInCleanup(r) \/ ClaimFails(r)
      PROVE  CapacityInvariant'
  BY <1>2, EnterStep, CancelledInCleanupStep, ClaimFailsStep
<1>3. ASSUME NEW r \in Run, NEW why \in Findings, Guard(r, why) PROVE CapacityInvariant'
  BY <1>3, GuardStep
<1>4. ASSUME NEW r \in Run, NEW n \in Node, Reconcile(r, n) PROVE CapacityInvariant'
  BY <1>4, ReconcileStep
<1>5. ASSUME NEW n \in Node,
             ValidateSend(n) \/ Answer(n) \/ Lose(n) \/ ProviderEnds(n) \/ HostConfirms(n)
      PROVE  CapacityInvariant'
  BY <1>5, ValidateSendStep, AnswerStep, LoseStep, ProviderEndsStep, HostConfirmsStep
<1>6. CASE Crash \/ Close
  <2>1. crashes' \in 0..MaxCrashes
    BY <1>6, RunConstants DEF CapacityInvariant, TypeOK, Crash, Close
  <2> QED
    BY <1>6, <2>1, ForgottenStep DEF Crash, Close
<1>7. CASE Reopen
  BY <1>7, ReopenStep
<1>8. CASE UNCHANGED vars
  BY <1>8
  DEF CapacityInvariant, TypeOK, DispatcherTypeOK, DispatcherSound, SlotsSound, Occupied,
      CallsSound, SettledNode, Confirmed, OwnersSound, OwnerSound, vars, dispatcherVars,
      factVars, ownerVars, callVars
<1> QED
  BY <1>1, <1>2, <1>3, <1>4, <1>5, <1>6, <1>7, <1>8 DEF Next

LEMMA CapacityInvariantHolds == Spec => []CapacityInvariant
<1> QED
  BY CapacityInit, CapacityStep, PTL DEF Spec

\* The dispatcher, its ledger, the owners, the workers and the provider stay in states
\* of their types, through every crash and restart (ParallelRuns).
THEOREM TypeCorrect == Spec => []TypeOK
<1>1. CapacityInvariant => TypeOK
  BY DEF CapacityInvariant
<1> QED
  BY <1>1, CapacityInvariantHolds, PTL

\* The provider never works on more requests than it has slots, whoever has stopped
\* waiting for them and however often the process was replaced (ModelDispatcher).
THEOREM CapacityIsRespected == Spec => []CapacityHolds
<1>1. CapacityInvariant => CapacityHolds
  <2> SUFFICES ASSUME CapacityInvariant PROVE CapacityHolds
    OBVIOUS
  <2>1. {n \in Node : provider[n] = "processing"} \in SUBSET Occupied(claim)
    BY DEF CapacityInvariant, CallsSound, Occupied
  <2>2. IsFiniteSet(Occupied(claim)) /\ Cardinality(Occupied(claim)) <= Capacity
    <3>1. IsFiniteSet(Occupied(claim))
      BY FS_Subset, DispatcherConstants DEF Occupied
    <3> QED
      BY <3>1 DEF CapacityInvariant, DispatcherSound, SlotsSound
  <2>3. /\ IsFiniteSet({n \in Node : provider[n] = "processing"})
        /\ Cardinality({n \in Node : provider[n] = "processing"})
             <= Cardinality(Occupied(claim))
    BY <2>1, <2>2, FS_Subset
  <2>4. /\ Cardinality({n \in Node : provider[n] = "processing"}) \in Nat
        /\ Cardinality(Occupied(claim)) \in Nat
    BY <2>2, <2>3, FS_CardinalityType
  <2> QED
    BY <2>2, <2>3, <2>4, DispatcherConstants DEF CapacityHolds
<1> QED
  BY <1>1, CapacityInvariantHolds, PTL
=============================================================================
