--------------------------- MODULE ModelDispatcher ---------------------------
(***************************************************************************)
(* The provider capacity dispatcher of sdk/parallel.py: one queue and one  *)
(* set of occupied slots in memory, and a ledger of claims on disk that    *)
(* outlives the process.  The operators here are the effects of its        *)
(* methods; ParallelRuns takes them from the event loop that calls them.   *)
(*                                                                         *)
(* A run has at most one waiter (parallel_runner.py keeps one `waiting`),  *)
(* so the rotation over the queues of the runs is one queue in arrival     *)
(* order, and an invocation is named by its node.                          *)
(***************************************************************************)
EXTENDS Naturals, FiniteSets, Sequences

CONSTANTS
  Node,          \* the nodes, each with its one invocation identity
  Capacity,      \* slots of the provider
  MaxQueue       \* waiters the dispatcher accepts

ASSUME DispatcherConstants ==
  /\ IsFiniteSet(Node)
  /\ Capacity \in Nat \ {0}
  /\ MaxQueue \in Nat \ {0}

VARIABLES
  claim,         \* the table of claims: the stage of each invocation (durable)
  up,            \* a process holds the domain's lock
  queue,         \* _queues
  active,        \* _active: who occupies a slot
  unresolved,    \* _unresolved: slots of requests nobody saw the end of
  future         \* the future each waiter was given

dispatcherVars == <<claim, up, queue, active, unresolved, future>>
memoryVars     == <<queue, active, unresolved, future>>

Stages  == {"none", "reserved", "sent", "ended"}
Futures == {"none", "pending", "granted", "refused"}

Elements(q)   == {q[i] : i \in DOMAIN q}
Smaller(i, j) == IF i < j THEN i ELSE j

\* A queue holds nobody twice: what is left of it without one waiter.
Position(q, n) == CHOOSE i \in DOMAIN q : q[i] = n
Without(q, n)  == IF n \in Elements(q)
                  THEN [i \in 1..(Len(q) - 1) |-> IF i < Position(q, n) THEN q[i] ELSE q[i + 1]]
                  ELSE q

DispatcherTypeOK ==
  /\ claim \in [Node -> Stages]
  /\ up \in BOOLEAN
  /\ queue \in Seq(Node)
  /\ active \subseteq Node
  /\ unresolved \subseteq active
  /\ future \in [Node -> Futures]

DispatcherInit ==
  /\ claim = [n \in Node |-> "none"]
  /\ up = TRUE
  /\ queue = <<>>
  /\ active = {}
  /\ unresolved = {}
  /\ future = [n \in Node |-> "none"]

-----------------------------------------------------------------------------
\* len(self._active) < self.capacity, for how many more waiters.
Free(a) == IF Cardinality(a) < Capacity THEN Capacity - Cardinality(a) ELSE 0

\* _drain() over queue q, slots a, unresolved u, claims c and futures f: a domain
\* with an unresolved request turns everybody away, another fills its free slots,
\* each reservation recorded before the slot is taken.
Drain(q, a, u, c, f) ==
  /\ unresolved' = u
  /\ \/ /\ u # {}
        /\ queue' = <<>>
        /\ future' = [n \in Node |-> IF n \in Elements(q) THEN "refused" ELSE f[n]]
        /\ active' = a
        /\ claim' = c
     \/ /\ u = {}
        /\ LET first   == Smaller(Len(q), Free(a))
               granted == {q[i] : i \in 1..first}
           IN  /\ queue' = SubSeq(q, first + 1, Len(q))
               /\ future' = [n \in Node |-> IF n \in granted THEN "granted" ELSE f[n]]
               /\ active' = a \cup granted
               /\ claim' = [n \in Node |-> IF n \in granted THEN "reserved" ELSE c[n]]

\* request() refuses a domain that needs reconciliation, an invocation that has or
\* awaits a slot, and a full queue.
Requestable(n) ==
  /\ unresolved = {}
  /\ n \notin active \cup Elements(queue)
  /\ Len(queue) < MaxQueue

Request(n) == Drain(Append(queue, n), active, unresolved, claim,
                    [future EXCEPT ![n] = "pending"])

\* Faulty: a request nobody saw the end of keeps its slot and is not unresolved.
FinishForgotten(n, confirmed) ==
  Drain(queue, IF confirmed THEN active \ {n} ELSE active, unresolved \ {n},
        [claim EXCEPT ![n] = IF confirmed THEN "ended" ELSE "sent"], future)

\* finish(): only a confirmed end releases the slot; otherwise it is unresolved.
Finish(n, confirmed) ==
  IF confirmed
  THEN Drain(queue, active \ {n}, unresolved \ {n}, [claim EXCEPT ![n] = "ended"], future)
  ELSE Drain(queue, active, unresolved \cup {n}, [claim EXCEPT ![n] = "sent"], future)

\* Faulty: a grant is not given back.
UnsentNever(n) == FALSE

\* withdraw(): the waiter leaves the queue, and a slot that was never used is freed.
Unsent(n) == n \in active /\ claim[n] = "reserved"
Withdraw(n) ==
  LET q == Without(queue, n)
      f == [future EXCEPT ![n] = "none"]
  IN  IF Unsent(n)
      THEN Drain(q, active \ {n}, unresolved, [claim EXCEPT ![n] = "ended"], f)
      ELSE Drain(q, active, unresolved, claim, f)

\* sent(): the permission to send is on disk before the run's own marker.
Sendable(n) == unresolved = {} /\ n \in active
Sent(n)     == claim' = [claim EXCEPT ![n] = "sent"]

\* confirm_ended(): a receipt, or the host's word, ends an unresolved request.
ConfirmEnded(n) == Drain(queue, active \ {n}, unresolved \ {n},
                         [claim EXCEPT ![n] = "ended"], future)

\* close(): refused while a slot is in use and not unresolved.
Closable == active \subseteq unresolved

\* The process is gone, closed or killed: memory is lost and the lock is free.
Down ==
  /\ up' = FALSE
  /\ queue' = <<>>
  /\ active' = {}
  /\ unresolved' = {}
  /\ future' = [n \in Node |-> "none"]
  /\ UNCHANGED claim

\* Faulty: a restart frees every slot.
StillSentForgotten(n) == FALSE

\* What __init__ makes of the claims it finds: an unsent one is over, a sent one
\* keeps its slot until somebody vouches for its end.
StillSent(n) == claim[n] = "sent"
Up ==
  /\ up' = TRUE
  /\ claim' = [n \in Node |-> IF claim[n] = "reserved" THEN "ended" ELSE claim[n]]
  /\ active' = {n \in Node : StillSent(n)}
  /\ unresolved' = {n \in Node : StillSent(n)}
  /\ UNCHANGED <<queue, future>>
=============================================================================
