------------------------- MODULE OrchestrationProofs -------------------------
(***************************************************************************)
(* Proofs about Orchestration for any graph, any tools, models and         *)
(* declarations, any budget and any number of crashes: its types, that     *)
(* nothing in doubt is sent again, that the books cover what was done and  *)
(* keep to the budget, that a run that is over hides nothing, and last     *)
(* that the owner implements NodeOnce.                                     *)
(***************************************************************************)
EXTENDS Orchestration, SumFacts, TLAPS

USE DEF journalVars, ownerVars, Tools

-----------------------------------------------------------------------------
(* The inductive invariant.                                                *)

UnderWay(n)   == node[n].status \in {"admitted", "unknown"}
NotBegun(n)   == node[n].status \in {"pending", "awaiting_approval"}
HasStarted(c) == rows[c].state \notin {"none", "claimed"}

\* The places of _tool(), and those after the row was marked started.
ToolPlaces == {"tool", "claimed", "attempt", "enter", "body", "settle"}
RowPlaces  == {"attempt", "enter", "body", "settle"}

\* Where advance() is says what it works on: the first loop holds nodes that are under
\* way, the second pending ones, and until the loop is stopped every admitted node is
\* either at hand or still to come.  A run that is over has no process and nothing is
\* under way in it.
LoopInvariant ==
  /\ proc.pc # "idle" => run \in {"running", "awaiting_approval"}
  /\ run \in Terminal => \A n \in Nodes : ~ UnderWay(n)
  /\ run = "succeeded" => \A n \in Nodes : node[n].status = "completed"
  /\ run = "absent" => \A n \in Nodes : node[n].status = "pending"
  /\ proc.pc \in {"idle", "finish", "close"} => proc.todo = {}
  /\ proc.pc \in {"idle", "next", "finish", "close"} => proc.cur = 0
  /\ proc.stop => proc.pc \in {"finish", "close"}
  /\ proc.cur \notin proc.todo
  /\ \A n \in proc.todo :
       IF proc.recovering
       THEN UnderWay(n) /\ (node[n].status = "unknown" => n \in Tools)
       ELSE node[n].status = "pending"
  /\ proc.pc # "idle" /\ ~proc.stop =>
       \A n \in Nodes : node[n].status = "admitted" => n \in proc.todo \/ n = proc.cur
  /\ proc.pc = "tool" => proc.cur \in Tools /\ UnderWay(proc.cur)
  /\ proc.pc \in ToolPlaces \ {"tool"} => proc.cur \in Tools /\ node[proc.cur].status = "admitted"
  /\ proc.pc = "model" => proc.cur \in Models /\ node[proc.cur].status = "admitted"
  /\ proc.pc \in {"sending", "asked"} => proc.cur \in Models /\ node[proc.cur].status = "unknown"

\* The attempts of one tool: an attempt rests on a row that was started before it, no
\* attempt follows one of unknown cost, and the tool is entered once for an attempt.
Attempts(c) ==
  /\ AttemptNos(c) \subseteq 1..MaxAttempts
  /\ AttemptNos(c) # {} => HasStarted(c)
  /\ \A a, b \in AttemptNos(c) : billed[c][a] = 0 => b <= a
  /\ entered[c] <= Cardinality(AttemptNos(c))
  /\ proc.cur = c /\ proc.pc = "claimed" => rows[c].state = "claimed"
  /\ proc.cur = c /\ proc.pc \in RowPlaces => rows[c].state = "started"
  /\ proc.cur = c /\ proc.pc = "attempt" => \A a \in AttemptNos(c) : a < MaxAttempts
  /\ proc.cur = c /\ proc.pc = "enter" => entered[c] < Cardinality(AttemptNos(c))
  /\ proc.cur = c /\ proc.pc = "body" => AttemptNos(c) # {}

\* What the status of a tool says of its row, and that its books count its attempts: by
\* the reservation while it is under way, by what it used once it is not.
ToolNode(c) ==
  /\ NotBegun(c) => rows[c].state = "none"
  /\ node[c].status = "unknown" => HasStarted(c)
  /\ node[c].status = "completed" => rows[c].state = "completed"
  /\ node[c].status = "failed" => rows[c].state \in {"completed", "failed"}
  /\ node[c].status = "cancelled" =>
       UsageKnown(c) /\ rows[c].state \notin {"started", "indeterminate"}
  /\ UnderWay(c) => Cardinality(AttemptNos(c)) <= MaxUsage[c]
  /\ ~UnderWay(c) => Cardinality(AttemptNos(c)) <= node[c].used

\* A model request is marked before it is sent and sent once.
ModelNode(n) ==
  /\ entered[n] <= 1
  /\ entered[n] = 1 => node[n].status \in {"unknown"} \cup Settled /\ node[n].used >= 1
  /\ node[n].status = "unknown" => node[n].used >= 1
  /\ proc.cur = n /\ proc.pc = "sending" => entered[n] = 0

AnyNode(n) ==
  /\ UnderWay(n) => n \in Tools \cup Models
  /\ node[n].status = "awaiting_approval" => n \in Tools
  /\ NotBegun(n) => node[n].used = 0
  /\ n \notin Tools \cup Models => entered[n] = 0

NodeInvariant ==
  /\ \A c \in Tools : Attempts(c) /\ ToolNode(c)
  /\ \A n \in Models : ModelNode(n)
  /\ \A n \in Nodes : AnyNode(n)

Lesser(a, b) == IF a <= b THEN a ELSE b

\* What a node may take of the budget by its declaration.
Committed(n) == IF UnderWay(n) THEN MaxUsage[n] ELSE Lesser(node[n].used, MaxUsage[n])

\* Together they take no more than there is.
WithinLimit == SumFunction([n \in Nodes |-> Committed(n)]) <= UsageLimit

RunHolds == OrchestrationTypeOK /\ LoopInvariant /\ NodeInvariant

-----------------------------------------------------------------------------
(* Operators.                                                              *)

\* The nodes and the attempts of a call are finite sets of numbers.
LEMMA NodesFinite ==
  /\ IsFiniteSet(Nodes) /\ Nodes \subseteq Nat /\ 0 \notin Nodes
  /\ IsFiniteSet(1..MaxAttempts) /\ Cardinality(1..MaxAttempts) = MaxAttempts
<1>1. /\ NodeCount \in Int /\ MaxAttempts \in Nat /\ 1 \in Int /\ MaxAttempts \in Int
      /\ MaxAttempts > 0
  BY OrchestrationConstants, JournalConstants
<1>2. /\ IsFiniteSet(1..NodeCount) /\ IsFiniteSet(1..MaxAttempts)
      /\ Cardinality(1..MaxAttempts) = MaxAttempts
  BY <1>1, FS_Interval
<1> QED
  BY <1>1, <1>2 DEF Nodes

\* The first of the nodes still to come is one of them.
LEMMA MinIsMember ==
  ASSUME NEW S, S \subseteq Nodes, S # {}
  PROVE  Min(S) \in S
<1>1. \E x \in S : \A y \in S : x <= y
  BY NodesFinite, Least
<1> QED
  BY <1>1 DEF Min

\* The greater of two numbers.
LEMMA MaxOfTwo ==
  ASSUME NEW a \in Int, NEW b \in Int
  PROVE  Max({a, b}) = IF a >= b THEN a ELSE b
<1>1. \E x \in {a, b} : \A y \in {a, b} : x >= y
  OBVIOUS
<1>2. Max({a, b}) \in {a, b} /\ \A y \in {a, b} : Max({a, b}) >= y
  BY <1>1 DEF Max
<1> QED
  BY <1>2

\* The books of a tool count each of its attempts at least once.
LEMMA UsageCounts ==
  ASSUME OrchestrationTypeOK, NEW c \in Tools, AttemptNos(c) \subseteq 1..MaxAttempts
  PROVE  /\ AttemptUsage(c) \in Nat
         /\ LeastUsage(c) \in Nat
         /\ Cardinality(AttemptNos(c)) \in Nat
         /\ Cardinality(AttemptNos(c)) <= MaxAttempts
         /\ Cardinality(AttemptNos(c)) <= LeastUsage(c)
         /\ UsageKnown(c) => Cardinality(AttemptNos(c)) <= AttemptUsage(c)
<1> DEFINE All    == 1..MaxAttempts
           Paid   == {a \in AttemptNos(c) : billed[c][a] > 0}
           Unpaid == {a \in AttemptNos(c) : billed[c][a] = 0}
<1>1. billed[c] \in [All -> Nat] /\ DOMAIN billed[c] = All
  BY DEF OrchestrationTypeOK
<1>2. /\ IsFiniteSet(All) /\ Cardinality(All) = MaxAttempts
      /\ Paid \subseteq All /\ Unpaid \subseteq All
      /\ AttemptNos(c) = Paid \cup Unpaid /\ Paid \cap Unpaid = {}
  <2>1. \A a \in AttemptNos(c) : billed[c][a] \in Nat /\ a \in All
    BY <1>1
  <2>2. \A a \in AttemptNos(c) : billed[c][a] > 0 \/ billed[c][a] = 0
    BY <2>1
  <2>3. \A a \in AttemptNos(c) : ~ (billed[c][a] > 0 /\ billed[c][a] = 0)
    OBVIOUS
  <2>4. AttemptNos(c) = Paid \cup Unpaid /\ Paid \cap Unpaid = {}
    BY <2>2, <2>3
  <2> QED
    BY <2>1, <2>4, NodesFinite
<1>3. /\ IsFiniteSet(Paid) /\ IsFiniteSet(Unpaid) /\ IsFiniteSet(AttemptNos(c))
      /\ Cardinality(AttemptNos(c)) <= MaxAttempts
  <2>1. AttemptNos(c) \subseteq All
    OBVIOUS
  <2> HIDE DEF All, Paid, Unpaid
  <2> QED
    BY <1>2, <2>1, FS_Subset
<1>4. /\ Cardinality(Paid) \in Nat /\ Cardinality(Unpaid) \in Nat
      /\ Cardinality(AttemptNos(c)) \in Nat
  BY <1>3, FS_CardinalityType
<1>5. AttemptUsage(c) = SumFunctionOnSet(billed[c], All)
  BY <1>1 DEF AttemptUsage, SumFunction
<1>6. AttemptUsage(c) \in Nat
  <2>1. \A a \in All : billed[c][a] \in Nat
    BY <1>1
  <2> HIDE DEF All, Paid, Unpaid
  <2> QED
    BY <1>2, <1>5, <2>1, SumType
<1>7. Cardinality(Paid) <= AttemptUsage(c)
  <2>1. \A a \in All : billed[c][a] \in Nat
    BY <1>1
  <2>2. \A a \in Paid : billed[c][a] > 0
    OBVIOUS
  <2> HIDE DEF Paid, All
  <2> QED
    BY <1>2, <1>5, <2>1, <2>2, SumCounts
<1>8. Cardinality(AttemptNos(c)) = Cardinality(Paid) + Cardinality(Unpaid)
  <2> HIDE DEF Paid, Unpaid, All
  <2>1. Cardinality({}) = 0
    BY FS_EmptySet
  <2> QED
    BY <1>2, <1>3, <1>4, <2>1, FS_Union
<1>9. LeastUsage(c) = AttemptUsage(c) + Cardinality(Unpaid)
  BY DEF LeastUsage
<1>10. UsageKnown(c) => Unpaid = {}
  BY DEF UsageKnown
<1>11. UsageKnown(c) => Cardinality(Unpaid) = 0
  BY <1>10, FS_EmptySet
<1> HIDE DEF Paid, Unpaid
<1> QED
  BY <1>3, <1>4, <1>6, <1>7, <1>8, <1>9, <1>11

-----------------------------------------------------------------------------
(* How a step changes one node.                                            *)

NodeStatuses == {"pending", "awaiting_approval", "admitted", "unknown", "cancelled"} \cup Settled

\* The reservation that goes with a status.
Reservation(n, s) == IF s \in {"admitted", "unknown"} THEN MaxUsage[n] ELSE 0

NodesTyped ==
  /\ node \in [Nodes -> Progress]
  /\ \A n \in Nodes : node[n].reserved = Reservation(n, node[n].status)

\* One node takes a status and what it used; the others are as they were.
Moved(n, s, u) ==
  /\ NodesTyped'
  /\ node'[n].status = s /\ node'[n].used = u
  /\ \A m \in Nodes \ {n} : node'[m] = node[m]

\* The fields of a node, and its declaration.
LEMMA NodeFields ==
  ASSUME NodesTyped, NEW n \in Nodes
  PROVE  /\ node[n].status \in NodeStatuses /\ node[n].used \in Nat /\ node[n].reserved \in Nat
         /\ node[n].reserved = Reservation(n, node[n].status)
         /\ MaxUsage[n] \in Nat
BY OrchestrationConstants DEF NodesTyped, Progress, NodeStatuses

\* A record put in the place of a node's is what the node is then.
LEMMA Replaced ==
  ASSUME NodesTyped, NEW n \in Nodes, NEW s \in NodeStatuses, NEW u \in Nat, NEW r,
         r = Reservation(n, s),
         node' = [node EXCEPT ![n] = [status |-> s, used |-> u, reserved |-> r]]
  PROVE  Moved(n, s, u)
<1>1. node \in [Nodes -> Progress]
  BY DEF NodesTyped
<1> DEFINE new == [status |-> s, used |-> u, reserved |-> r]
<1>2. new.status = s /\ new.used = u /\ new.reserved = r
  OBVIOUS
<1>3. new \in Progress /\ node' = [node EXCEPT ![n] = new]
  <2>1. r \in Nat
    BY NodeFields DEF Reservation
  <2> QED
    BY <2>1 DEF Progress, NodeStatuses
<1> HIDE DEF new
<1>4. /\ node' \in [Nodes -> Progress] /\ node'[n] = new
      /\ \A m \in Nodes \ {n} : node'[m] = node[m]
  BY <1>1, <1>3
<1>5. \A m \in Nodes : node[m].reserved = Reservation(m, node[m].status)
  BY DEF NodesTyped
<1>6. \A m \in Nodes : node'[m].reserved = Reservation(m, node'[m].status)
  BY <1>2, <1>4, <1>5
<1> QED
  BY <1>2, <1>4, <1>6 DEF NodesTyped, Moved, Reservation

\* The updates of the model, as moves of one node.
LEMMA NodeMoves ==
  ASSUME NodesTyped, NEW n \in Nodes
  PROVE  /\ node' = Admitted(n) => Moved(n, "admitted", node[n].used)
         /\ node' = InDoubt(n) /\ UnderWay(n) /\ LeastUsage(n) \in Nat
              => Moved(n, "unknown", LeastUsage(n))
         /\ node' = Sent(n) /\ UnderWay(n) => Moved(n, "unknown", 1)
         /\ \A s \in NodeStatuses \ {"admitted", "unknown"} :
              node' = [node EXCEPT ![n].status = s] /\ ~UnderWay(n) => Moved(n, s, node[n].used)
<1>1. node \in [Nodes -> Progress] /\ node[n] \in Progress
  BY DEF NodesTyped
<1>2. /\ node[n].status \in NodeStatuses /\ node[n].used \in Nat /\ node[n].reserved \in Nat
      /\ node[n].reserved = Reservation(n, node[n].status) /\ MaxUsage[n] \in Nat
      /\ \A m \in Nodes : node[m].reserved = Reservation(m, node[m].status)
  BY NodeFields DEF NodesTyped
<1>3. ASSUME NEW s \in NodeStatuses, NEW u \in Nat,
             /\ node' \in [Nodes -> Progress]
             /\ node'[n].status = s /\ node'[n].used = u
             /\ node'[n].reserved = Reservation(n, s)
             /\ \A m \in Nodes \ {n} : node'[m] = node[m]
      PROVE  Moved(n, s, u)
  BY <1>2, <1>3 DEF NodesTyped, Moved, Reservation
<1>4. ASSUME node' = Admitted(n) PROVE Moved(n, "admitted", node[n].used)
  <2>1. /\ node' \in [Nodes -> Progress]
        /\ node'[n].status = "admitted" /\ node'[n].used = node[n].used
        /\ node'[n].reserved = MaxUsage[n]
        /\ \A m \in Nodes \ {n} : node'[m] = node[m]
    BY <1>1, <1>2, <1>4 DEF Admitted, Progress
  <2> QED
    BY <1>2, <1>3, <2>1 DEF Reservation, NodeStatuses
<1>5. ASSUME node' = InDoubt(n), UnderWay(n), LeastUsage(n) \in Nat
      PROVE  Moved(n, "unknown", LeastUsage(n))
  <2> DEFINE u == LeastUsage(n)
  <2>1. node' = [node EXCEPT ![n].status = "unknown", ![n].used = u] /\ u \in Nat
    BY <1>5 DEF InDoubt
  <2> HIDE DEF u
  <2>2. /\ node' \in [Nodes -> Progress]
        /\ node'[n].status = "unknown" /\ node'[n].used = u
        /\ node'[n].reserved = node[n].reserved
        /\ \A m \in Nodes \ {n} : node'[m] = node[m]
    BY <1>1, <1>2, <2>1 DEF Progress
  <2>3. Reservation(n, "unknown") = node[n].reserved
    BY <1>2, <1>5 DEF Reservation, UnderWay
  <2>4. Moved(n, "unknown", u)
    BY <1>3, <2>1, <2>2, <2>3 DEF NodeStatuses
  <2> QED
    BY <2>4 DEF u
<1>6. ASSUME node' = Sent(n), UnderWay(n) PROVE Moved(n, "unknown", 1)
  <2>1. /\ node' \in [Nodes -> Progress]
        /\ node'[n].status = "unknown" /\ node'[n].used = 1
        /\ node'[n].reserved = node[n].reserved
        /\ \A m \in Nodes \ {n} : node'[m] = node[m]
    BY <1>1, <1>2, <1>6 DEF Sent, Progress
  <2>2. Reservation(n, "unknown") = node[n].reserved
    BY <1>2, <1>6 DEF Reservation, UnderWay
  <2> QED
    BY <1>3, <2>1, <2>2 DEF NodeStatuses
<1>7. ASSUME NEW s \in NodeStatuses \ {"admitted", "unknown"}, ~UnderWay(n),
             node' = [node EXCEPT ![n].status = s]
      PROVE  Moved(n, s, node[n].used)
  <2>1. /\ node' \in [Nodes -> Progress]
        /\ node'[n].status = s /\ node'[n].used = node[n].used
        /\ node'[n].reserved = node[n].reserved
        /\ \A m \in Nodes \ {n} : node'[m] = node[m]
    BY <1>1, <1>2, <1>7 DEF NodeStatuses, Progress
  <2>2. Reservation(n, s) = node[n].reserved
    BY <1>2, <1>7 DEF Reservation, UnderWay
  <2> QED
    BY <1>2, <1>3, <2>1, <2>2
<1> QED
  BY <1>4, <1>5, <1>6, <1>7

\* A settled node has failed unless the call succeeded within its declaration.
LEMMA CompleteMoves ==
  ASSUME NodesTyped, NEW n \in Nodes, NEW ok, NEW used \in Nat,
         node' = [node EXCEPT ![n] =
           [status |-> IF ok /\ used <= MaxUsage[n] THEN "completed" ELSE "failed",
            used |-> used, reserved |-> 0]]
  PROVE  \E s \in Settled : Moved(n, s, used) /\ (s = "completed" => ok)
<1> DEFINE s == IF ok /\ used <= MaxUsage[n] THEN "completed" ELSE "failed"
<1>1. s \in Settled /\ (s = "completed" => ok)
  BY DEF Settled
<1>2. node' = [node EXCEPT ![n] = [status |-> s, used |-> used, reserved |-> 0]]
  OBVIOUS
<1> HIDE DEF s
<1>3. s \in NodeStatuses /\ Reservation(n, s) = 0
  BY <1>1 DEF NodeStatuses, Reservation, Settled
<1>4. Moved(n, s, used)
  BY <1>2, <1>3, Replaced
<1> QED
  BY <1>1, <1>4

-----------------------------------------------------------------------------
(* Types.                                                                  *)

\* What the type invariant says of everything but the nodes.
RestTyped ==
  /\ JournalTypeOK
  /\ run \in {"absent", "running", "awaiting_approval"} \cup Terminal
  /\ cancel \in BOOLEAN /\ late \in BOOLEAN
  /\ grant \in [Tools -> {"none", "live", "expired"}]
  /\ spent \in [Tools -> BOOLEAN]
  /\ billed \in [Tools -> [1..MaxAttempts -> Nat]]
  /\ proc \in Process
  /\ entered \in [Nodes -> 0..MaxAttempts]
  /\ crashes \in 0..MaxCrashes

\* The type invariant is its two parts, here and in the next state.
LEMMA TypeParts ==
  /\ OrchestrationTypeOK <=> RestTyped /\ NodesTyped
  /\ OrchestrationTypeOK' <=> RestTyped' /\ NodesTyped'
BY DEF OrchestrationTypeOK, RestTyped, NodesTyped, Reservation

ProcFields ==
  /\ proc.pc \in Places /\ proc.recovering \in BOOLEAN /\ proc.todo \subseteq Nodes
  /\ proc.cur \in Nodes \cup {0} /\ proc.stop \in BOOLEAN /\ proc.saw \in BOOLEAN
  /\ proc.out \in Outputs

\* The fields of the process.
LEMMA ProcTyped == proc \in Process => ProcFields
BY DEF Process, ProcFields

\* The forms in which a step leaves the process.
LEMMA ProcForms ==
  ASSUME proc \in Process
  PROVE  /\ Idle \in Process
         /\ \A p \in Places : GoTo(p) => proc' \in Process
         /\ Proceed => proc' \in Process
         /\ StopRun => proc' \in Process
<1>1. /\ {"idle", "next", "finish"} \subseteq Places /\ "ok" \in Outputs
  BY DEF Places, Outputs
<1>2. Idle \in Process /\ (StopRun => proc' \in Process)
  BY <1>1 DEF Process, Idle, StopRun
<1>3. /\ \A p \in Places : GoTo(p) => proc' \in Process
      /\ Proceed => proc' \in Process
  BY <1>1 DEF Process, GoTo, Proceed
<1> QED
  BY <1>2, <1>3

\* A node is a tool, a model request or a join.
LEMMA ToolsAreNodes ==
  /\ Tools \subseteq Nodes /\ Models \subseteq Nodes /\ Tools \cap Models = {}
  /\ Calls = Tools /\ NeedsApproval \subseteq Tools /\ 0 \notin Tools /\ 0 \notin Models
BY OrchestrationConstants, NodesFinite

\* What a loop takes up are nodes.
LEMMA LeftAreNodes == LeftUnderWay \subseteq Nodes /\ Ready \subseteq Nodes
BY DEF LeftUnderWay, Ready

\* The steps that begin and end the operations keep the types.
LEMMA OperationTypes ==
  ASSUME RestTyped, Start \/ Resume \/ Cancel \/ PassDeadline \/ Crash
                    \/ (\E c \in Tools : ResumeApproved(c) \/ Approve(c) \/ ExpireGrant(c))
                    \/ (\E n \in Nodes : Reconcile(n))
  PROVE  RestTyped'
<1> USE ProcForms, LeftAreNodes, ToolsAreNodes DEF RestTyped
<1>1. CASE Start
  BY <1>1 DEF Start, Process, Idle, Places, Outputs, JournalTypeOK
<1>2. CASE Resume
  BY <1>2 DEF Resume, Process, Idle, Places, Outputs, JournalTypeOK
<1>3. CASE Cancel
  BY <1>3 DEF Cancel, JournalTypeOK
<1>4. CASE PassDeadline
  BY <1>4 DEF PassDeadline, JournalTypeOK
<1>5. CASE Crash
  BY <1>5, OrchestrationConstants DEF Crash, JournalTypeOK
<1>6. ASSUME NEW c \in Tools, ResumeApproved(c) PROVE RestTyped'
  <2>1. proc' \in Process
    <3> DEFINE T == LeftUnderWay \cup {c}
    <3>1. \/ StopRun
          \/ proc' = [Idle EXCEPT !.pc = "next", !.recovering = TRUE, !.todo = T]
      BY <1>6 DEF ResumeApproved
    <3>2. T \subseteq Nodes
      OBVIOUS
    <3> HIDE DEF T
    <3>3. CASE proc' = [Idle EXCEPT !.pc = "next", !.recovering = TRUE, !.todo = T]
      BY <3>2, <3>3 DEF Process, Idle, Places, Outputs
    <3> QED
      BY <3>1, <3>3
  <2>2. spent' \in [Tools -> BOOLEAN] /\ run' \in {"absent", "running", "awaiting_approval"} \cup Terminal
    BY <1>6 DEF ResumeApproved
  <2>3. UNCHANGED <<rows, attempts, cancel, late, grant, billed, entered, crashes>>
    BY <1>6 DEF ResumeApproved
  <2> QED
    BY <2>1, <2>2, <2>3 DEF JournalTypeOK
<1>7. ASSUME NEW c \in Tools, Approve(c) \/ ExpireGrant(c) PROVE RestTyped'
  BY <1>7 DEF Approve, ExpireGrant, JournalTypeOK
<1>8. ASSUME NEW n \in Nodes, Reconcile(n) PROVE RestTyped'
  <2>1. proc' \in Process
    BY <1>8 DEF Reconcile, Process, Idle, Places, Outputs
  <2>2. UNCHANGED <<attempts, run, cancel, late, grant, spent, billed, entered, crashes>>
    BY <1>8 DEF Reconcile
  <2>3. \/ UNCHANGED rows
        \/ n \in Tools /\ \E s \in {"completed", "failed"}, t \in {"ok", "error"} :
             rows' = [rows EXCEPT ![n].state = s, ![n].result = t]
    <3>1. PICK ok \in BOOLEAN :
             \/ UNCHANGED rows
             \/ n \in Tools /\ rows' = [rows EXCEPT ![n].state = IF ok THEN "completed" ELSE "failed",
                                                    ![n].result = IF ok THEN "ok" ELSE "error"]
      BY <1>8 DEF Reconcile
    <3> QED
      BY <3>1
  <2>4. rows' \in [Calls -> Row]
    <3>1. rows \in [Calls -> Row]
      BY DEF JournalTypeOK
    <3>2. ASSUME n \in Calls, NEW s \in RowStates, NEW t \in Results,
                 rows' = [rows EXCEPT ![n].state = s, ![n].result = t]
          PROVE  rows' \in [Calls -> Row]
      BY <3>1, <3>2 DEF Row
    <3>3. /\ {"completed", "failed"} \subseteq RowStates
          /\ {"ok", "error"} \subseteq Results
      BY DEF RowStates, Results
    <3> QED
      BY <2>3, <3>1, <3>2, <3>3
  <2> QED
    BY <2>1, <2>2, <2>4 DEF JournalTypeOK
<1> QED
  BY <1>1, <1>2, <1>3, <1>4, <1>5, <1>6, <1>7, <1>8

\* The statements of the journal keep the types of its rows.
LEMMA RowUpdates ==
  ASSUME rows \in [Calls -> Row], NEW c \in Calls, NEW o \in Outputs
  PROVE  /\ ClaimRow(c, 0) => rows' \in [Calls -> Row]
         /\ MarkStarted(c, 0) => rows' \in [Calls -> Row]
         /\ Restart(c, 0) => rows' \in [Calls -> Row]
         /\ Settle(c, o) => rows' \in [Calls -> Row]
<1>1. ClaimRow(c, 0) => rows' \in [Calls -> Row]
  BY DEF ClaimRow, Row, RowStates, Results
<1>2. \A r \in Row : StartedRow(r, 0) \in Row
  BY DEF StartedRow, Row, RowStates
<1>3. MarkStarted(c, 0) => rows' \in [Calls -> Row]
  BY <1>2 DEF MarkStarted
<1>4. Restart(c, 0) => rows' \in [Calls -> Row]
  BY <1>2 DEF Restart
<1>5. Settle(c, o) => rows' \in [Calls -> Row]
  <2>1. SettledState(c, o) \in RowStates /\ ResultOf(o) \in Results
    BY DEF SettledState, ResultOf, RowStates, Results
  <2> QED
    BY <2>1 DEF Settle, Row
<1> QED
  BY <1>1, <1>3, <1>4, <1>5

\* The steps of advance() keep the types.
LEMMA WorkTypes ==
  ASSUME RestTyped, LoopInvariant, NodeInvariant, Work
  PROVE  RestTyped'
<1> USE ProcForms, LeftAreNodes, ToolsAreNodes DEF RestTyped
<1>1. ProcFields
  BY ProcTyped
<1> USE DEF ProcFields
<1>2. ASSUME proc' \in Process, UNCHANGED <<rows, attempts, billed, entered>>,
             UNCHANGED <<run, cancel, late, grant, spent, crashes>>
      PROVE  RestTyped'
  BY <1>2 DEF JournalTypeOK
<1>3. CASE Continue
  <2> DEFINE n == Min(proc.todo)
             T == proc.todo \ {n}
  <2>1. n \in Nodes /\ T \subseteq Nodes
    BY <1>1, <1>3, MinIsMember DEF Continue
  <2>2. \E p \in Places : proc' = [proc EXCEPT !.todo = T, !.cur = n, !.pc = p]
    BY <1>3 DEF Continue, Places
  <2> HIDE DEF n, T
  <2>3. proc' \in Process
    <3>1. PICK p \in Places : proc' = [proc EXCEPT !.todo = T, !.cur = n, !.pc = p]
      BY <2>2
    <3> QED
      BY <2>1, <3>1 DEF Process
  <2> QED
    BY <1>2, <1>3, <2>3 DEF Continue
<1>4. CASE Round
  <2>1. proc' = [Idle EXCEPT !.pc = "finish"] \/ proc' = [proc EXCEPT !.recovering = FALSE, !.todo = Ready]
    BY <1>4 DEF Round
  <2>2. [Idle EXCEPT !.pc = "finish"] \in Process
    BY DEF Idle, Process, Places, Outputs
  <2>3. [proc EXCEPT !.recovering = FALSE, !.todo = Ready] \in Process
    BY DEF Process
  <2>4. proc' \in Process
    BY <2>1, <2>2, <2>3
  <2> QED
    BY <1>2, <1>4, <2>4 DEF Round
<1>5. CASE Admit
  <2> DEFINE n == Min(proc.todo)
             T == proc.todo \ {n}
  <2>1. n \in Nodes /\ T \subseteq Nodes
    BY <1>1, <1>5, MinIsMember DEF Admit
  <2>2. \/ StopRun
        \/ proc' = [proc EXCEPT !.todo = T]
        \/ \E p \in {"tool", "model"} : proc' = [[proc EXCEPT !.todo = T] EXCEPT !.cur = n, !.pc = p]
    BY <1>5 DEF Admit
  <2>3. {"tool", "model"} \subseteq Places
    BY DEF Places
  <2> HIDE DEF n, T
  <2>4. proc' \in Process
    <3>1. CASE proc' = [proc EXCEPT !.todo = T]
      BY <2>1, <3>1 DEF Process
    <3>2. ASSUME NEW p \in {"tool", "model"},
                 proc' = [[proc EXCEPT !.todo = T] EXCEPT !.cur = n, !.pc = p]
          PROVE  proc' \in Process
      <4>1. proc' = [proc EXCEPT !.todo = T, !.cur = n, !.pc = p]
        BY <3>2
      <4> QED
        BY <2>1, <2>3, <4>1 DEF Process
    <3> QED
      BY <2>2, <3>1, <3>2
  <2> QED
    BY <1>2, <1>5, <2>4 DEF Admit
<1>6. CASE TakeRow
  <2>1. proc.cur \in Calls
    BY <1>6 DEF TakeRow, LoopInvariant
  <2>2. proc' \in Process
    BY <1>6 DEF TakeRow, Complete, MarkUnknown, Raise, Places
  <2>3. rows' \in [Calls -> Row]
    BY <1>6, <2>1, RowUpdates DEF TakeRow, JournalTypeOK, Outputs
  <2>4. UNCHANGED <<attempts, run, cancel, late, grant, spent, billed, entered, crashes>>
    BY <1>6 DEF TakeRow
  <2> QED
    BY <2>2, <2>3, <2>4 DEF JournalTypeOK
<1>7. CASE StartRow
  <2>1. proc.cur \in Calls
    BY <1>7 DEF StartRow, LoopInvariant, ToolPlaces
  <2>2. proc' \in Process
    BY <1>7 DEF StartRow, Places
  <2>3. rows' \in [Calls -> Row]
    BY <1>7, <2>1, RowUpdates DEF StartRow, JournalTypeOK, Outputs
  <2>4. UNCHANGED <<attempts, run, cancel, late, grant, spent, billed, entered, crashes>>
    BY <1>7 DEF StartRow
  <2> QED
    BY <2>2, <2>3, <2>4 DEF JournalTypeOK
<1>8. CASE BeginAttempt
  <2>1. proc.cur \in Calls
    BY <1>8 DEF BeginAttempt, LoopInvariant, ToolPlaces
  <2>2. proc' \in Process
    BY <1>8 DEF BeginAttempt, MarkUnknown, Raise, Places
  <2>3. \/ attempts' = attempts
        \/ \E last \in AttemptNos(proc.cur) \cup {0} : StartAttempt(proc.cur, last + 1)
    BY <1>8 DEF BeginAttempt
  <2>4. attempts' \in [Calls -> SUBSET AttemptRow]
    <3>1. attempts \in [Calls -> SUBSET AttemptRow]
      BY DEF JournalTypeOK
    <3>2. AttemptNos(proc.cur) \subseteq Nat
      BY <2>1, <3>1 DEF AttemptNos, AttemptRow
    <3>3. ASSUME NEW k \in Nat, StartAttempt(proc.cur, k)
          PROVE  attempts' \in [Calls -> SUBSET AttemptRow]
      <4>1. [no |-> k, outcome |-> "open"] \in AttemptRow
        BY DEF AttemptRow
      <4> QED
        BY <2>1, <3>1, <3>3, <4>1 DEF StartAttempt
    <3>4. \A last \in AttemptNos(proc.cur) \cup {0} : last + 1 \in Nat
      BY <3>2
    <3> QED
      BY <2>3, <3>1, <3>3, <3>4
  <2>5. UNCHANGED <<rows, run, cancel, late, grant, spent, billed, entered, crashes>>
    BY <1>8 DEF BeginAttempt
  <2> QED
    BY <2>2, <2>4, <2>5 DEF JournalTypeOK
<1>9. CASE EnterTool \/ EnterModel
  <2>1. proc.cur \in Nodes /\ entered[proc.cur] + 1 \in 0..MaxAttempts
    <3>1. CASE proc.pc = "enter"
      <4>1. proc.cur \in Tools
        BY <3>1 DEF LoopInvariant, ToolPlaces
      <4>2. /\ entered[proc.cur] < Cardinality(AttemptNos(proc.cur))
            /\ AttemptNos(proc.cur) \subseteq 1..MaxAttempts
        BY <3>1, <4>1 DEF NodeInvariant, Attempts
      <4>3. Cardinality(AttemptNos(proc.cur)) \in Nat /\ Cardinality(AttemptNos(proc.cur)) <= MaxAttempts
        BY <4>2, NodesFinite, FS_Subset, FS_CardinalityType
      <4>4. entered[proc.cur] \in 0..MaxAttempts /\ MaxAttempts \in Nat
        BY <4>1, JournalConstants
      <4> QED
        BY <4>1, <4>2, <4>3, <4>4
    <3>2. CASE proc.pc = "sending"
      <4>1. proc.cur \in Models
        BY <3>2 DEF LoopInvariant
      <4>2. entered[proc.cur] = 0
        BY <3>2, <4>1 DEF NodeInvariant, ModelNode
      <4> QED
        BY <4>1, <4>2, JournalConstants
    <3> QED
      BY <1>9, <3>1, <3>2 DEF EnterTool, EnterModel
  <2>2. entered' \in [Nodes -> 0..MaxAttempts]
    BY <1>9, <2>1 DEF EnterTool, EnterModel
  <2>3. proc' \in Process
    BY <1>9 DEF EnterTool, EnterModel, Places
  <2>4. UNCHANGED <<rows, attempts, run, cancel, late, grant, spent, billed, crashes>>
    BY <1>9 DEF EnterTool, EnterModel
  <2> QED
    BY <2>2, <2>3, <2>4 DEF JournalTypeOK
<1>10. CASE ToolReturns
  <2>1. proc.cur \in Calls
    BY <1>10 DEF ToolReturns, LoopInvariant, ToolPlaces
  <2>2. PICK o \in Outputs, cost \in Charges \cup {0}, no \in AttemptNos(proc.cur) :
          /\ FinishAttempt(proc.cur, no, o)
          /\ billed' = [billed EXCEPT ![proc.cur][no] = cost]
          /\ \E p \in {"attempt", "settle"} : proc' = [proc EXCEPT !.out = o, !.pc = p]
    BY <1>10 DEF ToolReturns
  <2>3. proc' \in Process
    BY <2>2 DEF Process, Places
  <2>4. cost \in Nat /\ no \in 1..MaxAttempts
    BY <2>1, OrchestrationConstants DEF NodeInvariant, Attempts
  <2>5. billed' \in [Tools -> [1..MaxAttempts -> Nat]]
    BY <2>1, <2>2, <2>4
  <2>6. attempts' \in [Calls -> SUBSET AttemptRow]
    <3>1. attempts \in [Calls -> SUBSET AttemptRow]
      BY DEF JournalTypeOK
    <3>2. [no |-> no, outcome |-> AttemptOutcome(o)] \in AttemptRow
      BY <2>4 DEF AttemptOutcome, AttemptRow
    <3> QED
      BY <2>1, <2>2, <3>1, <3>2 DEF FinishAttempt
  <2>7. UNCHANGED <<rows, run, cancel, late, grant, spent, entered, crashes>>
    BY <1>10 DEF ToolReturns
  <2> QED
    BY <2>3, <2>5, <2>6, <2>7 DEF JournalTypeOK
<1>11. CASE SettleRow
  <2>1. proc.cur \in Calls
    BY <1>11 DEF SettleRow, LoopInvariant, ToolPlaces
  <2>2. proc' \in Process
    BY <1>11 DEF SettleRow, Places, Process, Outputs
  <2>3. rows' \in [Calls -> Row]
    BY <1>1, <1>11, <2>1, RowUpdates DEF SettleRow, JournalTypeOK
  <2>4. UNCHANGED <<attempts, run, cancel, late, grant, spent, billed, entered, crashes>>
    BY <1>11 DEF SettleRow
  <2> QED
    BY <2>2, <2>3, <2>4 DEF JournalTypeOK
<1>12. CASE MarkSending \/ RefuseRequest \/ ModelReturns
  <2>1. proc' \in Process
    BY <1>12 DEF MarkSending, RefuseRequest, ModelReturns, Complete, MarkUnknown, Places
  <2> QED
    BY <1>2, <1>12, <2>1 DEF MarkSending, RefuseRequest, ModelReturns
<1>13. CASE Finish
  <2>1. proc' \in Process
    BY <1>13 DEF Finish, Process, Places, StopsRun
  <2> QED
    BY <1>2, <1>13, <2>1 DEF Finish
<1>14. CASE KeepOpen
  BY <1>2, <1>14 DEF KeepOpen
<1>15. CASE Close
  <2>1. run' \in {"absent", "running", "awaiting_approval"} \cup Terminal
    BY <1>15 DEF Close, Terminal
  <2>2. proc' \in Process
    BY <1>15 DEF Close
  <2>3. UNCHANGED <<rows, attempts, cancel, late, grant, spent, billed, entered, crashes>>
    BY <1>15 DEF Close
  <2> QED
    BY <2>1, <2>2, <2>3 DEF JournalTypeOK
<1> QED
  BY <1>3, <1>4, <1>5, <1>6, <1>7, <1>8, <1>9, <1>10, <1>11, <1>12, <1>13, <1>14, <1>15 DEF Work

-----------------------------------------------------------------------------
(* What a step leaves alone.                                               *)

SameRows(c) == /\ rows'[c] = rows[c] /\ attempts'[c] = attempts[c] /\ billed'[c] = billed[c]
SameNode(n) == node'[n] = node[n] /\ entered'[n] = entered[n]

\* The process does not turn to a node in the middle of its work.
NotAt(n) == proc'.cur = n => proc'.pc \notin {"claimed", "sending"} \cup RowPlaces

\* What is read of the rows and attempts of a tool depends on them alone.
LEMMA JournalStays ==
  ASSUME NEW c, SameRows(c)
  PROVE  /\ AttemptNos(c)' = AttemptNos(c)
         /\ UsageKnown(c)' = UsageKnown(c)
         /\ HasStarted(c)' = HasStarted(c)
BY DEF SameRows, AttemptNos, UsageKnown, HasStarted

\* A step that does not touch a tool keeps what is said of it.
LEMMA ToolStays ==
  ASSUME NEW c, Attempts(c), ToolNode(c), SameRows(c), SameNode(c), NotAt(c)
  PROVE  Attempts(c)' /\ ToolNode(c)'
<1>1. /\ AttemptNos(c)' = AttemptNos(c)
      /\ UsageKnown(c)' = UsageKnown(c)
      /\ HasStarted(c)' = HasStarted(c)
      /\ UnderWay(c)' = UnderWay(c) /\ NotBegun(c)' = NotBegun(c)
  BY JournalStays DEF SameNode, UnderWay, NotBegun
<1>2. Attempts(c)'
  BY <1>1 DEF Attempts, SameRows, SameNode, NotAt, RowPlaces
<1>3. ToolNode(c)'
  BY <1>1 DEF ToolNode, SameRows, SameNode
<1> QED
  BY <1>2, <1>3

\* So with a model node.
LEMMA ModelStays ==
  ASSUME NEW n, ModelNode(n), SameNode(n), NotAt(n)
  PROVE  ModelNode(n)'
BY DEF ModelNode, SameNode, NotAt

\* So with any node.
LEMMA AnyStays ==
  ASSUME NEW n, AnyNode(n), SameNode(n)
  PROVE  AnyNode(n)'
BY DEF AnyNode, SameNode, UnderWay, NotBegun

\* A step that works on one node has to keep the invariant of that node only.
LEMMA OneNode ==
  ASSUME NodeInvariant, NEW k,
         \A c \in Tools \ {k} : SameRows(c) /\ SameNode(c) /\ NotAt(c),
         \A n \in Nodes \ {k} : SameNode(n) /\ NotAt(n),
         k \in Tools => Attempts(k)' /\ ToolNode(k)',
         k \in Models => ModelNode(k)',
         k \in Nodes => AnyNode(k)'
  PROVE  NodeInvariant'
<1>1. \A c \in Tools : Attempts(c)' /\ ToolNode(c)'
  BY ToolStays DEF NodeInvariant
<1>2. \A n \in Models : ModelNode(n)'
  BY ModelStays, ToolsAreNodes DEF NodeInvariant
<1>3. \A n \in Nodes : AnyNode(n)'
  BY AnyStays DEF NodeInvariant
<1> QED
  BY <1>1, <1>2, <1>3 DEF NodeInvariant

\* A step that changes neither rows nor nodes.
LEMMA NoNode ==
  ASSUME NodeInvariant, UNCHANGED <<rows, attempts, billed, node, entered>>,
         \A n \in Nodes : NotAt(n)
  PROVE  NodeInvariant'
<1>1. /\ \A c \in Tools : SameRows(c) /\ SameNode(c) /\ NotAt(c)
      /\ \A n \in Nodes : SameNode(n) /\ NotAt(n)
  BY ToolsAreNodes DEF SameRows, SameNode
<1> QED
  BY <1>1, NodesFinite, ToolsAreNodes, OneNode

\* The types of the nodes depend on them alone.
LEMMA NodesStay ==
  ASSUME NodesTyped, UNCHANGED node
  PROVE  NodesTyped'
BY DEF NodesTyped, Reservation

-----------------------------------------------------------------------------
(* The operations.                                                         *)

\* What a step that touches the run from outside or starts the process over keeps.
LEMMA OperationStep ==
  ASSUME RunHolds, Start \/ Resume \/ Cancel \/ PassDeadline \/ Crash
                   \/ (\E c \in Tools : Approve(c) \/ ExpireGrant(c))
  PROVE  RunHolds'
<1> USE DEF RunHolds
<1>1. RestTyped /\ NodesTyped /\ RestTyped' /\ NodesTyped'
  <2>1. RestTyped /\ NodesTyped
    BY TypeParts
  <2>2. RestTyped'
    BY <2>1, OperationTypes
  <2>3. node' = node
    BY DEF Start, Resume, Cancel, PassDeadline, Crash, Approve, ExpireGrant
  <2> QED
    BY <2>1, <2>2, <2>3, NodesStay
<1>2. UNCHANGED <<rows, attempts, billed, node, entered>>
  BY DEF Start, Resume, Cancel, PassDeadline, Crash, Approve, ExpireGrant
<1>3. CASE UNCHANGED <<run, proc>>
  <2>1. LoopInvariant'
    BY <1>2, <1>3 DEF LoopInvariant, UnderWay
  <2>2. NodeInvariant'
    <3>1. \A c \in Tools : Attempts(c)' /\ ToolNode(c)'
      BY <1>2, <1>3 DEF NodeInvariant, Attempts, ToolNode, AttemptNos, UsageKnown, HasStarted, UnderWay, NotBegun
    <3>2. \A n \in Models : ModelNode(n)'
      BY <1>2, <1>3 DEF NodeInvariant, ModelNode
    <3>3. \A n \in Nodes : AnyNode(n)'
      BY <1>2, <1>3 DEF NodeInvariant, AnyNode, UnderWay, NotBegun
    <3> QED
      BY <3>1, <3>2, <3>3 DEF NodeInvariant
  <2> QED
    BY <1>1, <2>1, <2>2, TypeParts
<1>4. CASE Start
  <2>1. /\ run' = "running" /\ proc' = [Idle EXCEPT !.pc = "next"]
        /\ \A n \in Nodes : node[n].status = "pending"
    BY <1>4 DEF Start, LoopInvariant
  <2>2. /\ proc'.pc = "next" /\ proc'.todo = {} /\ proc'.cur = 0 /\ ~proc'.stop
    BY <2>1 DEF Idle
  <2>3. LoopInvariant'
    BY <1>2, <2>1, <2>2 DEF LoopInvariant, ToolPlaces, UnderWay
  <2>4. NodeInvariant'
    BY <1>2, <2>2, NoNode DEF NotAt, RowPlaces
  <2> QED
    BY <1>1, <2>3, <2>4, TypeParts
<1>5. CASE Resume
  <2>1. /\ run' = run /\ run \in {"running", "awaiting_approval"}
        /\ proc' = [Idle EXCEPT !.pc = "next", !.recovering = TRUE, !.todo = LeftUnderWay]
    BY <1>5 DEF Resume
  <2>2. /\ proc'.pc = "next" /\ proc'.recovering /\ proc'.todo = LeftUnderWay /\ proc'.cur = 0
        /\ ~proc'.stop
    BY <2>1 DEF Idle
  <2>3. LoopInvariant'
    BY <1>2, <2>1, <2>2, NodesFinite DEF LoopInvariant, ToolPlaces, LeftUnderWay, UnderWay
  <2>4. NodeInvariant'
    BY <1>2, <2>2, NoNode DEF NotAt, RowPlaces
  <2> QED
    BY <1>1, <2>3, <2>4, TypeParts
<1>6. CASE Crash
  <2>1. run' = run /\ proc' = Idle
    BY <1>6 DEF Crash
  <2>2. proc'.pc = "idle" /\ proc'.todo = {} /\ proc'.cur = 0 /\ ~proc'.stop
    BY <2>1 DEF Idle
  <2>3. LoopInvariant'
    BY <1>2, <2>1, <2>2 DEF LoopInvariant, ToolPlaces, UnderWay
  <2>4. NodeInvariant'
    BY <1>2, <2>2, NoNode DEF NotAt, RowPlaces
  <2> QED
    BY <1>1, <2>3, <2>4, TypeParts
<1> QED
  BY <1>3, <1>4, <1>5, <1>6 DEF Cancel, PassDeadline, Approve, ExpireGrant

\* An approved tool is admitted by the step that starts the process over.
LEMMA ResumeApprovedStep ==
  ASSUME RunHolds, NEW c \in Tools, ResumeApproved(c)
  PROVE  RunHolds'
<1> USE DEF RunHolds
<1>1. RestTyped /\ NodesTyped /\ RestTyped'
  BY TypeParts, OperationTypes
<1>2. /\ c \in Nodes /\ node[c].status = "awaiting_approval"
      /\ run \in {"running", "awaiting_approval"}
      /\ UNCHANGED <<rows, attempts, billed, entered>>
  BY ToolsAreNodes DEF ResumeApproved
<1>3. CASE StopRun /\ UNCHANGED <<run, node, spent>>
  <2>1. proc'.pc = "finish" /\ proc'.todo = {} /\ proc'.cur = 0 /\ proc'.stop
    BY <1>3 DEF StopRun, Idle
  <2>2. LoopInvariant'
    BY <1>2, <1>3, <2>1 DEF LoopInvariant, ToolPlaces, UnderWay
  <2>3. NodeInvariant'
    BY <1>2, <1>3, <2>1, NoNode DEF NotAt, RowPlaces
  <2> QED
    BY <1>1, <1>3, <2>2, <2>3, TypeParts, NodesStay
<1>4. CASE /\ node' = Admitted(c) /\ run' = "running"
           /\ proc' = [Idle EXCEPT !.pc = "next", !.recovering = TRUE,
                                   !.todo = LeftUnderWay \cup {c}]
  <2>1. Moved(c, "admitted", node[c].used)
    BY <1>1, <1>2, <1>4, NodeMoves
  <2>2. /\ proc'.pc = "next" /\ proc'.recovering /\ proc'.todo = LeftUnderWay \cup {c}
        /\ proc'.cur = 0 /\ ~proc'.stop
    BY <1>4 DEF Idle
  <2>3. LoopInvariant'
    BY <1>2, <1>4, <2>1, <2>2, NodesFinite DEF LoopInvariant, ToolPlaces, LeftUnderWay, UnderWay, Moved, Terminal
  <2>4. /\ Attempts(c) /\ ToolNode(c) /\ AnyNode(c)
        /\ NotBegun(c) /\ node[c].used = 0 /\ AttemptNos(c) = {}
    BY <1>2 DEF NodeInvariant, NotBegun, ToolNode, AnyNode, Attempts, HasStarted
  <2>5. /\ AttemptNos(c)' = {} /\ UsageKnown(c)' = UsageKnown(c) /\ HasStarted(c)' = HasStarted(c)
        /\ Cardinality({}) = 0 /\ MaxUsage[c] \in Nat
    BY <1>1, <1>2, <2>4, FS_EmptySet, NodeFields DEF AttemptNos, UsageKnown, HasStarted
  <2>6. Attempts(c)'
    BY <1>2, <2>2, <2>4, <2>5 DEF Attempts, RowPlaces
  <2>7. ToolNode(c)'
    BY <2>1, <2>5 DEF ToolNode, UnderWay, NotBegun, Moved
  <2>8. AnyNode(c)'
    BY <2>1 DEF AnyNode, UnderWay, NotBegun, Moved
  <2>9. c \notin Models
    BY ToolsAreNodes
  <2>10. /\ \A d \in Tools \ {c} : SameRows(d) /\ SameNode(d) /\ NotAt(d)
         /\ \A n \in Nodes \ {c} : SameNode(n) /\ NotAt(n)
    BY <1>2, <2>1, <2>2, ToolsAreNodes DEF SameRows, SameNode, NotAt, RowPlaces, Moved
  <2>11. NodeInvariant'
    BY <2>6, <2>7, <2>8, <2>9, <2>10, OneNode
  <2> QED
    BY <1>1, <2>1, <2>3, <2>11, TypeParts DEF Moved
<1> QED
  BY <1>3, <1>4 DEF ResumeApproved

\* A resolution settles a node in doubt, and counts no less than is known of it.
LEMMA ReconcileStep ==
  ASSUME RunHolds, NEW n \in Nodes, Reconcile(n)
  PROVE  RunHolds'
<1> USE DEF RunHolds
<1>1. RestTyped /\ NodesTyped /\ RestTyped'
  BY TypeParts, OperationTypes
<1>2. PICK ok \in BOOLEAN, used \in Usages :
        /\ Covers(n, used)
        /\ IF n \notin Tools THEN UNCHANGED rows
           ELSE IF rows[n].state \in {"completed", "failed"}
           THEN ok = (rows[n].state = "completed") /\ UNCHANGED rows
           ELSE rows' = [rows EXCEPT ![n].state = IF ok THEN "completed" ELSE "failed",
                                     ![n].result = IF ok THEN "ok" ELSE "error"]
        /\ node' = [node EXCEPT ![n] =
             [status |-> IF ok /\ used <= MaxUsage[n] THEN "completed" ELSE "failed",
              used |-> used, reserved |-> 0]]
  BY DEF Reconcile
<1>3. /\ node[n].status = "unknown" /\ proc.pc = "idle"
      /\ proc' = [Idle EXCEPT !.pc = "next", !.recovering = TRUE, !.todo = LeftUnderWay \ {n}]
      /\ UNCHANGED <<attempts, run, billed, entered>>
  BY DEF Reconcile
<1>4. used \in Nat
  BY DEF Usages
<1>5. PICK s \in Settled : Moved(n, s, used) /\ (s = "completed" => ok)
  BY <1>1, <1>2, <1>4, CompleteMoves
<1>6. /\ proc'.pc = "next" /\ proc'.recovering /\ proc'.todo = LeftUnderWay \ {n}
      /\ proc'.cur = 0 /\ ~proc'.stop
  BY <1>3 DEF Idle
<1>7. run \in {"running", "awaiting_approval"}
  <2>1. run # "absent" /\ run \notin Terminal
    BY <1>3 DEF LoopInvariant, UnderWay
  <2> QED
    BY <1>1, <2>1 DEF RestTyped
<1>8. LoopInvariant'
  <2>1. /\ node'[n].status \in Settled
        /\ \A m \in Nodes \ {n} : node'[m] = node[m]
    BY <1>5 DEF Moved
  <2>2. \A m \in proc'.todo : m \in Nodes \ {n}
    BY <1>6 DEF LeftUnderWay
  <2>3. \A m \in proc'.todo : UnderWay(m)' /\ (node'[m].status = "unknown" => m \in Tools)
    BY <1>6, <2>1, <2>2 DEF LeftUnderWay, UnderWay
  <2>4. \A m \in Nodes : node'[m].status = "admitted" => m \in proc'.todo
    BY <1>6, <2>1 DEF LeftUnderWay, Settled
  <2>5. 0 \notin proc'.todo
    BY <2>2, NodesFinite
  <2>6. run' \notin Terminal /\ run' # "succeeded" /\ run' # "absent"
    BY <1>3, <1>7 DEF Terminal
  <2> QED
    BY <1>3, <1>6, <1>7, <2>3, <2>4, <2>5, <2>6 DEF LoopInvariant, ToolPlaces
<1>9. /\ \A d \in Tools \ {n} : SameRows(d) /\ SameNode(d) /\ NotAt(d)
      /\ \A m \in Nodes \ {n} : SameNode(m) /\ NotAt(m)
  <2>1. ASSUME NEW d \in Tools \ {n} PROVE rows'[d] = rows[d]
    <3>1. rows \in [Calls -> Row]
      BY <1>1 DEF RestTyped, JournalTypeOK
    <3> QED
      BY <1>2, <2>1, <3>1
  <2> QED
    BY <1>3, <1>5, <1>6, <2>1, ToolsAreNodes DEF SameRows, SameNode, NotAt, RowPlaces, Moved
<1>10. AnyNode(n)'
  <2>1. n \notin Tools \cup Models => entered[n] = 0
    BY DEF NodeInvariant, AnyNode
  <2> QED
    BY <1>3, <1>5, <2>1 DEF AnyNode, UnderWay, NotBegun, Moved, Settled
<1>11. ASSUME n \in Models PROVE ModelNode(n)'
  <2>1. ModelNode(n) /\ node[n].used >= 1 /\ used >= node[n].used /\ node[n].used \in Nat
    BY <1>1, <1>2, <1>3, <1>11, ToolsAreNodes, NodeFields
       DEF NodeInvariant, ModelNode, Covers, LeastUsage
  <2> QED
    BY <1>3, <1>4, <1>5, <1>6, <2>1 DEF ModelNode, Moved, Settled
<1>12. ASSUME n \in Tools PROVE Attempts(n)' /\ ToolNode(n)'
  <2>1. Attempts(n) /\ ToolNode(n) /\ HasStarted(n)
    BY <1>3, <1>12 DEF NodeInvariant, ToolNode
  <2>2. rows'[n].state = IF ok THEN "completed" ELSE "failed"
    <3>1. rows \in [Calls -> Row] /\ n \in Calls
      BY <1>1, <1>12 DEF RestTyped, JournalTypeOK
    <3>2. CASE rows[n].state \in {"completed", "failed"}
      BY <1>2, <1>12, <3>2
    <3>3. CASE rows[n].state \notin {"completed", "failed"}
      BY <1>2, <1>12, <3>1, <3>3 DEF Row
    <3> QED
      BY <3>2, <3>3
  <2>3. Cardinality(AttemptNos(n)) <= used
    <3>1. /\ Cardinality(AttemptNos(n)) \in Nat /\ LeastUsage(n) \in Nat
          /\ Cardinality(AttemptNos(n)) <= LeastUsage(n)
      BY <1>12, <2>1, UsageCounts DEF Attempts
    <3> QED
      BY <1>2, <1>4, <3>1 DEF Covers
  <2>4. AttemptNos(n)' = AttemptNos(n) /\ HasStarted(n)'
    BY <1>3, <2>2 DEF AttemptNos, HasStarted
  <2>5. Attempts(n)'
    BY <1>3, <1>6, <2>1, <2>4 DEF Attempts, RowPlaces
  <2>6. ToolNode(n)'
    BY <1>5, <2>2, <2>3, <2>4 DEF ToolNode, UnderWay, NotBegun, Moved, Settled
  <2> QED
    BY <2>5, <2>6
<1>13. NodeInvariant'
  BY <1>9, <1>10, <1>11, <1>12, OneNode
<1> QED
  BY <1>1, <1>5, <1>8, <1>13, TypeParts DEF Moved

-----------------------------------------------------------------------------
(* The loops of advance().                                                 *)

\* The first loop takes up a node that is under way.
LEMMA ContinueStep ==
  ASSUME RunHolds, Continue
  PROVE  RunHolds'
<1> USE DEF RunHolds
<1> DEFINE n == Min(proc.todo)
<1>1. RestTyped /\ NodesTyped /\ RestTyped' /\ NodesTyped'
  BY TypeParts, WorkTypes, NodesStay DEF Work, Continue
<1>2. /\ proc.pc = "next" /\ proc.recovering /\ proc.todo # {} /\ n \in Nodes /\ n \in proc.todo
      /\ UNCHANGED <<rows, attempts, run, node, billed, entered>>
  BY <1>1, MinIsMember, ProcTyped DEF Continue, RestTyped, ProcFields
<1>3. /\ proc'.pc = IF n \in Tools THEN "tool" ELSE "model"
      /\ proc'.recovering /\ proc'.todo = proc.todo \ {n} /\ proc'.cur = n
      /\ proc'.stop = proc.stop
  <2>1. proc \in Process
    BY <1>1 DEF RestTyped
  <2> QED
    BY <1>2, <2>1 DEF Continue, Process
<1> HIDE DEF n
<1>4. UnderWay(n) /\ (node[n].status = "unknown" => n \in Tools) /\ n \in Tools \cup Models
  BY <1>2 DEF LoopInvariant, NodeInvariant, AnyNode
<1>5. LoopInvariant'
  BY <1>2, <1>3, <1>4, NodesFinite DEF LoopInvariant, ToolPlaces, UnderWay
<1>6. NodeInvariant'
  BY <1>2, <1>3, NoNode DEF NotAt, RowPlaces
<1> QED
  BY <1>1, <1>5, <1>6, TypeParts

\* A round takes the nodes that are ready, or the loop is over.
LEMMA RoundStep ==
  ASSUME RunHolds, Round
  PROVE  RunHolds'
<1> USE DEF RunHolds
<1>1. RestTyped /\ NodesTyped /\ RestTyped' /\ NodesTyped'
  BY TypeParts, WorkTypes, NodesStay DEF Work, Round
<1>2. /\ proc.pc = "next" /\ proc.todo = {}
      /\ UNCHANGED <<rows, attempts, run, node, billed, entered>>
  BY DEF Round
<1>3. proc.stop = FALSE /\ proc.cur = 0
  BY <1>1, <1>2, ProcTyped DEF RestTyped, ProcFields, LoopInvariant
<1>4. \/ /\ proc'.pc = "finish" /\ proc'.todo = {} /\ ~proc'.stop
         /\ proc'.cur = 0
      \/ /\ proc'.pc = "next" /\ proc'.todo = Ready /\ ~proc'.recovering
         /\ proc'.cur = 0 /\ proc'.stop = proc.stop
  <2>1. proc \in Process
    BY <1>1 DEF RestTyped
  <2>2. CASE proc' = [Idle EXCEPT !.pc = "finish"]
    BY <2>2 DEF Idle
  <2>3. CASE proc' = [proc EXCEPT !.recovering = FALSE, !.todo = Ready]
    BY <1>2, <1>3, <2>1, <2>3 DEF Process
  <2> QED
    BY <2>2, <2>3 DEF Round
<1>5. LoopInvariant'
  BY <1>2, <1>3, <1>4, NodesFinite DEF LoopInvariant, ToolPlaces, UnderWay, Ready
<1>6. NodeInvariant'
  BY <1>2, <1>4, NoNode DEF NotAt, RowPlaces
<1> QED
  BY <1>1, <1>5, <1>6, TypeParts

\* A node of the second loop is settled, suspended or admitted, or the loop is stopped.
LEMMA AdmitStep ==
  ASSUME RunHolds, Admit
  PROVE  RunHolds'
<1> USE DEF RunHolds
<1>1. RestTyped /\ NodesTyped /\ RestTyped'
  BY TypeParts, WorkTypes DEF Work
<1> PICK n \in Nodes : n = Min(proc.todo) /\ n \in proc.todo
  BY <1>1, MinIsMember, ProcTyped DEF Admit, RestTyped, ProcFields
<1>2. /\ proc.pc = "next" /\ ~proc.recovering /\ n \in proc.todo
      /\ UNCHANGED <<rows, attempts, run, billed, entered>>
  BY DEF Admit
<1>3. proc \in Process /\ proc.cur = 0
  BY <1>1, <1>2 DEF RestTyped, LoopInvariant
<1> DEFINE passed == [proc EXCEPT !.todo = @ \ {n}]
<1>4. \/ StopRun /\ UNCHANGED node
      \/ /\ n \notin Tools \cup Models
         /\ node' = [node EXCEPT ![n].status = "completed"] /\ proc' = passed
      \/ /\ n \in NeedsApproval
         /\ node' = [node EXCEPT ![n].status = "awaiting_approval"] /\ proc' = passed
      \/ /\ n \in (Tools \cup Models) \ NeedsApproval /\ node' = Admitted(n)
         /\ proc' = [passed EXCEPT !.cur = n, !.pc = IF n \in Tools THEN "tool" ELSE "model"]
  BY DEF Admit
<1>5. /\ proc' = passed => /\ proc'.pc = "next" /\ ~proc'.recovering /\ proc'.stop = proc.stop
                           /\ proc'.todo = proc.todo \ {n} /\ proc'.cur = 0
      /\ proc' = [passed EXCEPT !.cur = n, !.pc = IF n \in Tools THEN "tool" ELSE "model"]
           => /\ proc'.pc = IF n \in Tools THEN "tool" ELSE "model"
              /\ ~proc'.recovering /\ proc'.stop = proc.stop
              /\ proc'.todo = proc.todo \ {n} /\ proc'.cur = n
  BY <1>2, <1>3 DEF Process
<1> HIDE DEF passed
<1>6. /\ node[n].status = "pending" /\ ~UnderWay(n) /\ NotBegun(n) /\ node[n].used = 0
      /\ run \in {"running", "awaiting_approval"} /\ run \notin Terminal /\ run # "succeeded"
      /\ AnyNode(n)
  BY <1>2 DEF LoopInvariant, UnderWay, NotBegun, NodeInvariant, AnyNode, Terminal
<1>7. n \in Tools => Attempts(n) /\ ToolNode(n) /\ rows[n].state = "none" /\ AttemptNos(n) = {}
  BY <1>6 DEF NodeInvariant, ToolNode, Attempts, HasStarted
<1>8. /\ AttemptNos(n)' = AttemptNos(n) /\ UsageKnown(n)' = UsageKnown(n)
      /\ HasStarted(n)' = HasStarted(n) /\ Cardinality({}) = 0 /\ MaxUsage[n] \in Nat
  BY <1>1, <1>2, FS_EmptySet, NodeFields DEF AttemptNos, UsageKnown, HasStarted
<1>9. CASE StopRun /\ UNCHANGED node
  <2>1. proc'.pc = "finish" /\ proc'.todo = {} /\ proc'.cur = 0 /\ proc'.stop
    BY <1>9 DEF StopRun, Idle
  <2>2. LoopInvariant'
    BY <1>2, <1>6, <1>9, <2>1 DEF LoopInvariant, ToolPlaces, UnderWay
  <2>3. NodeInvariant'
    BY <1>2, <1>9, <2>1, NoNode DEF NotAt, RowPlaces
  <2> QED
    BY <1>1, <1>9, <2>2, <2>3, TypeParts, NodesStay
<1>10. ASSUME NEW s \in {"completed", "awaiting_approval"}, Moved(n, s, 0), proc' = passed,
              s = "awaiting_approval" => n \in Tools, s = "completed" => n \notin Tools \cup Models
       PROVE  RunHolds'
  <2>1. LoopInvariant'
    <3>1. \A m \in proc'.todo : m \in proc.todo /\ m \in Nodes /\ m # n
      BY <1>1, <1>5, <1>10, ProcTyped DEF ProcFields, RestTyped
    <3>2. \A m \in proc'.todo : node'[m].status = "pending"
      BY <1>2, <3>1, <1>10 DEF LoopInvariant, Moved
    <3>3. ~proc'.stop => \A m \in Nodes : node'[m].status = "admitted" => m \in proc'.todo
      BY <1>2, <1>3, <1>5, <1>10, NodesFinite DEF LoopInvariant, Moved
    <3>4. 0 \notin proc'.todo
      BY <3>1, NodesFinite
    <3>5. proc'.stop = proc.stop /\ ~proc.stop
      BY <1>2, <1>5, <1>10 DEF LoopInvariant
    <3> QED
      BY <1>2, <1>5, <1>6, <1>10, <3>2, <3>3, <3>4, <3>5 DEF LoopInvariant, ToolPlaces
  <2>2. NodeInvariant'
    <3>1. /\ \A d \in Tools \ {n} : SameRows(d) /\ SameNode(d) /\ NotAt(d)
          /\ \A m \in Nodes \ {n} : SameNode(m) /\ NotAt(m)
      BY <1>2, <1>5, <1>10, ToolsAreNodes DEF SameRows, SameNode, NotAt, RowPlaces, Moved
    <3>2. n \in Tools => Attempts(n)' /\ ToolNode(n)'
      <4>1. ASSUME n \in Tools PROVE Attempts(n)'
        BY <1>2, <1>5, <1>7, <1>8, <1>10, <4>1 DEF Attempts, RowPlaces
      <4>2. ASSUME n \in Tools PROVE ToolNode(n)'
        BY <1>2, <1>7, <1>8, <1>10, <4>2 DEF ToolNode, UnderWay, NotBegun, Moved
      <4> QED
        BY <4>1, <4>2
    <3>3. n \notin Models
      BY <1>10, ToolsAreNodes
    <3>4. AnyNode(n)'
      BY <1>2, <1>6, <1>10 DEF AnyNode, UnderWay, NotBegun, Moved
    <3> QED
      BY <3>1, <3>2, <3>3, <3>4, OneNode
  <2> QED
    BY <1>1, <1>10, <2>1, <2>2, TypeParts DEF Moved
<1>11. ASSUME n \in Tools \cup Models, Moved(n, "admitted", 0),
              proc' = [passed EXCEPT !.cur = n, !.pc = IF n \in Tools THEN "tool" ELSE "model"]
       PROVE  RunHolds'
  <2>1. /\ proc'.pc = IF n \in Tools THEN "tool" ELSE "model"
        /\ ~proc'.recovering /\ proc'.stop = proc.stop
        /\ proc'.todo = proc.todo \ {n} /\ proc'.cur = n
    BY <1>5, <1>11
  <2>2. LoopInvariant'
    <3>1. \A m \in proc'.todo : m \in proc.todo /\ m \in Nodes /\ m # n
      BY <1>1, <2>1, ProcTyped DEF ProcFields, RestTyped
    <3>2. \A m \in proc'.todo : node'[m].status = "pending"
      BY <1>2, <3>1, <1>11 DEF LoopInvariant, Moved
    <3>3. proc'.stop = proc.stop /\ ~proc.stop
      BY <1>2, <2>1 DEF LoopInvariant
    <3>4. \A m \in Nodes : node'[m].status = "admitted" => m \in proc'.todo \/ m = n
      BY <1>2, <1>3, <2>1, <3>3, <1>11, NodesFinite DEF LoopInvariant, Moved
    <3>5. node'[n].status = "admitted"
      BY <1>11 DEF Moved
    <3> QED
      BY <1>2, <1>6, <1>11, <2>1, <3>2, <3>3, <3>4, <3>5 DEF LoopInvariant, ToolPlaces, UnderWay
  <2>3. NodeInvariant'
    <3>1. /\ \A d \in Tools \ {n} : SameRows(d) /\ SameNode(d) /\ NotAt(d)
          /\ \A m \in Nodes \ {n} : SameNode(m) /\ NotAt(m)
      BY <1>2, <1>11, <2>1, ToolsAreNodes DEF SameRows, SameNode, NotAt, RowPlaces, Moved
    <3>2. n \in Tools => Attempts(n)' /\ ToolNode(n)'
      <4>1. ASSUME n \in Tools PROVE Attempts(n)'
        BY <1>2, <1>7, <1>8, <2>1, <4>1 DEF Attempts, RowPlaces
      <4>2. ASSUME n \in Tools PROVE ToolNode(n)'
        BY <1>2, <1>7, <1>8, <1>11, <4>2 DEF ToolNode, UnderWay, NotBegun, Moved
      <4> QED
        BY <4>1, <4>2
    <3>3. n \in Models => ModelNode(n)'
      <4>1. ASSUME n \in Models PROVE ModelNode(n)'
        <5>1. ModelNode(n) /\ n \notin Tools /\ entered[n] # 1
          BY <1>6, <4>1, ToolsAreNodes DEF NodeInvariant, ModelNode, Settled
        <5> QED
          BY <1>2, <1>11, <2>1, <5>1 DEF ModelNode, Moved
      <4> QED
        BY <4>1
    <3>4. AnyNode(n)'
      BY <1>2, <1>6, <1>11 DEF AnyNode, UnderWay, NotBegun, Moved
    <3> QED
      BY <3>1, <3>2, <3>3, <3>4, OneNode
  <2> QED
    BY <1>1, <1>11, <2>2, <2>3, TypeParts DEF Moved
<1>12. /\ node' = Admitted(n) => Moved(n, "admitted", 0)
       /\ \A s \in {"completed", "awaiting_approval"} :
            node' = [node EXCEPT ![n].status = s] => Moved(n, s, 0)
  BY <1>1, <1>2, <1>6, NodeMoves DEF NodeStatuses, Settled
<1>13. NeedsApproval \subseteq Tools
  BY ToolsAreNodes
<1> QED
  BY <1>4, <1>9, <1>10, <1>11, <1>12, <1>13

-----------------------------------------------------------------------------
(* _tool().                                                                *)

\* The node at hand is done with, one way or another, and the loop goes on.
LEMMA LoopProceeds ==
  ASSUME RunHolds, NEW n \in Nodes, n = proc.cur, NEW s \in {"unknown"} \cup Settled, NEW u,
         Moved(n, s, u), Proceed, UNCHANGED run
  PROVE  LoopInvariant' /\ proc'.pc = "next" /\ proc'.cur = 0 /\ \A m \in Nodes : NotAt(m)
<1> USE DEF RunHolds
<1>1. RestTyped /\ proc \in Process /\ proc.todo \subseteq Nodes
  BY TypeParts, ProcTyped DEF RestTyped, ProcFields
<1>2. /\ proc'.pc = "next" /\ proc'.cur = 0 /\ proc'.todo = proc.todo
      /\ proc'.recovering = proc.recovering /\ proc'.stop = proc.stop
  BY <1>1 DEF Proceed, Process
<1>3. /\ proc.cur # 0 /\ n \notin proc.todo
      /\ run \in {"running", "awaiting_approval"} /\ ~proc.stop
  BY <1>1, NodesFinite DEF LoopInvariant
<1>4. run' \notin Terminal /\ run' # "succeeded" /\ run' # "absent"
  BY <1>3 DEF Terminal
<1>5. /\ \A m \in proc'.todo : node'[m] = node[m]
      /\ \A m \in Nodes : node'[m].status = "admitted" => node[m].status = "admitted" /\ m # n
      /\ 0 \notin proc'.todo
  BY <1>1, <1>2, <1>3, NodesFinite DEF Moved, Settled
<1>6. LoopInvariant'
  <2>1. \A m \in proc'.todo : UnderWay(m)' = UnderWay(m) /\ node'[m] = node[m]
    BY <1>5 DEF UnderWay
  <2>2. \A m \in Nodes : node'[m].status = "admitted" => m \in proc'.todo
    BY <1>2, <1>3, <1>5 DEF LoopInvariant
  <2> QED
    BY <1>2, <1>3, <1>4, <1>5, <2>1, <2>2 DEF LoopInvariant, ToolPlaces
<1> QED
  BY <1>2, <1>6 DEF NotAt, RowPlaces

\* The loop is stopped, or an exception leaves it.
LEMMA LoopStops ==
  ASSUME RunHolds, StopRun \/ proc' = Idle, proc.pc # "idle",
         UNCHANGED <<rows, attempts, billed, node, entered, run>>
  PROVE  LoopInvariant' /\ NodeInvariant' /\ NodesTyped'
<1> USE DEF RunHolds
<1>1. \/ proc'.pc = "finish" /\ proc'.todo = {} /\ proc'.cur = 0 /\ proc'.stop
      \/ proc'.pc = "idle" /\ proc'.todo = {} /\ proc'.cur = 0 /\ ~proc'.stop
  <2>1. CASE StopRun
    BY <2>1 DEF StopRun, Idle
  <2>2. CASE proc' = Idle
    BY <2>2 DEF Idle
  <2> QED
    BY <2>1, <2>2
<1>2. LoopInvariant'
  BY <1>1 DEF LoopInvariant, ToolPlaces, UnderWay
<1>3. NodeInvariant'
  BY <1>1, NoNode DEF NotAt, RowPlaces
<1> QED
  BY <1>2, <1>3, TypeParts, NodesStay

\* _tool() goes on with its tool at another place.
LEMMA LoopStays ==
  ASSUME RunHolds, NEW c \in Tools, c = proc.cur, node[c].status = "admitted",
         proc'.pc \in ToolPlaces,
         UNCHANGED <<proc.cur, proc.todo, proc.recovering, proc.stop>>,
         UNCHANGED <<node, run>>
  PROVE  LoopInvariant' /\ NodesTyped' /\ \A m \in Nodes \ {c} : NotAt(m)
<1> USE DEF RunHolds
<1>1. /\ proc'.cur = c /\ proc'.todo = proc.todo /\ proc'.recovering = proc.recovering
      /\ proc'.stop = proc.stop /\ c # 0
  BY ToolsAreNodes
<1>2. proc.pc \notin {"idle", "next", "finish", "close"}
  BY <1>1 DEF LoopInvariant
<1>3. LoopInvariant'
  BY <1>1, <1>2 DEF LoopInvariant, ToolPlaces, UnderWay
<1> QED
  BY <1>1, <1>3, TypeParts, NodesStay DEF NotAt

\* A tool whose row was started is put in doubt and keeps its reservation.
LEMMA ToolInDoubt ==
  ASSUME RunHolds, NEW c \in Tools, c = proc.cur, UnderWay(c), HasStarted(c), MarkUnknown(c),
         UNCHANGED <<rows, attempts, billed, entered, run>>
  PROVE  LoopInvariant' /\ NodeInvariant' /\ NodesTyped'
<1> USE DEF RunHolds
<1>1. c \in Nodes /\ c \notin Models /\ NodesTyped /\ Attempts(c) /\ ToolNode(c) /\ AnyNode(c)
  BY ToolsAreNodes, TypeParts DEF NodeInvariant
<1>2. Moved(c, "unknown", LeastUsage(c)) /\ Proceed
  <2>1. LeastUsage(c) \in Nat
    BY <1>1, UsageCounts DEF Attempts
  <2> QED
    BY <1>1, <2>1, NodeMoves DEF MarkUnknown
<1>3. LoopInvariant' /\ proc'.pc = "next" /\ proc'.cur = 0 /\ \A m \in Nodes : NotAt(m)
  BY <1>1, <1>2, LoopProceeds
<1>4. AttemptNos(c)' = AttemptNos(c) /\ UsageKnown(c)' = UsageKnown(c) /\ HasStarted(c)'
  BY DEF AttemptNos, UsageKnown, HasStarted
<1>5. node'[c].status = "unknown"
  BY <1>2 DEF Moved
<1>6. Attempts(c)'
  BY <1>1, <1>3, <1>4 DEF Attempts, RowPlaces
<1>7. ToolNode(c)'
  BY <1>1, <1>4, <1>5 DEF ToolNode, UnderWay, NotBegun
<1>8. AnyNode(c)'
  BY <1>5 DEF AnyNode, UnderWay, NotBegun
<1>9. /\ \A d \in Tools \ {c} : SameRows(d) /\ SameNode(d) /\ NotAt(d)
      /\ \A m \in Nodes \ {c} : SameNode(m) /\ NotAt(m)
  BY <1>2, <1>3, ToolsAreNodes DEF SameRows, SameNode, Moved
<1> QED
  BY <1>1, <1>2, <1>3, <1>6, <1>7, <1>8, <1>9, OneNode DEF Moved

\* _tool() goes on with its tool, which stays admitted, at another place.
LEMMA ToolGoesOn ==
  ASSUME RunHolds, NEW c \in Tools, c = proc.cur, node[c].status = "admitted",
         proc'.pc \in ToolPlaces,
         UNCHANGED <<proc.cur, proc.todo, proc.recovering, proc.stop>>,
         UNCHANGED <<node, run>>,
         \A d \in Tools \ {c} : SameRows(d),
         \A m \in Nodes \ {c} : entered'[m] = entered[m],
         Attempts(c)', Cardinality(AttemptNos(c))' <= MaxUsage[c]
  PROVE  LoopInvariant' /\ NodeInvariant' /\ NodesTyped'
<1> USE DEF RunHolds
<1>1. LoopInvariant' /\ NodesTyped' /\ \A m \in Nodes \ {c} : NotAt(m)
  BY LoopStays
<1>2. c \in Nodes /\ c \notin Models /\ AnyNode(c)
  BY ToolsAreNodes DEF NodeInvariant
<1>3. ToolNode(c)'
  BY DEF ToolNode, UnderWay, NotBegun
<1>4. AnyNode(c)'
  BY <1>2 DEF AnyNode, UnderWay, NotBegun
<1>5. /\ \A d \in Tools \ {c} : SameRows(d) /\ SameNode(d) /\ NotAt(d)
      /\ \A m \in Nodes \ {c} : SameNode(m) /\ NotAt(m)
  BY <1>1, ToolsAreNodes DEF SameNode
<1> QED
  BY <1>1, <1>2, <1>3, <1>4, <1>5, OneNode

\* The row of the call settles its node, puts it in doubt, or lets it go on.
LEMMA TakeRowStep ==
  ASSUME RunHolds, TakeRow
  PROVE  RunHolds'
<1> USE DEF RunHolds
<1>1. RestTyped /\ NodesTyped /\ RestTyped'
  BY TypeParts, WorkTypes DEF Work
<1>2. PICK c \in Tools : c = proc.cur
  BY DEF TakeRow, LoopInvariant
<1>3. /\ proc.pc = "tool" /\ UnderWay(c) /\ c \in Nodes /\ c \notin Models
      /\ Attempts(c) /\ ToolNode(c) /\ AnyNode(c)
      /\ UNCHANGED <<attempts, run, billed, entered>>
      /\ proc \in Process /\ rows \in [Calls -> Row]
  BY <1>1, <1>2, ToolsAreNodes DEF TakeRow, LoopInvariant, NodeInvariant, RestTyped, JournalTypeOK
<1>4. SUFFICES LoopInvariant' /\ NodeInvariant' /\ NodesTyped'
  BY <1>1, TypeParts
<1>5. CASE /\ rows[c].state \in {"completed", "failed"} /\ UsageKnown(c) /\ UNCHANGED rows
           /\ Complete(c, rows[c].state = "completed", AttemptUsage(c))
  <2>1. /\ AttemptUsage(c) \in Nat /\ Cardinality(AttemptNos(c)) <= AttemptUsage(c)
    BY <1>3, <1>5, UsageCounts DEF Attempts
  <2>2. PICK s \in Settled : /\ Moved(c, s, AttemptUsage(c))
                             /\ s = "completed" => rows[c].state = "completed"
    BY <1>1, <1>3, <1>5, <2>1, CompleteMoves DEF Complete
  <2>3. LoopInvariant' /\ proc'.pc = "next" /\ proc'.cur = 0 /\ \A m \in Nodes : NotAt(m)
    BY <1>2, <1>3, <1>5, <2>2, LoopProceeds DEF Complete
  <2>4. AttemptNos(c)' = AttemptNos(c) /\ HasStarted(c)' = HasStarted(c)
    BY <1>3, <1>5 DEF AttemptNos, HasStarted
  <2>5. node'[c].status = s /\ node'[c].used = AttemptUsage(c)
    BY <2>2 DEF Moved
  <2>6. Attempts(c)'
    BY <1>3, <1>5, <2>3, <2>4 DEF Attempts, RowPlaces
  <2>7. ToolNode(c)'
    BY <1>5, <2>1, <2>2, <2>4, <2>5 DEF ToolNode, UnderWay, NotBegun, Settled
  <2>8. AnyNode(c)'
    BY <1>2, <2>5 DEF AnyNode, UnderWay, NotBegun, Settled
  <2>9. /\ \A d \in Tools \ {c} : SameRows(d) /\ SameNode(d) /\ NotAt(d)
        /\ \A m \in Nodes \ {c} : SameNode(m) /\ NotAt(m)
    BY <1>3, <1>5, <2>2, <2>3, ToolsAreNodes DEF SameRows, SameNode, Moved
  <2> QED
    BY <1>3, <2>2, <2>3, <2>6, <2>7, <2>8, <2>9, OneNode DEF Moved
<1>6. CASE HasStarted(c) /\ MarkUnknown(c) /\ UNCHANGED rows
  BY <1>2, <1>3, <1>6, ToolInDoubt
<1>7. CASE UNCHANGED <<rows, node>> /\ (StopRun \/ proc' = Idle)
  BY <1>3, <1>7, LoopStops
<1>8. CASE rows[c].state = "none" /\ UNCHANGED node /\ ClaimRow(c, 0) /\ GoTo("claimed")
  <2>1. rows'[c].state = "claimed" /\ \A d \in Tools \ {c} : rows'[d] = rows[d]
    BY <1>3, <1>8 DEF ClaimRow
  <2>2. proc'.pc = "claimed" /\ UNCHANGED <<proc.cur, proc.todo, proc.recovering, proc.stop>>
    BY <1>3, <1>8 DEF GoTo, Process
  <2>3. /\ node[c].status = "admitted" /\ AttemptNos(c) = {}
    BY <1>3, <1>8 DEF ToolNode, HasStarted, UnderWay, Attempts
  <2>4. AttemptNos(c)' = AttemptNos(c) /\ Cardinality(AttemptNos(c)) <= MaxUsage[c]
    BY <1>3 DEF AttemptNos, ToolNode
  <2>5. Attempts(c)'
    BY <1>3, <2>1, <2>2, <2>3, <2>4 DEF Attempts, RowPlaces
  <2>6. /\ \A d \in Tools \ {c} : SameRows(d)
        /\ \A m \in Nodes \ {c} : entered'[m] = entered[m]
    BY <1>3, <2>1 DEF SameRows
  <2> QED
    BY <1>2, <1>3, <1>8, <2>2, <2>3, <2>4, <2>5, <2>6, ToolGoesOn DEF ToolPlaces
<1>9. CASE rows[c].state = "claimed" /\ UNCHANGED node /\ Restart(c, 0) /\ GoTo("attempt")
  <2>1. rows'[c].state = "started" /\ \A d \in Tools \ {c} : rows'[d] = rows[d]
    BY <1>3, <1>9 DEF Restart, StartedRow, Row
  <2>2. proc'.pc = "attempt" /\ UNCHANGED <<proc.cur, proc.todo, proc.recovering, proc.stop>>
    BY <1>3, <1>9 DEF GoTo, Process
  <2>3. /\ node[c].status = "admitted" /\ AttemptNos(c) = {}
    BY <1>3, <1>9 DEF ToolNode, HasStarted, UnderWay, Attempts
  <2>4. AttemptNos(c)' = AttemptNos(c) /\ Cardinality(AttemptNos(c)) <= MaxUsage[c]
    BY <1>3 DEF AttemptNos, ToolNode
  <2>5. Attempts(c)'
    BY <1>3, <2>1, <2>2, <2>3, <2>4 DEF Attempts, RowPlaces
  <2>6. /\ \A d \in Tools \ {c} : SameRows(d)
        /\ \A m \in Nodes \ {c} : entered'[m] = entered[m]
    BY <1>3, <2>1 DEF SameRows
  <2> QED
    BY <1>2, <1>3, <1>9, <2>2, <2>3, <2>4, <2>5, <2>6, ToolGoesOn DEF ToolPlaces
<1>10. \/ /\ rows[c].state \in {"completed", "failed"} /\ UNCHANGED rows
          /\ IF UsageKnown(c) THEN Complete(c, rows[c].state = "completed", AttemptUsage(c))
             ELSE MarkUnknown(c)
       \/ rows[c].state \in {"started", "indeterminate"} /\ MarkUnknown(c) /\ UNCHANGED rows
       \/ UNCHANGED <<rows, node>> /\ (StopRun \/ proc' = Idle)
       \/ rows[c].state = "none" /\ UNCHANGED node /\ ClaimRow(c, 0) /\ GoTo("claimed")
       \/ rows[c].state = "claimed" /\ UNCHANGED node /\ Restart(c, 0) /\ GoTo("attempt")
  BY <1>2 DEF TakeRow, Raise
<1>11. rows[c].state \notin {"none", "claimed"} => HasStarted(c)
  BY DEF HasStarted
<1> QED
  BY <1>5, <1>6, <1>7, <1>8, <1>9, <1>10, <1>11

\* A row is marked started before its first attempt.
LEMMA StartRowStep ==
  ASSUME RunHolds, StartRow
  PROVE  RunHolds'
<1> USE DEF RunHolds
<1>1. RestTyped /\ NodesTyped /\ RestTyped'
  BY TypeParts, WorkTypes DEF Work
<1>2. PICK c \in Tools : c = proc.cur /\ node[c].status = "admitted"
  BY DEF StartRow, LoopInvariant, ToolPlaces
<1>3. /\ proc.pc = "claimed" /\ Attempts(c) /\ ToolNode(c) /\ UnderWay(c)
      /\ UNCHANGED <<attempts, run, node, billed, entered>>
      /\ proc \in Process /\ rows \in [Calls -> Row]
  BY <1>1, <1>2 DEF StartRow, NodeInvariant, RestTyped, JournalTypeOK, UnderWay
<1>4. rows'[c].state = "started" /\ \A d \in Tools \ {c} : rows'[d] = rows[d]
  BY <1>2, <1>3 DEF StartRow, MarkStarted, StartedRow, Row
<1>5. proc'.pc = "attempt" /\ UNCHANGED <<proc.cur, proc.todo, proc.recovering, proc.stop>>
  BY <1>3 DEF StartRow, GoTo, Process
<1>6. /\ AttemptNos(c)' = AttemptNos(c) /\ AttemptNos(c) = {}
      /\ Cardinality(AttemptNos(c)) <= MaxUsage[c]
  BY <1>2, <1>3 DEF AttemptNos, ToolNode, Attempts, HasStarted
<1>7. Attempts(c)'
  BY <1>3, <1>4, <1>5, <1>6 DEF Attempts, RowPlaces
<1>8. /\ \A d \in Tools \ {c} : SameRows(d)
      /\ \A m \in Nodes \ {c} : entered'[m] = entered[m]
  BY <1>3, <1>4 DEF SameRows
<1> QED
  BY <1>1, <1>2, <1>3, <1>5, <1>6, <1>7, <1>8, ToolGoesOn, TypeParts DEF ToolPlaces

\* An attempt is added only where the cost of all earlier ones is known and the next
\* still fits the declaration.
LEMMA BeginAttemptStep ==
  ASSUME RunHolds, BeginAttempt
  PROVE  RunHolds'
<1> USE DEF RunHolds
<1>1. RestTyped /\ NodesTyped /\ RestTyped'
  BY TypeParts, WorkTypes DEF Work
<1>2. PICK c \in Tools : c = proc.cur /\ node[c].status = "admitted"
  BY DEF BeginAttempt, LoopInvariant, ToolPlaces
<1>3. /\ proc.pc = "attempt" /\ Attempts(c) /\ ToolNode(c) /\ UnderWay(c)
      /\ UNCHANGED <<rows, run, billed, entered>>
      /\ proc \in Process /\ attempts \in [Calls -> SUBSET AttemptRow]
      /\ rows[c].state = "started" /\ HasStarted(c) /\ c \in Nodes
      /\ \A a \in AttemptNos(c) : a \in 1..MaxAttempts /\ a < MaxAttempts
  BY <1>1, <1>2, ToolsAreNodes
     DEF BeginAttempt, NodeInvariant, RestTyped, JournalTypeOK, UnderWay, Attempts, HasStarted, RowPlaces
<1>4. CASE (StopRun \/ proc' = Idle) /\ UNCHANGED <<attempts, node>>
  BY <1>1, <1>3, <1>4, LoopStops, TypeParts
<1>5. CASE MarkUnknown(c) /\ UNCHANGED attempts
  BY <1>1, <1>2, <1>3, <1>5, ToolInDoubt, TypeParts
<1>6. ASSUME NEW last \in AttemptNos(c) \cup {0}, IsHighestAttempt(c, last),
             StartAttempt(c, last + 1), UsageKnown(c), NextAttemptFits(c),
             GoTo("enter"), UNCHANGED node
      PROVE  RunHolds'
  <2>1. /\ last \in Nat /\ last + 1 \in 1..MaxAttempts /\ last + 1 \notin AttemptNos(c)
        /\ \A a \in AttemptNos(c) : a <= last /\ a \in Nat
    BY <1>3, <1>6, JournalConstants DEF IsHighestAttempt
  <2>2. /\ AttemptNos(c)' = AttemptNos(c) \cup {last + 1}
        /\ \A d \in Tools \ {c} : attempts'[d] = attempts[d]
    <3>1. attempts'[c] = attempts[c] \cup {[no |-> last + 1, outcome |-> "open"]}
      BY <1>2, <1>3, <1>6 DEF StartAttempt
    <3>2. \A d \in Tools \ {c} : attempts'[d] = attempts[d]
      BY <1>3, <1>6 DEF StartAttempt
    <3>3. \A k : k \in AttemptNos(c)' => k \in AttemptNos(c) \cup {last + 1}
      BY <3>1 DEF AttemptNos
    <3>4. \A k \in AttemptNos(c) : k \in AttemptNos(c)'
      BY <3>1 DEF AttemptNos
    <3>5. last + 1 \in AttemptNos(c)'
      <4>1. /\ [no |-> last + 1, outcome |-> "open"] \in attempts'[c]
            /\ [no |-> last + 1, outcome |-> "open"].no = last + 1
        BY <3>1
      <4> QED
        BY <4>1 DEF AttemptNos
    <3> QED
      BY <3>2, <3>3, <3>4, <3>5
  <2>3. /\ IsFiniteSet(AttemptNos(c)) /\ Cardinality(AttemptNos(c)) \in Nat
        /\ Cardinality(AttemptNos(c)) <= AttemptUsage(c) /\ AttemptUsage(c) \in Nat
    BY <1>3, <1>6, UsageCounts, NodesFinite, FS_Subset DEF Attempts
  <2>4. Cardinality(AttemptNos(c))' = Cardinality(AttemptNos(c)) + 1
    <3>1. Cardinality(AttemptNos(c) \cup {last + 1}) = Cardinality(AttemptNos(c)) + 1
      BY <2>1, <2>3, FS_AddElement
    <3> QED
      BY <2>2, <3>1
  <2>5. Cardinality(AttemptNos(c))' <= MaxUsage[c]
    BY <1>1, <1>3, <1>6, <2>3, <2>4, NodeFields DEF NextAttemptFits
  <2>6. proc'.pc = "enter" /\ UNCHANGED <<proc.cur, proc.todo, proc.recovering, proc.stop>>
    BY <1>3, <1>6 DEF GoTo, Process
  <2>7. \A a, b \in AttemptNos(c)' : billed[c][a] = 0 => b <= a
    <3>1. \A a \in AttemptNos(c) : billed[c][a] # 0
      <4>1. \A a \in AttemptNos(c) : billed[c][a] > 0
        BY <1>6 DEF UsageKnown
      <4> QED
        BY <4>1
    <3>2. \A b \in AttemptNos(c)' : b <= last + 1
      BY <2>1, <2>2
    <3> QED
      BY <2>2, <3>1, <3>2
  <2>8. entered[c] <= Cardinality(AttemptNos(c)) /\ entered[c] \in Nat
    BY <1>1, <1>2, <1>3, JournalConstants DEF Attempts, RestTyped
  <2>9. Attempts(c)'
    <3>1. AttemptNos(c)' \subseteq 1..MaxAttempts
      BY <1>3, <2>1, <2>2
    <3>2. HasStarted(c)' /\ rows'[c].state = "started"
      BY <1>3 DEF HasStarted
    <3>3. entered'[c] < Cardinality(AttemptNos(c))' /\ entered'[c] <= Cardinality(AttemptNos(c))'
      BY <1>3, <2>3, <2>4, <2>8
    <3> QED
      BY <1>3, <2>6, <2>7, <3>1, <3>2, <3>3 DEF Attempts
  <2>10. /\ \A d \in Tools \ {c} : SameRows(d)
         /\ \A m \in Nodes \ {c} : entered'[m] = entered[m]
    BY <1>3, <2>2 DEF SameRows
  <2> QED
    BY <1>1, <1>2, <1>3, <1>6, <2>5, <2>6, <2>9, <2>10, ToolGoesOn, TypeParts DEF ToolPlaces
<1> QED
  BY <1>2, <1>4, <1>5, <1>6 DEF BeginAttempt, Raise

\* The tool is entered for the attempt just recorded, the provider after its marker.
LEMMA EnterStep ==
  ASSUME RunHolds, EnterTool \/ EnterModel
  PROVE  RunHolds'
<1> USE DEF RunHolds
<1>1. RestTyped /\ NodesTyped /\ RestTyped' /\ NodesTyped'
  BY TypeParts, WorkTypes, NodesStay DEF Work, EnterTool, EnterModel
<1>2. /\ proc.pc \in {"enter", "sending"} /\ proc.cur \in Nodes
      /\ UNCHANGED <<rows, attempts, run, node, billed>>
      /\ proc \in Process /\ entered \in [Nodes -> 0..MaxAttempts]
  BY <1>1, ToolsAreNodes DEF EnterTool, EnterModel, RestTyped, LoopInvariant, ToolPlaces
<1>3. PICK k \in Nodes : k = proc.cur
  BY <1>2
<1>4. /\ entered'[k] = entered[k] + 1 /\ entered[k] \in Nat
      /\ \A m \in Nodes \ {k} : entered'[m] = entered[m]
  BY <1>2, <1>3, JournalConstants DEF EnterTool, EnterModel
<1>5. /\ proc'.pc = IF proc.pc = "enter" THEN "body" ELSE "asked"
      /\ UNCHANGED <<proc.cur, proc.todo, proc.recovering, proc.stop>>
  BY <1>2 DEF EnterTool, EnterModel, GoTo, Process
<1>6. CASE proc.pc = "enter"
  <2>1. /\ k \in Tools /\ node[k].status = "admitted" /\ Attempts(k) /\ ToolNode(k) /\ UnderWay(k)
    BY <1>3, <1>6 DEF LoopInvariant, ToolPlaces, NodeInvariant, UnderWay
  <2>2. AttemptNos(k)' = AttemptNos(k) /\ HasStarted(k)' = HasStarted(k)
    BY <1>2 DEF AttemptNos, HasStarted
  <2>3. Cardinality(AttemptNos(k)) \in Nat
    BY <2>1, UsageCounts DEF Attempts
  <2>4. entered[k] < Cardinality(AttemptNos(k)) /\ AttemptNos(k) # {}
    <3>1. Cardinality({}) = 0
      BY FS_EmptySet
    <3>2. entered[k] < Cardinality(AttemptNos(k))
      BY <1>3, <1>6, <2>1 DEF Attempts
    <3> QED
      BY <1>4, <2>3, <3>1, <3>2
  <2>5. Attempts(k)'
    BY <1>2, <1>3, <1>4, <1>5, <1>6, <2>1, <2>2, <2>3, <2>4 DEF Attempts, RowPlaces
  <2>6. Cardinality(AttemptNos(k))' <= MaxUsage[k]
    BY <2>1, <2>2 DEF ToolNode
  <2>7. \A d \in Tools \ {k} : SameRows(d)
    BY <1>2 DEF SameRows
  <2> QED
    BY <1>1, <1>2, <1>3, <1>4, <1>5, <1>6, <2>1, <2>5, <2>6, <2>7, ToolGoesOn, TypeParts
       DEF ToolPlaces
<1>7. CASE proc.pc = "sending"
  <2>1. /\ k \in Models /\ node[k].status = "unknown" /\ ModelNode(k) /\ AnyNode(k)
        /\ entered[k] = 0 /\ node[k].used >= 1 /\ k \notin Tools
    BY <1>3, <1>7, ToolsAreNodes DEF LoopInvariant, NodeInvariant, ModelNode
  <2>2. proc'.pc = "asked" /\ proc'.cur = k
    BY <1>3, <1>5, <1>7
  <2>3. LoopInvariant'
    BY <1>2, <1>3, <1>5, <1>7, <2>1, <2>2 DEF LoopInvariant, ToolPlaces, UnderWay
  <2>4. ModelNode(k)'
    BY <1>2, <1>4, <2>1, <2>2 DEF ModelNode
  <2>5. AnyNode(k)'
    BY <1>2, <2>1 DEF AnyNode, UnderWay, NotBegun
  <2>6. /\ \A d \in Tools \ {k} : SameRows(d) /\ SameNode(d) /\ NotAt(d)
        /\ \A m \in Nodes \ {k} : SameNode(m) /\ NotAt(m)
    BY <1>2, <1>4, <2>2, ToolsAreNodes DEF SameRows, SameNode, NotAt
  <2>7. NodeInvariant'
    BY <2>1, <2>4, <2>5, <2>6, OneNode
  <2> QED
    BY <1>1, <2>3, <2>7, TypeParts
<1> QED
  BY <1>2, <1>6, <1>7

\* Only the newest attempt is finished, whatever is learnt of its cost.
LEMMA ToolReturnsStep ==
  ASSUME RunHolds, ToolReturns
  PROVE  RunHolds'
<1> USE DEF RunHolds
<1>1. RestTyped /\ NodesTyped /\ RestTyped'
  BY TypeParts, WorkTypes DEF Work
<1>2. PICK c \in Tools : c = proc.cur /\ node[c].status = "admitted"
  BY DEF ToolReturns, LoopInvariant, ToolPlaces
<1>3. /\ proc.pc = "body" /\ Attempts(c) /\ ToolNode(c) /\ UnderWay(c)
      /\ UNCHANGED <<rows, run, node, entered>>
      /\ proc \in Process /\ attempts \in [Calls -> SUBSET AttemptRow]
      /\ billed \in [Tools -> [1..MaxAttempts -> Nat]]
      /\ rows[c].state = "started" /\ HasStarted(c)
  BY <1>1, <1>2
     DEF ToolReturns, NodeInvariant, RestTyped, JournalTypeOK, UnderWay, Attempts, HasStarted, RowPlaces
<1>4. PICK o \in Outputs, cost \in Charges \cup {0}, no \in AttemptNos(c) :
        /\ IsHighestAttempt(c, no)
        /\ FinishAttempt(c, no, o)
        /\ billed' = [billed EXCEPT ![c][no] = cost]
        /\ proc' = [proc EXCEPT !.out = o, !.pc = IF Retries(c, o, no) THEN "attempt" ELSE "settle"]
  BY <1>2 DEF ToolReturns
<1>5. no \in 1..MaxAttempts /\ \A a \in AttemptNos(c) : a <= no /\ a \in 1..MaxAttempts
  BY <1>3, <1>4 DEF Attempts, IsHighestAttempt
<1>6. /\ AttemptNos(c)' = AttemptNos(c)
      /\ \A d \in Tools \ {c} : attempts'[d] = attempts[d] /\ billed'[d] = billed[d]
      /\ \A a \in AttemptNos(c) \ {no} : billed'[c][a] = billed[c][a]
  <2>1. attempts'[c] = (attempts[c] \ {[no |-> no, outcome |-> "open"]})
                         \cup {[no |-> no, outcome |-> AttemptOutcome(o)]}
    BY <1>2, <1>3, <1>4 DEF FinishAttempt
  <2>2. AttemptNos(c)' = AttemptNos(c)
    <3>1. \A k : k \in AttemptNos(c)' => k \in AttemptNos(c)
      BY <2>1 DEF AttemptNos
    <3>2. ASSUME NEW k \in AttemptNos(c) PROVE k \in AttemptNos(c)'
      <4>1. PICK a \in attempts[c] : a.no = k
        BY DEF AttemptNos
      <4>2. CASE k = no
        <5>1. [no |-> no, outcome |-> AttemptOutcome(o)] \in attempts'[c]
          BY <2>1
        <5>2. [no |-> no, outcome |-> AttemptOutcome(o)].no = k
          BY <4>2
        <5> QED
          BY <5>1, <5>2 DEF AttemptNos
      <4>3. CASE k # no
        <5>1. a # [no |-> no, outcome |-> "open"]
          BY <4>1, <4>3
        <5>2. a \in attempts'[c]
          BY <2>1, <4>1, <5>1
        <5> QED
          BY <4>1, <5>2 DEF AttemptNos
      <4> QED
        BY <4>2, <4>3
    <3> QED
      BY <3>1, <3>2
  <2>3. \A d \in Tools \ {c} : attempts'[d] = attempts[d]
    BY <1>3, <1>4 DEF FinishAttempt
  <2>4. /\ billed \in [Tools -> [1..MaxAttempts -> Nat]] /\ billed[c] \in [1..MaxAttempts -> Nat]
        /\ billed' = [billed EXCEPT ![c][no] = cost]
    BY <1>3, <1>4
  <2>5. /\ \A d \in Tools \ {c} : billed'[d] = billed[d]
        /\ \A a \in (1..MaxAttempts) \ {no} : billed'[c][a] = billed[c][a]
    BY <2>4
  <2>6. \A a \in AttemptNos(c) \ {no} : billed'[c][a] = billed[c][a]
    <3>1. AttemptNos(c) \subseteq 1..MaxAttempts
      BY <1>5
    <3> QED
      BY <2>5, <3>1
  <2>7. \A d \in Tools \ {c} : attempts'[d] = attempts[d] /\ billed'[d] = billed[d]
    BY <2>3, <2>5
  <2> QED
    BY <2>2, <2>6, <2>7
<1>7. /\ proc'.pc = IF Retries(c, o, no) THEN "attempt" ELSE "settle"
      /\ UNCHANGED <<proc.cur, proc.todo, proc.recovering, proc.stop>>
  BY <1>3, <1>4 DEF Process
<1>8. Attempts(c)'
  <2>1. \A a, b \in AttemptNos(c)' : billed'[c][a] = 0 => b <= a
    BY <1>3, <1>5, <1>6 DEF Attempts
  <2>2. proc'.pc = "attempt" => \A a \in AttemptNos(c) : a < MaxAttempts
    <3>1. proc'.pc = "attempt" => Retries(c, o, no)
      BY <1>7
    <3>2. Retries(c, o, no) => no < MaxAttempts
      BY DEF Retries, AttemptsLeft
    <3>3. MaxAttempts \in Nat
      BY JournalConstants
    <3> QED
      BY <1>5, <3>1, <3>2, <3>3
  <2>3. HasStarted(c)'
    BY <1>3 DEF HasStarted
  <2> QED
    BY <1>3, <1>6, <1>7, <2>1, <2>2, <2>3 DEF Attempts, RowPlaces
<1>9. Cardinality(AttemptNos(c))' <= MaxUsage[c]
  BY <1>3, <1>6 DEF ToolNode
<1>10. /\ \A d \in Tools \ {c} : SameRows(d)
       /\ \A m \in Nodes \ {c} : entered'[m] = entered[m]
  BY <1>3, <1>6 DEF SameRows
<1>11. proc'.pc \in ToolPlaces
  BY <1>7 DEF ToolPlaces
<1> QED
  BY <1>1, <1>2, <1>3, <1>7, <1>8, <1>9, <1>10, <1>11, ToolGoesOn, TypeParts

\* The row is settled by the last attempt, and is then taken up again.
LEMMA SettleRowStep ==
  ASSUME RunHolds, SettleRow
  PROVE  RunHolds'
<1> USE DEF RunHolds
<1>1. RestTyped /\ NodesTyped /\ RestTyped'
  BY TypeParts, WorkTypes DEF Work
<1>2. PICK c \in Tools : c = proc.cur /\ node[c].status = "admitted"
  BY DEF SettleRow, LoopInvariant, ToolPlaces
<1>3. /\ proc.pc = "settle" /\ Attempts(c) /\ ToolNode(c) /\ UnderWay(c)
      /\ UNCHANGED <<attempts, run, node, billed, entered>>
      /\ proc \in Process /\ rows \in [Calls -> Row]
  BY <1>1, <1>2 DEF SettleRow, NodeInvariant, RestTyped, JournalTypeOK, UnderWay
<1>4. /\ rows'[c].state \in {"completed", "failed", "indeterminate"}
      /\ \A d \in Tools \ {c} : rows'[d] = rows[d]
  <2>1. SettledState(c, proc.out) \in {"completed", "failed", "indeterminate"}
    BY DEF SettledState
  <2>2. rows'[c].state = SettledState(c, proc.out) /\ \A d \in Tools \ {c} : rows'[d] = rows[d]
    BY <1>2, <1>3 DEF SettleRow, Settle, Row
  <2> QED
    BY <2>1, <2>2
<1>5. proc'.pc = "tool" /\ UNCHANGED <<proc.cur, proc.todo, proc.recovering, proc.stop>>
  BY <1>3 DEF SettleRow, Process
<1>6. AttemptNos(c)' = AttemptNos(c) /\ Cardinality(AttemptNos(c)) <= MaxUsage[c]
  BY <1>3 DEF AttemptNos, ToolNode
<1>7. Attempts(c)'
  BY <1>3, <1>4, <1>5, <1>6 DEF Attempts, RowPlaces, HasStarted
<1>8. /\ \A d \in Tools \ {c} : SameRows(d)
      /\ \A m \in Nodes \ {c} : entered'[m] = entered[m]
  BY <1>3, <1>4 DEF SameRows
<1> QED
  BY <1>1, <1>2, <1>3, <1>5, <1>6, <1>7, <1>8, ToolGoesOn, TypeParts DEF ToolPlaces

-----------------------------------------------------------------------------
(* _model().                                                               *)

\* A model node is settled or put in doubt, and counts the request that was sent.
LEMMA ModelProceeds ==
  ASSUME RunHolds, NEW n \in Models, n = proc.cur, NEW s \in {"unknown"} \cup Settled,
         NEW u \in Nat, Moved(n, s, u), entered[n] <= u, s = "unknown" => u >= 1, Proceed,
         UNCHANGED <<rows, attempts, billed, entered, run>>
  PROVE  LoopInvariant' /\ NodeInvariant' /\ NodesTyped'
<1> USE DEF RunHolds
<1>1. /\ n \in Nodes /\ n \notin Tools /\ ModelNode(n) /\ AnyNode(n)
      /\ entered[n] \in 0..MaxAttempts /\ MaxAttempts \in Nat
  BY ToolsAreNodes, JournalConstants, TypeParts DEF NodeInvariant, RestTyped
<1>2. LoopInvariant' /\ proc'.pc = "next" /\ proc'.cur = 0 /\ \A m \in Nodes : NotAt(m)
  BY <1>1, LoopProceeds
<1>3. node'[n].status = s /\ node'[n].used = u
  BY DEF Moved
<1>4. ModelNode(n)'
  BY <1>1, <1>2, <1>3 DEF ModelNode
<1>5. AnyNode(n)'
  BY <1>1, <1>3 DEF AnyNode, UnderWay, NotBegun, Settled
<1>6. /\ \A d \in Tools \ {n} : SameRows(d) /\ SameNode(d) /\ NotAt(d)
      /\ \A m \in Nodes \ {n} : SameNode(m) /\ NotAt(m)
  BY <1>2, ToolsAreNodes DEF SameRows, SameNode, Moved
<1> QED
  BY <1>1, <1>2, <1>4, <1>5, <1>6, OneNode DEF Moved

\* The marker is durable before the request is sent.
LEMMA MarkSendingStep ==
  ASSUME RunHolds, MarkSending
  PROVE  RunHolds'
<1> USE DEF RunHolds
<1>1. RestTyped /\ NodesTyped /\ RestTyped'
  BY TypeParts, WorkTypes DEF Work
<1>2. PICK n \in Models : n = proc.cur /\ node[n].status = "admitted"
  BY DEF MarkSending, LoopInvariant
<1>3. /\ proc.pc = "model" /\ n \in Nodes /\ n \notin Tools /\ UnderWay(n)
      /\ ModelNode(n) /\ AnyNode(n) /\ proc \in Process
      /\ UNCHANGED <<rows, attempts, run, billed, entered>>
      /\ entered[n] \in 0..MaxAttempts /\ MaxAttempts \in Nat
  BY <1>1, <1>2, ToolsAreNodes, JournalConstants
     DEF MarkSending, NodeInvariant, RestTyped, UnderWay
<1>4. CASE StopRun /\ UNCHANGED node
  BY <1>1, <1>3, <1>4, LoopStops, TypeParts
<1>5. CASE node' = Sent(n) /\ GoTo("sending")
  <2>1. Moved(n, "unknown", 1)
    BY <1>1, <1>3, <1>5, NodeMoves
  <2>2. proc'.pc = "sending" /\ UNCHANGED <<proc.cur, proc.todo, proc.recovering, proc.stop>>
    BY <1>3, <1>5 DEF GoTo, Process
  <2>3. entered[n] = 0
    BY <1>2, <1>3 DEF ModelNode, Settled
  <2>4. node'[n].status = "unknown" /\ node'[n].used = 1
    BY <2>1 DEF Moved
  <2>5. LoopInvariant'
    <3>1. n \notin proc.todo /\ proc.todo \subseteq Nodes
      BY <1>1, <1>2, ProcTyped DEF LoopInvariant, RestTyped, ProcFields
    <3>2. \A m \in proc.todo : node'[m] = node[m] /\ UnderWay(m)' = UnderWay(m)
      BY <2>1, <3>1 DEF Moved, UnderWay
    <3>3. /\ run \in {"running", "awaiting_approval"} /\ run \notin Terminal
          /\ run # "succeeded" /\ run # "absent" /\ ~proc.stop
      BY <1>3 DEF LoopInvariant, Terminal
    <3>4. \A m \in Nodes : node'[m].status = "admitted" => m \in proc'.todo
      BY <1>2, <1>3, <2>1, <2>2, <2>4, <3>3 DEF LoopInvariant, Moved
    <3> QED
      BY <1>2, <1>3, <2>2, <2>4, <3>2, <3>3, <3>4 DEF LoopInvariant, ToolPlaces
  <2>6. ModelNode(n)'
    BY <1>3, <2>3, <2>4 DEF ModelNode
  <2>7. AnyNode(n)'
    BY <1>2, <1>3, <2>4 DEF AnyNode, UnderWay, NotBegun
  <2>8. /\ \A d \in Tools \ {n} : SameRows(d) /\ SameNode(d) /\ NotAt(d)
        /\ \A m \in Nodes \ {n} : SameNode(m) /\ NotAt(m)
    BY <1>2, <1>3, <2>1, <2>2, ToolsAreNodes DEF SameRows, SameNode, NotAt, Moved
  <2>9. NodeInvariant'
    BY <1>3, <2>6, <2>7, <2>8, OneNode
  <2> QED
    BY <1>1, <2>1, <2>5, <2>9, TypeParts DEF Moved
<1> QED
  BY <1>2, <1>4, <1>5 DEF MarkSending

\* A request that is refused was not sent.
LEMMA RefuseRequestStep ==
  ASSUME RunHolds, RefuseRequest
  PROVE  RunHolds'
<1> USE DEF RunHolds
<1>1. RestTyped /\ NodesTyped /\ RestTyped'
  BY TypeParts, WorkTypes DEF Work
<1>2. PICK n \in Models : n = proc.cur
  BY DEF RefuseRequest, LoopInvariant
<1>3. /\ entered[n] = 0 /\ n \in Nodes
      /\ UNCHANGED <<rows, attempts, run, billed, entered>>
  BY <1>2, ToolsAreNodes DEF RefuseRequest, NodeInvariant, ModelNode
<1>4. PICK s \in Settled : Moved(n, s, 0)
  <2>1. PICK ok \in BOOLEAN, used \in Nat : used = 0 /\ Complete(n, ok, used)
    BY <1>2 DEF RefuseRequest
  <2> QED
    BY <1>1, <1>3, <2>1, CompleteMoves DEF Complete
<1>5. Proceed /\ s # "unknown"
  BY DEF RefuseRequest, Complete, Settled
<1> QED
  BY <1>1, <1>2, <1>3, <1>4, <1>5, ModelProceeds, TypeParts

\* The answer settles the node at a cost of one call at least, or it stays in doubt.
LEMMA ModelReturnsStep ==
  ASSUME RunHolds, ModelReturns
  PROVE  RunHolds'
<1> USE DEF RunHolds
<1>1. RestTyped /\ NodesTyped /\ RestTyped'
  BY TypeParts, WorkTypes DEF Work
<1>2. PICK n \in Models : n = proc.cur /\ node[n].status = "unknown"
  BY DEF ModelReturns, LoopInvariant
<1>3. /\ n \in Nodes /\ n \notin Tools /\ UnderWay(n) /\ ModelNode(n)
      /\ entered[n] <= 1 /\ entered[n] \in Nat
      /\ node[n].used \in Nat /\ node[n].used >= 1
      /\ UNCHANGED <<rows, attempts, run, billed, entered>>
  BY <1>1, <1>2, ToolsAreNodes, NodeFields, JournalConstants
     DEF ModelReturns, NodeInvariant, ModelNode, UnderWay, RestTyped
<1>4. ASSUME NEW ok \in BOOLEAN, NEW cost \in Charges, Complete(n, ok, cost)
      PROVE  RunHolds'
  <2>1. cost \in Nat /\ cost >= 1
    BY OrchestrationConstants
  <2>2. PICK s \in Settled : Moved(n, s, cost)
    BY <1>1, <1>3, <1>4, <2>1, CompleteMoves DEF Complete
  <2>3. Proceed /\ s # "unknown" /\ entered[n] <= cost
    BY <1>3, <1>4, <2>1 DEF Complete, Settled
  <2> QED
    BY <1>1, <1>2, <1>3, <2>1, <2>2, <2>3, ModelProceeds, TypeParts
<1>5. CASE MarkUnknown(n)
  <2>1. LeastUsage(n) = node[n].used
    BY <1>3 DEF LeastUsage
  <2>2. Moved(n, "unknown", node[n].used) /\ Proceed
    BY <1>1, <1>3, <1>5, <2>1, NodeMoves DEF MarkUnknown
  <2>3. entered[n] <= node[n].used
    BY <1>3
  <2> QED
    BY <1>1, <1>2, <1>3, <2>2, <2>3, ModelProceeds, TypeParts
<1> QED
  BY <1>2, <1>4, <1>5 DEF ModelReturns

-----------------------------------------------------------------------------
(* _finish().                                                              *)

\* What the closing steps begin with changes nothing but the process.
LEMMA FinishStep ==
  ASSUME RunHolds, Finish
  PROVE  RunHolds'
<1> USE DEF RunHolds
<1>1. RestTyped /\ NodesTyped /\ RestTyped' /\ NodesTyped'
  BY TypeParts, WorkTypes, NodesStay DEF Work, Finish
<1>2. /\ proc.pc = "finish" /\ proc \in Process
      /\ UNCHANGED <<rows, attempts, run, node, billed, entered>>
  BY <1>1 DEF Finish, RestTyped
<1>3. /\ proc'.pc = "close" /\ proc'.stop = StopsRun
      /\ UNCHANGED <<proc.cur, proc.todo, proc.recovering>>
  BY <1>2 DEF Finish, Process
<1>4. proc.stop => proc'.stop
  BY <1>3 DEF StopsRun
<1>5. LoopInvariant'
  BY <1>2, <1>3, <1>4 DEF LoopInvariant, ToolPlaces, UnderWay
<1>6. NodeInvariant'
  BY <1>2, <1>3, NoNode DEF NotAt, RowPlaces
<1> QED
  BY <1>1, <1>5, <1>6, TypeParts

\* A tool that was begun is put in doubt before the run is closed.
LEMMA KeepOpenStep ==
  ASSUME RunHolds, KeepOpen
  PROVE  RunHolds'
<1> USE DEF RunHolds
<1>1. RestTyped /\ NodesTyped /\ RestTyped'
  BY TypeParts, WorkTypes DEF Work
<1>2. PICK c \in Tools : LeftOpen(c) /\ node' = InDoubt(c)
  BY DEF KeepOpen
<1>3. /\ proc.pc = "close" /\ proc.stop /\ proc.todo = {} /\ proc.cur = 0
      /\ run \in {"running", "awaiting_approval"}
      /\ UNCHANGED <<rows, attempts, run, proc, billed, entered>>
  BY DEF KeepOpen, LoopInvariant
<1>4. /\ c \in Nodes /\ c \notin Models /\ UnderWay(c) /\ Attempts(c) /\ ToolNode(c) /\ AnyNode(c)
  BY <1>2, ToolsAreNodes DEF LeftOpen, UnderWay, NodeInvariant
<1>5. HasStarted(c)
  <2>1. UsageKnown(c) \/ AttemptNos(c) # {}
    BY DEF UsageKnown
  <2> QED
    BY <1>2, <1>4, <2>1 DEF LeftOpen, Attempts, HasStarted
<1>6. Moved(c, "unknown", LeastUsage(c))
  <2>1. LeastUsage(c) \in Nat
    BY <1>4, UsageCounts DEF Attempts
  <2> QED
    BY <1>1, <1>2, <1>4, <2>1, NodeMoves
<1>7. node'[c].status = "unknown"
  BY <1>6 DEF Moved
<1>8. LoopInvariant'
  <2>1. run' \notin Terminal /\ run' # "succeeded" /\ run' # "absent"
    BY <1>3 DEF Terminal
  <2> QED
    BY <1>3, <2>1 DEF LoopInvariant, ToolPlaces
<1>9. /\ AttemptNos(c)' = AttemptNos(c) /\ UsageKnown(c)' = UsageKnown(c)
      /\ HasStarted(c)' = HasStarted(c)
  BY <1>3 DEF AttemptNos, UsageKnown, HasStarted
<1>10. Attempts(c)'
  BY <1>3, <1>4, <1>9 DEF Attempts, RowPlaces
<1>11. ToolNode(c)'
  BY <1>4, <1>5, <1>7, <1>9 DEF ToolNode, UnderWay, NotBegun
<1>12. AnyNode(c)'
  BY <1>7 DEF AnyNode, UnderWay, NotBegun
<1>13. /\ \A d \in Tools \ {c} : SameRows(d) /\ SameNode(d) /\ NotAt(d)
       /\ \A m \in Nodes \ {c} : SameNode(m) /\ NotAt(m)
  BY <1>3, <1>6, ToolsAreNodes DEF SameRows, SameNode, NotAt, RowPlaces, Moved
<1>14. NodeInvariant'
  BY <1>4, <1>10, <1>11, <1>12, <1>13, OneNode
<1> QED
  BY <1>1, <1>6, <1>8, <1>14, TypeParts DEF Moved

\* What closing a stopped run does to one node: unless the run goes on, what was not
\* settled is cancelled, and an admission that was begun counts what it cost.
LEMMA ClosedNode ==
  ASSUME RunHolds, NEW inDoubt \in BOOLEAN, node' = Closed(inDoubt), NEW n \in Nodes
  PROVE  /\ node'[n] \in Progress
         /\ node'[n].status = IF inDoubt \/ node[n].status \in Settled
                              THEN node[n].status ELSE "cancelled"
         /\ node'[n].used = IF n \in Tools /\ node[n].status = "admitted" /\ AttemptNos(n) # {}
                            THEN AttemptUsage(n) ELSE node[n].used
         /\ node'[n].reserved = Reservation(n, node'[n].status)
<1> USE DEF RunHolds
<1>1. /\ NodesTyped /\ node[n] \in Progress
      /\ node[n].status \in NodeStatuses /\ node[n].used \in Nat /\ node[n].reserved \in Nat
      /\ node[n].reserved = Reservation(n, node[n].status)
  BY TypeParts, NodeFields DEF NodesTyped
<1>2. n \in Tools => AttemptUsage(n) \in Nat
  BY UsageCounts DEF NodeInvariant, Attempts
<1> DEFINE u == IF n \in Tools /\ node[n].status = "admitted" /\ AttemptNos(n) # {}
                THEN AttemptUsage(n) ELSE node[n].used
<1>3. u \in Nat
  BY <1>1, <1>2
<1>4. PICK r \in Progress : /\ r.status = node[n].status /\ r.reserved = node[n].reserved
                            /\ r.used = u
                            /\ node'[n] = IF inDoubt \/ node[n].status \in Settled THEN r
                                          ELSE [r EXCEPT !.status = "cancelled", !.reserved = 0]
  <2>1. CASE n \in Tools /\ node[n].status = "admitted" /\ AttemptNos(n) # {}
    <3> DEFINE r == [node[n] EXCEPT !.used = AttemptUsage(n)]
    <3>1. /\ r \in Progress /\ r.status = node[n].status /\ r.reserved = node[n].reserved
          /\ r.used = u
      BY <1>1, <1>2, <2>1 DEF Progress
    <3>2. node'[n] = IF inDoubt \/ node[n].status \in Settled THEN r
                     ELSE [r EXCEPT !.status = "cancelled", !.reserved = 0]
      BY <2>1 DEF Closed
    <3> HIDE DEF r, u
    <3> QED
      BY <3>1, <3>2
  <2>2. CASE ~ (n \in Tools /\ node[n].status = "admitted" /\ AttemptNos(n) # {})
    BY <1>1, <2>2 DEF Closed
  <2> QED
    BY <2>1, <2>2
<1> HIDE DEF u
<1>5. CASE inDoubt \/ node[n].status \in Settled
  BY <1>1, <1>4, <1>5 DEF u
<1>6. CASE ~ (inDoubt \/ node[n].status \in Settled)
  <2>1. /\ node'[n] \in Progress /\ node'[n].status = "cancelled" /\ node'[n].used = u
        /\ node'[n].reserved = 0
    <3>1. node'[n] = [r EXCEPT !.status = "cancelled", !.reserved = 0]
      BY <1>4, <1>6
    <3>2. 0 \in Nat
      OBVIOUS
    <3> QED
      BY <1>3, <1>4, <3>1, <3>2 DEF Progress
  <2> QED
    BY <1>6, <2>1 DEF u, Reservation
<1> QED
  BY <1>5, <1>6

\* A run is closed over what its rows and nodes say, whatever the host has asked since.
LEMMA CloseStep ==
  ASSUME RunHolds, Close
  PROVE  RunHolds'
<1> USE DEF RunHolds
<1>1. RestTyped /\ NodesTyped /\ RestTyped'
  BY TypeParts, WorkTypes DEF Work
<1>2. /\ proc.pc = "close" /\ proc' = Idle /\ proc.todo = {} /\ proc.cur = 0
      /\ UNCHANGED <<rows, attempts, billed, entered>>
      /\ run \in {"running", "awaiting_approval"}
  BY DEF Close, LoopInvariant
<1>3. proc'.pc = "idle" /\ proc'.todo = {} /\ proc'.cur = 0 /\ ~proc'.stop
  BY <1>2 DEF Idle
<1>4. /\ run' # "absent"
      /\ "unknown" \in Statuses => run' = "running"
      /\ run' = "succeeded" => ~proc.stop /\ Statuses = {"completed"}
  BY DEF Close, Terminal
<1>5. \A n \in Nodes : node[n].status \in Statuses
  BY DEF Statuses
<1>6. CASE ~proc.stop
  <2>1. node' = node
    BY <1>6 DEF Close
  <2>2. \A n \in Nodes : node[n].status # "admitted"
    BY <1>2, <1>6, NodesFinite DEF LoopInvariant
  <2>3. run' \in Terminal => \A n \in Nodes : ~UnderWay(n)'
    BY <1>4, <1>5, <2>1, <2>2 DEF UnderWay, Terminal
  <2>4. run' = "succeeded" => \A n \in Nodes : node'[n].status = "completed"
    BY <1>4, <1>5, <2>1
  <2>5. LoopInvariant'
    BY <1>3, <1>4, <2>3, <2>4 DEF LoopInvariant, ToolPlaces
  <2>6. NodeInvariant'
    BY <1>2, <1>3, <2>1, NoNode DEF NotAt, RowPlaces
  <2> QED
    BY <1>1, <2>1, <2>5, <2>6, TypeParts, NodesStay
<1>7. CASE proc.stop
  <2> DEFINE d == "unknown" \in Statuses
  <2>1. node' = Closed(d) /\ d \in BOOLEAN /\ \A c \in Tools : ~LeftOpen(c)
    BY <1>7 DEF Close
  <2>2. d = ("unknown" \in Statuses)
    OBVIOUS
  <2> HIDE DEF d
  <2>3. \A n \in Nodes :
          /\ node'[n] \in Progress
          /\ node'[n].status = IF d \/ node[n].status \in Settled THEN node[n].status ELSE "cancelled"
          /\ node'[n].used = IF n \in Tools /\ node[n].status = "admitted" /\ AttemptNos(n) # {}
                             THEN AttemptUsage(n) ELSE node[n].used
          /\ node'[n].reserved = Reservation(n, node'[n].status)
    BY <2>1, ClosedNode
  <2>4. NodesTyped'
    <3>1. node' \in [Nodes -> Progress]
      <4>1. node' = [n \in Nodes |-> node'[n]]
        BY <2>1 DEF Closed
      <4> QED
        BY <2>3, <4>1
    <3> QED
      BY <2>3, <3>1 DEF NodesTyped, Reservation
  <2>5. ~d => \A n \in Nodes : node[n].status # "unknown"
    BY <1>5, <2>2
  <2>6. \A n \in Nodes : UnderWay(n)' => d /\ UnderWay(n) /\ node'[n].status = node[n].status
    BY <2>3 DEF UnderWay, Settled
  <2>7. LoopInvariant'
    <3>1. run' \in Terminal => \A n \in Nodes : ~UnderWay(n)'
      BY <1>4, <2>2, <2>6 DEF Terminal
    <3> QED
      BY <1>3, <1>4, <1>7, <3>1 DEF LoopInvariant, ToolPlaces
  <2>8. ASSUME NEW c \in Tools PROVE Attempts(c)' /\ ToolNode(c)'
    <3>1. c \in Nodes /\ c \notin Models /\ Attempts(c) /\ ToolNode(c) /\ ~LeftOpen(c)
      BY <2>1, ToolsAreNodes DEF NodeInvariant
    <3>2. /\ AttemptNos(c)' = AttemptNos(c) /\ UsageKnown(c)' = UsageKnown(c)
          /\ HasStarted(c)' = HasStarted(c) /\ rows'[c] = rows[c]
      BY <1>2 DEF AttemptNos, UsageKnown, HasStarted
    <3>3. Attempts(c)'
      BY <1>2, <1>3, <3>1, <3>2, ToolsAreNodes DEF Attempts, RowPlaces
    <3>4. AttemptNos(c) = {} => UsageKnown(c)
      BY DEF UsageKnown
    <3>5. ~d /\ node[c].status \notin Settled =>
            UsageKnown(c) /\ rows[c].state \notin {"started", "indeterminate"}
      <4>1. node[c].status \in NodeStatuses
        BY <1>1, <3>1, NodeFields
      <4>2. CASE node[c].status = "admitted"
        BY <3>1, <4>2 DEF LeftOpen
      <4>3. CASE NotBegun(c)
        BY <3>1, <3>4, <4>3 DEF ToolNode, Attempts, HasStarted
      <4>4. CASE node[c].status = "cancelled"
        BY <3>1, <4>4 DEF ToolNode
      <4> QED
        BY <2>5, <3>1, <4>1, <4>2, <4>3, <4>4 DEF NodeStatuses, NotBegun
    <3>6. ~UnderWay(c)' => Cardinality(AttemptNos(c)) <= node'[c].used
      <4>1. /\ UsageKnown(c) => Cardinality(AttemptNos(c)) <= AttemptUsage(c)
            /\ node[c].used \in Nat
        BY <1>1, <3>1, UsageCounts, NodeFields DEF Attempts
      <4>2. CASE ~UnderWay(c)
        BY <2>3, <3>1, <4>2 DEF ToolNode, UnderWay
      <4>3. CASE UnderWay(c) /\ d
        BY <2>3, <3>1, <4>3 DEF UnderWay
      <4>4. CASE UnderWay(c) /\ ~d
        <5>1. node[c].status = "admitted" /\ UsageKnown(c)
          BY <2>5, <3>1, <3>5, <4>4 DEF UnderWay, Settled
        <5>2. AttemptNos(c) = {} => Cardinality(AttemptNos(c)) = 0
          BY FS_EmptySet
        <5> QED
          BY <2>3, <3>1, <4>1, <5>1, <5>2
      <4> QED
        BY <4>2, <4>3, <4>4
    <3>7. NotBegun(c)' => NotBegun(c)
      BY <2>3, <3>1 DEF NotBegun
    <3>8. ToolNode(c)'
      <4>1. /\ node'[c].status = "unknown" => node[c].status = "unknown"
            /\ node'[c].status = "completed" => node[c].status = "completed"
            /\ node'[c].status = "failed" => node[c].status = "failed"
            /\ node'[c].status = "cancelled" =>
                 node[c].status = "cancelled" \/ (~d /\ node[c].status \notin Settled)
        BY <2>3, <3>1
      <4> QED
        BY <2>6, <3>1, <3>2, <3>5, <3>6, <3>7, <4>1 DEF ToolNode
    <3> QED
      BY <3>3, <3>8
  <2>9. ASSUME NEW n \in Models PROVE ModelNode(n)'
    <3>1. n \in Nodes /\ n \notin Tools /\ ModelNode(n)
      BY ToolsAreNodes DEF NodeInvariant
    <3>2. node'[n].used = node[n].used
      BY <2>3, <3>1
    <3>3. /\ node[n].status \in {"unknown"} \cup Settled => node'[n].status = node[n].status
          /\ node'[n].status = "unknown" => node[n].status = "unknown"
      BY <2>3, <2>5, <3>1
    <3> QED
      BY <1>2, <1>3, <3>1, <3>2, <3>3 DEF ModelNode
  <2>10. ASSUME NEW n \in Nodes PROVE AnyNode(n)'
    <3>1. AnyNode(n)
      BY DEF NodeInvariant
    <3>2. NotBegun(n)' => NotBegun(n) /\ node'[n].used = node[n].used
      BY <2>3 DEF NotBegun
    <3>3. node'[n].status = "awaiting_approval" => node[n].status = "awaiting_approval"
      BY <2>3
    <3> QED
      BY <1>2, <2>6, <3>1, <3>2, <3>3 DEF AnyNode
  <2>11. NodeInvariant'
    BY <2>8, <2>9, <2>10 DEF NodeInvariant
  <2> QED
    BY <1>1, <2>4, <2>7, <2>11, TypeParts
<1> QED
  BY <1>6, <1>7

-----------------------------------------------------------------------------
(* The invariant.                                                          *)

\* No node is begun at first.
LEMMA RunInit == OrchestrationInit => RunHolds
<1> SUFFICES ASSUME OrchestrationInit PROVE RunHolds
  OBVIOUS
<1>1. /\ node = [n \in Nodes |-> [status |-> "pending", used |-> 0, reserved |-> 0]]
      /\ entered = [n \in Nodes |-> 0] /\ proc = Idle /\ run = "absent"
      /\ \A c \in Tools : rows[c].state = "none" /\ attempts[c] = {}
      /\ MaxAttempts \in Nat /\ MaxCrashes \in Nat
  BY JournalConstants, OrchestrationConstants DEF OrchestrationInit, JournalInit, NoRow
<1>2. JournalTypeOK
  BY DEF OrchestrationInit, JournalInit, JournalTypeOK, Row, NoRow, RowStates, Results
<1>3. RestTyped
  <2>1. Idle \in Process
    BY DEF Idle, Process, Places, Outputs
  <2>2. /\ grant \in [Tools -> {"none", "live", "expired"}]
        /\ spent \in [Tools -> BOOLEAN]
        /\ billed \in [Tools -> [1..MaxAttempts -> Nat]]
    BY DEF OrchestrationInit
  <2>3. entered \in [Nodes -> 0..MaxAttempts]
    BY <1>1
  <2>4. /\ cancel \in BOOLEAN /\ late \in BOOLEAN /\ crashes \in 0..MaxCrashes
    <3>1. crashes = 0 /\ 0 \in 0..MaxCrashes
      BY <1>1 DEF OrchestrationInit
    <3> QED
      BY <3>1 DEF OrchestrationInit
  <2> QED
    BY <1>1, <1>2, <2>1, <2>2, <2>3, <2>4 DEF RestTyped
<1>4. \A n \in Nodes : node[n].status = "pending" /\ node[n].used = 0 /\ node[n].reserved = 0
                       /\ entered[n] = 0
  BY <1>1
<1>5. NodesTyped
  BY <1>1, <1>4 DEF NodesTyped, Progress, Reservation
<1>6. proc.pc = "idle" /\ proc.todo = {} /\ proc.cur = 0 /\ ~proc.stop
  BY <1>1 DEF Idle
<1>7. LoopInvariant
  BY <1>1, <1>4, <1>6 DEF LoopInvariant, ToolPlaces, UnderWay, Terminal
<1>8. NodeInvariant
  <2>1. ASSUME NEW c \in Tools PROVE Attempts(c) /\ ToolNode(c)
    <3>1. AttemptNos(c) = {} /\ Cardinality({}) = 0 /\ c \in Nodes /\ MaxUsage[c] \in Nat
      BY <1>1, FS_EmptySet, ToolsAreNodes, OrchestrationConstants DEF AttemptNos
    <3> QED
      BY <1>1, <1>4, <1>6, <3>1 DEF Attempts, ToolNode, HasStarted, NotBegun, UnderWay, RowPlaces
  <2>2. ASSUME NEW n \in Models PROVE ModelNode(n)
    BY <1>4, <1>6, ToolsAreNodes DEF ModelNode
  <2>3. ASSUME NEW n \in Nodes PROVE AnyNode(n)
    BY <1>4 DEF AnyNode, UnderWay, NotBegun
  <2> QED
    BY <2>1, <2>2, <2>3 DEF NodeInvariant
<1> QED
  BY <1>3, <1>5, <1>7, <1>8, TypeParts DEF RunHolds

\* Every step keeps it.
LEMMA RunStep ==
  ASSUME RunHolds, [OrchestrationNext]_orchestrationVars
  PROVE  RunHolds'
<1>1. CASE OrchestrationNext
  <2>1. CASE Work
    BY <2>1, ContinueStep, RoundStep, AdmitStep, TakeRowStep, StartRowStep, BeginAttemptStep,
       EnterStep, ToolReturnsStep, SettleRowStep, MarkSendingStep, RefuseRequestStep,
       ModelReturnsStep, FinishStep, KeepOpenStep, CloseStep DEF Work
  <2> QED
    BY <1>1, <2>1, OperationStep, ResumeApprovedStep, ReconcileStep DEF OrchestrationNext
<1>2. CASE UNCHANGED orchestrationVars
  <2> USE <1>2 DEF orchestrationVars, RunHolds
  <2>1. RestTyped'
    BY TypeParts DEF RestTyped, JournalTypeOK
  <2>2. NodesTyped'
    BY TypeParts, NodesStay
  <2>3. LoopInvariant'
    BY DEF LoopInvariant, UnderWay
  <2>4. NodeInvariant'
    <3>1. \A c \in Tools : Attempts(c)' /\ ToolNode(c)'
      BY DEF NodeInvariant, Attempts, ToolNode, AttemptNos, UsageKnown, HasStarted, UnderWay, NotBegun
    <3>2. \A n \in Models : ModelNode(n)'
      BY DEF NodeInvariant, ModelNode
    <3>3. \A n \in Nodes : AnyNode(n)'
      BY DEF NodeInvariant, AnyNode, UnderWay, NotBegun
    <3> QED
      BY <3>1, <3>2, <3>3 DEF NodeInvariant
  <2> QED
    BY <2>1, <2>2, <2>3, <2>4, TypeParts
<1> QED
  BY <1>1, <1>2

-----------------------------------------------------------------------------
(* The budget.                                                             *)

\* A node that is not admitted by the step takes no more of the budget than before: it
\* was under way, or it is not and what it used is the same.
TakesNoMore(n) ==
  \/ node'[n] = node[n]
  \/ UnderWay(n)
  \/ ~UnderWay(n)' /\ node'[n].used = node[n].used

\* The one that is was not under way, and there was room for its declaration.
IsAdmitted(n) ==
  /\ FitsLimit(n) /\ ~UnderWay(n)
  /\ \A m \in Nodes \ {n} : node'[m] = node[m]

\* A step that works on a node under way admits none.
LEMMA WorksOn ==
  ASSUME NodesTyped, NEW n \in Nodes, UnderWay(n),
         \E r : node' = [node EXCEPT ![n] = r]
  PROVE  \A m \in Nodes : TakesNoMore(m)
BY DEF TakesNoMore, NodesTyped

\* Every step admits one node that fits, or none.
LEMMA WhatIsTaken ==
  ASSUME RunHolds, [OrchestrationNext]_orchestrationVars
  PROVE  (\A n \in Nodes : TakesNoMore(n)) \/ (\E n \in Nodes : IsAdmitted(n))
<1> USE DEF RunHolds
<1>1. NodesTyped /\ node \in [Nodes -> Progress] /\ proc \in Process
  BY TypeParts DEF NodesTyped, RestTyped
<1>2. CASE UNCHANGED node
  BY <1>2 DEF TakesNoMore
<1>3. CASE TakeRow \/ BeginAttempt
  <2>1. PICK c \in Nodes : c = proc.cur /\ UnderWay(c)
    BY <1>3, ToolsAreNodes DEF TakeRow, BeginAttempt, LoopInvariant, ToolPlaces, UnderWay
  <2>2. UNCHANGED node \/ \E r : node' = [node EXCEPT ![c] = r]
    BY <1>3, <2>1 DEF TakeRow, BeginAttempt, Complete, MarkUnknown, InDoubt
  <2> QED
    BY <1>1, <1>2, <2>1, <2>2, WorksOn
<1>4. CASE MarkSending \/ RefuseRequest \/ ModelReturns
  <2>1. PICK n \in Nodes : n = proc.cur /\ UnderWay(n)
    BY <1>4, ToolsAreNodes DEF MarkSending, RefuseRequest, ModelReturns, LoopInvariant, UnderWay
  <2>2. UNCHANGED node \/ \E r : node' = [node EXCEPT ![n] = r]
    BY <1>4, <2>1 DEF MarkSending, RefuseRequest, ModelReturns, Complete, MarkUnknown, InDoubt, Sent
  <2> QED
    BY <1>1, <1>2, <2>1, <2>2, WorksOn
<1>5. CASE KeepOpen
  <2>1. PICK c \in Tools : LeftOpen(c) /\ node' = InDoubt(c)
    BY <1>5 DEF KeepOpen
  <2>2. c \in Nodes /\ UnderWay(c) /\ \E r : node' = [node EXCEPT ![c] = r]
    BY <2>1, ToolsAreNodes DEF LeftOpen, InDoubt, UnderWay
  <2> QED
    BY <1>1, <2>2, WorksOn
<1>6. ASSUME NEW n \in Nodes, Reconcile(n)
      PROVE  \A m \in Nodes : TakesNoMore(m)
  <2>1. UnderWay(n) /\ \E r : node' = [node EXCEPT ![n] = r]
    BY <1>6 DEF Reconcile, UnderWay
  <2> QED
    BY <1>1, <2>1, WorksOn
<1>7. ASSUME NEW n \in Nodes, ~UnderWay(n), FitsLimit(n), node' = Admitted(n)
      PROVE  IsAdmitted(n)
  BY <1>1, <1>7, NodeMoves DEF IsAdmitted, Moved
<1>8. CASE Admit
  <2>1. PICK n \in Nodes : n = Min(proc.todo) /\ n \in proc.todo
    BY <1>1, <1>8, MinIsMember, ProcTyped DEF Admit, ProcFields
  <2>2. node[n].status = "pending" /\ ~UnderWay(n)
    BY <1>8, <2>1 DEF Admit, LoopInvariant, UnderWay
  <2>3. \/ UNCHANGED node
        \/ \E s \in {"completed", "awaiting_approval"} : node' = [node EXCEPT ![n].status = s]
        \/ FitsLimit(n) /\ node' = Admitted(n)
    BY <1>8, <2>1 DEF Admit
  <2>4. ASSUME NEW s \in {"completed", "awaiting_approval"}, node' = [node EXCEPT ![n].status = s]
        PROVE  \A m \in Nodes : TakesNoMore(m)
    <3>1. Moved(n, s, node[n].used)
      BY <1>1, <2>2, <2>4, NodeMoves DEF NodeStatuses, Settled
    <3> QED
      BY <2>4, <3>1 DEF Moved, TakesNoMore, UnderWay
  <2> QED
    BY <1>2, <1>7, <2>2, <2>3, <2>4
<1>9. ASSUME NEW c \in Tools, ResumeApproved(c)
      PROVE  UNCHANGED node \/ IsAdmitted(c)
  <2>1. c \in Nodes /\ ~UnderWay(c)
    BY <1>9, ToolsAreNodes DEF ResumeApproved, UnderWay
  <2>2. UNCHANGED node \/ (FitsLimit(c) /\ node' = Admitted(c))
    BY <1>9 DEF ResumeApproved
  <2> QED
    BY <1>7, <2>1, <2>2
<1>10. CASE Close
  <2>1. CASE proc.stop
    <3> DEFINE d == "unknown" \in Statuses
    <3>1. node' = Closed(d) /\ d \in BOOLEAN
      BY <1>10, <2>1 DEF Close
    <3> HIDE DEF d
    <3>2. ASSUME NEW n \in Nodes PROVE TakesNoMore(n)
      <4>1. /\ node'[n].status = IF d \/ node[n].status \in Settled
                                 THEN node[n].status ELSE "cancelled"
            /\ node'[n].used = IF n \in Tools /\ node[n].status = "admitted" /\ AttemptNos(n) # {}
                               THEN AttemptUsage(n) ELSE node[n].used
        BY <3>1, ClosedNode
      <4> QED
        BY <4>1 DEF TakesNoMore, UnderWay
    <3> QED
      BY <3>2
  <2> QED
    BY <1>2, <1>10, <2>1 DEF Close
<1>11. ASSUME NEW c \in Tools, Approve(c) \/ ExpireGrant(c) PROVE UNCHANGED node
  BY <1>11 DEF Approve, ExpireGrant
<1>12. \/ UNCHANGED node \/ TakeRow \/ BeginAttempt \/ MarkSending \/ RefuseRequest
       \/ ModelReturns \/ KeepOpen \/ Close \/ Admit
       \/ (\E n \in Nodes : Reconcile(n)) \/ (\E c \in Tools : ResumeApproved(c))
  BY <1>11 DEF OrchestrationNext, Work, Start, Resume, Cancel, PassDeadline, Crash, Continue, Round,
       StartRow, EnterTool, EnterModel, ToolReturns, SettleRow, Finish, orchestrationVars
<1> QED
  BY <1>2, <1>3, <1>4, <1>5, <1>6, <1>8, <1>9, <1>10, <1>12, ToolsAreNodes

\* What a node takes is counted in what it holds; the rest is what it cost beyond its
\* declaration.
LEMMA HeldAndCommitted ==
  ASSUME NodesTyped, NEW n \in Nodes
  PROVE  /\ Committed(n) \in Nat /\ Held(n) \in Nat
         /\ Max({0, node[n].used - MaxUsage[n]}) \in Nat
         /\ Held(n) = Committed(n) + Max({0, node[n].used - MaxUsage[n]})
         /\ Held(n) >= node[n].used /\ Held(n) >= Committed(n)
         /\ UnderWay(n) => Held(n) >= MaxUsage[n]
<1>1. /\ node[n].used \in Nat /\ node[n].reserved \in Nat /\ MaxUsage[n] \in Nat
      /\ node[n].reserved = Reservation(n, node[n].status)
  BY NodeFields
<1>2. node[n].used - MaxUsage[n] \in Int /\ 0 \in Int
  BY <1>1
<1>3. Max({0, node[n].used - MaxUsage[n]})
        = IF 0 >= node[n].used - MaxUsage[n] THEN 0 ELSE node[n].used - MaxUsage[n]
  BY <1>2, MaxOfTwo
<1>4. Max({node[n].used, node[n].reserved})
        = IF node[n].used >= node[n].reserved THEN node[n].used ELSE node[n].reserved
  BY <1>1, MaxOfTwo
<1>5. CASE UnderWay(n)
  BY <1>1, <1>3, <1>4, <1>5 DEF Held, Committed, UnderWay, Reservation
<1>6. CASE ~UnderWay(n)
  BY <1>1, <1>3, <1>6 DEF Held, Committed, UnderWay, Lesser
<1> QED
  BY <1>5, <1>6

\* The budget is taken by admission only, and only where there is room.
LEMMA LimitStep ==
  ASSUME RunHolds, RunHolds', WithinLimit, [OrchestrationNext]_orchestrationVars
  PROVE  WithinLimit'
<1> DEFINE before == [n \in Nodes |-> Committed(n)]
           after  == [n \in Nodes |-> Committed(n)']
           held   == [n \in Nodes |-> Held(n)]
<1>1. NodesTyped /\ NodesTyped' /\ IsFiniteSet(Nodes) /\ UsageLimit \in Nat
  BY TypeParts, NodesFinite, OrchestrationConstants DEF RunHolds
<1>2. \A n \in Nodes : /\ Committed(n) \in Nat /\ Held(n) \in Nat /\ Committed(n) <= Held(n)
                       /\ node[n].used \in Nat /\ MaxUsage[n] \in Nat
  <2>1. ASSUME NEW n \in Nodes
        PROVE  /\ Committed(n) \in Nat /\ Held(n) \in Nat /\ Held(n) >= Committed(n)
               /\ node[n].used \in Nat /\ MaxUsage[n] \in Nat
    BY <1>1, HeldAndCommitted, NodeFields
  <2> QED
    BY <2>1
<1>3. \A n \in Nodes : /\ Committed(n)' \in Nat /\ Committed(n)' <= MaxUsage[n]
                       /\ node'[n].used \in Nat
  <2>1. ASSUME NEW n \in Nodes PROVE node'[n].used \in Nat /\ MaxUsage[n] \in Nat
    BY <1>1, <1>2 DEF NodesTyped, Progress
  <2> QED
    BY <2>1 DEF Committed, Lesser
<1>4. /\ \A n \in Nodes : before[n] = Committed(n) /\ after[n] = Committed(n)' /\ held[n] = Held(n)
      /\ DOMAIN before = Nodes /\ DOMAIN after = Nodes /\ DOMAIN held = Nodes
  OBVIOUS
<1>5. /\ SumFunction(before) = SumFunctionOnSet(before, Nodes)
      /\ SumFunction(after) = SumFunctionOnSet(after, Nodes)
      /\ SumFunction(held) = SumFunctionOnSet(held, Nodes)
  BY <1>4 DEF SumFunction
<1>6. WithinLimit' <=> SumFunction(after) <= UsageLimit
  BY DEF WithinLimit
<1>7. WithinLimit <=> SumFunction(before) <= UsageLimit
  BY DEF WithinLimit
<1>8. \A n \in Nodes : FitsLimit(n) <=> SumFunction(held) + MaxUsage[n] <= UsageLimit
  BY DEF FitsLimit
<1> HIDE DEF before, after, held
<1>9. /\ SumFunctionOnSet(before, Nodes) \in Nat /\ SumFunctionOnSet(after, Nodes) \in Nat
      /\ SumFunctionOnSet(held, Nodes) \in Nat
  <2>1. SumFunctionOnSet(before, Nodes) \in Nat
    BY <1>1, <1>2, <1>4, SumType
  <2>2. SumFunctionOnSet(after, Nodes) \in Nat
    BY <1>1, <1>3, <1>4, SumType
  <2>3. SumFunctionOnSet(held, Nodes) \in Nat
    BY <1>1, <1>2, <1>4, SumType
  <2> QED
    BY <2>1, <2>2, <2>3
<1>10. CASE \A n \in Nodes : TakesNoMore(n)
  <2>1. ASSUME NEW n \in Nodes PROVE Committed(n)' <= Committed(n)
    <3>1. CASE node'[n] = node[n]
      BY <1>2, <3>1 DEF Committed, UnderWay
    <3>2. CASE UnderWay(n)
      BY <1>2, <1>3, <3>2 DEF Committed
    <3>3. CASE ~UnderWay(n) /\ ~UnderWay(n)' /\ node'[n].used = node[n].used
      BY <1>2, <3>3 DEF Committed
    <3> QED
      BY <1>10, <3>1, <3>2, <3>3 DEF TakesNoMore
  <2>2. \A n \in Nodes : after[n] \in Nat /\ before[n] \in Nat /\ after[n] <= before[n]
    BY <1>2, <1>3, <1>4, <2>1
  <2>3. SumFunctionOnSet(after, Nodes) <= SumFunctionOnSet(before, Nodes)
    BY <1>1, <2>2, SumGrows
  <2> QED
    BY <1>1, <1>5, <1>6, <1>7, <1>9, <2>3
<1>11. ASSUME NEW n \in Nodes, IsAdmitted(n)
       PROVE  WithinLimit'
  <2>1. \A m \in Nodes \ {n} : after[m] = before[m]
    <3>1. \A m \in Nodes \ {n} : Committed(m)' = Committed(m)
      BY <1>11 DEF IsAdmitted, Committed, UnderWay
    <3> QED
      BY <1>4, <3>1
  <2>2. \A m \in Nodes : before[m] \in Nat /\ after[m] \in Nat /\ held[m] \in Nat /\ before[m] <= held[m]
    BY <1>2, <1>3, <1>4
  <2>3. SumFunctionOnSet(after, Nodes) + before[n] = SumFunctionOnSet(before, Nodes) + after[n]
    BY <1>1, <2>1, <2>2, SumOfChange
  <2>4. SumFunctionOnSet(before, Nodes) <= SumFunctionOnSet(held, Nodes)
    BY <1>1, <2>2, SumGrows
  <2>5. SumFunctionOnSet(held, Nodes) + MaxUsage[n] <= UsageLimit
    BY <1>5, <1>8, <1>11 DEF IsAdmitted
  <2>6. after[n] <= MaxUsage[n] /\ after[n] \in Nat /\ before[n] \in Nat /\ MaxUsage[n] \in Nat
    BY <1>2, <1>3, <1>4
  <2> QED
    BY <1>1, <1>5, <1>6, <1>9, <2>3, <2>4, <2>5, <2>6
<1> QED
  BY <1>10, <1>11, WhatIsTaken

\* Nothing is taken at first.
LEMMA LimitInit == OrchestrationInit => WithinLimit
<1> SUFFICES ASSUME OrchestrationInit PROVE WithinLimit
  OBVIOUS
<1> DEFINE before == [n \in Nodes |-> Committed(n)]
<1>1. NodesTyped /\ IsFiniteSet(Nodes) /\ UsageLimit \in Nat
  BY RunInit, TypeParts, NodesFinite, OrchestrationConstants DEF RunHolds
<1>2. ASSUME NEW n \in Nodes PROVE Committed(n) = 0
  <2>1. node[n].status = "pending" /\ node[n].used = 0 /\ MaxUsage[n] \in Nat
    BY OrchestrationConstants DEF OrchestrationInit
  <2> QED
    BY <2>1 DEF Committed, UnderWay, Lesser
<1>3. /\ \A n \in Nodes : before[n] = 0
      /\ SumFunction(before) = SumFunctionOnSet(before, Nodes)
  BY <1>2 DEF SumFunction
<1>4. WithinLimit <=> SumFunction(before) <= UsageLimit
  BY DEF WithinLimit
<1> HIDE DEF before
<1>5. SumFunctionOnSet(before, Nodes) = 0
  BY <1>1, <1>3, SumOfZeros
<1> QED
  BY <1>1, <1>3, <1>4, <1>5

-----------------------------------------------------------------------------
(* The theorems.                                                           *)

\* Every state of a run satisfies the invariant, and no run takes more than its budget.
THEOREM RunInvariant == OrchestrationSpec => [](RunHolds /\ WithinLimit)
<1>1. OrchestrationInit => RunHolds /\ WithinLimit
  BY RunInit, LimitInit
<1>2. RunHolds /\ WithinLimit /\ [OrchestrationNext]_orchestrationVars => (RunHolds /\ WithinLimit)'
  <2> SUFFICES ASSUME RunHolds, WithinLimit, [OrchestrationNext]_orchestrationVars
               PROVE  (RunHolds /\ WithinLimit)'
    OBVIOUS
  <2>1. RunHolds'
    BY RunStep
  <2>2. WithinLimit'
    BY <2>1, LimitStep
  <2> QED
    BY <2>1, <2>2
<1> QED
  BY <1>1, <1>2, PTL DEF OrchestrationSpec

\* The state is always well-typed, and a node holds its reservation exactly while it is
\* under way (NodeProgress, _admit(), _complete(), _mark_unknown(), _finish()).
THEOREM TypesHold == OrchestrationSpec => []OrchestrationTypeOK
<1>1. RunHolds => OrchestrationTypeOK
  BY DEF RunHolds
<1> QED
  BY <1>1, RunInvariant, PTL

\* However often a run crashes and is resumed, a model request is sent once and no attempt
\* of a tool follows one of unknown cost (_model(), _tool(), _before_attempt()).
THEOREM DoubtIsNeverSent == OrchestrationSpec => []NeverSentInDoubt
<1>1. RunHolds => NeverSentInDoubt
  <2> SUFFICES ASSUME RunHolds PROVE NeverSentInDoubt
    OBVIOUS
  <2>1. \A n \in Models : entered[n] <= 1
    BY DEF RunHolds, NodeInvariant, ModelNode
  <2>2. \A c \in Tools : \A a, b \in AttemptNos(c) : billed[c][a] = 0 => b <= a
    BY DEF RunHolds, NodeInvariant, Attempts
  <2> QED
    BY <2>1, <2>2 DEF NeverSentInDoubt
<1> QED
  BY <1>1, RunInvariant, PTL

\* A run that is over hides no effect: nothing is in doubt, and what a settled tool says is
\* what its row says (_finish(), reconcile()).
THEOREM NothingIsHidden == OrchestrationSpec => []TerminalHidesNothing
<1>1. RunHolds => TerminalHidesNothing
  <2> SUFFICES ASSUME RunHolds, run \in Terminal PROVE TerminalHidesNothing
    BY DEF TerminalHidesNothing
  <2>1. \A n \in Nodes : ~UnderWay(n)
    BY DEF RunHolds, LoopInvariant
  <2>2. ASSUME NEW c \in Tools
        PROVE  /\ AttemptNos(c) # {} => rows[c].state \in {"completed", "failed"}
               /\ UsageKnown(c) \/ node[c].status \in Settled
               /\ node[c].status = "completed" => rows[c].state = "completed"
               /\ rows[c].state = "failed" => node[c].status # "completed"
    <3>1. c \in Nodes /\ Attempts(c) /\ ToolNode(c) /\ ~UnderWay(c)
      BY <2>1, ToolsAreNodes DEF RunHolds, NodeInvariant
    <3>2. node[c].status \in NodeStatuses /\ rows[c].state \in RowStates
      <4>1. NodesTyped /\ rows \in [Calls -> Row]
        BY TypeParts DEF RunHolds, RestTyped, JournalTypeOK
      <4> QED
        BY <3>1, <4>1, NodeFields DEF Row
    <3>3. AttemptNos(c) = {} => UsageKnown(c)
      BY DEF UsageKnown
    <3>4. CASE NotBegun(c)
      BY <3>1, <3>3, <3>4 DEF Attempts, ToolNode, HasStarted, NotBegun
    <3>5. CASE node[c].status \in Settled \cup {"cancelled"}
      BY <3>1, <3>2, <3>5 DEF Attempts, ToolNode, HasStarted, Settled, RowStates
    <3> QED
      BY <3>1, <3>2, <3>4, <3>5 DEF NodeStatuses, NotBegun, UnderWay
  <2>3. run = "succeeded" => \A n \in Nodes : node[n].status = "completed"
    BY DEF RunHolds, LoopInvariant
  <2> QED
    BY <2>1, <2>2, <2>3 DEF TerminalHidesNothing, UnderWay
<1> QED
  BY <1>1, RunInvariant, PTL

\* The books of a run are true for any charges, crashes and resolutions: no node holds less
\* than the calls made for it, and together they hold no more than the limit but for what
\* nodes are known to have cost beyond their declarations (_admit(), _complete(),
\* _mark_unknown(), _finish(), reconcile()).
THEOREM BooksAreTrue == OrchestrationSpec => []BooksHold
<1>1. RunHolds /\ WithinLimit => BooksHold
  <2> SUFFICES ASSUME RunHolds, WithinLimit PROVE BooksHold
    OBVIOUS
  <2>1. /\ NodesTyped /\ IsFiniteSet(Nodes) /\ UsageLimit \in Nat
        /\ entered \in [Nodes -> 0..MaxAttempts] /\ MaxAttempts \in Nat
    BY TypeParts, NodesFinite, OrchestrationConstants, JournalConstants DEF RunHolds, RestTyped
  <2>2. ASSUME NEW n \in Nodes PROVE Held(n) >= entered[n]
    <3>1. /\ Held(n) \in Nat /\ Held(n) >= node[n].used /\ node[n].used \in Nat
          /\ MaxUsage[n] \in Nat /\ entered[n] \in Nat
          /\ UnderWay(n) => Held(n) >= MaxUsage[n]
      <4>1. entered[n] \in Nat
        BY <2>1
      <4> QED
        BY <2>1, <4>1, HeldAndCommitted, NodeFields
    <3>2. CASE n \in Tools
      <4>1. Attempts(n) /\ ToolNode(n)
        BY <3>2 DEF RunHolds, NodeInvariant
      <4>2. Cardinality(AttemptNos(n)) \in Nat /\ entered[n] <= Cardinality(AttemptNos(n))
        BY <3>2, <4>1, UsageCounts DEF RunHolds, Attempts
      <4>3. Cardinality(AttemptNos(n)) <= Held(n)
        BY <3>1, <4>1, <4>2 DEF ToolNode
      <4> QED
        BY <3>1, <4>2, <4>3
    <3>3. CASE n \in Models
      <4>1. ModelNode(n)
        BY <3>3 DEF RunHolds, NodeInvariant
      <4> QED
        BY <3>1, <4>1 DEF ModelNode
    <3>4. CASE n \notin Tools \cup Models
      <4>1. AnyNode(n)
        BY DEF RunHolds, NodeInvariant
      <4> QED
        BY <3>1, <3>4, <4>1 DEF AnyNode
    <3> QED
      BY <3>2, <3>3, <3>4
  <2> DEFINE excess(n) == Max({0, node[n].used - MaxUsage[n]})
             held == [n \in Nodes |-> Held(n)]
             taken == [n \in Nodes |-> Committed(n)]
             beyond == [n \in Nodes |-> excess(n)]
  <2>3. \A n \in Nodes : /\ taken[n] \in Nat /\ beyond[n] \in Nat
                         /\ held[n] = taken[n] + beyond[n]
    BY <2>1, HeldAndCommitted
  <2>4. /\ SumFunction(held) = SumFunctionOnSet(held, Nodes)
        /\ SumFunction(taken) = SumFunctionOnSet(taken, Nodes)
        /\ SumFunction(beyond) = SumFunctionOnSet(beyond, Nodes)
    <3>1. DOMAIN held = Nodes /\ DOMAIN taken = Nodes /\ DOMAIN beyond = Nodes
      OBVIOUS
    <3> QED
      BY <3>1 DEF SumFunction
  <2>5. SumFunction(taken) <= UsageLimit
    BY DEF WithinLimit
  <2>6. BooksHold <=> /\ \A n \in Nodes : Held(n) >= entered[n]
                      /\ SumFunction(held) <= UsageLimit + SumFunction(beyond)
    BY DEF BooksHold
  <2> HIDE DEF held, taken, beyond
  <2>7. SumFunctionOnSet(held, Nodes) = SumFunctionOnSet(taken, Nodes) + SumFunctionOnSet(beyond, Nodes)
    BY <2>1, <2>3, SumAdds
  <2>8. SumFunctionOnSet(taken, Nodes) \in Nat /\ SumFunctionOnSet(beyond, Nodes) \in Nat
    <3>1. SumFunctionOnSet(taken, Nodes) \in Nat
      BY <2>1, <2>3, SumType
    <3>2. SumFunctionOnSet(beyond, Nodes) \in Nat
      BY <2>1, <2>3, SumType
    <3> QED
      BY <3>1, <3>2
  <2> QED
    BY <2>1, <2>2, <2>4, <2>5, <2>6, <2>7, <2>8
<1> QED
  BY <1>1, RunInvariant, PTL

-----------------------------------------------------------------------------
(* The owner implements NodeOnce.                                          *)

\* What a node rests on is complete.
DepsDone(n) == \A d \in Dependencies[n] : node[d].status = "completed"

\* What was reached rests on its dependencies, and so does what a round has taken.
InOrder ==
  /\ \A n \in Nodes : node[n].status \notin {"pending", "cancelled"} => DepsDone(n)
  /\ \A n \in proc.todo : DepsDone(n)

\* A tool that cannot be repeated has one attempt, and is not at another.
OneAttempt ==
  \A c \in Tools : EffectClass[c] = "non_idempotent" =>
    /\ AttemptNos(c) \subseteq {1}
    /\ proc.pc = "attempt" /\ proc.cur = c => AttemptNos(c) = {}

\* How the status of one node may change in a run that goes on.
Moves(n, s) ==
  \/ /\ node[n].status = "pending" /\ n \in proc.todo
     /\ \/ s \in {"awaiting_approval", "admitted"}
        \/ s = "completed" /\ n \notin Tools \cup Models
  \/ node[n].status = "awaiting_approval" /\ s = "admitted"
  \/ node[n].status = "admitted" /\ s \in {"unknown"} \cup Settled
  \/ node[n].status = "unknown" /\ s \in {"unknown"} \cup Settled

\* The run goes on.
Goes == run \notin Terminal /\ run' \notin Terminal

\* One node moves on.
OneMoves ==
  /\ Goes /\ UNCHANGED entered
  /\ \E n \in Nodes, s \in NodeStatuses : Moves(n, s) /\ \E u : Moved(n, s, u)

\* A run that ends drops what is not settled, or leaves all as it is; nothing is in doubt.
Ends ==
  /\ run \notin Terminal /\ UNCHANGED entered
  /\ \A n \in Nodes : node[n].status # "unknown"
  /\ \/ \A n \in Nodes : node'[n].status = node[n].status
     \/ /\ run' \in Terminal
        /\ \A n \in Nodes : node'[n].status = IF node[n].status \in Settled
                                              THEN node[n].status ELSE "cancelled"

\* The run ends or goes on and no node changes its status.
NoneMoves ==
  /\ \A n \in Nodes : node'[n].status = node[n].status
  /\ run' \in Terminal => run \in Terminal
  /\ run \in Terminal => run' \in Terminal

\* The node is settled, in one way or the other.
Settles(n) ==
  \E ok \in BOOLEAN, used \in Nat : node' = [node EXCEPT ![n] =
    [status |-> IF ok /\ used <= MaxUsage[n] THEN "completed" ELSE "failed",
     used |-> used, reserved |-> 0]]

\* A node under way is settled or in doubt afterwards.
LEMMA WorkMoves ==
  ASSUME RunHolds, NEW n \in Nodes, UnderWay(n), Goes, UNCHANGED entered,
         \/ UNCHANGED node
         \/ node' = InDoubt(n) /\ LeastUsage(n) \in Nat
         \/ node' = Sent(n)
         \/ Settles(n)
  PROVE  UNCHANGED entered /\ (NoneMoves \/ OneMoves)
<1>1. NodesTyped
  BY TypeParts DEF RunHolds
<1>2. ASSUME NEW s \in {"unknown"} \cup Settled, NEW u, Moved(n, s, u)
      PROVE  OneMoves
  <2>1. Moves(n, s) /\ s \in NodeStatuses
    BY <1>2 DEF Moves, UnderWay, NodeStatuses
  <2> QED
    BY <1>2, <2>1 DEF OneMoves
<1>3. CASE UNCHANGED node
  BY <1>3 DEF NoneMoves, Goes
<1>4. CASE node' = InDoubt(n) /\ LeastUsage(n) \in Nat
  BY <1>1, <1>2, <1>4, NodeMoves
<1>5. CASE node' = Sent(n)
  BY <1>1, <1>2, <1>5, NodeMoves
<1>6. CASE Settles(n)
  <2>1. \E s \in Settled, u \in Nat : Moved(n, s, u)
    BY <1>1, <1>6, CompleteMoves DEF Settles
  <2> QED
    BY <1>2, <2>1
<1> QED
  BY <1>3, <1>4, <1>5, <1>6

\* A step of the owner or of its host changes the status of one node, or ends the run, or
\* enters a tool or a provider.
LEMMA StepMoves ==
  ASSUME RunHolds, [OrchestrationNext]_orchestrationVars
  PROVE  \/ NoneMoves /\ UNCHANGED entered
         \/ OneMoves
         \/ Close /\ Ends
         \/ EnterTool \/ EnterModel
<1> USE DEF RunHolds
<1>1. /\ NodesTyped /\ node \in [Nodes -> Progress] /\ proc \in Process /\ RestTyped
      /\ Charges \subseteq Nat
      /\ proc.pc # "idle" => run \notin Terminal
  BY TypeParts, OrchestrationConstants DEF NodesTyped, RestTyped, LoopInvariant, Terminal
<1>2. ASSUME NEW c \in Tools PROVE LeastUsage(c) \in Nat /\ AttemptUsage(c) \in Nat
  BY UsageCounts DEF NodeInvariant, Attempts
<1>3. ASSUME NEW n \in Models PROVE LeastUsage(n) \in Nat
  <2>1. n \in Nodes /\ n \notin Tools
    BY ToolsAreNodes
  <2> QED
    BY <1>1, <2>1, NodeFields DEF LeastUsage
<1>4. CASE UNCHANGED <<node, run, entered>>
  BY <1>4 DEF NoneMoves
<1>5. CASE TakeRow \/ BeginAttempt
  <2>1. PICK c \in Tools : c = proc.cur /\ UnderWay(c) /\ c \in Nodes
    BY <1>5, ToolsAreNodes DEF TakeRow, BeginAttempt, LoopInvariant, ToolPlaces, UnderWay
  <2>2. Goes /\ UNCHANGED <<run, entered>>
    BY <1>1, <1>5 DEF TakeRow, BeginAttempt, Goes
  <2>3. \/ UNCHANGED node \/ node' = InDoubt(c)
        \/ Settles(c)
    BY <1>2, <1>5, <2>1 DEF TakeRow, BeginAttempt, Complete, MarkUnknown, Settles
  <2> QED
    BY <1>2, <2>1, <2>2, <2>3, WorkMoves
<1>6. CASE MarkSending \/ RefuseRequest \/ ModelReturns
  <2>1. PICK n \in Models : n = proc.cur /\ UnderWay(n) /\ n \in Nodes
    BY <1>6, ToolsAreNodes DEF MarkSending, RefuseRequest, ModelReturns, LoopInvariant, UnderWay
  <2>2. Goes /\ UNCHANGED <<run, entered>>
    BY <1>1, <1>6 DEF MarkSending, RefuseRequest, ModelReturns, Goes
  <2>3. \/ UNCHANGED node \/ node' = InDoubt(n) \/ node' = Sent(n)
        \/ Settles(n)
    BY <1>1, <1>6, <2>1 DEF MarkSending, RefuseRequest, ModelReturns, Complete, MarkUnknown, Settles
  <2> QED
    BY <1>3, <2>1, <2>2, <2>3, WorkMoves
<1>7. CASE KeepOpen
  <2>1. PICK c \in Tools : LeftOpen(c) /\ node' = InDoubt(c)
    BY <1>7 DEF KeepOpen
  <2>2. c \in Nodes /\ UnderWay(c) /\ Goes /\ UNCHANGED entered
    BY <1>1, <1>7, <2>1, ToolsAreNodes DEF KeepOpen, LeftOpen, UnderWay, Goes
  <2> QED
    BY <1>2, <2>1, <2>2, WorkMoves
<1>8. ASSUME NEW n \in Nodes, Reconcile(n)
      PROVE  UNCHANGED entered /\ (NoneMoves \/ OneMoves)
  <2>1. UnderWay(n) /\ Goes /\ UNCHANGED entered
    BY <1>8 DEF Reconcile, UnderWay, LoopInvariant, Goes
  <2>2. Settles(n)
    <3>1. PICK ok \in BOOLEAN, used \in Usages : node' = [node EXCEPT ![n] =
            [status |-> IF ok /\ used <= MaxUsage[n] THEN "completed" ELSE "failed",
             used |-> used, reserved |-> 0]]
      BY <1>8 DEF Reconcile
    <3>2. used \in Nat
      BY DEF Usages
    <3> QED
      BY <3>1, <3>2 DEF Settles
  <2> QED
    BY <2>1, <2>2, WorkMoves
<1>9. CASE Admit
  <2>1. PICK n \in Nodes : n = Min(proc.todo) /\ n \in proc.todo
    BY <1>1, <1>9, MinIsMember, ProcTyped DEF Admit, ProcFields
  <2>2. /\ node[n].status = "pending" /\ ~UnderWay(n)
        /\ Goes /\ UNCHANGED <<run, entered>>
    BY <1>1, <1>9, <2>1 DEF Admit, LoopInvariant, UnderWay, Goes
  <2>3. \/ UNCHANGED node
        \/ n \notin Tools \cup Models /\ node' = [node EXCEPT ![n].status = "completed"]
        \/ node' = [node EXCEPT ![n].status = "awaiting_approval"]
        \/ node' = Admitted(n)
    BY <1>9, <2>1 DEF Admit
  <2>4. ASSUME NEW s \in NodeStatuses, Moves(n, s), Moved(n, s, node[n].used) PROVE OneMoves
    BY <2>2, <2>4 DEF OneMoves
  <2>5. ASSUME n \notin Tools \cup Models, node' = [node EXCEPT ![n].status = "completed"]
        PROVE  OneMoves
    BY <1>1, <2>1, <2>2, <2>4, <2>5, NodeMoves DEF Moves, NodeStatuses, Settled
  <2>6. ASSUME node' = [node EXCEPT ![n].status = "awaiting_approval"]
        PROVE  OneMoves
    BY <1>1, <2>1, <2>2, <2>4, <2>6, NodeMoves DEF Moves, NodeStatuses
  <2>7. ASSUME node' = Admitted(n) PROVE OneMoves
    BY <1>1, <2>1, <2>2, <2>4, <2>7, NodeMoves DEF Moves, NodeStatuses
  <2> QED
    BY <1>4, <2>2, <2>3, <2>5, <2>6, <2>7
<1>10. ASSUME NEW c \in Tools, ResumeApproved(c)
       PROVE  UNCHANGED entered /\ (NoneMoves \/ OneMoves)
  <2>1. /\ c \in Nodes /\ node[c].status = "awaiting_approval" /\ run \notin Terminal
        /\ UNCHANGED entered
    BY <1>10, ToolsAreNodes DEF ResumeApproved, Terminal
  <2>2. CASE UNCHANGED <<node, run>>
    BY <2>1, <2>2 DEF NoneMoves
  <2>3. CASE node' = Admitted(c) /\ run' = "running"
    <3>1. Moved(c, "admitted", node[c].used)
      BY <1>1, <2>1, <2>3, NodeMoves
    <3>2. Moves(c, "admitted") /\ "admitted" \in NodeStatuses /\ Goes
      BY <2>1, <2>3 DEF Moves, NodeStatuses, Goes, Terminal
    <3> QED
      BY <2>1, <3>1, <3>2 DEF OneMoves
  <2> QED
    BY <1>10, <2>2, <2>3 DEF ResumeApproved
<1>11. CASE Close
  <2>1. run \notin Terminal /\ UNCHANGED entered
    BY <1>1, <1>11 DEF Close
  <2>2. "unknown" \in Statuses => run' = "running"
    BY <1>11 DEF Close, Terminal
  <2>3. \A n \in Nodes : node[n].status \in Statuses
    BY DEF Statuses
  <2> DEFINE d == "unknown" \in Statuses
  <2>4. d \in BOOLEAN /\ (proc.stop => node' = Closed(d)) /\ (~proc.stop => node' = node)
        /\ d = ("unknown" \in Statuses)
    BY <1>11 DEF Close
  <2> HIDE DEF d
  <2>5. ASSUME proc.stop
        PROVE  \A n \in Nodes : node'[n].status = IF d \/ node[n].status \in Settled
                                                   THEN node[n].status ELSE "cancelled"
    BY <2>4, <2>5, ClosedNode
  <2>6. CASE d
    BY <2>1, <2>2, <2>4, <2>5, <2>6 DEF NoneMoves, Terminal
  <2>7. CASE ~d
    <3>1. \A n \in Nodes : node[n].status # "unknown"
      BY <2>3, <2>4, <2>7
    <3>2. proc.stop => run' \in Terminal
      BY <1>11, <2>4, <2>7 DEF Close, Terminal
    <3> QED
      BY <1>11, <2>1, <2>4, <2>5, <2>7, <3>1, <3>2 DEF Ends
  <2> QED
    BY <2>1, <2>6, <2>7
<1>12. CASE Start
  BY <1>12 DEF Start, NoneMoves, Terminal
<1>13. ASSUME NEW c \in Tools, Approve(c) \/ ExpireGrant(c) PROVE UNCHANGED <<node, run, entered>>
  BY <1>13 DEF Approve, ExpireGrant
<1>14. \/ UNCHANGED <<node, run, entered>>
       \/ TakeRow \/ BeginAttempt \/ MarkSending \/ RefuseRequest \/ ModelReturns \/ KeepOpen
       \/ Close \/ Admit \/ Start \/ EnterTool \/ EnterModel
       \/ (\E n \in Nodes : Reconcile(n)) \/ (\E c \in Tools : ResumeApproved(c))
  <2>1. ASSUME Resume \/ Cancel \/ PassDeadline \/ Crash
        PROVE  UNCHANGED <<node, run, entered>>
    BY <2>1 DEF Resume, Cancel, PassDeadline, Crash
  <2>2. ASSUME Continue \/ Round \/ StartRow \/ ToolReturns \/ SettleRow \/ Finish
        PROVE  UNCHANGED <<node, run, entered>>
    BY <2>2 DEF Continue, Round, StartRow, ToolReturns, SettleRow, Finish
  <2>3. ASSUME UNCHANGED orchestrationVars PROVE UNCHANGED <<node, run, entered>>
    BY <2>3 DEF orchestrationVars
  <2>4. CASE Work
    BY <2>2, <2>4 DEF Work
  <2>5. CASE \E c \in Tools : ResumeApproved(c) \/ Approve(c) \/ ExpireGrant(c)
    BY <1>13, <2>5
  <2> QED
    BY <2>1, <2>3, <2>4, <2>5 DEF OrchestrationNext
<1> QED
  BY <1>4, <1>5, <1>6, <1>7, <1>8, <1>9, <1>10, <1>11, <1>12, <1>14

\* No step takes back a completion.
LEMMA CompletionStays ==
  ASSUME RunHolds, [OrchestrationNext]_orchestrationVars
  PROVE  \A n \in Nodes : node[n].status = "completed" => node'[n].status = "completed"
<1>1. CASE NoneMoves
  BY <1>1 DEF NoneMoves
<1>2. CASE OneMoves
  BY <1>2 DEF OneMoves, Moves, Moved
<1>3. CASE Ends
  BY <1>3 DEF Ends, Settled
<1>4. CASE EnterTool \/ EnterModel
  BY <1>4 DEF EnterTool, EnterModel
<1> QED
  BY <1>1, <1>2, <1>3, <1>4, StepMoves

\* Where the forms of a step lead.
LEMMA ProcMoves ==
  ASSUME proc \in Process
  PROVE  /\ StopRun => proc'.pc = "finish" /\ proc'.todo = {}
         /\ Raise \/ proc' = Idle => proc'.pc = "idle" /\ proc'.todo = {}
         /\ Proceed => proc'.pc = "next" /\ proc'.todo = proc.todo
         /\ \A p : GoTo(p) => proc'.pc = p /\ proc'.todo = proc.todo /\ proc'.cur = proc.cur
<1>1. StopRun => proc'.pc = "finish" /\ proc'.todo = {}
  BY DEF StopRun, Idle
<1>2. Raise \/ proc' = Idle => proc'.pc = "idle" /\ proc'.todo = {}
  BY DEF Raise, Idle
<1>3. Proceed => proc'.pc = "next" /\ proc'.todo = proc.todo
  BY DEF Proceed, Process
<1>4. \A p : GoTo(p) => proc'.pc = p /\ proc'.todo = proc.todo /\ proc'.cur = proc.cur
  BY DEF GoTo, Process
<1> QED
  BY <1>1, <1>2, <1>3, <1>4

\* What a loop holds after a step it held before, or found under way or ready.
LEMMA TodoGrows ==
  ASSUME RunHolds, [OrchestrationNext]_orchestrationVars
  PROVE  \A n \in proc'.todo :
           n \in Nodes /\ (n \in proc.todo \/ n \in Ready \/ node[n].status \notin {"pending", "cancelled"})
<1>1. proc \in Process /\ proc.todo \subseteq Nodes /\ Ready \subseteq Nodes
  BY TypeParts, ProcTyped, LeftAreNodes DEF RunHolds, RestTyped, ProcFields
<1>2. \A n \in LeftUnderWay : n \in Nodes /\ node[n].status \notin {"pending", "cancelled"}
  BY DEF LeftUnderWay
<1>3. CASE proc'.todo \subseteq proc.todo \/ proc'.todo \subseteq Ready \/ proc'.todo \subseteq LeftUnderWay
  BY <1>1, <1>2, <1>3
<1>4. ASSUME NEW c \in Tools, ResumeApproved(c)
      PROVE  proc'.todo = {} \/ proc'.todo = LeftUnderWay \cup {c}
  BY <1>4 DEF ResumeApproved, StopRun, Idle
<1>5. ASSUME NEW c \in Tools, ResumeApproved(c)
      PROVE  c \in Nodes /\ node[c].status = "awaiting_approval"
  BY <1>5, ToolsAreNodes DEF ResumeApproved
<1>6. CASE Start \/ Resume \/ Crash \/ \E n \in Nodes : Reconcile(n)
  <2>1. CASE Start \/ Crash
    BY <2>1 DEF Start, Crash, Idle
  <2>2. CASE Resume
    BY <1>3, <2>2 DEF Resume, Idle
  <2>3. ASSUME NEW n \in Nodes, Reconcile(n)
        PROVE  proc'.todo = LeftUnderWay \ {n}
    BY <2>3 DEF Reconcile, Idle
  <2> QED
    BY <1>2, <1>6, <2>1, <2>2, <2>3
<1>7. CASE Work
  <2>1. CASE Continue \/ Round \/ Admit
    <3>1. CASE Continue
      BY <1>1, <1>3, <3>1 DEF Continue, Process
    <3>2. CASE Round
      <4>1. CASE proc' = [Idle EXCEPT !.pc = "finish"]
        BY <1>3, <4>1 DEF Idle
      <4>2. CASE proc' = [proc EXCEPT !.recovering = FALSE, !.todo = Ready]
        BY <1>1, <1>3, <4>2 DEF Process
      <4> QED
        BY <3>2, <4>1, <4>2 DEF Round
    <3>3. CASE Admit
      <4> DEFINE T == proc.todo \ {Min(proc.todo)}
      <4>1. \/ StopRun
            \/ proc' = [proc EXCEPT !.todo = T]
            \/ \E c, p : proc' = [[proc EXCEPT !.todo = T] EXCEPT !.cur = c, !.pc = p]
        BY <3>3 DEF Admit
      <4>2. T \subseteq proc.todo
        OBVIOUS
      <4> HIDE DEF T
      <4>3. CASE proc' = [proc EXCEPT !.todo = T]
        BY <1>1, <1>3, <4>2, <4>3 DEF Process
      <4>4. CASE \E c, p : proc' = [[proc EXCEPT !.todo = T] EXCEPT !.cur = c, !.pc = p]
        BY <1>1, <1>3, <4>2, <4>4 DEF Process
      <4> QED
        BY <1>1, <1>3, <4>1, <4>3, <4>4, ProcMoves
    <3> QED
      BY <2>1, <3>1, <3>2, <3>3
  <2>2. CASE TakeRow \/ StartRow \/ BeginAttempt \/ EnterTool \/ EnterModel
    <3>1. StopRun \/ Raise \/ Proceed \/ \E p : GoTo(p)
      BY <2>2 DEF TakeRow, StartRow, BeginAttempt, EnterTool, EnterModel, Complete, MarkUnknown
    <3> QED
      BY <1>1, <1>3, <3>1, ProcMoves
  <2>3. CASE ToolReturns \/ SettleRow \/ Finish \/ KeepOpen
    <3>1. proc'.todo = proc.todo
      BY <1>1, <2>3 DEF ToolReturns, SettleRow, Finish, KeepOpen, Process
    <3> QED
      BY <1>3, <3>1
  <2>4. CASE MarkSending \/ RefuseRequest \/ ModelReturns \/ Close
    <3>1. StopRun \/ Proceed \/ proc' = Idle \/ \E p : GoTo(p)
      BY <2>4 DEF MarkSending, RefuseRequest, ModelReturns, Close, Complete, MarkUnknown
    <3> QED
      BY <1>1, <1>3, <3>1, ProcMoves
  <2> QED
    BY <1>7, <2>1, <2>2, <2>3, <2>4 DEF Work
<1>8. CASE Cancel \/ PassDeadline \/ \E c \in Tools : Approve(c) \/ ExpireGrant(c)
  <2>1. proc' = proc
    BY <1>8 DEF Cancel, PassDeadline, Approve, ExpireGrant
  <2> QED
    BY <1>3, <2>1
<1>9. CASE UNCHANGED orchestrationVars
  <2>1. proc' = proc
    BY <1>9 DEF orchestrationVars
  <2> QED
    BY <1>3, <2>1
<1>10. CASE \E c \in Tools : ResumeApproved(c)
  BY <1>1, <1>2, <1>4, <1>5, <1>10
<1> QED
  BY <1>6, <1>7, <1>8, <1>9, <1>10 DEF OrchestrationNext

\* A step begins only what is ready, and a round takes only what is ready.
LEMMA OrderStep ==
  ASSUME RunHolds, InOrder, [OrchestrationNext]_orchestrationVars
  PROVE  InOrder'
<1>1. ASSUME NEW n \in Nodes, DepsDone(n)
      PROVE  DepsDone(n)'
  BY <1>1, CompletionStays, OrchestrationConstants DEF DepsDone
<1>2. ASSUME NEW n \in Nodes, node'[n].status \notin {"pending", "cancelled"}
      PROVE  DepsDone(n)
  <2>1. CASE node'[n].status = node[n].status
    BY <1>2, <2>1 DEF InOrder
  <2>2. CASE OneMoves
    <3>1. PICK m \in Nodes, s \in NodeStatuses : Moves(m, s) /\ \E u : Moved(m, s, u)
      BY <2>2 DEF OneMoves
    <3>2. CASE m = n
      BY <3>1, <3>2 DEF Moves, InOrder
    <3>3. CASE m # n
      BY <2>1, <3>1, <3>3 DEF Moved
    <3> QED
      BY <3>2, <3>3
  <2> QED
    BY <1>2, <2>1, <2>2, StepMoves DEF NoneMoves, Ends, EnterTool, EnterModel
<1>3. ASSUME NEW n \in proc'.todo
      PROVE  n \in Nodes /\ DepsDone(n)
  <2>1. n \in Nodes /\ (n \in proc.todo \/ n \in Ready \/ node[n].status \notin {"pending", "cancelled"})
    BY TodoGrows
  <2> QED
    BY <2>1 DEF InOrder, Ready, DepsDone
<1>4. (\A n \in Nodes : node[n].status \notin {"pending", "cancelled"} => DepsDone(n))'
  BY <1>1, <1>2
<1>5. (\A n \in proc.todo : DepsDone(n))'
  BY <1>1, <1>3
<1> QED
  BY <1>4, <1>5 DEF InOrder

\* A step starts no second attempt of a tool that cannot be repeated.
LEMMA OneAttemptStep ==
  ASSUME RunHolds, OneAttempt, [OrchestrationNext]_orchestrationVars
  PROVE  OneAttempt'
<1> SUFFICES ASSUME NEW c \in Tools, EffectClass[c] = "non_idempotent"
             PROVE  /\ AttemptNos(c)' \subseteq {1}
                    /\ proc'.pc = "attempt" /\ proc'.cur = c => AttemptNos(c)' = {}
  BY DEF OneAttempt
<1>1. /\ proc \in Process /\ attempts \in [Calls -> SUBSET AttemptRow]
      /\ AttemptNos(c) # {} => HasStarted(c)
  BY TypeParts DEF RunHolds, RestTyped, JournalTypeOK, NodeInvariant, Attempts
<1>2. /\ AttemptNos(c) \subseteq {1}
      /\ proc.pc = "attempt" /\ proc.cur = c => AttemptNos(c) = {}
  BY DEF OneAttempt
<1>3. attempts'[c] = attempts[c] => AttemptNos(c)' = AttemptNos(c)
  BY DEF AttemptNos
<1>4. CASE attempts' = attempts /\ (proc' = proc \/ proc'.pc # "attempt")
  BY <1>2, <1>3, <1>4
<1>5. CASE TakeRow
  <2>1. attempts' = attempts
    BY <1>5 DEF TakeRow
  <2>2. proc'.pc = "attempt" => proc'.cur = proc.cur /\ rows[proc.cur].state = "claimed"
    <3>1. \/ StopRun \/ Raise \/ Proceed \/ GoTo("claimed")
          \/ rows[proc.cur].state \in {"none", "claimed"} /\ rows[proc.cur].state # "none" /\ GoTo("attempt")
      BY <1>5 DEF TakeRow, Complete, MarkUnknown
    <3> QED
      BY <1>1, <3>1, ProcMoves
  <2>3. rows[c].state = "claimed" => AttemptNos(c) = {}
    BY <1>1 DEF HasStarted
  <2> QED
    BY <1>2, <1>3, <2>1, <2>2, <2>3
<1>6. CASE StartRow
  <2>1. attempts' = attempts /\ proc'.cur = proc.cur
    BY <1>1, <1>6 DEF StartRow, GoTo, Process
  <2>2. proc.cur = c => rows[c].state = "claimed"
    BY <1>6 DEF StartRow, RunHolds, NodeInvariant, Attempts
  <2>3. rows[c].state = "claimed" => AttemptNos(c) = {}
    BY <1>1 DEF HasStarted
  <2> QED
    BY <1>2, <1>3, <2>1, <2>2, <2>3
<1>7. CASE BeginAttempt
  <2>1. CASE attempts' = attempts /\ proc'.pc # "attempt"
    BY <1>4, <2>1
  <2>2. ASSUME NEW last \in AttemptNos(proc.cur) \cup {0}, StartAttempt(proc.cur, last + 1),
               GoTo("enter")
        PROVE  AttemptNos(c)' \subseteq {1} /\ proc'.pc # "attempt"
    <3>1. proc'.pc # "attempt"
      BY <1>1, <2>2 DEF GoTo, Process
    <3>2. CASE proc.cur # c
      BY <1>1, <1>2, <1>3, <2>2, <3>1, <3>2 DEF StartAttempt
    <3>3. CASE proc.cur = c
      <4>1. AttemptNos(c) = {} /\ last = 0
        BY <1>2, <1>7, <2>2, <3>3 DEF BeginAttempt
      <4>2. attempts'[c] = attempts[c] \cup {[no |-> 1, outcome |-> "open"]}
        BY <1>1, <2>2, <3>3, <4>1 DEF StartAttempt
      <4>3. \A a \in attempts[c] : a.no \in AttemptNos(c)
        BY DEF AttemptNos
      <4>4. \A a \in attempts'[c] : a.no = 1
        BY <4>1, <4>2, <4>3
      <4> QED
        BY <3>1, <4>4 DEF AttemptNos
    <3> QED
      BY <3>2, <3>3
  <2>3. proc.pc = "attempt"
    BY <1>7 DEF BeginAttempt
  <2>4. \/ attempts' = attempts /\ (StopRun \/ Raise \/ Proceed)
        \/ \E last \in AttemptNos(proc.cur) \cup {0} :
             StartAttempt(proc.cur, last + 1) /\ GoTo("enter")
    BY <1>7 DEF BeginAttempt, MarkUnknown
  <2>5. StopRun \/ Raise \/ Proceed => proc'.pc # "attempt"
    BY <1>1, ProcMoves
  <2> QED
    BY <2>1, <2>2, <2>4, <2>5
<1>8. CASE ToolReturns
  <2>1. PICK o \in Outputs, no \in AttemptNos(proc.cur) :
          /\ FinishAttempt(proc.cur, no, o)
          /\ proc' = [proc EXCEPT !.out = o,
                                  !.pc = IF Retries(proc.cur, o, no) THEN "attempt" ELSE "settle"]
    BY <1>8 DEF ToolReturns
  <2>2. proc'.cur = proc.cur /\ (proc'.pc = "attempt" => EffectClass[proc.cur] # "non_idempotent")
    BY <1>1, <2>1 DEF Process, Retries
  <2>3. AttemptNos(c)' \subseteq AttemptNos(c)
    <3>1. CASE proc.cur # c
      BY <1>1, <1>3, <2>1, <3>1 DEF FinishAttempt
    <3>2. CASE proc.cur = c
      <4>1. attempts'[c] = (attempts[c] \ {[no |-> no, outcome |-> "open"]})
                             \cup {[no |-> no, outcome |-> AttemptOutcome(o)]}
        BY <1>1, <2>1, <3>2 DEF FinishAttempt
      <4>2. \A a \in attempts[c] : a.no \in AttemptNos(c)
        BY DEF AttemptNos
      <4>3. \A a \in attempts'[c] : a.no \in AttemptNos(c)
        BY <2>1, <3>2, <4>1, <4>2
      <4> QED
        BY <4>3 DEF AttemptNos
    <3> QED
      BY <3>1, <3>2
  <2> QED
    BY <1>2, <2>2, <2>3
<1>9. CASE Start \/ Resume \/ Cancel \/ PassDeadline \/ Crash
           \/ (\E d \in Tools : ResumeApproved(d) \/ Approve(d) \/ ExpireGrant(d))
           \/ (\E n \in Nodes : Reconcile(n))
  <2>1. ASSUME Start \/ Resume \/ Cancel \/ PassDeadline \/ Crash
        PROVE  attempts' = attempts /\ (proc' = proc \/ proc'.pc # "attempt")
    <3>1. CASE Start
      BY <3>1 DEF Start, Idle
    <3>2. CASE Resume
      <4>1. /\ attempts' = attempts
            /\ proc' = [Idle EXCEPT !.pc = "next", !.recovering = TRUE, !.todo = LeftUnderWay]
        BY <3>2 DEF Resume
      <4> QED
        BY <4>1 DEF Idle
    <3>3. CASE Crash
      BY <3>3 DEF Crash, Idle
    <3>4. CASE Cancel \/ PassDeadline
      BY <3>4 DEF Cancel, PassDeadline
    <3> QED
      BY <2>1, <3>1, <3>2, <3>3, <3>4
  <2>2. ASSUME NEW d \in Tools, Approve(d) \/ ExpireGrant(d)
        PROVE  attempts' = attempts /\ proc' = proc
    BY <2>2 DEF Approve, ExpireGrant
  <2>3. ASSUME NEW d \in Tools, ResumeApproved(d)
        PROVE  attempts' = attempts /\ proc'.pc # "attempt"
    BY <2>3 DEF ResumeApproved, StopRun, Idle
  <2>4. ASSUME NEW n \in Nodes, Reconcile(n)
        PROVE  attempts' = attempts /\ proc'.pc # "attempt"
    BY <2>4 DEF Reconcile, Idle
  <2> QED
    BY <1>4, <1>9, <2>1, <2>2, <2>3, <2>4
<1>10. CASE Continue \/ Round \/ Admit \/ EnterTool \/ EnterModel \/ SettleRow
  <2>1. attempts' = attempts /\ proc'.pc # "attempt"
    BY <1>1, <1>10 DEF Continue, Round, Admit, EnterTool, EnterModel, SettleRow, StopRun,
      GoTo, Idle, Process
  <2> QED
    BY <1>4, <2>1
<1>11. CASE MarkSending \/ RefuseRequest \/ ModelReturns \/ Finish \/ KeepOpen \/ Close
  <2>1. attempts' = attempts /\ (proc' = proc \/ proc'.pc # "attempt")
    <3>1. CASE Finish \/ KeepOpen
      BY <1>1, <3>1 DEF Finish, KeepOpen, Process
    <3>2. CASE MarkSending \/ RefuseRequest \/ ModelReturns \/ Close
      <4>1. /\ attempts' = attempts
            /\ StopRun \/ Proceed \/ proc' = Idle \/ GoTo("sending")
        BY <3>2 DEF MarkSending, RefuseRequest, ModelReturns, Close, Complete, MarkUnknown
      <4> QED
        BY <1>1, <4>1, ProcMoves
    <3> QED
      BY <1>11, <3>1, <3>2
  <2> QED
    BY <1>4, <2>1
<1>12. CASE UNCHANGED orchestrationVars
  <2>1. attempts' = attempts /\ proc' = proc
    BY <1>12 DEF orchestrationVars
  <2> QED
    BY <1>4, <2>1
<1> QED
  BY <1>5, <1>6, <1>7, <1>8, <1>9, <1>10, <1>11, <1>12 DEF OrchestrationNext, Work

\* The phase of every node, and the run if it is over.
phases == [n \in Nodes |-> Phase(n)]
overRuns == IF run \in Terminal THEN {"run"} ELSE {}

\* What the phase of a node is at each of its statuses.
LEMMA Phased ==
  ASSUME NEW n \in Nodes
  PROVE  /\ node[n].status \in {"pending", "awaiting_approval"} => Phase(n) = "open"
         /\ node[n].status = "admitted" => Phase(n) = "begun"
         /\ node[n].status = "unknown" => Phase(n) = "doubt"
         /\ node[n].status \in Settled \cup {"cancelled"} => Phase(n) = node[n].status
         /\ phases[n] = Phase(n)
BY DEF Phase, phases, Settled

\* A node that moves takes its phase along.
LEMMA PhaseMoves ==
  ASSUME NEW n \in Nodes, NEW s \in NodeStatuses, NEW u, Moved(n, s, u)
  PROVE  /\ s \in {"pending", "awaiting_approval"} => phases' = [phases EXCEPT ![n] = "open"]
         /\ s = "admitted" => phases' = [phases EXCEPT ![n] = "begun"]
         /\ s = "unknown" => phases' = [phases EXCEPT ![n] = "doubt"]
         /\ s \in Settled => phases' = [phases EXCEPT ![n] = s]
<1>1. \A m \in Nodes \ {n} : phases'[m] = phases[m]
  BY DEF Moved, Phase, phases
<1>2. \A p : phases'[n] = p => phases' = [phases EXCEPT ![n] = p]
  BY <1>1 DEF phases
<1>3. /\ s \in {"pending", "awaiting_approval"} => phases'[n] = "open"
      /\ s = "admitted" => phases'[n] = "begun"
      /\ s = "unknown" => phases'[n] = "doubt"
      /\ s \in Settled => phases'[n] = s
  BY DEF Moved, Phase, phases, Settled
<1> QED
  BY <1>2, <1>3

\* A node in hand can go on: it rests on its dependencies and its run is not over.
LEMMA IsEnabled ==
  ASSUME NEW n \in Nodes, DepsDone(n), run \notin Terminal
  PROVE  Nodewise!Enabled(n)
<1>1. Dependencies[n] \subseteq Nodes
  BY OrchestrationConstants
<1>2. \A d \in Dependencies[n] : phases[d] = "completed"
  BY <1>1, Phased DEF DepsDone, Settled
<1> QED
  BY <1>2 DEF Nodewise!Enabled, phases

\* Every step is a step of the contract, or changes nothing it speaks of.
LEMMA ContractStep ==
  ASSUME RunHolds, InOrder, OneAttempt, [OrchestrationNext]_orchestrationVars
  PROVE  Nodewise!NodeNext \/ UNCHANGED <<phases, entered, overRuns>>
<1>1. CASE NoneMoves /\ UNCHANGED entered
  <2>1. \A n \in Nodes : Phase(n)' = Phase(n)
    BY <1>1 DEF NoneMoves, Phase
  <2>2. phases' = phases /\ overRuns' = overRuns
    BY <1>1, <2>1 DEF NoneMoves, phases, overRuns
  <2> QED
    BY <1>1, <2>2
<1>2. CASE OneMoves
  <2>1. PICK n \in Nodes, s \in NodeStatuses : Moves(n, s) /\ \E u : Moved(n, s, u)
    BY <1>2 DEF OneMoves
  <2>2. run \notin Terminal /\ overRuns' = overRuns /\ UNCHANGED entered
    BY <1>2 DEF OneMoves, Goes, overRuns
  <2>3. Nodewise!Enabled(n)
    <3>1. DepsDone(n)
      BY <2>1 DEF Moves, InOrder
    <3> QED
      BY <2>2, <3>1, IsEnabled
  <2>4. /\ s \in {"pending", "awaiting_approval"} => phases' = [phases EXCEPT ![n] = "open"]
        /\ s = "admitted" => phases' = [phases EXCEPT ![n] = "begun"]
        /\ s = "unknown" => phases' = [phases EXCEPT ![n] = "doubt"]
        /\ s \in Settled => phases' = [phases EXCEPT ![n] = s]
    BY <2>1, PhaseMoves
  <2> USE Phased DEF phases, overRuns
  <2>5. CASE node[n].status \in {"pending", "awaiting_approval"} /\ s = "admitted"
    <3>1. Nodewise!Begin(n)
      BY <2>2, <2>3, <2>4, <2>5 DEF Nodewise!Begin
    <3> QED
      BY <3>1 DEF Nodewise!NodeNext
  <2>6. CASE s = "completed" /\ n \notin Tools \cup Models /\ node[n].status = "pending"
    <3>1. Nodewise!Join(n)
      BY <2>2, <2>3, <2>4, <2>6 DEF Nodewise!Join, Settled
    <3> QED
      BY <3>1 DEF Nodewise!NodeNext
  <2>7. CASE node[n].status = "admitted" /\ s = "unknown"
    <3>1. Nodewise!PutInDoubt(n)
      BY <2>2, <2>3, <2>4, <2>7 DEF Nodewise!PutInDoubt
    <3> QED
      BY <3>1 DEF Nodewise!NodeNext
  <2>8. CASE node[n].status \in {"admitted", "unknown"} /\ s \in Settled
    <3>1. Nodewise!Settle(n)
      BY <2>2, <2>3, <2>4, <2>8 DEF Nodewise!Settle, Settled
    <3> QED
      BY <3>1 DEF Nodewise!NodeNext
  <2>9. CASE \/ node[n].status = "pending" /\ s = "awaiting_approval"
             \/ node[n].status = "unknown" /\ s = "unknown"
    <3>1. phases' = phases
      BY <2>4, <2>9
    <3> QED
      BY <2>2, <3>1
  <2> QED
    BY <2>1, <2>5, <2>6, <2>7, <2>8, <2>9 DEF Moves
<1>3. CASE Close /\ Ends
  <2>1. \A n \in Nodes : /\ node[n].status \in NodeStatuses \ {"unknown"}
                         /\ phases[n] \in {"open", "begun"} \cup Settled \cup {"cancelled"}
    <3>1. NodesTyped
      BY TypeParts DEF RunHolds
    <3> QED
      BY <1>3, <3>1, NodeFields, Phased DEF Ends, NodeStatuses
  <2>2. /\ run \notin Terminal /\ UNCHANGED entered
        /\ \A n \in Nodes : phases[n] # "doubt"
    BY <1>3, <2>1 DEF Ends, Settled
  <2>3. CASE \A n \in Nodes : node'[n].status = node[n].status
    <3>1. phases' = phases
      BY <2>3 DEF phases, Phase
    <3>2. CASE run' \in Terminal
      <4>1. Nodewise!Close("run")
        <5> DEFINE dropped == {}
        <5>1. /\ phases' = [n \in Nodes |-> IF n \in dropped THEN "cancelled" ELSE phases[n]]
              /\ dropped \in SUBSET {n \in Nodes : phases[n] \in {"open", "begun"}}
          BY <3>1 DEF phases
        <5> HIDE DEF dropped
        <5> QED
          BY <2>2, <3>2, <5>1 DEF Nodewise!Close, phases
      <4> QED
        BY <4>1 DEF Nodewise!NodeNext
    <3> QED
      BY <2>2, <3>1, <3>2 DEF overRuns
  <2>4. CASE /\ run' \in Terminal
             /\ \A n \in Nodes : node'[n].status = IF node[n].status \in Settled
                                                   THEN node[n].status ELSE "cancelled"
    <3> DEFINE dropped == {n \in Nodes : phases[n] \in {"open", "begun"}}
    <3>1. phases' = [n \in Nodes |-> IF n \in dropped THEN "cancelled" ELSE phases[n]]
      <4>1. ASSUME NEW n \in Nodes
            PROVE  phases'[n] = IF n \in dropped THEN "cancelled" ELSE phases[n]
        <5>1. CASE node[n].status \in Settled
          BY <2>4, <5>1, Phased DEF phases, Phase, Settled
        <5>2. CASE node[n].status \notin Settled
          <6>1. phases'[n] = "cancelled"
            BY <2>4, <5>2 DEF phases, Phase
          <6>2. n \in dropped \/ phases[n] = "cancelled"
            BY <2>1, <5>2, Phased DEF NodeStatuses
          <6> QED
            BY <6>1, <6>2
        <5> QED
          BY <5>1, <5>2
      <4> QED
        BY <4>1 DEF phases
    <3>2. dropped \in SUBSET {n \in Nodes : phases[n] \in {"open", "begun"}}
      OBVIOUS
    <3> HIDE DEF dropped
    <3>3. Nodewise!Close("run")
      BY <2>2, <2>4, <3>1, <3>2 DEF Nodewise!Close, phases
    <3> QED
      BY <3>3 DEF Nodewise!NodeNext
  <2> QED
    BY <1>3, <2>3, <2>4 DEF Ends
<1>4. CASE EnterTool \/ EnterModel
  <2>1. /\ RestTyped /\ proc.cur \in Tools \cup Models /\ proc.cur \in Nodes
        /\ entered' = [entered EXCEPT ![proc.cur] = @ + 1]
        /\ phases' = phases /\ overRuns' = overRuns
    BY <1>4, TypeParts, ToolsAreNodes DEF EnterTool, EnterModel, RunHolds, LoopInvariant, ToolPlaces,
      phases, Phase, overRuns
  <2> DEFINE n == proc.cur
  <2>2. /\ node[n].status = IF n \in Models THEN "unknown" ELSE "admitted"
        /\ run \notin Terminal
    BY <1>4, ToolsAreNodes DEF EnterTool, EnterModel, RunHolds, LoopInvariant, ToolPlaces, Terminal
  <2>3. n \in Models => entered[n] = 0
    <3>1. n \in Models => proc.pc = "sending"
      BY <1>4, ToolsAreNodes DEF EnterTool, EnterModel, RunHolds, LoopInvariant, ToolPlaces
    <3> QED
      BY <3>1 DEF RunHolds, NodeInvariant, ModelNode
  <2>4. n \in Tools /\ EffectClass[n] = "non_idempotent" => entered[n] = 0
    <3> SUFFICES ASSUME n \in Tools, EffectClass[n] = "non_idempotent"
                 PROVE  entered[n] = 0
      OBVIOUS
    <3>1. /\ AttemptNos(n) \subseteq {1} /\ entered[n] \in Nat
          /\ entered[n] < Cardinality(AttemptNos(n))
      <4>1. proc.pc = "enter"
        BY <1>4, ToolsAreNodes DEF EnterTool, EnterModel, RunHolds, LoopInvariant
      <4> QED
        BY <2>1, <4>1, JournalConstants DEF RunHolds, NodeInvariant, Attempts, OneAttempt, RestTyped
    <3>2. IsFiniteSet({1}) /\ Cardinality({1}) = 1
      BY FS_Singleton
    <3>3. Cardinality(AttemptNos(n)) <= 1 /\ Cardinality(AttemptNos(n)) \in Nat
      BY <3>1, <3>2, FS_Subset, FS_CardinalityType
    <3> QED
      BY <3>1, <3>3
  <2>5. Nodewise!Enabled(n)
    <3>1. DepsDone(n)
      BY <2>1, <2>2 DEF InOrder
    <3> QED
      BY <2>1, <2>2, <3>1, IsEnabled
  <2>6. phases[n] = IF n \in Models THEN "doubt" ELSE "begun"
    BY <2>1, <2>2, Phased
  <2> HIDE DEF n
  <2>7. Nodewise!Call(n)
    BY <2>1, <2>3, <2>4, <2>5, <2>6 DEF Nodewise!Call, n, phases, overRuns
  <2> QED
    BY <2>1, <2>7 DEF n, Nodewise!NodeNext
<1> QED
  BY <1>1, <1>2, <1>3, <1>4, StepMoves

\* The serial owner implements NodeOnce: each of its steps is a step of one node, the end
\* of the run, or changes nothing of what the contract speaks of (advance(), resume(),
\* reconcile(), _tool(), _model(), _finish()).
THEOREM OwnerKeepsContract == OrchestrationSpec => SerialContract
<1>1. OrchestrationInit => InOrder /\ OneAttempt
  <2> SUFFICES ASSUME OrchestrationInit PROVE InOrder /\ OneAttempt
    OBVIOUS
  <2>1. \A n \in Nodes : node[n].status = "pending"
    BY DEF OrchestrationInit
  <2>2. proc.todo = {} /\ \A c \in Tools : AttemptNos(c) = {}
    BY DEF OrchestrationInit, JournalInit, AttemptNos, Idle
  <2> QED
    BY <2>1, <2>2 DEF InOrder, OneAttempt
<1>2. RunHolds /\ InOrder /\ OneAttempt /\ [OrchestrationNext]_orchestrationVars
        => (InOrder /\ OneAttempt)'
  BY OrderStep, OneAttemptStep
<1>3. OrchestrationInit => Nodewise!NodeInit
  <2> SUFFICES ASSUME OrchestrationInit PROVE Nodewise!NodeInit
    OBVIOUS
  <2>1. run = "absent" /\ entered = [n \in Nodes |-> 0] /\ \A n \in Nodes : node[n].status = "pending"
    BY DEF OrchestrationInit
  <2>2. \A n \in Nodes : Phase(n) = "open"
    BY <2>1, Phased
  <2> QED
    BY <2>1, <2>2 DEF Nodewise!NodeInit, Terminal
<1>4. RunHolds /\ InOrder /\ OneAttempt /\ [OrchestrationNext]_orchestrationVars
        => [Nodewise!NodeNext]_(Nodewise!nodeVars)
  BY ContractStep DEF Nodewise!nodeVars, phases, overRuns
<1> QED
  BY <1>1, <1>2, <1>3, <1>4, RunInvariant, PTL DEF OrchestrationSpec, SerialContract, Nodewise!NodeSpec
=============================================================================
