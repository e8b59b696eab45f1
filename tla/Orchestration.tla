---------------------------- MODULE Orchestration ----------------------------
(***************************************************************************)
(* A durable run under the serial owner: DurableRunner (sdk/durable.py)    *)
(* over OrchestrationStore (state/orchestration.py), the approval ledger   *)
(* and, for its tools, the invocation journal (InvocationJournal, which    *)
(* gives the rows and what each statement does to them).  A run is a fixed *)
(* graph of nodes: tools, single model requests and joins.                 *)
(*                                                                         *)
(* Every operation but cancel() and the reads holds the lock file of the   *)
(* run until it returns or its process dies, so there is one process, and  *)
(* neither its owner token nor its revision can be stale: both are left    *)
(* out, and what it holds in memory is what it saved last, but for the     *)
(* cancellation it read.  A step ends at a durable write or at the border  *)
(* of a provider or a tool.  The guard before a write is part of its step: *)
(* a cancellation, a deadline or an expiry that falls between the two      *)
(* commutes with every write but the closing one, which is a step of its   *)
(* own.                                                                    *)
(***************************************************************************)
EXTENDS InvocationJournal, FiniteSetsExt, Functions

CONSTANTS
  NodeCount,      \* nodes, numbered in the order of the graph; Calls are its tools
  Models,         \* its model nodes; the others are joins
  Dependencies,   \* DurableNode.dependencies
  NeedsApproval,  \* tools of which the policy says REQUIRE_APPROVAL
  MaxUsage,       \* DurableNode.max_usage, in units of one kind
  UsageLimit,     \* the budget of the run
  Charges,        \* what one physical call may turn out to cost
  MaxCrashes      \* bound of the model

Nodes == 1..NodeCount
Tools == Calls

ASSUME OrchestrationConstants ==
  /\ NodeCount \in Nat \ {0}
  /\ Calls \subseteq Nodes
  /\ Models \subseteq Nodes \ Calls
  /\ Dependencies \in [Nodes -> SUBSET Nodes]
  /\ \A n \in Nodes, d \in Nodes : d \in Dependencies[n] => d < n
  /\ NeedsApproval \subseteq Calls
  /\ MaxUsage \in [Nodes -> Nat]
  /\ \A n \in Nodes : MaxUsage[n] > 0 <=> n \in Calls \cup Models
  /\ UsageLimit \in Nat
  /\ Charges \subseteq Nat \ {0}
  /\ MaxCrashes \in Nat

VARIABLES
  run,      \* result.status
  cancel,   \* orchestration_runs.cancel_requested
  late,     \* the deadline has passed
  node,     \* NodeProgress: status, used and reservation
  grant,    \* the approval ledger's newest grant for a tool
  spent,    \* NodeProgress.grant is set
  billed,   \* tool_attempts.usage, 0 where it is not known
  proc,     \* the process that holds the lock
  entered,  \* physical calls of a node so far
  crashes

ownerVars == <<run, cancel, late, node, grant, spent, billed, proc, entered, crashes>>
orchestrationVars == <<journalVars, ownerVars>>

Terminal == {"succeeded", "failed", "cancelled", "exhausted"}
Settled  == {"completed", "failed"}
Progress == [status : {"pending", "awaiting_approval", "admitted", "unknown", "cancelled"} \cup Settled,
             used : Nat, reserved : Nat]
Places   == {"idle", "next", "tool", "claimed", "attempt", "enter", "body", "settle",
             "model", "sending", "asked", "finish", "close"}
Process  == [pc : Places, recovering : BOOLEAN, todo : SUBSET Nodes, cur : Nodes \cup {0},
             stop : BOOLEAN, saw : BOOLEAN, out : Outputs]

\* The type invariant; a reservation is held exactly as long as a node is under way.
OrchestrationTypeOK ==
  /\ JournalTypeOK
  /\ run \in {"absent", "running", "awaiting_approval"} \cup Terminal
  /\ cancel \in BOOLEAN /\ late \in BOOLEAN
  /\ node \in [Nodes -> Progress]
  /\ \A n \in Nodes : node[n].reserved = IF node[n].status \in {"admitted", "unknown"}
                                        THEN MaxUsage[n] ELSE 0
  /\ grant \in [Tools -> {"none", "live", "expired"}]
  /\ spent \in [Tools -> BOOLEAN]
  /\ billed \in [Tools -> [1..MaxAttempts -> Nat]]
  /\ proc \in Process
  /\ entered \in [Nodes -> 0..MaxAttempts]
  /\ crashes \in 0..MaxCrashes

Idle == [pc |-> "idle", recovering |-> FALSE, todo |-> {}, cur |-> 0,
         stop |-> FALSE, saw |-> FALSE, out |-> "ok"]

OrchestrationInit ==
  /\ JournalInit
  /\ run = "absent" /\ cancel = FALSE /\ late = FALSE
  /\ node = [n \in Nodes |-> [status |-> "pending", used |-> 0, reserved |-> 0]]
  /\ grant = [c \in Tools |-> "none"]
  /\ spent = [c \in Tools |-> FALSE]
  /\ billed = [c \in Tools |-> [a \in 1..MaxAttempts |-> 0]]
  /\ proc = Idle
  /\ entered = [n \in Nodes |-> 0]
  /\ crashes = 0

-----------------------------------------------------------------------------
(* The books.                                                              *)

\* What a node holds of the budget: its reservation until it is settled.
Held(n) ==
  IF node[n].status \in {"admitted", "unknown"}
  THEN Max({node[n].used, node[n].reserved}) ELSE node[n].used

FitsLimit(n) == SumFunction([m \in Nodes |-> Held(m)]) + MaxUsage[n] <= UsageLimit

\* _attempt_usage(): what the attempts cost, if all of them are known.
UsageKnown(c) == \A a \in AttemptNos(c) : billed[c][a] > 0
AttemptUsage(c) == SumFunction(billed[c])

\* What is certainly spent: an attempt of unknown cost counts as one call.
LeastUsage(n) ==
  IF n \in Tools
  THEN AttemptUsage(n) + Cardinality({a \in AttemptNos(n) : billed[n][a] = 0})
  ELSE node[n].used

-----------------------------------------------------------------------------
(* How a step of advance() goes on.                                        *)

GoTo(place) == proc' = [proc EXCEPT !.pc = place]

Proceed == proc' = [proc EXCEPT !.pc = "next", !.cur = 0]

\* _StopAdmission ends either loop.
StopRun == proc' = [Idle EXCEPT !.pc = "finish", !.stop = TRUE]

\* _guard(): no admission and no attempt after a cancellation or the deadline.
MustStop == cancel \/ late

\* _complete(): a node that cost more than it declared has failed.
Complete(n, ok, used) ==
  /\ node' = [node EXCEPT ![n] =
       [status |-> IF ok /\ used <= MaxUsage[n] THEN "completed" ELSE "failed",
        used |-> used, reserved |-> 0]]
  /\ Proceed

\* _mark_unknown(): the node keeps its reservation.
InDoubt(n) == [node EXCEPT ![n].status = "unknown", ![n].used = LeastUsage(n)]

MarkUnknown(n) ==
  /\ node' = InDoubt(n)
  /\ Proceed

-----------------------------------------------------------------------------
(* The operations.                                                         *)

\* start()
Start ==
  /\ run = "absent"
  /\ run' = "running"
  /\ proc' = [Idle EXCEPT !.pc = "next"]
  /\ UNCHANGED <<journalVars, cancel, late, node, grant, spent, billed, entered, crashes>>

\* advance() first goes on with the nodes an earlier process left under way; a model
\* request in doubt is not sent again.
LeftUnderWay ==
  {n \in Nodes : \/ node[n].status = "admitted"
                 \/ node[n].status = "unknown" /\ n \in Tools}

\* resume() of a run that is not over.
Resume ==
  /\ proc.pc = "idle" /\ run \in {"running", "awaiting_approval"}
  /\ proc' = [Idle EXCEPT !.pc = "next", !.recovering = TRUE, !.todo = LeftUnderWay]
  /\ UNCHANGED <<journalVars, run, cancel, late, node, grant, spent, billed, entered, crashes>>

Admitted(n) == [node EXCEPT ![n].status = "admitted", ![n].reserved = MaxUsage[n]]

\* resume() with a grant: the node is admitted by the transaction that consumes it.
ResumeApproved(c) ==
  /\ proc.pc = "idle" /\ run \in {"running", "awaiting_approval"}
  /\ node[c].status = "awaiting_approval"
  /\ grant[c] = "live"
  /\ IF MustStop \/ ~FitsLimit(c)
     THEN /\ StopRun
          /\ UNCHANGED <<run, node, spent>>
     ELSE /\ node' = Admitted(c)
          /\ spent' = [spent EXCEPT ![c] = TRUE]
          /\ run' = "running"
          /\ proc' = [Idle EXCEPT !.pc = "next", !.recovering = TRUE,
                                  !.todo = LeftUnderWay \cup {c}]
  /\ UNCHANGED <<journalVars, cancel, late, grant, billed, entered, crashes>>

\* cancel(), from any process.
Cancel ==
  /\ run \in {"running", "awaiting_approval"}
  /\ ~cancel
  /\ cancel' = TRUE
  /\ UNCHANGED <<journalVars, run, late, node, grant, spent, billed, proc, entered, crashes>>

\* approve(): a grant for one pending node.
Approve(c) ==
  /\ proc.pc = "idle"
  /\ ~cancel
  /\ node[c].status = "awaiting_approval"
  /\ grant[c] # "live"
  /\ grant' = [grant EXCEPT ![c] = "live"]
  /\ UNCHANGED <<journalVars, run, cancel, late, node, spent, billed, proc, entered, crashes>>

ExpireGrant(c) ==
  /\ grant[c] = "live"
  /\ grant' = [grant EXCEPT ![c] = "expired"]
  /\ UNCHANGED <<journalVars, run, cancel, late, node, spent, billed, proc, entered, crashes>>

PassDeadline ==
  /\ run # "absent" /\ ~late
  /\ late' = TRUE
  /\ UNCHANGED <<journalVars, run, cancel, node, grant, spent, billed, proc, entered, crashes>>

\* Faulty: the total an operator reports is taken as it is.
CoversAny(n, used) == TRUE

\* A resolution may add to what is known to be spent, never erase it.
Covers(n, used) == used >= LeastUsage(n)

\* The totals an operator may report.
Usages == 0..(MaxAttempts * Max(Charges \cup Range(MaxUsage)))

\* reconcile(): the answer of the host's resolver settles the row and the node in one
\* transaction; a result the journal has cannot be replaced.
Reconcile(n) ==
  /\ proc.pc = "idle"
  /\ node[n].status = "unknown"
  /\ \E ok \in BOOLEAN, used \in Usages :
       /\ Covers(n, used)
       /\ used <= MaxUsage[n] + 1
       /\ IF n \notin Tools THEN UNCHANGED rows
          ELSE IF rows[n].state \in {"completed", "failed"}
          THEN ok = (rows[n].state = "completed") /\ UNCHANGED rows
          ELSE rows' = [rows EXCEPT ![n].state = IF ok THEN "completed" ELSE "failed",
                                    ![n].result = IF ok THEN "ok" ELSE "error"]
       /\ node' = [node EXCEPT ![n] =
            [status |-> IF ok /\ used <= MaxUsage[n] THEN "completed" ELSE "failed",
             used |-> used, reserved |-> 0]]
  /\ proc' = [Idle EXCEPT !.pc = "next", !.recovering = TRUE, !.todo = LeftUnderWay \ {n}]
  /\ UNCHANGED <<attempts, run, cancel, late, grant, spent, billed, entered, crashes>>

-----------------------------------------------------------------------------
(* advance(): its two loops.                                               *)

\* The next node an earlier process left.
Continue ==
  /\ proc.pc = "next" /\ proc.recovering /\ proc.todo # {}
  /\ LET n == Min(proc.todo) IN
     proc' = [proc EXCEPT !.todo = @ \ {n}, !.cur = n,
                          !.pc = IF n \in Tools THEN "tool" ELSE "model"]
  /\ UNCHANGED <<journalVars, run, cancel, late, node, grant, spent, billed, entered, crashes>>

\* Faulty: a dependency that waits for its approval is taken for done.
ReadyEarly == {n \in Nodes : /\ node[n].status = "pending"
                             /\ \A d \in Dependencies[n] :
                                  node[d].status \in {"completed", "awaiting_approval"}}

Ready == {n \in Nodes : /\ node[n].status = "pending"
                        /\ \A d \in Dependencies[n] : node[d].status = "completed"}

\* A round of the second loop takes the nodes that are ready when it begins.
Round ==
  /\ proc.pc = "next" /\ proc.todo = {}
  /\ proc' = IF Ready = {} \/ \E n \in Nodes : node[n].status = "failed"
             THEN [Idle EXCEPT !.pc = "finish"]
             ELSE [proc EXCEPT !.recovering = FALSE, !.todo = Ready]
  /\ UNCHANGED <<journalVars, run, cancel, late, node, grant, spent, billed, entered, crashes>>

\* Joins are settled, tools that need it suspended for approval, others admitted.
Admit ==
  /\ proc.pc = "next" /\ ~proc.recovering /\ proc.todo # {}
  /\ LET n == Min(proc.todo)
         passed == [proc EXCEPT !.todo = @ \ {n}] IN
     \/ /\ MustStop
        /\ StopRun
        /\ UNCHANGED node
     \/ /\ ~MustStop /\ n \notin Tools \cup Models
        /\ node' = [node EXCEPT ![n].status = "completed"]
        /\ proc' = passed
     \/ /\ ~MustStop /\ n \in NeedsApproval
        /\ node' = [node EXCEPT ![n].status = "awaiting_approval"]
        /\ proc' = passed
     \/ /\ ~MustStop /\ n \in (Tools \cup Models) \ NeedsApproval
        /\ IF FitsLimit(n)
           THEN /\ node' = Admitted(n)
                /\ proc' = [passed EXCEPT !.cur = n, !.pc = IF n \in Tools THEN "tool" ELSE "model"]
           ELSE StopRun /\ UNCHANGED node
  /\ UNCHANGED <<journalVars, run, cancel, late, grant, spent, billed, entered, crashes>>

-----------------------------------------------------------------------------
(* _tool().                                                                *)

\* The admission of an approved tool expires with its grant.
Expired(c) == spent[c] /\ grant[c] = "expired"

\* ApprovalError leaves advance(): nothing is saved.
Raise == proc' = Idle

\* What the row of the call says, when it is taken up and when its attempts are over: a
\* claimed row goes on, a started one is in doubt whatever its effect.
TakeRow ==
  LET c == proc.cur
      r == rows[c] IN
  /\ proc.pc = "tool"
  /\ \/ /\ r.state \in {"completed", "failed"}
        /\ IF UsageKnown(c) THEN Complete(c, r.state = "completed", AttemptUsage(c)) ELSE MarkUnknown(c)
        /\ UNCHANGED rows
     \/ /\ r.state \in {"started", "indeterminate"}
        /\ MarkUnknown(c)
        /\ UNCHANGED rows
     \/ /\ r.state \in {"none", "claimed"}
        /\ UNCHANGED node
        /\ IF Expired(c) THEN Raise /\ UNCHANGED rows
           ELSE IF MustStop THEN StopRun /\ UNCHANGED rows
           ELSE IF r.state = "none" THEN ClaimRow(c, 0) /\ GoTo("claimed")
           ELSE Restart(c, 0) /\ GoTo("attempt")
  /\ UNCHANGED <<attempts, run, cancel, late, grant, spent, billed, entered, crashes>>

StartRow ==
  /\ proc.pc = "claimed"
  /\ MarkStarted(proc.cur, 0)
  /\ GoTo("attempt")
  /\ UNCHANGED <<attempts, run, cancel, late, node, grant, spent, billed, entered, crashes>>

NextAttemptFits(c) == AttemptUsage(c) + 1 <= MaxUsage[c]

\* _before_attempt(), in its order; and the attempt is recorded.
BeginAttempt ==
  LET c == proc.cur IN
  /\ proc.pc = "attempt"
  /\ \/ /\ MustStop \/ (~Expired(c) /\ UsageKnown(c) /\ ~NextAttemptFits(c))
        /\ StopRun /\ UNCHANGED <<attempts, node>>
     \/ /\ ~MustStop /\ Expired(c)
        /\ Raise /\ UNCHANGED <<attempts, node>>
     \/ /\ ~MustStop /\ ~Expired(c) /\ ~UsageKnown(c)
        /\ MarkUnknown(c) /\ UNCHANGED attempts
     \/ /\ ~MustStop /\ ~Expired(c) /\ UsageKnown(c) /\ NextAttemptFits(c)
        /\ \E last \in AttemptNos(c) \cup {0} : IsHighestAttempt(c, last) /\ StartAttempt(c, last + 1)
        /\ GoTo("enter") /\ UNCHANGED node
  /\ UNCHANGED <<rows, run, cancel, late, grant, spent, billed, entered, crashes>>

\* The tool is entered, after its attempt is recorded.
EnterTool ==
  /\ proc.pc = "enter"
  /\ entered' = [entered EXCEPT ![proc.cur] = @ + 1]
  /\ GoTo("body")
  /\ UNCHANGED <<journalVars, run, cancel, late, node, grant, spent, billed, crashes>>

\* The tool returns; a failure need not report what it cost.
ToolReturns ==
  LET c == proc.cur IN
  /\ proc.pc = "body"
  /\ \E o \in Outputs, cost \in Charges \cup {0}, no \in AttemptNos(c) :
       /\ IsHighestAttempt(c, no)
       /\ o = "ok" => cost > 0
       /\ FinishAttempt(c, no, o)
       /\ billed' = [billed EXCEPT ![c][no] = cost]
       /\ proc' = [proc EXCEPT !.out = o, !.pc = IF Retries(c, o, no) THEN "attempt" ELSE "settle"]
  /\ UNCHANGED <<rows, run, cancel, late, node, grant, spent, entered, crashes>>

SettleRow ==
  /\ proc.pc = "settle"
  /\ Settle(proc.cur, proc.out)
  /\ proc' = [proc EXCEPT !.pc = "tool", !.out = "ok"]
  /\ UNCHANGED <<attempts, run, cancel, late, node, grant, spent, billed, entered, crashes>>

-----------------------------------------------------------------------------
(* _model().                                                               *)

\* Faulty: the request is marked once it is answered.
SentLater(n) == node

\* The sending marker: in doubt before the provider is entered.
Sent(n) == [node EXCEPT ![n].status = "unknown", ![n].used = 1]

MarkSending ==
  /\ proc.pc = "model"
  /\ IF MustStop THEN StopRun /\ UNCHANGED node
     ELSE node' = Sent(proc.cur) /\ GoTo("sending")
  /\ UNCHANGED <<journalVars, run, cancel, late, grant, spent, billed, entered, crashes>>

\* The request enters the provider, after its marker is saved.
EnterModel ==
  /\ proc.pc = "sending"
  /\ entered' = [entered EXCEPT ![proc.cur] = @ + 1]
  /\ GoTo("asked")
  /\ UNCHANGED <<journalVars, run, cancel, late, node, grant, spent, billed, crashes>>

\* The request is refused before it is sent, and costs nothing.
RefuseRequest ==
  /\ proc.pc = "sending"
  /\ Complete(proc.cur, FALSE, 0)
  /\ UNCHANGED <<journalVars, run, cancel, late, grant, spent, billed, entered, crashes>>

\* The provider answers, with an action that may be of no use; or nobody knows.
ModelReturns ==
  /\ proc.pc = "asked"
  /\ \/ \E ok \in BOOLEAN, cost \in Charges : Complete(proc.cur, ok, cost)
     \/ MarkUnknown(proc.cur)
  /\ UNCHANGED <<journalVars, run, cancel, late, grant, spent, billed, entered, crashes>>

-----------------------------------------------------------------------------
(* _finish().                                                              *)

\* Faulty: only a loop that was stopped ends the run.
StopsLoop == proc.stop \/ late

\* A stop, the deadline, or a cancellation that no loop noticed.
StopsRun == proc.stop \/ late \/ cancel

Finish ==
  /\ proc.pc = "finish"
  /\ proc' = [proc EXCEPT !.pc = "close", !.stop = StopsRun, !.saw = cancel]
  /\ UNCHANGED <<journalVars, run, cancel, late, node, grant, spent, billed, entered, crashes>>

\* Faulty: what was started under an admission is dropped with it.
LeftOpenNever(c) == FALSE

\* An admitted tool whose attempt or row is open may have had its effect.
LeftOpen(c) ==
  /\ node[c].status = "admitted"
  /\ ~UsageKnown(c) \/ rows[c].state \in {"started", "indeterminate"}

KeepOpen ==
  /\ proc.pc = "close" /\ proc.stop
  /\ \E c \in Tools : LeftOpen(c) /\ node' = InDoubt(c)
  /\ UNCHANGED <<journalVars, run, cancel, late, grant, spent, billed, proc, entered, crashes>>

\* The nodes of a stopped run: what was not begun is cancelled, unless the run goes on
\* because of a node in doubt.
Closed(inDoubt) ==
  [n \in Nodes |->
     LET counted == IF n \in Tools /\ node[n].status = "admitted" /\ AttemptNos(n) # {}
                    THEN [node[n] EXCEPT !.used = AttemptUsage(n)] ELSE node[n] IN
     IF inDoubt \/ node[n].status \in Settled THEN counted
     ELSE [counted EXCEPT !.status = "cancelled", !.reserved = 0]]

Statuses == {node[n].status : n \in Nodes}

\* The status of the run, and the verifier's say; a cancellation that was requested
\* since overrides a terminal one in the transaction that saves it.
Close ==
  /\ proc.pc = "close"
  /\ proc.stop => \A c \in Tools : ~LeftOpen(c)
  /\ node' = IF proc.stop THEN Closed("unknown" \in Statuses) ELSE node
  /\ \E s \in IF "unknown" \in Statuses THEN {"running"}
              ELSE IF proc.stop THEN {IF proc.saw THEN "cancelled" ELSE "exhausted"}
              ELSE IF "failed" \in Statuses THEN {"failed"}
              ELSE IF "awaiting_approval" \in Statuses THEN {"awaiting_approval"}
              ELSE IF Statuses = {"completed"} THEN {"succeeded", "failed"}
              ELSE {"failed"} :
       run' = IF cancel /\ s \in Terminal THEN "cancelled" ELSE s
  /\ proc' = Idle
  /\ UNCHANGED <<journalVars, cancel, late, grant, spent, billed, entered, crashes>>

\* The process dies, or an exception ends the operation.
Crash ==
  /\ proc.pc # "idle"
  /\ crashes < MaxCrashes
  /\ crashes' = crashes + 1
  /\ proc' = Idle
  /\ UNCHANGED <<journalVars, run, cancel, late, node, grant, spent, billed, entered>>

-----------------------------------------------------------------------------
Work == \/ Continue \/ Round \/ Admit \/ TakeRow \/ StartRow \/ BeginAttempt
        \/ EnterTool \/ ToolReturns \/ SettleRow \/ MarkSending \/ EnterModel
        \/ RefuseRequest \/ ModelReturns \/ Finish \/ KeepOpen \/ Close

OrchestrationNext ==
  \/ Start \/ Resume \/ Cancel \/ PassDeadline \/ Crash \/ Work
  \/ \E c \in Tools : ResumeApproved(c) \/ Approve(c) \/ ExpireGrant(c)
  \/ \E n \in Nodes : Reconcile(n)

\* A call returns or times out, and the host resumes a run that was interrupted;
\* nobody has to approve, to cancel or to resolve a doubt.
OrchestrationSpec ==
  /\ OrchestrationInit /\ [][OrchestrationNext]_orchestrationVars
  /\ WF_orchestrationVars(Work) /\ WF_orchestrationVars(Resume)

-----------------------------------------------------------------------------
(* Properties.                                                             *)

\* No physical call is repeated in doubt: a model request is sent once, and an attempt
\* of a tool is the last one until its cost is known, through any number of crashes,
\* resumptions and reconciliations (_model(), _tool(), _before_attempt()).
NeverSentInDoubt ==
  /\ \A n \in Models : entered[n] <= 1
  /\ \A c \in Tools : \A a, b \in AttemptNos(c) : billed[c][a] = 0 => b <= a

\* The books cover what was done and keep to the budget: no node holds less than the
\* physical calls made for it, and all of them together hold no more than the limit,
\* but for what a node is known to have cost beyond its declaration (_admit(),
\* _complete(), _mark_unknown(), _finish(), reconcile()).
BooksHold ==
  /\ \A n \in Nodes : Held(n) >= entered[n]
  /\ LET excess(n) == Max({0, node[n].used - MaxUsage[n]}) IN
     SumFunction([n \in Nodes |-> Held(n)])
       <= UsageLimit + SumFunction([n \in Nodes |-> excess(n)])

\* A run that is over hides nothing: no effect is in doubt, a success rests on a result
\* of every node, and what a settled tool says is what its row says (_finish()).
TerminalHidesNothing ==
  run \in Terminal =>
    /\ \A n \in Nodes : node[n].status \notin {"admitted", "unknown"}
    /\ \A c \in Tools : /\ AttemptNos(c) # {} => rows[c].state \in {"completed", "failed"}
                        /\ UsageKnown(c) \/ node[c].status \in Settled
                        /\ node[c].status = "completed" => rows[c].state = "completed"
                        /\ rows[c].state = "failed" => node[c].status # "completed"
    /\ run = "succeeded" => \A n \in Nodes : node[n].status = "completed"

\* ADR 031: crash recovery of a journal result is to "rebuild missing node completion
\* from this result", so no run ends with a completed call whose node has no result
\* (resume(), _finish()).
ResultsAreRebuilt ==
  run \in Terminal =>
    \A c \in Tools : rows[c].state = "completed" => node[c].status \in Settled

\* The phase of a node: an approval is waited for before it begins.
Phase(n) ==
  CASE node[n].status \in {"pending", "awaiting_approval"} -> "open"
    [] node[n].status = "admitted" -> "begun"
    [] node[n].status = "unknown" -> "doubt"
    [] OTHER -> node[n].status

Nodewise == INSTANCE NodeOnce WITH
  Node <- Nodes,
  Joins <- Nodes \ (Tools \cup Models),
  DoubtFirst <- Models,
  Once <- Models \cup {c \in Tools : EffectClass[c] = "non_idempotent"},
  After <- Dependencies,
  Run <- {"run"},
  Home <- [n \in Nodes |-> "run"],
  phase <- [n \in Nodes |-> Phase(n)],
  calls <- entered,
  closed <- IF run \in Terminal THEN {"run"} ELSE {}

\* The serial owner keeps what NodeOnce promises of each node, through crashes, resumptions,
\* expired approvals and resolutions: in order of the dependencies, no call that cannot be
\* repeated a second time, nothing concluded from a doubt, and no result taken back.
SerialContract == Nodewise!NodeSpec

\* A run that is asked to end ends, or waits for the evidence of a call in doubt, or is
\* blocked by an admission whose approval has expired (cancel(), resume(), _finish()).
CancelledRunEnds ==
  cancel ~> \/ run \in Terminal
            \/ \E n \in Nodes : node[n].status = "unknown"
            \/ \E c \in Tools : node[c].status = "admitted" /\ Expired(c)
=============================================================================
