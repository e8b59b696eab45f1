--------------------------- MODULE CloudExecution ---------------------------
(***************************************************************************)
(* One hosted run: the serial ReAct loop driven by whichever worker holds  *)
(* the lease (cloud/runtime.py), its checkpoint (cloud/execution_state.py) *)
(* and its physical model and tool calls (cloud/execution_calls.py,        *)
(* cloud/execution.py), over the run row of CloudStore.                    *)
(*                                                                         *)
(* One action is one database transaction together with the control flow   *)
(* that leads to it; between two of them other workers, the reviewer, the  *)
(* owner, the clocks and the provider act.  A worker can fail anywhere     *)
(* (Abandon) or die anywhere (Crash), and a worker that lost its lease     *)
(* goes on until a transaction tells it so.                                *)
(*                                                                         *)
(* The transcript is abstracted to a cursor: how many model results and    *)
(* tool results it holds, and whether it ends with an unanswered tool      *)
(* proposal.  Step k has one model call and at most one tool call.         *)
(***************************************************************************)
EXTENDS CloudStore

CONSTANTS
  MaxSteps,     \* RunBudget.max_steps
  MaxTools,     \* RunBudget.max_tool_calls
  MaxCalls,     \* RunDefinition.max_calls
  Decision,     \* what policy says of the tool proposed in each step
  Answers,      \* what the model may answer
  Reserve,      \* CallEnvelope.reserve_units of each kind of call
  Spend         \* PhysicalResult.actual_units of each kind of call

Steps == 0..(MaxSteps - 1)
Kinds == {"model", "tool"}
Ids   == Kinds \X Steps

ASSUME HostedConstants ==
  /\ MaxSteps \in Nat \ {0}
  /\ MaxTools \in Nat
  /\ MaxCalls \in Nat
  /\ Decision \in [Steps -> {"allow", "approve", "deny"}]
  /\ Answers \subseteq {"final", "tool", "retry"}
  /\ Reserve \in [Kinds -> Nat]
  /\ Spend \in [Kinds -> Nat]

VARIABLES
  ckpt,       \* execution_checkpoints.checkpoint and revision
  inv,        \* invocations.state; "none" before the INSERT
  invEpoch,   \* invocations.admission_epoch
  fact,       \* receipts.outcome, with canonical_output when "completed"
  rejected,   \* execution_logical_usage: steps whose proposal policy denied
  grant,      \* approvals of the tool of each step
  pc,         \* where each worker process is in advance()
  mine,       \* backend.latest and the transcript in its memory
  granted,    \* whether it found a grant before it claimed the run
  answer,     \* the provider's answer to each model call
  wire,       \* requests that may still reach the provider
  sends,      \* history: send intents committed for a call
  effects,    \* history: how often the provider executed a call
  refused     \* calls the provider has said it will never execute

callRows   == <<inv, invEpoch, fact, rejected, grant>>
worldVars  == <<answer, wire, sends, effects, refused>>
hostedVars == <<storeVars, ckpt, callRows, pc, mine, granted, worldVars>>

Snapshots == [rev : Nat, status : {"created"} \cup Active \cup Terminal,
              at : Kinds, steps : Nat, tools : Nat]

Places == {"idle", "claim", "reconcile", "load", "drive", "approve", "send", "sent",
           "settle", "result", "exhaust", "stop", "cancel", "leave"}

HostedTypeOK ==
  /\ StoreTypeOK
  /\ ckpt \in Snapshots
  /\ inv \in [Ids -> {"none", "admitted", "sent", "unknown", "settled"}]
  /\ invEpoch \in [Ids -> 0..MaxEpoch]
  /\ fact \in [Ids -> {"none", "completed", "not_executed"}]
  /\ rejected \subseteq Steps
  /\ grant \in [Steps -> {"none", "granted", "consumed", "lapsed"}]
  /\ pc \in [Workers -> Places]
  /\ mine \in [Workers -> Snapshots]
  /\ granted \in [Workers -> BOOLEAN]
  /\ answer \in [Steps -> {"none"} \cup Answers]
  /\ wire \subseteq Ids
  /\ sends \in [Ids -> 0..1]
  /\ effects \in [Ids -> 0..1]
  /\ refused \subseteq Ids

Created == [rev |-> 0, status |-> "created", at |-> "model", steps |-> 0, tools |-> 0]

HostedInit ==
  /\ StoreInit
  /\ ckpt = Created
  /\ inv = [i \in Ids |-> "none"]
  /\ invEpoch = [i \in Ids |-> 0]
  /\ fact = [i \in Ids |-> "none"]
  /\ rejected = {}
  /\ grant = [k \in Steps |-> "none"]
  /\ pc = [w \in Workers |-> "idle"]
  /\ mine = [w \in Workers |-> Created]
  /\ granted = [w \in Workers |-> FALSE]
  /\ answer = [k \in Steps |-> "none"]
  /\ wire = {}
  /\ sends = [i \in Ids |-> 0]
  /\ effects = [i \in Ids |-> 0]
  /\ refused = {}

-----------------------------------------------------------------------------
Invoked   == {i \in Ids : inv[i] # "none"}
Unsettled == {i \in Invoked : inv[i] # "settled"}

\* The physical call a transcript needs next: the tool it proposed last, or the
\* model call of its next step (CallEnvelope.logical_id).
NextCall(s) == IF s.at = "tool" THEN <<"tool", s.steps - 1>> ELSE <<"model", s.steps>>

\* used_usage: what settled results and rejected proposals amount to.
SettledOf(kind) == {i \in Ids : i[1] = kind /\ inv[i] = "settled" /\ fact[i] = "completed"}
UsedSteps == Cardinality(SettledOf("model"))
UsedTools == Cardinality(SettledOf("tool")) + Cardinality(rejected)

CallCount == Cardinality(Invoked) + Cardinality(rejected)

\* _budget() and the cap on calls.
Fits(i) ==
  /\ CallCount < MaxCalls
  /\ used + reserved + Reserve[i[1]] <= MaxUnits
  /\ i[1] = "tool" => UsedTools < MaxTools

\* _active(): the lease, and a run that still accepts physical calls.
Accepting(w) == Transaction(w, FALSE) /\ LockLease(w) /\ AcceptsWork

\* _approval(): the exact grant is as expected and its approver's right current.
Approver(k, as) == grant[k] = as /\ \E p \in Approvers \ {Owner} : member[p]

At(w, place)  == pc[w] = place
Go(w, place)  == pc' = [pc EXCEPT ![w] = place]

\* advance() returns or its process ends: its memory is gone.
Forget(w) ==
  /\ Go(w, "idle")
  /\ mine' = [mine EXCEPT ![w] = Created]
  /\ granted' = [granted EXCEPT ![w] = FALSE]

\* What the locked row makes of a checkpoint: cancellation overrides an answer or
\* a suspension, and the revision moves on.
Closing(s) == s.status \in Terminal \cup {"awaiting_approval"}

Committed(s) ==
  [s EXCEPT !.rev = @ + 1,
            !.status = IF Closing(s) /\ cancelRequested THEN "cancelled" ELSE @]

\* Every physical result the run has is confirmed, and there is one.
Confirmed == Invoked # {} /\ \A i \in Invoked : fact[i] = "completed"

\* Faulty: any checkpoint of the run may be written.
SaveableOver(s, denied) ==
  /\ ckpt.status \notin Terminal
  /\ s.steps = UsedSteps
  /\ s.tools = UsedTools + Cardinality(denied)

\* The checkpoint must continue the current one, and account for every settled
\* result and every rejection, no more and no less.
Saveable(s, denied) ==
  /\ s.rev = ckpt.rev
  /\ ckpt.status \notin Terminal
  /\ s.steps = UsedSteps
  /\ s.tools = UsedTools + Cardinality(denied)

\* Faulty: a success is not checked against what its results have cost.
CloseableOverspent(s) ==
  /\ Closing(s) => Unsettled = {} /\ reserved = 0
  /\ Committed(s).status = "succeeded" => Confirmed

\* A run closes only when nothing is open, and succeeds only on confirmed results
\* it has paid for.
Closeable(s) ==
  /\ Closing(s) => Unsettled = {} /\ reserved = 0
  /\ Committed(s).status = "succeeded" => used <= MaxUnits /\ Confirmed

\* Faulty: the loop goes on with what it has in memory, and leaves the checkpoint
\* for a later save.
PersistInMemory(w, s) ==
  /\ mine' = [mine EXCEPT ![w] = [Committed(s) EXCEPT !.rev = mine[w].rev]]
  /\ UNCHANGED ckpt

Persist(w, s) ==
  /\ mine' = [mine EXCEPT ![w] = Committed(s)]
  /\ ckpt' = Committed(s)

\* save_in_transaction(): a snapshot, and the proposals it rejects, replace the
\* checkpoint; the public status follows, except that a reconciling run keeps
\* reconciling, and a closed or suspended run drops its lease.
Save(w, s, denied) ==
  /\ Transaction(w, TRUE)
  /\ LockLease(w)
  /\ Saveable(s, denied)
  /\ Closeable(s)
  /\ denied # {} => CallCount < MaxCalls
  /\ Persist(w, s)
  /\ rejected' = rejected \cup denied
  /\ status' = IF s.status = "running" /\ status = "reconciling"
               THEN "reconciling" ELSE Committed(s).status
  /\ leaseLeft' = IF Closing(s) THEN 0 ELSE leaseLeft
  /\ UNCHANGED <<epoch, holder, cancelRequested, used, reserved, envVars, ticket>>

-----------------------------------------------------------------------------
(* Acceptance, review and cancellation.                                    *)

\* accept(): the run row and its first checkpoint, in one transaction.
Accept ==
  /\ Submit
  /\ UNCHANGED <<ckpt, callRows, pc, mine, granted, worldVars>>

\* approve(): a reviewer grants exactly the pending call of the checkpoint.
Review(p) ==
  LET k == ckpt.steps - 1 IN
  /\ Transaction(p, FALSE)
  /\ p # Owner /\ member[Owner]
  /\ ckpt.status = "awaiting_approval"
  /\ status \in {"running", "awaiting_approval"}
  /\ ~cancelRequested /\ ~deadlinePassed
  /\ grant[k] = "none"
  /\ grant' = [grant EXCEPT ![k] = "granted"]
  /\ UNCHANGED <<storeVars, ckpt, inv, invEpoch, fact, rejected, pc, mine, granted, worldVars>>

\* A grant runs out; consumed, it no longer lets its call be sent.
LapseGrant(k) ==
  /\ grant[k] \in {"granted", "consumed"}
  /\ grant' = [grant EXCEPT ![k] = IF @ = "granted" THEN "none" ELSE "lapsed"]
  /\ UNCHANGED <<storeVars, ckpt, inv, invEpoch, fact, rejected, pc, mine, granted, worldVars>>

-----------------------------------------------------------------------------
(* advance(): inspect, claim, reconcile, resume or stop.                   *)

\* _must_stop_waiting()
MustStopWaiting ==
  cancelRequested \/ ~member[Owner] \/ ~member[Organization] \/ deadlinePassed

\* A worker looks at the run before it claims it; what it saw may be stale when
\* it gets the lease.  An unapproved run is left alone unless it must stop.
Inspect(w) ==
  LET found == ckpt.status = "awaiting_approval" /\ Approver(ckpt.steps - 1, "granted") IN
  /\ At(w, "idle")
  /\ Transaction(w, TRUE)
  /\ status \in Active
  /\ ckpt.status = "awaiting_approval" => found \/ MustStopWaiting
  /\ mine' = [mine EXCEPT ![w] = ckpt]
  /\ granted' = [granted EXCEPT ![w] = found]
  /\ Go(w, "claim")
  /\ UNCHANGED <<storeVars, ckpt, callRows, worldVars>>

ClaimRun(w) ==
  /\ At(w, "claim")
  /\ Claim(w, Unsettled # {})
  /\ Go(w, "reconcile")
  /\ UNCHANGED <<ckpt, callRows, mine, granted, worldVars>>

\* heartbeat(): while advance() runs, its task renews the lease.
Heartbeat(w) ==
  /\ pc[w] \notin {"idle", "claim"}
  /\ Renew(w)
  /\ UNCHANGED <<ckpt, callRows, pc, mine, granted, worldVars>>

\* settle(): a receipt becomes usage and gives its reservation back.
Settle(w, i) ==
  /\ Transaction(w, TRUE)
  /\ LockLease(w)
  /\ i \in Unsettled
  /\ fact[i] # "none"
  /\ inv' = [inv EXCEPT ![i] = "settled"]
  /\ used' = used + (IF fact[i] = "completed" THEN Spend[i[1]] ELSE 0)
  /\ reserved' = reserved - Reserve[i[1]]
  /\ UNCHANGED <<status, epoch, holder, leaseLeft, cancelRequested, envVars, ticket,
                 ckpt, invEpoch, fact, rejected, grant, mine, granted, worldVars>>

\* Faulty: whatever an earlier owner left open was never sent.
RetireableSent(w, i) == inv[i] \in {"admitted", "sent"} /\ invEpoch[i] < ticket[w]

\* Only the admission of an earlier owner can no longer be sent.
Retireable(w, i) == inv[i] = "admitted" /\ invEpoch[i] < ticket[w]

\* retire_admission(): the fenced proof that a call was never sent is its receipt,
\* and settles it.
Retire(w, i) ==
  /\ Transaction(w, TRUE)
  /\ LockLease(w)
  /\ Retireable(w, i)
  /\ fact[i] = "none"
  /\ fact' = [fact EXCEPT ![i] = "not_executed"]
  /\ inv' = [inv EXCEPT ![i] = "settled"]
  /\ reserved' = reserved - Reserve[i[1]]
  /\ UNCHANGED <<status, epoch, holder, leaseLeft, cancelRequested, used, envVars, ticket,
                 ckpt, invEpoch, rejected, grant, pc, mine, granted, worldVars>>

\* record_result(): a physical result is recorded whoever holds the lease.
RecordResult(w, i) ==
  /\ Transaction(w, TRUE)
  /\ inv[i] \in {"sent", "unknown", "settled"}
  /\ fact[i] = "none"
  /\ effects[i] > 0
  /\ fact' = [fact EXCEPT ![i] = "completed"]
  /\ UNCHANGED <<storeVars, ckpt, inv, invEpoch, rejected, grant, mine, granted, worldVars>>

\* reconcile_all(): the open calls of earlier owners, one after the other.
Reconcile(w) ==
  \/ \E i \in Unsettled : At(w, "reconcile") /\ Settle(w, i) /\ UNCHANGED pc
  \/ \E i \in Unsettled : At(w, "reconcile") /\ Retire(w, i)
  \/ \E i \in Unsettled : At(w, "reconcile") /\ RecordResult(w, i) /\ UNCHANGED pc

\* mark_unknown(): a result nobody can vouch for; the run reconciles from now on.
MarkUnknown(w, i) ==
  /\ Transaction(w, TRUE)
  /\ LockLease(w)
  /\ inv[i] \in {"sent", "unknown"}
  /\ inv' = [inv EXCEPT ![i] = "unknown"]
  /\ status' = "reconciling"
  /\ Go(w, "leave")
  /\ UNCHANGED <<epoch, holder, leaseLeft, cancelRequested, used, reserved, envVars, ticket,
                 ckpt, invEpoch, fact, rejected, grant, mine, granted, worldVars>>

\* The resolver cannot tell, or the dispatch of the current call failed.
LoseResult(w) ==
  \/ \E i \in Unsettled : At(w, "reconcile") /\ fact[i] = "none" /\ MarkUnknown(w, i)
  \/ At(w, "sent") /\ MarkUnknown(w, NextCall(mine[w]))

\* An earlier owner's call was retired or declined: its output will never exist.
NeverSent == \E i \in Ids : inv[i] = "settled" /\ fact[i] = "not_executed"

\* Faulty: the open calls are left for later.
QuietRegardless == TRUE

\* Nothing is open that another owner could still be waiting for.
Quiet == Unsettled = {}

\* _resume_or_stop(): the reconciled run goes on as running, or stops for the
\* first reason that applies.
ResumeOrStop(w) ==
  /\ At(w, "reconcile")
  /\ Transaction(w, TRUE)
  /\ LockLease(w)
  /\ Quiet
  /\ \/ /\ MustStopWaiting \/ NeverSent
        /\ Go(w, IF cancelRequested THEN "cancel" ELSE "stop")
        /\ UNCHANGED status
     \/ /\ ~MustStopWaiting /\ ~NeverSent
        /\ Go(w, "load")
        /\ status' = "running"
  /\ UNCHANGED <<epoch, holder, leaseLeft, cancelRequested, used, reserved, envVars, ticket,
                 ckpt, callRows, mine, granted, worldVars>>

\* The stopped checkpoint is built on what the worker saw before its claim, with
\* the usage the rows have now.
Stop(w) ==
  LET s == [mine[w] EXCEPT !.status = IF At(w, "cancel") THEN "cancelled" ELSE "failed",
                           !.steps = UsedSteps, !.tools = UsedTools] IN
  /\ pc[w] \in {"cancel", "stop"}
  /\ Save(w, s, {})
  /\ Go(w, "leave")
  /\ UNCHANGED <<inv, invEpoch, fact, grant, granted, worldVars>>

\* load(), and the entry of the loop the checkpoint calls for.
Load(w) ==
  /\ At(w, "load")
  /\ Transaction(w, TRUE)
  /\ ckpt.status = "awaiting_approval" => granted[w]
  /\ ckpt.status \notin Terminal
  /\ mine' = [mine EXCEPT ![w] = ckpt]
  /\ Go(w, IF ckpt.status = "awaiting_approval" THEN "approve" ELSE "drive")
  /\ UNCHANGED <<storeVars, ckpt, callRows, granted, worldVars>>

-----------------------------------------------------------------------------
(* The loop between two checkpoints: one physical call.                    *)

\* run(): the first checkpoint persists the exact first input.
Start(w) ==
  /\ At(w, "drive") /\ mine[w].status = "created"
  /\ Save(w, [mine[w] EXCEPT !.status = "running"], {})
  /\ UNCHANGED <<inv, invEpoch, fact, grant, pc, granted, worldVars>>

\* Whether the loop has a call to make, and may make it without a reviewer.
Wants(w, i) ==
  /\ At(w, "drive")
  /\ mine[w].status = "running"
  /\ i = NextCall(mine[w])
  /\ i[2] \in Steps
  /\ i[1] = "tool" => Decision[i[2]] = "allow"

AdmissionEpoch(w) == ticket[w]

\* admit(): the call is inserted under the ticket's epoch and reserves its units.
Insert(w, i) ==
  /\ inv' = [inv EXCEPT ![i] = "admitted"]
  /\ invEpoch' = [invEpoch EXCEPT ![i] = AdmissionEpoch(w)]
  /\ reserved' = reserved + Reserve[i[1]]

Admit(w) ==
  \E i \in Ids :
    /\ Wants(w, i)
    /\ Accepting(w)
    /\ mine[w].rev = ckpt.rev
    /\ inv[i] = "none"
    /\ i[2] \notin rejected \/ i[1] = "model"
    /\ Fits(i)
    /\ Insert(w, i)
    /\ Go(w, "send")
    /\ UNCHANGED <<status, epoch, holder, leaseLeft, cancelRequested, used, envVars, ticket,
                   ckpt, fact, rejected, grant, mine, granted, worldVars>>

\* Faulty: the approved call is admitted and the checkpoint left for later.
AdmitsLater(w, s) == UNCHANGED <<ckpt, mine>>

\* The checkpoint that stops waiting is written by the transaction that admits.
AdmitsWith(w, s) == Persist(w, s)

\* consume_approval(): one transaction consumes the grant, admits the exact call
\* and takes the checkpoint from awaiting to running.
AdmitApproved(w) ==
  LET s == [mine[w] EXCEPT !.status = "running"]
      i == NextCall(s)
  IN
  /\ At(w, "approve")
  /\ Accepting(w)
  /\ Saveable(s, {})
  /\ Approver(i[2], "granted")
  /\ inv[i] = "none"
  /\ Fits(i)
  /\ grant' = [grant EXCEPT ![i[2]] = "consumed"]
  /\ Insert(w, i)
  /\ AdmitsWith(w, s)
  /\ Go(w, "send")
  /\ UNCHANGED <<status, epoch, holder, leaseLeft, cancelRequested, used, envVars, ticket,
                 fact, rejected, granted, worldVars>>

\* CloudBudgetExceeded, at admission.
OverBudget(w) ==
  \E i \in Ids :
    /\ Wants(w, i) \/ (At(w, "approve") /\ i = NextCall(mine[w]))
    /\ Accepting(w)
    /\ inv[i] = "none"
    /\ ~Fits(i)
    /\ Go(w, "exhaust")
    /\ UNCHANGED <<storeVars, ckpt, callRows, mine, granted, worldVars>>

\* mark_sent(): the send intent commits before the request leaves the process;
\* from here on it may reach the provider, whatever becomes of the worker.
Send(w) ==
  LET i == NextCall(mine[w]) IN
  /\ At(w, "send")
  /\ Accepting(w)
  /\ inv[i] = "admitted" /\ invEpoch[i] = ticket[w] /\ fact[i] = "none"
  /\ i[1] = "tool" /\ Decision[i[2]] = "approve" => Approver(i[2], "consumed")
  /\ used + reserved <= MaxUnits
  /\ inv' = [inv EXCEPT ![i] = "sent"]
  /\ sends' = [sends EXCEPT ![i] = @ + 1]
  /\ wire' = wire \cup {i}
  /\ Go(w, "sent")
  /\ UNCHANGED <<storeVars, ckpt, invEpoch, fact, rejected, grant, mine, granted,
                 answer, effects, refused>>

\* The verified answer is recorded, with or without the lease.
Receive(w) ==
  /\ At(w, "sent")
  /\ RecordResult(w, NextCall(mine[w]))
  /\ Go(w, "settle")

SettleOwn(w) ==
  /\ At(w, "settle")
  /\ Settle(w, NextCall(mine[w]))
  /\ Go(w, "result")

\* A result settled earlier, by whichever worker, is reused instead of a call.
Reuse(w) ==
  LET i == NextCall(mine[w]) IN
  /\ At(w, "drive")
  /\ mine[w].status = "running"
  /\ i \in Ids
  /\ Transaction(w, TRUE) /\ LockLease(w)
  /\ inv[i] = "settled" /\ fact[i] = "completed"
  /\ Go(w, "result")
  /\ UNCHANGED <<storeVars, ckpt, callRows, mine, granted, worldVars>>

\* The snapshots the loop may save once it has the result of its call: the tool's
\* observation, or what follows from the model's answer.
Taken(s) ==
  IF s.at = "tool" THEN {[s EXCEPT !.at = "model", !.tools = @ + 1]}
  ELSE LET k == s.steps
           t == [s EXCEPT !.steps = @ + 1]
           proposed == IF t.tools >= MaxTools THEN "over" ELSE Decision[k]
       IN CASE answer[k] = "final" -> {[t EXCEPT !.status = f] : f \in {"succeeded", "failed"}}
            [] answer[k] = "retry" -> {t}
            [] answer[k] = "tool" /\ proposed = "over"  -> {[t EXCEPT !.status = "exhausted"]}
            [] answer[k] = "tool" /\ proposed = "deny"  -> {[t EXCEPT !.tools = @ + 1]}
            [] answer[k] = "tool" /\ proposed = "allow" -> {[t EXCEPT !.at = "tool"]}
            [] answer[k] = "tool" /\ proposed = "approve" ->
                 {[t EXCEPT !.at = "tool", !.status = "awaiting_approval"]}
            [] OTHER -> {}

\* Proposals denied by the step a snapshot takes.
Denied(s) == IF /\ s.at = "model" /\ s.tools < MaxTools
                /\ answer[s.steps] = "tool" /\ Decision[s.steps] = "deny"
             THEN {s.steps} ELSE {}

\* The loop takes the result into its transcript and saves it.
Take(w) ==
  /\ At(w, "result")
  /\ \E s \in Taken(mine[w]) :
       /\ Save(w, s, Denied(mine[w]))
       /\ Go(w, IF Closing(s) THEN "leave" ELSE "drive")
  /\ UNCHANGED <<inv, invEpoch, fact, grant, granted, worldVars>>

\* A success the run has not the units for is exhaustion instead.
Overspent(w) ==
  /\ At(w, "result")
  /\ \E s \in Taken(mine[w]) : s.status = "succeeded"
  /\ Transaction(w, TRUE) /\ LockLease(w)
  /\ ~cancelRequested
  /\ used > MaxUnits
  /\ Go(w, "exhaust")
  /\ UNCHANGED <<storeVars, ckpt, callRows, mine, granted, worldVars>>

\* The step budget is spent.
OutOfSteps(w) ==
  /\ At(w, "drive")
  /\ mine[w].status = "running" /\ mine[w].at = "model" /\ mine[w].steps = MaxSteps
  /\ Save(w, [mine[w] EXCEPT !.status = "exhausted"], {})
  /\ Go(w, "leave")
  /\ UNCHANGED <<inv, invEpoch, fact, grant, granted, worldVars>>

\* _exhaust(): reload the committed checkpoint and close it.
Exhaust(w) ==
  /\ At(w, "exhaust")
  /\ Save(w, [ckpt EXCEPT !.status = "exhausted", !.steps = UsedSteps, !.tools = UsedTools], {})
  /\ Go(w, "leave")
  /\ UNCHANGED <<inv, invEpoch, fact, grant, granted, worldVars>>

\* _release(): whatever went wrong, or nothing did, the worker yields its lease; a
\* run that was only looked at while it waits for approval waits on.
Abandon(w) ==
  /\ pc[w] # "idle"
  /\ Forget(w)
  /\ IF pc[w] # "claim" /\ Transaction(w, TRUE) /\ LockLease(w)
     THEN /\ leaseLeft' = 0
          /\ status' = IF status = "running" /\ ckpt.status = "awaiting_approval"
                       THEN "awaiting_approval" ELSE status
     ELSE UNCHANGED <<leaseLeft, status>>
  /\ UNCHANGED <<epoch, holder, cancelRequested, used, reserved, envVars, ticket,
                 ckpt, callRows, worldVars>>

Crash(w) ==
  /\ pc[w] # "idle"
  /\ LoseTicket(w)
  /\ Forget(w)
  /\ UNCHANGED <<ckpt, callRows, worldVars>>

-----------------------------------------------------------------------------
(* The provider.                                                           *)

Execute(i) ==
  /\ i \in wire
  /\ i \notin refused
  /\ wire' = wire \ {i}
  /\ effects' = [effects EXCEPT ![i] = @ + 1]
  /\ IF i[1] = "model" THEN \E a \in Answers : answer' = [answer EXCEPT ![i[2]] = a]
     ELSE UNCHANGED answer
  /\ UNCHANGED <<storeVars, ckpt, callRows, pc, mine, granted, sends, refused>>

\* The provider vouches that it has not executed a call and never will, and a
\* trusted service records that.
Refuse(i) ==
  /\ inv[i] \in {"sent", "unknown"}
  /\ fact[i] = "none"
  /\ effects[i] = 0
  /\ refused' = refused \cup {i}
  /\ fact' = [fact EXCEPT ![i] = "not_executed"]
  /\ UNCHANGED <<storeVars, ckpt, inv, invEpoch, rejected, grant, pc, mine, granted,
                 answer, wire, sends, effects>>

-----------------------------------------------------------------------------
RowStep ==
  /\ \/ Cancel(Owner)
     \/ LeaseTick
     \/ PassDeadline
     \/ \E a \in Actors : SetMember(a)
  /\ UNCHANGED <<ckpt, callRows, pc, mine, granted, worldVars>>

WorkerStep(w) ==
  \/ Inspect(w) \/ ClaimRun(w) \/ Heartbeat(w) \/ Reconcile(w) \/ LoseResult(w)
  \/ ResumeOrStop(w) \/ Stop(w) \/ Load(w) \/ Start(w) \/ Admit(w) \/ AdmitApproved(w)
  \/ OverBudget(w) \/ Send(w) \/ Receive(w) \/ SettleOwn(w) \/ Reuse(w) \/ Take(w)
  \/ Overspent(w) \/ OutOfSteps(w) \/ Exhaust(w) \/ Abandon(w) \/ Crash(w)

HostedNext ==
  \/ Accept
  \/ \E p \in Approvers : Review(p)
  \/ \E k \in Steps : LapseGrant(k)
  \/ RowStep
  \/ \E w \in Workers : WorkerStep(w)
  \/ \E i \in Ids : Execute(i) \/ Refuse(i)

HostedSpec == HostedInit /\ [][HostedNext]_hostedVars

-----------------------------------------------------------------------------
(* Properties.                                                             *)

\* A hosted call keeps the promise of GovernedEffect, through any number of
\* owners: it is sent at most once and only after its admission, it happens at
\* most once, and what its receipt says of it is true for ever; in particular a
\* call retired as never sent never happens, although the worker that admitted it
\* may still be alive (retire_admission(), mark_sent(), record_result()).
HostedEffect == INSTANCE GovernedEffect WITH
  Calls <- Ids, admitted <- Invoked, asked <- sends, happened <- effects, verdict <- fact

HostedContract == HostedEffect!EffectSpec

\* A run is public as running only when everything open in it belongs to the
\* current owner and is not in doubt: the way back from reconciling goes through
\* the settlement of all an earlier owner left (claim(), _resume_or_stop()).
RunningIsOwned ==
  status = "running" =>
    \A i \in Unsettled : invEpoch[i] = epoch /\ inv[i] # "unknown"

\* Usage and transcript never drift apart: while a run goes on, what is settled
\* and not in its checkpoint yet is at most one call, the very one the checkpoint
\* needs next, also when its receipt came late and another worker settled it
\* (settle(), save_in_transaction(), resume_running()).
TranscriptOwnsUsage ==
  ckpt.status \notin Terminal =>
    /\ \A i \in Ids : inv[i] = "settled" /\ fact[i] = "completed" =>
         \/ i = NextCall(ckpt)
         \/ i[2] < ckpt.steps
    /\ ckpt.steps <= UsedSteps /\ UsedSteps <= ckpt.steps + 1
    /\ ckpt.tools <= UsedTools /\ UsedTools <= ckpt.tools + 1
    /\ UsedSteps > ckpt.steps => ckpt.at = "model"
    /\ UsedTools > ckpt.tools => ckpt.at = "tool"

\* An approval is spent together with the wait it ends: a tool that needs one has
\* an invocation exactly when its grant is consumed, and from then on the
\* checkpoint no longer waits for it (admit(), consume_approval()).
ApprovalEndsTheWait ==
  \A k \in Steps :
    /\ Decision[k] = "approve" =>
         (inv[<<"tool", k>>] # "none" <=> grant[k] \in {"consumed", "lapsed"})
    /\ ckpt.status = "awaiting_approval" /\ NextCall(ckpt) = <<"tool", k>> =>
         inv[<<"tool", k>>] = "none"

\* A closed run hides nothing: nothing is open or reserved, row and checkpoint say
\* the same, and a success rests on results that all happened, all are in the
\* transcript, and were paid for (save_in_transaction(), _exhaust()).
ClosedRunIsSettled ==
  ckpt.status \in Terminal =>
    /\ Unsettled = {} /\ reserved = 0
    /\ status = ckpt.status
    /\ ckpt.steps = UsedSteps /\ ckpt.tools = UsedTools
    /\ status = "succeeded" => used <= MaxUnits /\ \A i \in Invoked : effects[i] = 1

\* The checkpoint only moves forward, one revision at a time, and never again once
\* it is closed, although workers build on what they saw before their claim and
\* go on after they lost it (save_in_transaction(), _resume_or_stop()).
CheckpointMovesForward ==
  [][ckpt' # ckpt =>
       /\ ckpt.status \notin Terminal
       /\ ckpt'.rev = ckpt.rev + 1
       /\ ckpt'.steps >= ckpt.steps /\ ckpt'.tools >= ckpt.tools]_hostedVars
=============================================================================
