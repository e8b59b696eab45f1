----------------------------- MODULE CloudCalls -----------------------------
(***************************************************************************)
(* Approved, budgeted, receipt-settled physical calls of one Cloud run     *)
(* (cloud/calls.py) over the run row of CloudStore: exact one-shot         *)
(* approvals, reservations, the durable send intent, provider receipts and *)
(* settlement.                                                             *)
(*                                                                         *)
(* The physical request is not part of any transaction.  After mark_sent   *)
(* commits, the worker still has to transmit (toSend), the request travels *)
(* (wire), and the provider executes every request that reaches it: the    *)
(* model gives the provider no deduplication, so nothing but this code     *)
(* keeps a call from having its effect twice.                              *)
(***************************************************************************)
EXTENDS CloudStore

CONSTANTS
  Calls,        \* invocation ids, each with its exact CallRequest
  Approvals,    \* approval ids
  NoCall,       \* no such row
  NoApproval,
  NoActor,
  Reserve,      \* CallRequest.reserve_units of each call
  ActualUnits,  \* what a provider may report as Receipt.actual_units
  MaxCalls      \* RunDefinition.max_calls

ASSUME CallConstants ==
  /\ NoCall \notin Calls
  /\ NoApproval \notin Approvals
  /\ NoActor \notin Actors
  /\ Reserve \in [Calls -> Nat]
  /\ ActualUnits \subseteq Nat
  /\ MaxCalls \in Nat

VARIABLES
  approvedCall,     \* approvals.action_digest: the call an approval is for
  approver,         \* approvals.approver_id
  consumed,         \* approvals.consumed
  expired,          \* approvals.expires_at <= clock_timestamp()
  callState,        \* invocations.state; "none" before the INSERT
  admissionEpoch,   \* invocations.admission_epoch
  approvalOf,       \* invocations.approval_id
  receipt,          \* receipts.outcome; "none" without a row
  units,            \* receipts.actual_units
  toSend,           \* calls a worker process has marked sent but not transmitted
  wire,             \* transmitted requests the provider has not seen yet
  sends,            \* history: send intents committed for a call
  effects,          \* history: how often the provider executed a call
  refused,          \* calls the provider has answered it will never execute
  overrun           \* history: what providers charged beyond the reservations

approvalVars == <<approvedCall, approver, consumed, expired>>
callVars     == <<callState, admissionEpoch, approvalOf, receipt, units>>
worldVars    == <<toSend, wire, sends, effects, refused, overrun>>
vars         == <<storeVars, approvalVars, callVars, worldVars>>

CallStates == {"none", "admitted", "sent", "unknown", "settled"}
Outcomes   == {"completed", "not_executed"}

TypeOK ==
  /\ StoreTypeOK
  /\ approvedCall \in [Approvals -> Calls \cup {NoCall}]
  /\ approver \in [Approvals -> Actors \cup {NoActor}]
  /\ consumed \in [Approvals -> BOOLEAN]
  /\ expired \in [Approvals -> BOOLEAN]
  /\ callState \in [Calls -> CallStates]
  /\ admissionEpoch \in [Calls -> 0..MaxEpoch]
  /\ approvalOf \in [Calls -> Approvals \cup {NoApproval}]
  /\ receipt \in [Calls -> {"none"} \cup Outcomes]
  /\ units \in [Calls -> Nat]
  /\ toSend \in [Workers -> SUBSET Calls]
  /\ wire \subseteq Calls
  /\ sends \in [Calls -> Nat]
  /\ effects \in [Calls -> Nat]
  /\ refused \subseteq Calls
  /\ overrun \in Nat

Init ==
  /\ StoreInit
  /\ approvedCall = [a \in Approvals |-> NoCall]
  /\ approver = [a \in Approvals |-> NoActor]
  /\ consumed = [a \in Approvals |-> FALSE]
  /\ expired = [a \in Approvals |-> FALSE]
  /\ callState = [c \in Calls |-> "none"]
  /\ admissionEpoch = [c \in Calls |-> 0]
  /\ approvalOf = [c \in Calls |-> NoApproval]
  /\ receipt = [c \in Calls |-> "none"]
  /\ units = [c \in Calls |-> 0]
  /\ toSend = [w \in Workers |-> {}]
  /\ wire = {}
  /\ sends = [c \in Calls |-> 0]
  /\ effects = [c \in Calls |-> 0]
  /\ refused = {}
  /\ overrun = 0

-----------------------------------------------------------------------------
Invoked       == {c \in Calls : callState[c] # "none"}
Open          == {c \in Calls : callState[c] \in {"admitted", "sent", "unknown"}}
HasUnresolved == Open # {}

\* Faulty: one completed call is enough, whatever became of the others.
ConfirmedOnce ==
  \E c \in Invoked : callState[c] = "settled" /\ receipt[c] = "completed"

\* What finish() asks of the receipts before a run may report success: at least
\* one completed call, and no call with any other outcome.
Confirmed ==
  /\ \E c \in Invoked : callState[c] = "settled" /\ receipt[c] = "completed"
  /\ \A c \in Invoked : receipt[c] = "completed"

\* An approval still stands behind a call: its approver's rights are current.
ApprovalCurrent(a) ==
  /\ ~expired[a]
  /\ approver[a] \in Approvers
  /\ member[approver[a]]

\* Faulty: any valid approval of the run will do.
ApprovesAnyCall(a, c) ==
  ~consumed[a] /\ approver[a] # Owner /\ ApprovalCurrent(a)

\* The approval is for exactly this call, unspent, independent and current.
Approves(a, c) ==
  /\ approvedCall[a] = c
  /\ ~consumed[a]
  /\ approver[a] # Owner
  /\ ApprovalCurrent(a)

FitsBudget(c) == used + reserved + Reserve[c] <= MaxUnits

\* The epoch an invocation is admitted under, and must still be sent under.
EpochOf(w) == ticket[w]

\* Faulty: a call whose result is in doubt is sent again.
SendableAgain(w, c) ==
  callState[c] \in {"admitted", "sent", "unknown"} /\ receipt[c] = "none"

\* Faulty: the receipts are not looked at.
SendableOverReceipt(w, c) ==
  callState[c] = "admitted" /\ admissionEpoch[c] = EpochOf(w)

\* The state of an invocation from which its send intent may be committed.
Sendable(w, c) ==
  /\ callState[c] = "admitted"
  /\ admissionEpoch[c] = EpochOf(w)
  /\ receipt[c] = "none"

\* Faulty: a settled call is settled again.
SettleableAgain(c) == c \in Invoked /\ receipt[c] # "none"

\* An open call with a receipt; a settled one is returned unchanged.
Settleable(c) == c \in Open /\ receipt[c] # "none"

\* Faulty: the reservation outlives the call.
ReleasedNothing(c) == 0

\* What a settled call gives back, whatever it cost.
Released(c) == Reserve[c]

Beyond(c) == IF units[c] > Reserve[c] THEN units[c] - Reserve[c] ELSE 0

-----------------------------------------------------------------------------
(* Operations of the call store.                                           *)

\* grant(): an independent approver grants one exact call.
Grant(p, a, c) ==
  /\ Transaction(p, FALSE)
  /\ p # Owner
  /\ member[Owner]
  /\ status \in {"queued", "running", "awaiting_approval"}
  /\ ~cancelRequested
  /\ ~deadlinePassed
  /\ approvedCall[a] = NoCall
  /\ approvedCall' = [approvedCall EXCEPT ![a] = c]
  /\ approver' = [approver EXCEPT ![a] = p]
  /\ UNCHANGED <<storeVars, consumed, expired, callVars, worldVars>>

\* admit(): consume the approval, insert the invocation under the ticket's epoch
\* and reserve its units, all in one transaction.  A call already admitted is
\* returned unchanged.
Admit(w, c, a) ==
  /\ Transaction(w, FALSE)
  /\ LockLease(w)
  /\ callState[c] = "none"
  /\ AcceptsWork
  /\ Cardinality(Invoked) < MaxCalls
  /\ FitsBudget(c)
  /\ Approves(a, c)
  /\ consumed' = [consumed EXCEPT ![a] = TRUE]
  /\ callState' = [callState EXCEPT ![c] = "admitted"]
  /\ admissionEpoch' = [admissionEpoch EXCEPT ![c] = EpochOf(w)]
  /\ approvalOf' = [approvalOf EXCEPT ![c] = a]
  /\ reserved' = reserved + Reserve[c]
  /\ UNCHANGED <<status, epoch, holder, leaseLeft, cancelRequested, used, envVars, ticket,
                 approvedCall, approver, expired, receipt, units, worldVars>>

\* mark_sent(): commit the send intent, before any request leaves the process.
MarkSent(w, c) ==
  /\ Transaction(w, FALSE)
  /\ LockLease(w)
  /\ AcceptsWork
  /\ Sendable(w, c)
  /\ consumed[approvalOf[c]]
  /\ ApprovalCurrent(approvalOf[c])
  /\ used + reserved <= MaxUnits
  /\ callState' = [callState EXCEPT ![c] = "sent"]
  /\ sends' = [sends EXCEPT ![c] = @ + 1]
  /\ toSend' = [toSend EXCEPT ![w] = @ \cup {c}]
  /\ UNCHANGED <<storeVars, approvalVars, admissionEpoch, approvalOf, receipt, units,
                 wire, effects, refused, overrun>>

\* mark_unknown(): the holder could not learn the result of a send.
MarkUnknown(w, c) ==
  /\ Transaction(w, TRUE)
  /\ LockLease(w)
  /\ callState[c] \in {"sent", "unknown"}
  /\ callState' = [callState EXCEPT ![c] = "unknown"]
  /\ status' = "reconciling"
  /\ UNCHANGED <<epoch, holder, leaseLeft, cancelRequested, used, reserved, envVars, ticket,
                 approvalVars, admissionEpoch, approvalOf, receipt, units, worldVars>>

\* What a trusted service may report of a call: execution the provider vouches
\* for, or nonexecution, vouched for by the provider or by the durable row that
\* says the call was never sent.
Verified(c, outcome, u) ==
  \/ outcome = "completed" /\ effects[c] > 0 /\ u \in ActualUnits
  \/ outcome = "not_executed" /\ u = 0 /\ (c \in refused \/ callState[c] = "admitted")

\* record_receipt(): append an immutable provider fact; no lease is needed, and
\* neither the run nor the reservation moves.
RecordReceipt(w, c, outcome, u) ==
  /\ Transaction(w, TRUE)
  /\ c \in Invoked
  /\ callState[c] = "admitted" => outcome = "not_executed"
  /\ receipt[c] = "none"
  /\ Verified(c, outcome, u)
  /\ receipt' = [receipt EXCEPT ![c] = outcome]
  /\ units' = [units EXCEPT ![c] = u]
  /\ UNCHANGED <<storeVars, approvalVars, callState, admissionEpoch, approvalOf, worldVars>>

\* settle(): the current holder turns a receipt into actual usage and gives the
\* reservation back.
Settle(w, c) ==
  /\ Transaction(w, TRUE)
  /\ LockLease(w)
  /\ Settleable(c)
  /\ callState' = [callState EXCEPT ![c] = "settled"]
  /\ used' = used + units[c]
  /\ reserved' = reserved - Released(c)
  /\ overrun' = overrun + Beyond(c)
  /\ UNCHANGED <<status, epoch, holder, leaseLeft, cancelRequested, envVars, ticket,
                 approvalVars, admissionEpoch, approvalOf, receipt, units,
                 toSend, wire, sends, effects, refused>>

-----------------------------------------------------------------------------
(* Between the transactions: the worker, the network and the provider.     *)

ExpireApproval(a) ==
  /\ approvedCall[a] # NoCall
  /\ ~expired[a]
  /\ expired' = [expired EXCEPT ![a] = TRUE]
  /\ UNCHANGED <<storeVars, approvedCall, approver, consumed, callVars, worldVars>>

\* The request leaves the process, however much later, lease or no lease.
Transmit(w, c) ==
  /\ c \in toSend[w]
  /\ toSend' = [toSend EXCEPT ![w] = @ \ {c}]
  /\ wire' = wire \cup {c}
  /\ UNCHANGED <<storeVars, approvalVars, callVars, sends, effects, refused, overrun>>

Execute(c) ==
  /\ c \in wire
  /\ c \notin refused
  /\ wire' = wire \ {c}
  /\ effects' = [effects EXCEPT ![c] = @ + 1]
  /\ UNCHANGED <<storeVars, approvalVars, callVars, toSend, sends, refused, overrun>>

\* The provider declines a request, or, asked about a key it has not executed,
\* answers that it never will.
Refuse(c) ==
  /\ callState[c] \in {"sent", "unknown"}
  /\ effects[c] = 0
  /\ c \notin refused
  /\ refused' = refused \cup {c}
  /\ UNCHANGED <<storeVars, approvalVars, callVars, toSend, wire, sends, effects, overrun>>

\* A worker process dies with its ticket and whatever it had not transmitted.
Crash(w) ==
  /\ LoseTicket(w)
  /\ toSend' = [toSend EXCEPT ![w] = {}]
  /\ UNCHANGED <<approvalVars, callVars, wire, sends, effects, refused, overrun>>

-----------------------------------------------------------------------------
\* The operations that touch only the run row leave the calls alone.
RunStep ==
  /\ \/ Submit
     \/ \E w \in Workers : Claim(w, HasUnresolved) \/ Renew(w) \/ Release(w)
     \/ \E a \in {Owner} \cup Workers : Cancel(a)
     \/ \E w \in Workers, s \in Terminal : Finish(w, s, HasUnresolved, Confirmed)
     \/ LeaseTick
     \/ PassDeadline
     \/ \E a \in Actors : SetMember(a)
  /\ UNCHANGED <<approvalVars, callVars, worldVars>>

Next ==
  \/ RunStep
  \/ \E p \in Approvers, a \in Approvals, c \in Calls : Grant(p, a, c)
  \/ \E w \in Workers, c \in Calls, a \in Approvals : Admit(w, c, a)
  \/ \E w \in Workers, c \in Calls : MarkSent(w, c)
  \/ \E w \in Workers, c \in Calls : MarkUnknown(w, c)
  \/ \E w \in Workers, c \in Calls, o \in Outcomes, u \in ActualUnits \cup {0} :
       RecordReceipt(w, c, o, u)
  \/ \E w \in Workers, c \in Calls : Settle(w, c)
  \/ \E a \in Approvals : ExpireApproval(a)
  \/ \E w \in Workers, c \in Calls : Transmit(w, c)
  \/ \E c \in Calls : Execute(c) \/ Refuse(c)
  \/ \E w \in Workers : Crash(w)

Spec == Init /\ [][Next]_vars

-----------------------------------------------------------------------------
(* Properties.                                                             *)

\* A running run carries nothing over from an earlier owner: every open call was
\* admitted under the current epoch and none of them is unknown (claim() sends
\* every other run to "reconciling").
RunningIsClean ==
  status = "running" =>
    \A c \in Open : admissionEpoch[c] = epoch /\ callState[c] # "unknown"

\* However often workers crash, lose the lease and hand the run over, the code
\* commits at most one send intent per call, and the provider, which executes
\* whatever reaches it, executes it at most once (mark_sent()).
AtMostOneEffect ==
  \A c \in Calls : sends[c] <= 1 /\ effects[c] <= 1

\* A receipt of nonexecution is true for ever: a call recorded as not executed
\* has had no effect and never will, although receipts need no lease and race
\* with the send of the same call (record_receipt(), mark_sent()).
NotExecutedIsTrue ==
  \A c \in Calls : receipt[c] = "not_executed" => effects[c] = 0

\* A finished run hides nothing: no call is open, nothing is reserved, and a
\* success rests on completed effects only, within the budget (finish()).
TerminalIsSettled ==
  status \in Terminal =>
    /\ Open = {} /\ reserved = 0
    /\ status = "succeeded" =>
         /\ used <= MaxUnits
         /\ \A c \in Invoked : receipt[c] = "completed" /\ effects[c] > 0

\* Approvals are spent exactly: a consumed approval backs exactly one admitted
\* call, the one it was granted for, and was granted by someone else than the
\* owner; no approval is burnt without its call (grant(), admit()).
ApprovalsBackCalls ==
  /\ \A a \in Approvals : consumed[a] <=> (\E c \in Invoked : approvalOf[c] = a)
  /\ \A c \in Invoked :
       /\ approvalOf[c] \in Approvals
       /\ approvedCall[approvalOf[c]] = c
       /\ approver[approvalOf[c]] \in Approvers \ {Owner}

\* The budget bounds what a run can cost: usage and reservations exceed max_units
\* at most by what providers charged beyond their reservations, through crashes,
\* late receipts and changes of owner (admit(), settle()).
ExposureIsBounded == used + reserved <= MaxUnits + overrun

\* The call store keeps the promise of GovernedEffect: a call is asked for, and
\* happens, at most once, only after its admission, and its receipt is the truth
\* about it for ever (all of calls.py).
Effect == INSTANCE GovernedEffect WITH
  admitted <- Invoked, asked <- sends, happened <- effects, verdict <- receipt

EffectContract == Effect!EffectSpec

\* A finished run is never reopened, and neither its usage nor its calls change,
\* whatever stale workers, late receipts and cancellations still arrive.
TerminalIsFinal ==
  [][(status \in Terminal) =>
        UNCHANGED <<status, epoch, used, reserved, callState, consumed, sends>>]_vars
-----------------------------------------------------------------------------
(* What makes the properties inductive.                                    *)

\* A call that has not been marked sent has had no send, and a request is in
\* one place only, on its way to a provider that has not executed it.
SendsMatchStates ==
  \A c \in Calls :
    /\ sends[c] <= 1
    /\ callState[c] \in {"none", "admitted"} => sends[c] = 0
    /\ effects[c] <= sends[c]
    /\ c \in wire => sends[c] = 1 /\ effects[c] = 0
    /\ \A w \in Workers : c \in toSend[w] =>
         /\ sends[c] = 1 /\ effects[c] = 0 /\ c \notin wire
         /\ \A v \in Workers : c \in toSend[v] => v = w

\* A receipt exists only for an invocation and tells what the provider or the
\* unsent row vouched for.
ReceiptsAreTrue ==
  \A c \in Calls :
    /\ receipt[c] # "none" => callState[c] # "none"
    /\ receipt[c] = "completed" => effects[c] = 1
    /\ receipt[c] = "not_executed" => effects[c] = 0 /\ (c \in refused \/ sends[c] = 0)
    /\ c \in refused => effects[c] = 0 /\ callState[c] \notin {"none", "admitted"}
    /\ callState[c] = "settled" => receipt[c] # "none"

EffectInvariant == SendsMatchStates /\ ReceiptsAreTrue
=============================================================================
