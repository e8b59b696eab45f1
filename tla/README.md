# ForgeHarness in TLA+

A verification project for the durable part of ForgeHarness: what happens to a governed tool
call or model call when processes die, leases run out, requests are lost and two owners meet.
Every definition is written from the Python source; `PROJECT.json` ("map") names the lines each
one stands for. Paths below are relative to `src/src/forgeharness/` unless they start with `docs/`.

1. [The system](#1-the-system)
2. [The modules and the code](#2-the-modules-and-the-code)
3. [The runs](#3-the-runs)
4. [Fairness](#4-fairness)
5. [What is proved](#5-what-is-proved)
6. [Where documents and code disagree](#6-where-documents-and-code-disagree)
7. [What is left out](#7-what-is-left-out)
8. [Plan](#8-plan)

Run from `tla/`: `tlc -workers 2 -config X.cfg M` for a model, `tlapm M.tla` for a proof module.

## 1. The system

ForgeHarness runs agent loops whose tool calls have effects in the world. Its core is not the
agent but the book-keeping around each call, and it exists four times, over different stores: local
(ReAct), hosted (cloud), durable with one owner (R2), and durable with bounded parallelism.

| part | state | operations | talks to |
|---|---|---|---|
| **Cloud run store** `cloud/store.py` | one PostgreSQL row per run: status, epoch, worker, lease, cancellation, budget counters | submit, claim, renew, release, request_cancel, settle | workers hold a lease ticket; every transaction rechecks memberships |
| **Cloud call store** `cloud/calls.py` | approvals, invocations, receipts | grant, admit, mark_sent, mark_unknown, record_receipt, settle | over the run row; the physical request is outside any transaction |
| **Hosted execution** `cloud/execution*.py` | hosted checkpoint and its revision, invocations of model and tool calls, grants, receipts | accept, load, save, admit, consume approval, mark_sent, record_result, settle, retire | over the run row |
| **Hosted runtime and worker** `cloud/runtime.py`, `cloud/worker.py` | in memory: scan, back-off, ticket, heartbeat task | tick, advance, reconcile, resume or stop, exhaust, release | hosted execution, ReAct loop |
| **ReAct loop** `runtime/loop.py`, `runtime/tool_executor.py`, `tools/dispatcher.py` | a snapshot in memory | run, resume_running, resume_approved, dispatch and retry of a call | checkpoint store, journal, approval ledger, tools |
| **Checkpoint store** `state/checkpoint.py`, `state/recovery.py` | one SQLite row per run with an optimistic revision | save, load, recover_run(s) | loop |
| **Tool journal** `state/invocation_journal.py`, `runtime/retry.py` | a row per logical call, a row per physical attempt | claim, start, finish, start/finish attempt, record decision | loop |
| **Approval ledger** `state/approval.py` | one-shot grants | issue, consume_and_checkpoint | loop |
| **R2 orchestration** `state/orchestration.py`, `sdk/durable.py` | node progress of a run, usage books, owner fence | start, advance, resume, approve, reconcile, cancel | tool journal, approval ledger, provider |
| **Provider capacity** `sdk/parallel.py`, `sdk/parallel_runner.py` | in memory: queues, slots, unresolved; on disk: claims | request, withdraw, sent, finish, confirm_ended, close, restart | the owners of all runs, their worker tasks |
| **Sessions** `sdk/sessions.py` | session and turn rows, a lock file per session | create, submit, resume, close, read, delete | the harness, which has the evidence of each turn's run (`sdk/harness.py`); the host, which vouches for sources |
| Tasks and imports `sdk/tasks.py`, `sdk/imports.py` | task and import rows | admit, attempt, evaluate, import | orchestration |
| **Control plane** `cloud/control.py` ... | decisions, requests to cancel; invitations and sessions | accept, decide, cancel | run row, hosted checkpoint |
| Context, tools and policy, backends, observability, applications, knowledge, evaluation, CLI | mostly pure functions and I/O | | |

The parts in bold are modelled, most of them in part (section 7). What is hard in each of them:

* *Cloud*: a worker that lost its lease does not know it; its request may still travel, and the
  provider does not deduplicate. A receipt can overtake the transaction that says the request was
  sent. Counters are changed by the owner of the run and by receipts of calls of an earlier owner.
* *Hosted*: a worker decides on what it saw before its claim, and checkpoint, usage and calls live in
  different rows that other workers, reviewers and late receipts change; the serial scan of one
  worker must not be kept from a run by another one that hangs, waits or is in doubt.
* *ReAct*: the process may die between any two durable writes, inside the tool included; recovery
  must tell "not executed", "executed and known" and "executed and not known" apart from rows
  alone. A host that runs the coordinator beside a live worker has two writers on one run.
* *R2*: a node, the row of its call and the physical attempts of that row are written one after the
  other, in two databases; a budget is shared by nodes that are settled, under way and in doubt, and a
  cancellation may come when no loop looks.
* *Capacity*: a slot is given by one coroutine, used by a second, occupied by a third and released
  by a fourth; the provider goes on with requests nobody waits for, and a restart must not forget
  them. Cancellation may arrive at every await.
* *Sessions*: what a turn says rests on materials, on tool reads and on earlier turns, and the host may
  withdraw a source or delete a turn while a provider, a model or a tool is awaited, or while a reader,
  who takes no lock, holds a row. Turn rows and the evidence of runs are two databases.

`PROJECT.json` ("hazards") lists these one by one, at the line where they bite, with the property
that would notice. Correctness, for each part: an effect at most once and never without its
evidence (*NonIdempotentOnce*, *AtMostOneEffect*, *HostedContract*, *NeverSentInDoubt*,
*RecordedBeforeEntry*, *SerialContract*, *ParallelContract*); verdicts that are true (*NotExecutedIsTrue*, *TranscriptMatchesJournal*,
*ClosedRunIsSettled*, *TerminalHidesNothing*, *TerminalIsIdle*); approvals spent exactly once
(*ApprovalsBackCalls*, *ApprovalEndsTheWait*, *ApprovalGatesExecution*); conversations with one turn
at a time (*OneTurnUnderWay*) that use nothing that is gone (*OnlyCurrentIsUsed*); budgets that balance
(*CountersMatchRows*, *ExposureIsBounded*, *TranscriptOwnsUsage*, *BooksHold*, *AttemptsWithinBudget*,
*CapacityHolds*); terminal results that are final (*TerminalIsFinal*, *CheckpointMovesForward*,
*TranscriptIsAppendOnly*); and progress (*RunSettles*, *RunsConverge*, *RejectionCancels*,
*CancelledRunEnds*, *OwnersLeave*, *DeletionFinishes*).

## 2. The modules and the code

```
CloudStore <- CloudCalls --implements--> GovernedEffect
   ^              ^- CloudBudget <- MCCloudCalls
   |                     ^- CloudCallsProofs
   +--------- CloudExecution --implements--> GovernedEffect
                  ^- MCCloudExecution,  CloudExecutionProofs
HostedService <- MCHostedService
InvocationJournal <- ReActRun <- MCReActRun,  ReActRunProofs
   ^
   +---------------- Orchestration --implements--> NodeOnce
                         ^- MCOrchestration,  OrchestrationProofs
ModelDispatcher <- ParallelRuns --implements--> NodeOnce
                         ^- MCParallelRuns
                         ^- ParallelRunsProofs <- ParallelFactsProofs
SessionTurns <- MCSessionTurns,  SessionTurnsProofs

SumFacts: least elements and sums, for CloudCallsProofs, OrchestrationProofs and SessionTurnsProofs
```

### Cloud: CloudStore, CloudCalls, CloudBudget, GovernedEffect

One action is one transaction: the code locks the run row first and rereads the database clock
after its last lock wait, so a transaction takes effect at one point. Between transactions
anything may happen: another worker claims, memberships change, the lease ticks down (`leaseLeft`,
the only thing a transaction can tell about the clock, apart from `deadlinePassed` and `expired`).
A worker's knowledge is its `ticket`; a worker that was replaced keeps it and goes on trying.
`toSend` is what a process will transmit after its `mark_sent` committed, `wire` what was
transmitted; the provider executes *every* request that reaches it, or answers that it never will.
`sends` and `effects` are history variables.

`GovernedEffect` is the promise without machinery: admitted, then asked for once, happens at most
once, and a verdict once given is true. `EffectContract` in `CloudCalls` is its specification under
the refinement mapping at the end of that module.

### Hosted runs: CloudExecution, HostedService

`CloudExecution` is one hosted run in full: `advance` of `cloud/runtime.py` from its first look at the
run (`Inspect`) to its release (`Abandon`), with one action per transaction, over the same run row as
`CloudCalls` (both extend `CloudStore`). `pc` is the place of a worker in `advance`, `mine` the
checkpoint it works from, which may be older than the stored one. `Save` is `save_in_transaction`
with all its checks, and every path that writes a checkpoint goes through it, except the admission of
an approved call, which checks the same. The transcript is a cursor (how many model and tool results
it holds), which is all that the usage checks compare. A worker can fail or die at any place.
`HostedContract` says that its calls keep the promise of `GovernedEffect`, with retirement of unsent
calls added to what `CloudCalls` has.

`HostedService` is several runs over time: the scanner of `cloud/worker.py` with its back-off, a host
that calls `advance` on its own, heartbeats, the reviewer and the owner. `CloudExecution` says what may
never happen to one run, `HostedService` asks whether all of them end. What `advance` does up to a
physical call is one step there, and so is what it does with the answer: between these it holds the
lease, and a lease is long beside a transaction. `seen` is the row of the scan, against which
`advance` has changed something or not; `age` is the time since `last_progress`, which bounds what a
heartbeat may renew.

### ReAct: InvocationJournal, ReActRun

`InvocationJournal` has a state formula (the WHERE clause or UNIQUE constraint) and an effect per
statement, and the decision tables `DecideRecovery` and `DecideRetry`. `ReActRun` composes them with
the checkpoint, the ledger and the processes: `pc` says what a process does next, and each action
is the code from one durable write to the next. `mine` is the snapshot a process works from;
`Save` succeeds only where the stored revision is the one it was loaded at. `Drive` covers what the
loop does between tool calls, with the answer of the model, the policy and every budget left open.

`Overlap` is a constant: the SDK holds a file lock for a run, so FALSE is the program as the SDK
runs it; `state/recovery.py:17-18` only tells hosts not to recover beside a live worker, so TRUE
is the program as a host may run it. Properties that need the lock say so in their theorem.

### Durable runs: Orchestration

The serial owner of R2, over the rows and statements of `InvocationJournal`, which it shares with the
ReAct loop. `node` is `NodeProgress`; `proc` the process that holds the lock file of the run, with the
place in its two loops (`recovering` while it takes up what an earlier process left). Because of the
lock there is one process, so its owner token and revision cannot be stale and are left out. A guard
(`_guard`, `_authorize_current`) and the durable write behind it are one step: a cancellation, a
deadline or an expiry that falls between the two commutes with every write but the closing one, and
`Finish` and `Close` are two steps for that reason. `entered` counts physical calls, and `billed` is
what an attempt turned out to cost, 0 as long as nobody knows.

### Provider capacity: ModelDispatcher, ParallelRuns

`ModelDispatcher` has the effects of the dispatcher's methods, each ending with `Drain` as in the
code. `ParallelRuns` is one event loop: the owner of each run, the worker tasks, the provider and
the host. `turn` is the coroutine that is running: it keeps the turn from one `await` to the next
(so nothing interleaves there, as in asyncio) but is cut into one action per durable write, because
the process can die at each. The order of a send, claim on disk, node on disk, worker task, is
`ClaimSent`, `Mark`, `ValidateSend`. `provider` is the truth about a request that nobody in the
process has; `HostConfirms` is the host vouching for an idle backend, which the code has to trust.

`cancel_requested`, deadlines and withdrawn rights are what `Guard` may find: any of the three
outcomes at any time, since each can be made true at any time from outside. A poll that finds
nothing new would be a stuttering step and is left out.

### What both owners promise: NodeOnce

`sdk/durable.py` and `sdk/parallel_runner.py` advance the same runs, one with a single process and the
journal, the other with a dispatcher, worker tasks and many runs. `NodeOnce` is what a caller may rely on
whichever of them is at work: nodes are `open`, `begun`, in `doubt` or settled; a node begins when what it
depends on is complete, in a run that is not over; a request that cannot be repeated is made once, a model
request only after its node was put in doubt; a node in doubt stays there until its end is known; a run is
closed over none in doubt, and results are final. `Phase` maps the rows of each module to it: a suspended
or pending node is `open`, an admitted one `begun`, an unknown one in `doubt`. In `Orchestration` there is
one run and joins complete at once; in `ParallelRuns` all of `Run`, and no joins. Tools of `ParallelRuns`
are one step and do not count as calls.

### Sessions: SessionTurns

One session over an `ApplicationSpec`: `turn` is its rows, `run` what the harness has about the run of
each turn, `op` the operation of each process. `LockFree` is the `flock` of `_operation`, which dies with
its process; `view` is a reader, who has no lock. A step ends at each write and at each await, so the
work of a run is one place (`work`) in which tools read sources and others withdraw them. `Sound` is
`_validate_turn`, which goes on from a turn to its history until it has no turn left to validate: there is
a set of validated turns that holds their histories (`done` of the code). It is evaluated over the rows
and the evidence as they are, except for the row a reader has already loaded (`SoundCopy`). `rests` is history: what the text of a turn rests on, itself and the
turns before it included, which the code knows only by what it wrote into rows. `OnlyCurrentIsUsed`
compares the two: it fails as soon as a material, a read or an ancestor is missing from a row or a check
is made too early. A run in the middle of its work is not checked again before it ends, and
the property does not say it is.

## 3. The runs

| run | instance | what it shows |
|---|---|---|
| `cloud_calls` | 2 workers, 3 leases, 2 calls and 2 approvals, budget 3 against reservations and charges that exceed it | all Cloud invariants, the budget included, `TerminalIsFinal`, refinement of `GovernedEffect` |
| `cloud_execution` | 2 workers, 2 leases, up to 3 steps (a tool that needs approval, one that is denied, one that is allowed), a reviewer, a cancellation, a deadline, the owner may lose and regain rights, budgets of 5 units and 5 calls | calls keep the contract, checkpoint and usage stay together, a closed run hides nothing |
| `hosted_service` | 1 scanner, 1 host that may hang, 2 runs: one reviewed and perhaps in doubt, one perhaps cancelled; 1 crash or exception | every run ends or is in doubt; a rejected one is cancelled |
| `react_crashes` | 1 process at a time, 2 crashes, 3 steps, a read-only and a non-idempotent call, every policy, fair | effects once, evidence first, transcript = journal, and the run does not stay running |
| `react_contention` | 2 processes at once, 1 crash, 2 steps, 2 grants | what revision, attempt numbers and ledger guarantee without a lock |
| `parallel_runs` | 2 runs, 3 model calls and a tool that depends on one, 2 slots, 1 crash | capacity, evidence first, tool barrier, terminal means idle |
| `parallel_owners` | 2 runs, a call with a tool that needs it and the call of another run, 1 slot, 1 crash, fair | no slot leaks, every owner leaves its loop, refinement of `NodeOnce` |
| `orchestration` | an approved non-idempotent tool, an idempotent tool with 2 attempts, a model request that depends on it, a join of all; budget 3 of the 4 declared, charges of 2; 2 crashes, fair | nothing sent again in doubt, books within the budget, a closed run hides nothing, a cancelled one ends, refinement of `NodeOnce` |
| `session_turns` | 2 turns, the second on top of the first, 1 source, 1 process and 1 reader, 1 crash, a turn that may refuse to be deleted, fair | one turn under way, nothing that is gone is used, a deletion ends |
| `react_failed_doc`, `orchestration_result_doc`, `parallel_cancel_doc` | the instances above, `orchestration_result_doc` with 1 crash | the disagreements of section 6 |

Bounds, and why they suffice. Every bound is a constant named in a guard.

* `MaxEpoch = 3` (`cloud_calls`): a first owner, a second that finds its open calls, a third that meets
  the leftovers of both. `LeaseTTL = 1`: a lease is valid or over; a longer one adds only waiting.
  Rights are withdrawn in `cloud_execution`, whose actions ask the same questions of the same rows.
  Two calls are needed for one to be open while the run is settled on the other; the first may cost
  more than it reserved, and the budget of 3 then keeps the second out.
* `MaxCrashes = 2` (ReAct): the second crash hits the recovery of the first. `MaxSteps = 3` lets a
  run execute one call, then the other, then answer; `MaxRev` is not below the last revision such a
  run reaches in the single-process runs, and stops the second process from taking up ever new
  revisions in `react_contention`. `MaxAttempts = 2`: a first attempt and a retry. `MaxGrants = 2`
  lets a second grant wait while the first is consumed.
* `cloud_execution` has three steps so that a denied, an approved and an allowed tool occur in one run,
  and two leases: a worker that was replaced, whose knowledge is stale, and the one that replaced it,
  each of which may have been lost at any place. A call costs 2 where 1 was reserved, so that 5 units run out at admission
  as well as at the end; `MaxCalls = 5` and `MaxTools = 2` are each reached.
* `hosted_service`: two runs, since the question is whether one keeps the scan from the other, and each
  of them is the older one for some scan (the other is finished, leased or backing off). `LeaseTTL = 2`
  separates a lease that is renewed from one that is renewed for ever. The `LIMIT 100` of the scan is
  left out: it is not below what the quotas of `cloud/control.py` let an organization have active.
* `orchestration`: the sum of what nodes declare is above the limit, so that a node in doubt keeps its
  reservation from another; a charge of 2 is above a declaration of 1 and equal to the other; the second crash hits
  the recovery of the first.
* `session_turns`: two turns are a turn and its ancestor (the validation goes on from there as it went to
  it), and one source can be a material of one and a read of the other. One process: the lock refuses any
  other, and one that takes over after a crash starts as the one that died would. The theorems of
  `SessionTurnsProofs` hold for any number of processes.
* Capacity 2 against 3 calls of 2 runs: both slots full, one of them by another run, and one waiter;
  `MaxInFlight = 2` lets one run hold both. `parallel_owners` has one slot and no room: whoever
  waits, waits for the other run, and a tool waits for the call before it. One crash is enough there because every state reached after it is
  a fresh start over arbitrary durable leftovers.

Deadlock checking is off where the system may stop: a run is finished, a bound is spent, or, in
`parallel_runs`, a slot was leaked and `close()` refuses for ever: by a cancellation during the cleanup
(`Recancelled`, section 6) or by a claim whose write raised after its commit (`ClaimInDoubt`, section 7).
`parallel_owners` checks for deadlock, with neither (`Recancelled = {}`, `ClaimInDoubt = {}`): there the
event loop always has something to do, down to closing and reopening the harness.

Symmetry is used for workers, calls or processes that no constant tells apart, and only in runs
without liveness properties.

## 4. Fairness

* Hosted: weak fairness of the clocks (deadline, lease, back-off), of each step of the scanner, which is
  a loop over `tick`, and of the return of a physical call of each process that is not in `Stuck`
  (`wait_for` bounds it). None for the reviewer, the owner, the resolver, a process that hangs, nor
  the other host: a run is not saved by anybody who does not have to act.
* R2: weak fairness of the work of the process that holds the lock, and of the host resuming a run that
  was interrupted; none for approval, cancellation, reconciliation and the deadline.
* Sessions: weak fairness of an operation that has begun, and of asking again for a deletion that has not
  returned without an error, as `delete` documents; none for the host, readers and new requests.
* ReAct: weak fairness of the work of each live process (it is a thread of control that nothing
  disables), and of the coordinator taking up a run that is `running`: every start of the service
  runs `recover_running` (`api.py:259`), and a crash is followed by a start. Crashes
  have no fairness and are bounded.
* Capacity: strong fairness of each owner and of each worker. The event loop runs one coroutine at
  a time, so another one's turn disables an owner's step and enables it again; asyncio runs every
  ready handle in each cycle, so a step that is ready again and again is taken. A worker returns
  because `wait_for` bounds every request and a tool has a timeout; the provider itself, the host
  and reconciliation have *no* fairness: owners leave their loops also if nobody ever answers.
  Neither has any cancellation or deadline: an owner that waits is not saved by its guard.
  An adapter that swallows its cancellation is covered for safety (`Lose` need not happen before
  `CleanUp`), and for liveness is assumed to end at last.

## 5. What is proved

TLAPS proves these for every value of the constants: any number of workers, calls, approvals,
epochs, processes, crashes and attempts, under the `ASSUME`s the modules name and nothing else.

`CloudCallsProofs`. `TypeCorrect` first; then `EffectsAccounted`, the inductive
invariant of the physical side. `AtMostOneEffect` is not inductive: nothing in it prevents a
second request for a call already executed. `EffectInvariant` adds that a request is in one place
at most (a process about to transmit, the wire, or executed), that it left only from a call whose
state is past `admitted`, and that every receipt is vouched for by the provider; from it follow
`EffectAtMostOnce` and `NonexecutionIsTrue`. `ExposureStaysBounded` says that
no interleaving makes a run cost more than its budget and what providers overcharge (`overrun`, a
history variable). `RunningStaysClean`, `ApprovalsSpentExactly` (a one-to-one correspondence between consumed approvals and calls), `TerminalStaysSettled` and the
action property `TerminalStaysFinal` rest on the types and on each other. `StoreKeepsContract` is
the refinement of `GovernedEffect`: each transaction maps to a step of it or a stutter.
`CountersStayExact`: the counters of the run row are the sums over its calls. A transaction changes one
call, so the lemmas of `SumFacts` say what that does to a sum.

`SumFacts`. The sums of the community modules are folds that choose the next element. That a fold has
the value one expects over every finite set is an induction over the set, and the library's induction
theorems take an operator as a parameter, which the provers cannot instantiate. The lemmas go by a least
counterexample instead: the sets for which a law fails are a set of subsets, a nonempty one has a
smallest member (`Smallest`, by well-foundedness of `<`), and taking one element out of that contradicts
it. First that the fold's function exists (`SumsExist`), then that any element may be taken first
(`SumTakesAny`), and from there how sums grow, change in one place, count and add up.

`CloudExecutionProofs`. `RowsInvariant` says what the row of a call, its receipt, its request and its
effect say of each other (`CallSound`), and what a worker may count on at each place (`WorkerSound`): in
particular, one whose revision is the stored one holds the stored checkpoint, however long ago it read
it (`Current`). `TypeCorrect`, `RowsHold` and `RunKeepsContract`, the refinement of `GovernedEffect` with
retirement as a verdict, rest on it alone; `RunningIsOwnedAlways` adds that a lease is held only of a run
that is driven.
`TranscriptInvariant` adds `TranscriptSound`: what is invoked is behind the checkpoint, settled and
completed, or it is the one call the checkpoint needs next. `UsageIsTheTranscripts`,
`ApprovalEndsTheWaitAlways`, `ClosedRunIsSettledAlways` and the action property
`CheckpointOnlyMovesForward` need both: a stale worker is refused, or has what is stored, for reasons
that none of them names.

`ReActRunProofs`. `RunInvariant` is type correctness together with `SnapshotInvariant`: a process
never works from a revision later than the stored one, and where the revisions are equal its
transcript is the stored one; and a process that can still save is not on a finished run. From
that, `AppendOnly`: no process, however many overlap, drops an observation or reopens a run.

`ApprovalGates`: `LedgerInvariant` relates grants spent to snapshots that were
admitted, `ApprovalInvariant` carries the admission to every process that is past its policy
check. `AttemptBudget`: attempt numbers are taken by a UNIQUE constraint, so `AttemptInvariant`
counts executions by attempt rows, also between two processes. Both hold for every `Overlap`.
`AtMostOnce`, `NoRerun` and `EvidenceFirst` have `ASSUME Overlap = FALSE`: with two processes at
once they are false, which is why `state/recovery.py` forbids it. `OnceInvariant` says, for the one
process that works, what the row of its call is at each place, and that a body is entered
only from rows no process has left behind. `TranscriptAgrees` needs the same assumption.
`TranscriptMatchesJournal` speaks of the stored transcript, and what is stored was in a process's
memory first, so `TranscriptInvariant` says three things: each observation is one its row allows, and a
call not yet reached has no row (`AnswerFits`); the process works from the stored snapshot, and what it
is about to append is what the row says (`Reports`); and a run that succeeded has no call open
(`NothingOpen`). No step takes a row back from what an observation says of it
(`DriveKeepsAnswers`, `WorkKeepsAnswers`): here the one process is needed, for a second one could execute
a call again whose observation is stored.

`OrchestrationProofs`. `RunInvariant` is `RunHolds` and `WithinLimit`. `RunHolds` relates the four things
that are written one after the other. `LoopInvariant` says what `advance` works on at each place: the
first loop holds nodes under way, the second pending ones, and until it is stopped every admitted node is
at hand or still to come, so a run that is not stopped closes over none. `Attempts` says that attempts
rest on a row that was started, that none follows one of unknown cost, and that a tool is entered once
for each; `ToolNode` what the status of a node says of the row, and that its reservation, or what it
used, counts its attempts; `ModelNode` that a request is marked before it is sent. `DoubtIsNeverSent`,
`NothingIsHidden` and `TypesHold` follow, also for a run that is resumed any number of times, with
approvals that expire at any moment, and with resolutions that report any total that covers what is
known. `WithinLimit` is the part of `BooksHold` that is inductive. `BooksHold` allows nodes to cost more
than they declared, and a later admission looks at what all of them hold, so neither bounds the other
directly: what is kept is that the nodes *take* no more than the limit, where a node takes what it
declared while it is under way and never more than that. Admission keeps it because holding is no less
than taking, every other step takes no more than before (`WhatIsTaken`), and what a node holds is what
it takes and what it cost beyond its declaration (`HeldAndCommitted`), hence `BooksAreTrue`.

`OwnerKeepsContract` is the refinement of `NodeOnce`. `RunHolds` does not say in which order nodes begin,
so `InOrder` adds that every node that was reached, and every node a round has taken, rests on completed
ones; it is kept because a completed node stays so (`CompletionStays`), which the round relies on long
after it looked. `OneAttempt` adds that a tool that cannot be repeated has its first attempt only, also
across recoveries. `StepMoves` sorts every action into one of four: nothing moves, one node moves, the
provider or a tool is entered, the run ends.

`ParallelRunsProofs`. `CapacityIsRespected`: the provider is never overloaded, for any number of
runs, nodes, slots and crashes, and with late cancellations. `CapacityHolds` is about the provider,
of which the dispatcher sees nothing, so `CapacityInvariant` ties the two together: the slots in
memory are the claims on disk that are reserved or sent (`DispatcherSound`; a drain keeps this,
lemma `DrainSound`); what the provider works on has a claim marked sent and no settled fact
(`CallsSound`); and an owner's flights have sent claims that are not unresolved, what it has in hand
is in the state its place says, and only the coroutine that has the turn has anything in hand
(`OwnersSound`). A claim is then ended only for a request that is over, so the requests at the
provider are at most the occupied slots. The steps that leave the dispatcher alone are proved
first, one lemma per action, then the ones that call it, then crash and reopening.

`ParallelFactsProofs`. `RecordedFirst`, `ToolIsAlone` and `TerminalStaysIdle` relate rows to the
provider, which no row describes. `FactsInvariant`, on top of `CapacityInvariant`, says when a request
can be there: a worker exists only for a node saved as unknown (`NodeSound`), and an owner that does
not halt has every unknown node of its run in flight: one that finds an unknown node when it enters
halts at once (`RunSound`).
So where a tool starts, with nothing in flight, no node is unknown; and a run is closed only by an
owner that knows the end of all its nodes. A node that still waits for capacity could be admitted
later, so `WaitSound` adds that a run has at most one such node, and none where its owner has left the
loop. `NoSlotLeaks` adds `SlotsHeld`: a slot in use, unless it is kept for a node nobody knows the end
of, is granted to a node that waits, or its owner has the node in hand or in flight. The work is in what
the dispatcher does to others: a drain grants slots and takes none (`DrainKeepsSlots`), and a method
called for one node leaves the slots of all others with their owners (`MethodSlots`). It has
`ASSUME Recancelled = {}, ClaimInDoubt = {}`: a caller cancelled again while its owner cleans up can leave
a slot to nobody, which is the violation of section 6, and so can a claim whose write raises after its
commit (section 7). Without either assumption the theorem is false.

`OwnersKeepContract` is the same refinement for the parallel owners, for every `Recancelled` and
`ClaimInDoubt`. A node is
found ready, then waits for capacity over many turns of the loop, and is admitted without looking again;
so `Ordered` says of a waiting node what it says of one that began. `InDoubt` adds that what an owner waits
for is unknown until it is settled, and let go in the next write: otherwise an answer could be settled
twice, with two results. Both need `FactsInvariant`; `StepIsOneKind` then sorts the actions as above.

`SessionTurnsProofs`. `OneTurn`: `OneTurnUnderWay` says nothing of the operation that is under way,
so `SessionInvariant` adds what its process may count on at each place (`Placed`: the turn it provides
for is the active one and has no run yet, the turn it records was not deleted meanwhile), that only one
process holds the lock (`OneHolder`), and that a turn never submitted has no run (`RowsAgree`). The
argument is that a row is only ever written with a status its run agrees with (`WrittenRows`), and then
the one transaction of `_update_turn` keeps session and turns together (`UpdateKeepsRows`).

`CurrentOnly`: `OnlyCurrentIsUsed` is about what a text rests on, which is history, and the code decides by
what rows and evidence name. `TextsAccounted` ties the two: what the text of a turn that is there rests on
is the turn itself, what its row or its run names, or what the texts of its history rest on; a history
reaches back only; and a row that a reader holds is accounted for in the same way as long as the evidence
is. Every write keeps this (`RowWritten`, `SourceNamed`, `RunMoved`), a deletion because it takes the turn
out of the claim. That a turn which validates rests on nothing that is gone, however far back
(`SoundIsCurrent`), needs no induction: of the validated turns that do, take the least (`Least` of
`SumFacts`); it does not name what is gone, so it has it from a turn of its history, which was validated
too and is less. What is left is that nothing is used unless it was validated in the same step
(`OnlySoundIsUsed`, `OnlySoundIsShown`).

The type invariants are theorems (`TypeCorrect`, `TypesHold`) of every module proved about, and no run is
spent on them.

Only model-checked: all liveness (`RunSettles`, `RunsConverge`, `RejectionCancels`, `CancelledRunEnds`,
`OwnersLeave`, `DeletionFinishes`), which is out of the prover's reach. Every invariant and every other
action property of the passing runs is a theorem. What a recursive definition computes is not proved,
except for sums, as above; a queue without one waiter is given by its positions (`Without`), not by a
filter, and the ancestors of a turn by a set that is closed (`Sound`), not by recursion.

## 6. Where documents and code disagree

Each is a run that finds the violation; `PROJECT.json` ("findings") quotes both sides.

1. `react_failed_doc`: ADR 009 reserves `failed` for calls whose body never ran. `decide_retry`
   settles a non-idempotent call as failed when its *own body* raises an error that is classified as
   `path_not_found` or `invalid_arguments`.
2. `orchestration_result_doc`: ADR 031 says that a node is rebuilt from the result its journal row
   holds. `resume` with a grant admits the approved node before it takes up what an earlier process
   left; where that admission is stopped, the run is closed at once, and a node whose call completed
   is cancelled. Nothing is in doubt then (`TerminalHidesNothing` holds), but the result is lost.
3. `parallel_cancel_doc`: ADR 035 says cancellation leaves sent capacity unresolved. A second
   cancellation of the caller, at the await inside the `finally` block of `advance_parallel`, skips
   the accounting: the slot stays in use, is not unresolved, cannot be confirmed and keeps `close()`
   from succeeding until the process ends. Capacity is never *exceeded* by this (`parallel_runs` has
   such cancellations), only lost.

Three more that the models show and no run is spent on. Recovery rewrites a `failed` row it finds as
`indeterminate`, although a terminal row "can no longer change state" (`DecideRecovery`).
`record_recovery_decision` updates by primary key alone, although transitions are "guarded by the
current state": with two processes on a run it takes a row back to `claimed` (`Restart`). And
an admission that was approved and then interrupted is of no use once its grant has expired: every
`resume` raises `ApprovalError` before it looks at a cancellation, so such a run cannot be ended
(`Expired`, the exception in `CancelledRunEnds`).

## 7. What is left out

* Cloud: the platform binding gate (`authorize_bound_run`), the outbox of events, row level
  security, and identity conflicts of repeated requests, which change no state.
* Hosted: the contents and the evidence chain of a checkpoint; in `HostedService` also epochs (a process
  has one ticket at a time, so a ticket is current when the row names its holder), quotas, and
  memberships, which `CloudExecution` has. Accounts, invitations and their sessions.
* ReAct: checkpoints from before the journal, todos, verification, subagents and token budgets, each
  of which is one outcome of `Drive`; the in-memory ledger; the hosted branch of the loop, which is in
  `CloudExecution`.
* R2: the outbox of transitions and its publication, the identity of a definition, the owner token and
  revision (above), usage in more than one unit.
* Capacity: join nodes, tool approvals and the usage books of the orchestration, which are in
  `Orchestration`. A run has at most one waiter (`waiting` of `advance_parallel`), so rotating over
  runs is a queue in arrival order.
  `ClaimFails` is a write of `ModelDispatcher.sent` that raises although its row is committed: `withdraw`
  finds the claim sent and keeps the slot, no sending marker makes it unresolved, and it has no owner until
  another process opens the dispatcher and takes it for unresolved. `parallel_runs` has it and the provider
  is not overloaded by it; `SlotsAreOwned` and `OwnersLeave` assume it away. The other writes of the
  dispatcher's database are all or nothing in the model.
* Sessions: sessions over workflows, what an approval decides (it only stops an operation), denied
  authorizations, the bound of 512 validated turns, and the HTTP adapter. `inspect` and `events` return
  the evidence of a run, read after the row was validated; readers of the model return the row.
* Contents everywhere: digests are identities, messages and results are absent.
* Parts marked `not_modelled` in `PROJECT.json`, with the reason beside each.

## 8. Plan

In order of weight.

1. Tasks and imports (`sdk/tasks.py`, `sdk/imports.py`), and sessions over workflows.
2. The outbox of transitions of R2, and usage in more than one unit.
3. Operators: the todo gate and the hash chain, each against a reference definition.
