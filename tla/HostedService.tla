--------------------------- MODULE HostedService ----------------------------
(***************************************************************************)
(* The hosted service over time: the serial scanner of an organization     *)
(* (cloud/worker.py), the runs it and other hosts advance                  *)
(* (cloud/runtime.py), and the requests of owners and reviewers            *)
(* (cloud/control.py).                                                     *)
(*                                                                         *)
(* CloudExecution has every transaction of one run and says what must      *)
(* never happen to it; here are several runs, and the question is whether  *)
(* they end.  A lease is long beside a transaction, so it is lost only     *)
(* while its holder waits for a physical call, or is gone: what advance()  *)
(* does up to the next physical call is one step, and so is what it does   *)
(* with the answer.  A run makes one model call and, if it is Reviewed,    *)
(* one tool call that waits for a reviewer.                                *)
(*                                                                         *)
(* A process has one ticket at a time, so a ticket is current when the row *)
(* names its holder and its lease is not over: the epoch is left out.      *)
(***************************************************************************)
EXTENDS Integers, FiniteSets, FiniteSetsExt

CONSTANTS
  RunCount,     \* accepted runs, numbered in the order of created_at
  Scanners,     \* HostedWorker processes
  Hosts,        \* processes that call advance() themselves
  Nobody,       \* worker_id IS NULL
  Stuck,        \* processes whose physical calls may never return
  Cancellable,  \* runs whose owner may cancel them
  Reviewed,     \* runs whose tool needs an independent approval
  Doubtful,     \* runs whose provider and resolver may be unable to vouch
  LeaseTTL,     \* lease_seconds, in ticks
  MaxFailures   \* bound of the model: crashes and exceptions

Runs    == 1..RunCount
Workers == Scanners \cup Hosts

ASSUME ServiceConstants ==
  /\ RunCount \in Nat \ {0}
  /\ Nobody \notin Workers
  /\ Stuck \subseteq Workers
  /\ Cancellable \subseteq Runs
  /\ Reviewed \subseteq Runs
  /\ Doubtful \subseteq Runs
  /\ LeaseTTL \in Nat \ {0}
  /\ MaxFailures \in Nat

VARIABLES
  row,        \* runs: status, worker_id, lease_until, cancel_requested, deadline
  ckpt,       \* execution_checkpoints: "created", "asking", "awaiting_approval",
              \* "acting", or how the run ended
  call,       \* the physical call it is at: "none", "admitted", "sent", "unknown", "answered"
  decision,   \* approval_decisions of its proposal: "none", "approve", "reject"
  grant,      \* approvals: "none", "live", "expired", "consumed"
  busy,       \* the run whose physical call a process waits for, or 0
  age,        \* ticks since its backend.last_progress
  todo,       \* rows of its scan a scanner has not come to
  seen,       \* status and checkpoint of those rows, and of the run it is busy with
  backoff,    \* _retry: runs it leaves alone for now
  failures    \* crashes and exceptions so far

runVars == <<row, ckpt, call, decision, grant>>
workerVars == <<busy, age, todo, seen, backoff>>
serviceVars == <<runVars, workerVars, failures>>

Active   == {"queued", "running", "awaiting_approval", "reconciling"}
Terminal == {"succeeded", "failed", "cancelled"}
Unseen   == <<"absent", "created">>

NoRow == [status |-> "absent", holder |-> Nobody, left |-> 0, cancel |-> FALSE, late |-> FALSE]

ServiceInit ==
  /\ row = [r \in Runs |-> NoRow]
  /\ ckpt = [r \in Runs |-> "created"]
  /\ call = [r \in Runs |-> "none"]
  /\ decision = [r \in Runs |-> "none"]
  /\ grant = [r \in Runs |-> "none"]
  /\ busy = [w \in Workers |-> 0]
  /\ age = [w \in Workers |-> 0]
  /\ todo = [w \in Scanners |-> {}]
  /\ seen = [w \in Scanners |-> [r \in Runs |-> Unseen]]
  /\ backoff = [w \in Scanners |-> {}]
  /\ failures = 0

-----------------------------------------------------------------------------
(* The owner, the reviewer and the clocks.                                 *)

\* accept(): in the order of created_at.
Accept(r) ==
  /\ row[r].status = "absent"
  /\ \A q \in Runs : q < r => row[q].status # "absent"
  /\ row' = [row EXCEPT ![r].status = "queued"]
  /\ UNCHANGED <<ckpt, call, decision, grant, workerVars, failures>>

\* cancel()
CancelRun(r) ==
  /\ r \in Cancellable
  /\ row[r].status \in Active
  /\ ~row[r].cancel
  /\ row' = [row EXCEPT ![r].cancel = TRUE]
  /\ UNCHANGED <<ckpt, call, decision, grant, workerVars, failures>>

\* _proposal(): what a reviewer may decide on.
Pending(r) == row[r].status = "awaiting_approval" /\ ckpt[r] = "awaiting_approval" /\ ~row[r].cancel

\* Faulty: a rejection is recorded and the run left waiting.
RejectedOnly(r) == row

\* A rejection asks the run to converge.
RejectedRow(r) == [row EXCEPT ![r].cancel = TRUE]

\* decide(): one immutable decision for each proposal.
Decide(r) ==
  /\ Pending(r)
  /\ decision[r] = "none"
  /\ ~row[r].late
  /\ \/ /\ decision' = [decision EXCEPT ![r] = "approve"]
        /\ grant' = [grant EXCEPT ![r] = "live"]
        /\ UNCHANGED row
     \/ /\ decision' = [decision EXCEPT ![r] = "reject"]
        /\ row' = RejectedRow(r)
        /\ UNCHANGED grant
  /\ UNCHANGED <<ckpt, call, workerVars, failures>>

\* A grant lasts 300 seconds and is never replaced.
ExpireGrant(r) ==
  /\ grant[r] = "live"
  /\ grant' = [grant EXCEPT ![r] = "expired"]
  /\ UNCHANGED <<row, ckpt, call, decision, workerVars, failures>>

PassDeadline(r) ==
  /\ row[r].status \in Active
  /\ ~row[r].late
  /\ row' = [row EXCEPT ![r].late = TRUE]
  /\ UNCHANGED <<ckpt, call, decision, grant, workerVars, failures>>

\* The lease of a run runs down, and with it the time its holder has for a call.
LeaseTick(r) ==
  /\ row[r].left > 0
  /\ row' = [row EXCEPT ![r].left = @ - 1]
  /\ age' = [w \in Workers |-> IF w = row[r].holder /\ busy[w] = r /\ age[w] < LeaseTTL
                               THEN age[w] + 1 ELSE age[w]]
  /\ UNCHANGED <<ckpt, call, decision, grant, busy, todo, seen, backoff, failures>>

-----------------------------------------------------------------------------
(* tick(): the scan.                                                       *)

Free(r) == row[r].status \in Active /\ row[r].left = 0

\* The rows nobody holds, oldest first; runs that are not among them lose their
\* back-off.
Scan(w) ==
  LET found == {r \in Runs : Free(r)} IN
  /\ busy[w] = 0 /\ todo[w] = {} /\ found # {}
  /\ todo' = [todo EXCEPT ![w] = found]
  /\ seen' = [seen EXCEPT ![w] = [r \in Runs |-> IF r \in found
                                                 THEN <<row[r].status, ckpt[r]>> ELSE Unseen]]
  /\ backoff' = [backoff EXCEPT ![w] = @ \cap found]
  /\ UNCHANGED <<runVars, busy, age, failures>>

RetryDue(w, r) ==
  /\ r \in backoff[w]
  /\ backoff' = [backoff EXCEPT ![w] = @ \ {r}]
  /\ UNCHANGED <<runVars, busy, age, todo, seen, failures>>

\* A row whose retry is not due yet is passed over.
Skip(w) ==
  LET r == Min(todo[w]) IN
  /\ busy[w] = 0 /\ todo[w] # {}
  /\ r \in backoff[w]
  /\ todo' = [todo EXCEPT ![w] = @ \ {r}]
  /\ seen' = [seen EXCEPT ![w][r] = Unseen]
  /\ UNCHANGED <<runVars, busy, age, backoff, failures>>

\* Faulty: a row that did not advance ends the tick.
NoRest(w, r) == {}

\* The tick goes on with the next row.
Rest(w, r) == todo[w] \ {r}

\* advance() is over: a run that changed ends the tick, anything else backs off.
Conclude(w, r, changed) ==
  IF w \notin Scanners THEN UNCHANGED <<todo, seen, backoff>>
  ELSE LET rest == IF changed THEN {} ELSE Rest(w, r) IN
    /\ todo' = [todo EXCEPT ![w] = rest]
    /\ seen' = [seen EXCEPT ![w] = [q \in Runs |-> IF q \in rest THEN @[q] ELSE Unseen]]
    /\ backoff' = [backoff EXCEPT ![w] = IF changed THEN @ \ {r} ELSE @ \cup {r}]

\* The view that advance() returns, against the row of the scan.
Returns(w, r) ==
  Conclude(w, r, w \in Scanners /\ <<row'[r].status, ckpt'[r]>> # seen[w][r])

Raises(w, r) == Conclude(w, r, FALSE)

-----------------------------------------------------------------------------
(* advance(), up to its physical call.                                     *)

\* _must_stop_waiting(): a rejection also withdraws the run's authorization.
MustStopWaiting(r) == row[r].cancel \/ row[r].late \/ decision[r] = "reject"

\* A finished run is returned as it is, and so is one that waits for a reviewer and
\* has no reason to stop.
LeaveAlone(w, r) ==
  /\ \/ ckpt[r] \in Terminal
     \/ ckpt[r] = "awaiting_approval" /\ grant[r] # "live" /\ ~MustStopWaiting(r)
  /\ UNCHANGED runVars
  /\ Returns(w, r)

Advanceable(r) ==
  /\ ckpt[r] \notin Terminal
  /\ ckpt[r] = "awaiting_approval" => grant[r] = "live" \/ MustStopWaiting(r)

\* claim() finds the run taken since the scan: CloudConflict.
Conflict(w, r) ==
  /\ Advanceable(r)
  /\ ~Free(r)
  /\ UNCHANGED runVars
  /\ Raises(w, r)

\* save_in_transaction() of an end or a suspension: cancellation overrides either,
\* and the lease is dropped.
Saved(w, r, s) ==
  LET t == IF row[r].cancel THEN "cancelled" ELSE s IN
  /\ ckpt' = [ckpt EXCEPT ![r] = t]
  /\ row' = [row EXCEPT ![r].status = t, ![r].holder = w, ![r].left = 0]
  /\ call' = [call EXCEPT ![r] = "none"]
  /\ UNCHANGED <<decision, grant>>

\* What the loop may save once it has the result of its call.
Results(r) == IF ckpt[r] = "asking" /\ r \in Reviewed THEN {"awaiting_approval", "failed"}
              ELSE {"succeeded", "failed"}

\* reconcile_all() cannot settle what an earlier owner sent: the run is in doubt.
StayInDoubt(w, r) ==
  /\ call[r] \in {"sent", "unknown"}
  /\ r \in Doubtful
  /\ call' = [call EXCEPT ![r] = "unknown"]
  /\ row' = [row EXCEPT ![r].status = "reconciling", ![r].holder = w]
  /\ UNCHANGED <<ckpt, decision, grant>>

\* _resume_or_stop(): a reason to stop, or a call that was never sent, ends the run.
Stop(w, r) ==
  /\ MustStopWaiting(r) \/ call[r] = "admitted"
  /\ Saved(w, r, "failed")

\* A result an earlier owner left is settled and taken into the transcript.
Reuse(w, r) ==
  /\ ~MustStopWaiting(r)
  /\ call[r] \in {"sent", "unknown", "answered"}
  /\ \E s \in Results(r) : Saved(w, r, s)

\* The run resumes with a call of its own, on what is left of its lease; the approved
\* tool is admitted by the transaction that consumes its grant.
Resumed(w, r) ==
  /\ ~MustStopWaiting(r)
  /\ call[r] = "none"
  /\ \E left \in 1..LeaseTTL :
       row' = [row EXCEPT ![r].status = "running", ![r].holder = w, ![r].left = left]
  /\ IF ckpt[r] = "awaiting_approval"
     THEN /\ grant' = [grant EXCEPT ![r] = "consumed"]
          /\ ckpt' = [ckpt EXCEPT ![r] = "acting"]
     ELSE /\ ckpt' = [ckpt EXCEPT ![r] = "asking"]
          /\ UNCHANGED grant
  /\ UNCHANGED decision

Dispatch(w, r) ==
  /\ Resumed(w, r)
  /\ call' = [call EXCEPT ![r] = "sent"]
  /\ busy' = [busy EXCEPT ![w] = r]
  /\ age' = [age EXCEPT ![w] = 0]
  /\ UNCHANGED <<todo, seen, backoff, failures>>

Advance(w, r) ==
  /\ busy[w] = 0
  /\ \/ /\ \/ LeaveAlone(w, r) \/ Conflict(w, r)
           \/ /\ Free(r)
              /\ StayInDoubt(w, r) \/ Stop(w, r) \/ Reuse(w, r)
              /\ Returns(w, r)
        /\ UNCHANGED <<busy, age, failures>>
     \/ Advanceable(r) /\ Free(r) /\ Dispatch(w, r)

\* The scanner advances its rows in order, a host any run.
AdvanceNext(w) == todo[w] # {} /\ Min(todo[w]) \notin backoff[w] /\ Advance(w, Min(todo[w]))
AdvanceRun(w, r) == row[r].status \in Active /\ Advance(w, r)

-----------------------------------------------------------------------------
(* advance(), from its physical call.                                      *)

Leased(w, r) == row[r].holder = w /\ row[r].left > 0 /\ row[r].status \in Active

Returned(w) ==
  /\ busy' = [busy EXCEPT ![w] = 0]
  /\ age' = [age EXCEPT ![w] = 0]

\* The call returns: with the lease its result is settled and taken; without it,
\* only recorded, unless another owner settled the call.
Answer(w) ==
  LET r == busy[w] IN
  /\ r # 0
  /\ \/ Leased(w, r) /\ \E s \in Results(r) : Saved(w, r, s)
     \/ /\ ~Leased(w, r)
        /\ call' = IF call[r] \in {"sent", "unknown"} THEN [call EXCEPT ![r] = "answered"] ELSE call
        /\ UNCHANGED <<row, ckpt, decision, grant>>
  /\ Returns(w, r)
  /\ Returned(w)
  /\ UNCHANGED failures

\* The dispatch fails, or its verifier cannot vouch for what it observed.
LoseAnswer(w) ==
  LET r == busy[w] IN
  /\ r # 0 /\ r \in Doubtful
  /\ IF Leased(w, r)
     THEN /\ call' = [call EXCEPT ![r] = "unknown"]
          /\ row' = [row EXCEPT ![r].status = "reconciling", ![r].left = 0]
     ELSE UNCHANGED <<call, row>>
  /\ UNCHANGED <<ckpt, decision, grant>>
  /\ Returns(w, r)
  /\ Returned(w)
  /\ UNCHANGED failures

\* A renewal extends the lease to one ttl after the last progress, never more.
Remaining(w) == LeaseTTL - age[w]

\* heartbeat(): while a call is in flight; when its time is over, it releases.
Heartbeat(w) ==
  LET r == busy[w] IN
  /\ r # 0
  /\ Leased(w, r)
  /\ row[r].left # Remaining(w)
  /\ row' = [row EXCEPT ![r].left = Remaining(w)]
  /\ UNCHANGED <<ckpt, call, decision, grant, workerVars, failures>>

-----------------------------------------------------------------------------
(* Failures of a scanner.  A host that dies in a call is a stuck one.      *)

\* Its memory is gone, and so is its back-off.
Forget(w) ==
  /\ Returned(w)
  /\ todo' = [todo EXCEPT ![w] = {}]
  /\ seen' = [seen EXCEPT ![w] = [r \in Runs |-> Unseen]]
  /\ backoff' = [backoff EXCEPT ![w] = {}]

\* It dies while it waits, or after it claimed a run and before it sent its call.
Crash(w) ==
  /\ failures < MaxFailures
  /\ failures' = failures + 1
  /\ Forget(w)
  /\ \/ busy[w] # 0 /\ UNCHANGED runVars
     \/ \E r \in Runs :
          /\ busy[w] = 0 /\ Free(r) /\ Advanceable(r)
          /\ \/ /\ row' = [row EXCEPT ![r].holder = w, ![r].left = LeaseTTL,
                             ![r].status = IF MustStopWaiting(r) \/ call[r] # "none"
                                           THEN "reconciling" ELSE "running"]
                /\ UNCHANGED <<ckpt, call, decision, grant>>
             \/ Resumed(w, r) /\ call' = [call EXCEPT ![r] = "admitted"]

\* An exception of the application, a bridge or the database, before or after the
\* admission: the lease is yielded, and a run that was only looked at waits on.
Throw(w, r) ==
  LET state == IF MustStopWaiting(r) \/ call[r] # "none" THEN "reconciling"
               ELSE IF ckpt[r] = "awaiting_approval" THEN "awaiting_approval" ELSE "running" IN
  /\ busy[w] = 0 /\ Free(r) /\ Advanceable(r)
  /\ failures < MaxFailures
  /\ failures' = failures + 1
  /\ \/ /\ row' = [row EXCEPT ![r].holder = w, ![r].status = state]
        /\ UNCHANGED call
     \/ /\ ~MustStopWaiting(r) /\ call[r] = "none" /\ ckpt[r] = "asking"
        /\ row' = [row EXCEPT ![r].holder = w, ![r].status = "running"]
        /\ call' = [call EXCEPT ![r] = "admitted"]
  /\ Raises(w, r)
  /\ UNCHANGED <<ckpt, decision, grant, busy, age>>

-----------------------------------------------------------------------------
Called(w) == Answer(w) \/ LoseAnswer(w)

ServiceNext ==
  \/ \E r \in Runs : \/ Accept(r) \/ CancelRun(r) \/ Decide(r) \/ ExpireGrant(r)
                     \/ PassDeadline(r) \/ LeaseTick(r)
  \/ \E w \in Scanners : \/ Scan(w) \/ Skip(w) \/ AdvanceNext(w)
                         \/ Crash(w) \/ \E r \in todo[w] : Throw(w, r)
                         \/ \E r \in Runs : RetryDue(w, r)
  \/ \E w \in Hosts : \E r \in Runs : AdvanceRun(w, r)
  \/ \E w \in Workers : Called(w) \/ Heartbeat(w)

\* Clocks run and the scanner goes on; only the calls of a stuck process may never
\* return.  Nobody has to review, to cancel, or to vouch for a doubtful call.
ServiceFairness ==
  /\ \A r \in Runs : WF_serviceVars(PassDeadline(r)) /\ WF_serviceVars(LeaseTick(r))
  /\ \A w \in Scanners : /\ WF_serviceVars(Scan(w) \/ Skip(w) \/ AdvanceNext(w))
                         /\ \A r \in Runs : WF_serviceVars(RetryDue(w, r))
  /\ \A w \in Workers \ Stuck : WF_serviceVars(Called(w))

ServiceSpec == ServiceInit /\ [][ServiceNext]_serviceVars /\ ServiceFairness

-----------------------------------------------------------------------------
(* Properties.                                                             *)

\* Every accepted run comes to an end, or to a call nobody can vouch for: a run in
\* doubt does not keep the serial scan from the others, a stuck process does not
\* keep its run, and a proposal nobody reviews does not wait past its deadline
\* (tick(), heartbeat(), _must_stop_waiting()).
RunsConverge ==
  \A r \in Runs :
    row[r].status \in Active ~> row[r].status \in Terminal \/ call[r] = "unknown"

\* A rejected proposal ends in a cancelled run, whatever fails on the way
\* (decide(), save_in_transaction()).
RejectionCancels ==
  \A r \in Reviewed : decision[r] = "reject" ~> row[r].status = "cancelled"
=============================================================================
