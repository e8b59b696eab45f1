------------------------------- MODULE ReActRun -------------------------------
(***************************************************************************)
(* One durable ReAct run of the local kernel: the checkpoint store with    *)
(* its optimistic revision (state/checkpoint.py), the one-shot approval    *)
(* ledger beside it (state/approval.py), the loop that drives the run and  *)
(* resumes it (runtime/loop.py, state/recovery.py) and the executor that   *)
(* bookends every tool call with journal writes (runtime/tool_executor.py).*)
(*                                                                         *)
(* A process takes one step between two durable writes and may die after   *)
(* any of them, inside the tool included.  Overlap says whether a second   *)
(* process may take the run up while a first still works on it: the SDK's  *)
(* file lock excludes it, the coordinator of state/recovery.py does not.   *)
(***************************************************************************)
EXTENDS InvocationJournal

CONSTANTS
  Procs,         \* processes that may work on the run
  NoCall,        \* no such tool call
  Policy,        \* the policy decisions a call may meet, now or after a redeployment
  Overlap,       \* may a process start while another one works on the run
  MaxSteps,      \* RunBudget.max_steps
  MaxGrants,     \* bound of the model: grants issued for one call
  MaxCrashes,    \* bound of the model: processes lost
  MaxRev         \* bound of the model: the last revision a process takes up

Decisions == {"allow", "require_approval", "deny"}

ASSUME RunConstants ==
  /\ NoCall \notin Calls
  /\ Policy \in [Calls -> (SUBSET Decisions) \ {{}}]
  /\ Overlap \in BOOLEAN
  /\ MaxSteps \in Nat
  /\ MaxGrants \in Nat
  /\ MaxCrashes \in Nat
  /\ MaxRev \in Nat

VARIABLES
  ckpt,        \* run_checkpoints: revision and snapshot of the run
  live,        \* approval_grants: unconsumed, unexpired grants per call
  spent,       \* approval_grants: consumed grants per call
  pc,          \* where each process is
  mine,        \* the snapshot each process works from
  rec,         \* the journal row recover_call() loaded
  no,          \* attempt_no of _run_attempts()
  output,      \* what the last dispatch returned
  recovering,  \* the process is inside the try block of resume_running()
  executed,    \* history: how often the body of the tool was entered, per call
  crashes

runVars  == <<ckpt, live, spent>>
procVars == <<pc, mine, rec, no, output, recovering>>
vars     == <<journalVars, runVars, procVars, executed, crashes>>

Finished == {"succeeded", "failed", "exhausted"}
Statuses == {"none", "running", "awaiting_approval"} \cup Finished
Snapshot == [rev : Nat, status : Statuses, results : [Calls -> Results],
             outstanding : Calls \cup {NoCall}, authorized : Calls \cup {NoCall},
             steps : Nat]

NoSnapshot == [rev |-> 0, status |-> "none", results |-> [c \in Calls |-> "none"],
               outstanding |-> NoCall, authorized |-> NoCall, steps |-> 0]

\* Where a process can be, by the next thing it does.
Places == {"idle", "resume", "approve", "drive", "claim", "start", "count", "attempt",
           "dispatch", "running", "finish", "settle", "append", "recover", "decision",
           "act", "fail"}

RunTypeOK ==
  /\ ckpt \in Snapshot
  /\ live \in [Calls -> Nat]
  /\ spent \in [Calls -> Nat]
  /\ executed \in [Calls -> Nat]
  /\ crashes \in 0..MaxCrashes

ProcTypeOK ==
  /\ pc \in [Procs -> Places]
  /\ mine \in [Procs -> Snapshot]
  /\ rec \in [Procs -> Row]
  /\ no \in [Procs -> 0..MaxAttempts]
  /\ output \in [Procs -> Outputs \cup {"error"}]
  /\ recovering \in [Procs -> BOOLEAN]

TypeOK == JournalTypeOK /\ RunTypeOK /\ ProcTypeOK

Init ==
  /\ JournalInit
  /\ ckpt = NoSnapshot
  /\ live = [c \in Calls |-> 0]
  /\ spent = [c \in Calls |-> 0]
  /\ pc = [p \in Procs |-> "idle"]
  /\ mine = [p \in Procs |-> NoSnapshot]
  /\ rec = [p \in Procs |-> NoRow]
  /\ no = [p \in Procs |-> 0]
  /\ output = [p \in Procs |-> "ok"]
  /\ recovering = [p \in Procs |-> FALSE]
  /\ executed = [c \in Calls |-> 0]
  /\ crashes = 0

-----------------------------------------------------------------------------
Call(p) == mine[p].outstanding

\* The process returns to its caller, or dies: its locals are gone.
Leave(p) ==
  /\ pc' = [pc EXCEPT ![p] = "idle"]
  /\ mine' = [mine EXCEPT ![p] = NoSnapshot]
  /\ rec' = [rec EXCEPT ![p] = NoRow]
  /\ no' = [no EXCEPT ![p] = 0]
  /\ output' = [output EXCEPT ![p] = "ok"]
  /\ recovering' = [recovering EXCEPT ![p] = FALSE]

Goto(p, place) == pc' = [pc EXCEPT ![p] = place]

\* A JournalError inside the try block of resume_running() finishes the run as
\* "recovery_refused"; anywhere else it propagates and the run stays as it is.
OnJournalError(p) ==
  \/ /\ recovering[p]
     /\ Goto(p, "fail")
     /\ UNCHANGED <<mine, rec, no, output, recovering>>
  \/ ~recovering[p] /\ Leave(p)

\* Faulty: the last writer wins.
CurrentUnchecked(p) == TRUE

\* Faulty: the update expects the revision it is about to write.
CurrentWhenWritten(p) == mine[p].rev + 1 = ckpt.rev

\* save_in_transaction(), _assert_current(): the snapshot is the latest revision.
Current(p) == mine[p].rev = ckpt.rev

\* _checkpoint(): compare and swap the whole snapshot, or CheckpointConflict.
Saved(p, s) ==
  /\ Current(p)
  /\ ckpt' = [s EXCEPT !.rev = ckpt.rev + 1]

Save(p, s, place) ==
  \/ /\ Saved(p, s)
     /\ mine' = [mine EXCEPT ![p] = ckpt']
     /\ Goto(p, place)
     /\ UNCHANGED <<rec, no, output>>
     /\ recovering' = [recovering EXCEPT ![p] = @ /\ place # "drive"]
  \/ ~Current(p) /\ Leave(p) /\ UNCHANGED ckpt

\* The last snapshot of a process, after which it returns.
SaveAndLeave(p, s) ==
  /\ \/ Saved(p, s)
     \/ ~Current(p) /\ UNCHANGED ckpt
  /\ Leave(p)

-----------------------------------------------------------------------------
(* Taking the run up.                                                      *)

Free(p) == pc[p] = "idle" /\ (Overlap \/ \A q \in Procs : pc[q] = "idle")

\* run(): the initial checkpoint of a new run.
Run(p) ==
  /\ Free(p)
  /\ ckpt.status = "none"
  /\ ckpt' = [NoSnapshot EXCEPT !.rev = 1, !.status = "running"]
  /\ mine' = [mine EXCEPT ![p] = ckpt']
  /\ Goto(p, "drive")
  /\ UNCHANGED <<journalVars, live, spent, rec, no, output, recovering, executed, crashes>>

\* recover_run() loads the snapshot; only a running run is resumed that way, and
\* only one that awaits approval through resume_approved().
Load(p) ==
  /\ Free(p)
  /\ ckpt.rev < MaxRev
  /\ \/ ckpt.status = "running" /\ Goto(p, "resume")
     \/ ckpt.status = "awaiting_approval" /\ Goto(p, "approve")
  /\ mine' = [mine EXCEPT ![p] = ckpt]
  /\ UNCHANGED <<journalVars, runVars, rec, no, output, recovering, executed, crashes>>

\* resume_running(): claim the run by saving its own snapshot again.
ResumeRunning(p) ==
  /\ pc[p] = "resume"
  /\ \/ /\ Saved(p, mine[p])
        /\ mine' = [mine EXCEPT ![p] = ckpt']
        /\ recovering' = [recovering EXCEPT ![p] = Call(p) # NoCall]
        /\ Goto(p, IF Call(p) = NoCall THEN "drive" ELSE "recover")
        /\ UNCHANGED <<rec, no, output>>
     \/ ~Current(p) /\ Leave(p) /\ UNCHANGED ckpt
  /\ UNCHANGED <<journalVars, live, spent, executed, crashes>>

\* Faulty: any grant of the ledger will do, whatever call it was issued for.
GrantOfAnyCall(c, g) == live[g] > 0

\* _consume(): an unconsumed, unexpired grant whose fingerprint is this call's.
GrantMatches(c, g) == g = c /\ live[g] > 0

\* resume_approved(): consume one grant and admit the call in one transaction,
\* or refuse and leave everything as it was.
ResumeApproved(p) ==
  /\ pc[p] = "approve"
  /\ \/ \E g \in Calls :
          /\ Policy[Call(p)] # {"deny"}
          /\ ckpt.status = "awaiting_approval"
          /\ ckpt.outstanding = Call(p)
          /\ ckpt.results = mine[p].results
          /\ GrantMatches(Call(p), g)
          /\ live' = [live EXCEPT ![g] = @ - 1]
          /\ spent' = [spent EXCEPT ![g] = @ + 1]
          /\ Saved(p, [mine[p] EXCEPT !.status = "running", !.authorized = Call(p)])
          /\ mine' = [mine EXCEPT ![p] = ckpt']
          /\ Goto(p, "claim")
          /\ UNCHANGED <<rec, no, output, recovering>>
     \/ Leave(p) /\ UNCHANGED runVars
  /\ UNCHANGED <<journalVars, executed, crashes>>

-----------------------------------------------------------------------------
(* The loop between two tool calls.                                        *)

Requested(p) == {c \in Calls : mine[p].results[c] # "none"}

\* One model call, and what the loop makes of the answer.
Drive(p) ==
  LET s == [mine[p] EXCEPT !.steps = @ + 1] IN
  /\ pc[p] = "drive"
  /\ \/ \* the step budget is used up, or the model, the context or the deadline
        \* fails: the run ends before or without another answer
        \E end \in IF mine[p].steps < MaxSteps THEN {"failed", "exhausted"} ELSE {"exhausted"} :
          SaveAndLeave(p, [mine[p] EXCEPT !.status = end])
     \/ \* a final answer, accepted
        /\ mine[p].steps < MaxSteps
        /\ SaveAndLeave(p, [s EXCEPT !.status = "succeeded"])
     \/ \* a protocol violation, open todos or a rejected verification
        /\ mine[p].steps < MaxSteps
        /\ Save(p, s, "drive")
     \/ \* a call id the transcript already has
        /\ mine[p].steps < MaxSteps
        /\ Requested(p) # {}
        /\ SaveAndLeave(p, [s EXCEPT !.status = "failed"])
     \/ \* a new tool call, under the policy in force
        /\ mine[p].steps < MaxSteps
        /\ \E c \in Calls \ Requested(p) :
             \/ \* an unknown tool, invalid arguments, or a denial
                Save(p, [s EXCEPT !.results[c] = "error"], "drive")
             \/ /\ "require_approval" \in Policy[c]
                /\ SaveAndLeave(p, [s EXCEPT !.status = "awaiting_approval", !.outstanding = c])
             \/ /\ "allow" \in Policy[c]
                /\ Save(p, [s EXCEPT !.outstanding = c, !.authorized = c], "claim")
  /\ UNCHANGED <<journalVars, live, spent, executed, crashes>>

\* The observation joins the transcript, and the call is no longer outstanding.
Append(p) ==
  /\ pc[p] = "append"
  /\ Save(p, [mine[p] EXCEPT !.results[Call(p)] = ResultOf(output[p]),
                             !.outstanding = NoCall, !.authorized = NoCall], "drive")
  /\ UNCHANGED <<journalVars, live, spent, executed, crashes>>

\* A refused recovery ends the run.
Fail(p) ==
  /\ pc[p] = "fail"
  /\ SaveAndLeave(p, [mine[p] EXCEPT !.status = "failed"])
  /\ UNCHANGED <<journalVars, live, spent, executed, crashes>>

-----------------------------------------------------------------------------
(* One logical call: _dispatch_journalled() and _run_attempts().           *)

ClaimCall(p) ==
  /\ pc[p] = "claim"
  /\ \/ /\ Claimable(Call(p))
        /\ ClaimRow(Call(p), mine[p].rev)
        /\ Goto(p, "start")
        /\ UNCHANGED <<mine, rec, no, output, recovering>>
     \/ ~Claimable(Call(p)) /\ OnJournalError(p) /\ UNCHANGED rows
  /\ UNCHANGED <<attempts, runVars, executed, crashes>>

StartCall(p) ==
  /\ pc[p] = "start"
  /\ \/ /\ Startable(Call(p))
        /\ MarkStarted(Call(p), mine[p].rev)
        /\ Goto(p, "count")
        /\ UNCHANGED <<mine, rec, no, output, recovering>>
     \/ ~Startable(Call(p)) /\ OnJournalError(p) /\ UNCHANGED rows
  /\ UNCHANGED <<attempts, runVars, executed, crashes>>

\* The attempts already made count, whoever made them.
CountAttempts(p) ==
  /\ pc[p] = "count"
  /\ \E n \in AttemptNos(Call(p)) \cup {0} :
       /\ IsHighestAttempt(Call(p), n)
       /\ \/ /\ AttemptsLeft(n)
             /\ no' = [no EXCEPT ![p] = n]
             /\ Goto(p, "attempt")
             /\ UNCHANGED <<mine, rec, output, recovering>>
          \/ ~AttemptsLeft(n) /\ OnJournalError(p)
  /\ UNCHANGED <<journalVars, runVars, executed, crashes>>

BeginAttempt(p) ==
  /\ pc[p] = "attempt"
  /\ \/ /\ AttemptFree(Call(p), no[p] + 1)
        /\ StartAttempt(Call(p), no[p] + 1)
        /\ no' = [no EXCEPT ![p] = @ + 1]
        /\ Goto(p, "dispatch")
        /\ UNCHANGED <<mine, rec, output, recovering>>
     \/ ~AttemptFree(Call(p), no[p] + 1) /\ OnJournalError(p) /\ UNCHANGED attempts
  /\ UNCHANGED <<rows, runVars, executed, crashes>>

\* The dispatcher refuses the arguments before it enters the body of the tool, or
\* enters it; an exception of the body can be classified as "invalid_arguments" too.
Dispatch(p) ==
  /\ pc[p] = "dispatch"
  /\ \/ /\ output' = [output EXCEPT ![p] = "invalid_arguments"]
        /\ Goto(p, "finish")
        /\ UNCHANGED executed
     \/ /\ executed' = [executed EXCEPT ![Call(p)] = @ + 1]
        /\ Goto(p, "running")
        /\ UNCHANGED output
  /\ UNCHANGED <<journalVars, runVars, mine, rec, no, recovering, crashes>>

ToolReturns(p) ==
  /\ pc[p] = "running"
  /\ \E o \in Outputs : output' = [output EXCEPT ![p] = o]
  /\ Goto(p, "finish")
  /\ UNCHANGED <<journalVars, runVars, mine, rec, no, recovering, executed, crashes>>

\* finish_attempt(), and the decision whether there is another one.
FinishAttemptOf(p) ==
  /\ pc[p] = "finish"
  /\ AttemptOpen(Call(p), no[p])
  /\ FinishAttempt(Call(p), no[p], output[p])
  /\ Goto(p, IF Retries(Call(p), output[p], no[p]) THEN "attempt" ELSE "settle")
  /\ UNCHANGED <<rows, runVars, mine, rec, no, output, recovering, executed, crashes>>

SettleCall(p) ==
  /\ pc[p] = "settle"
  /\ \/ /\ Settleable(Call(p))
        /\ Settle(Call(p), output[p])
        /\ Goto(p, "append")
        /\ UNCHANGED <<mine, rec, no, output, recovering>>
     \/ ~Settleable(Call(p)) /\ OnJournalError(p) /\ UNCHANGED rows
  /\ UNCHANGED <<attempts, runVars, executed, crashes>>

-----------------------------------------------------------------------------
(* The outstanding call of a resumed run: recover_call() and what follows. *)

LoadRow(p) ==
  /\ pc[p] = "recover"
  /\ rec' = [rec EXCEPT ![p] = rows[Call(p)]]
  /\ Goto(p, IF rows[Call(p)].state = "none" THEN "act" ELSE "decision")
  /\ UNCHANGED <<journalVars, runVars, mine, no, output, recovering, executed, crashes>>

RecordRecoveryDecision(p) ==
  /\ pc[p] = "decision"
  /\ RecordDecision(Call(p), rec[p])
  /\ Goto(p, "act")
  /\ UNCHANGED <<attempts, runVars, mine, rec, no, output, recovering, executed, crashes>>

\* The current policy lets the outstanding call go on.
StillAllowed(p, d) ==
  \/ d = "allow"
  \/ d = "require_approval" /\ mine[p].authorized = Call(p)

ActOnDecision(p) ==
  LET decision == DecideRecovery(rec[p], Call(p)) IN
  /\ pc[p] = "act"
  /\ \E d \in Policy[Call(p)] :
       \/ \* refused by the journal, by the policy, or for want of an admission
          /\ \/ decision = "refuse_replay"
             \/ ~StillAllowed(p, d)
             \/ decision = "no_row" /\ mine[p].authorized # Call(p)
          /\ OnJournalError(p)
          /\ UNCHANGED rows
       \/ /\ decision = "reuse_result"
          /\ StillAllowed(p, d)
          /\ output' = [output EXCEPT ![p] = ResultOf(rec[p].result)]
          /\ Goto(p, "append")
          /\ UNCHANGED <<rows, mine, rec, no, recovering>>
       \/ /\ decision \in {"execute", "replay"}
          /\ StillAllowed(p, d)
          /\ \/ /\ Restartable(Call(p), rec[p])
                /\ Restart(Call(p), mine[p].rev)
                /\ Goto(p, "count")
                /\ UNCHANGED <<mine, rec, no, output, recovering>>
             \/ ~Restartable(Call(p), rec[p]) /\ OnJournalError(p) /\ UNCHANGED rows
       \/ /\ decision = "no_row"
          /\ StillAllowed(p, d)
          /\ mine[p].authorized = Call(p)
          /\ Goto(p, "claim")
          /\ UNCHANGED <<rows, mine, rec, no, output, recovering>>
  /\ UNCHANGED <<attempts, runVars, executed, crashes>>

-----------------------------------------------------------------------------
(* Around the processes.                                                   *)

\* issue(): an operator approves the call the run is waiting for.
IssueGrant(c) ==
  /\ ckpt.status = "awaiting_approval"
  /\ ckpt.outstanding = c
  /\ live[c] + spent[c] < MaxGrants
  /\ live' = [live EXCEPT ![c] = @ + 1]
  /\ UNCHANGED <<journalVars, ckpt, spent, procVars, executed, crashes>>

ExpireGrant(c) ==
  /\ live[c] > 0
  /\ live' = [live EXCEPT ![c] = @ - 1]
  /\ UNCHANGED <<journalVars, ckpt, spent, procVars, executed, crashes>>

Crash(p) ==
  /\ pc[p] # "idle"
  /\ crashes < MaxCrashes
  /\ crashes' = crashes + 1
  /\ Leave(p)
  /\ UNCHANGED <<journalVars, runVars, executed>>

\* What a live process does next once it has taken the run up.
Work(p) ==
  \/ ResumeRunning(p) \/ ResumeApproved(p) \/ Drive(p) \/ Append(p) \/ Fail(p)
  \/ ClaimCall(p) \/ StartCall(p) \/ CountAttempts(p) \/ BeginAttempt(p) \/ Dispatch(p)
  \/ ToolReturns(p) \/ FinishAttemptOf(p) \/ SettleCall(p)
  \/ LoadRow(p) \/ RecordRecoveryDecision(p) \/ ActOnDecision(p)

Next ==
  \/ \E p \in Procs : Run(p) \/ Load(p) \/ Work(p) \/ Crash(p)
  \/ \E c \in Calls : IssueGrant(c) \/ ExpireGrant(c)

Spec == Init /\ [][Next]_vars

\* Processes that live keep working, and the coordinator, which every start of the
\* service runs, takes up a run that was left running.
Recover(p) == Load(p) /\ ckpt.status = "running"
Fairness ==
  /\ \A p \in Procs : WF_vars(Work(p))
  /\ WF_vars(\E p \in Procs : Recover(p))

FairSpec == Spec /\ Fairness

-----------------------------------------------------------------------------
(* Properties.                                                             *)

\* The body of a non-idempotent tool is entered at most once per logical call,
\* whatever crashes, retries and recoveries follow, provided no process works
\* beside another (decide_recovery(), decide_retry(), recover_call()).
NonIdempotentOnce ==
  \A c \in Calls : EffectClass[c] = "non_idempotent" => executed[c] <= 1

\* A crash does not reset the budget of physical attempts, and two processes on
\* one run do not double it (_run_attempts(), start_attempt()).
AttemptsWithinBudget ==
  \A c \in Calls : executed[c] <= MaxAttempts

\* Evidence comes before effects: a tool whose body was ever entered left a numbered
\* attempt row for each entry, and a journal row that says more than "claimed"
\* (_dispatch_journalled(), _run_attempts()).
EvidenceBeforeEffect ==
  \A c \in Calls :
    /\ executed[c] <= Cardinality(AttemptNos(c))
    /\ executed[c] > 0 => rows[c].state \notin {"none", "claimed"}

\* A call no policy allows outright runs only on an approval of exactly this call,
\* and takes one grant, however many were issued and however often the run is
\* resumed (resume_approved(), consume_and_checkpoint()).
ApprovalGatesExecution ==
  \A c \in Calls :
    /\ spent[c] <= 1
    /\ "allow" \notin Policy[c] /\ executed[c] > 0 => spent[c] = 1

\* What the transcript says of a call is what the journal settled: success for a
\* completed row only, and every row of an answered call is terminal
\* (resume_running(), _drive()).
TranscriptMatchesJournal ==
  \A c \in Calls :
    /\ ckpt.results[c] = "ok" => rows[c].state = "completed"
    /\ ckpt.results[c] = "error" =>
         rows[c].state \in {"none", "failed", "indeterminate"}
    /\ ckpt.status = "succeeded" => rows[c].state \notin {"claimed", "started"}

\* A call that once completed is never executed again: what recovery finds of it
\* is the result, which is reused (recover_call()).
CompletedIsNotRerun ==
  [][\A c \in Calls : rows[c].result = "ok" => executed'[c] = executed[c]]_vars

TranscriptGrows ==
  /\ \A c \in Calls : ckpt.results[c] # "none" => ckpt'.results[c] = ckpt.results[c]
  /\ ckpt.status \in Finished => ckpt' = ckpt

\* No process overwrites what another one saved: observations stay in the
\* transcript, and a finished run is final (save_in_transaction()).
TranscriptIsAppendOnly == [][TranscriptGrows]_vars

\* A running run does not stay running: whatever is lost on the way, recovery
\* settles it, refuses it or leaves it to an approver (recover_run()).
RunSettles == ckpt.status = "running" ~> ckpt.status # "running"

\* What ADR 009 says of "failed": a non-idempotent tool whose body was entered is
\* never recorded as failed, because how far it got is not known.
FailedNeverRan ==
  \A c \in Calls :
    EffectClass[c] = "non_idempotent" /\ rows[c].state = "failed" => executed[c] = 0
=============================================================================
