-------------------------- MODULE InvocationJournal --------------------------
(***************************************************************************)
(* The durable journal of tool invocations (state/invocation_journal.py):  *)
(* one row per logical call, one row per physical attempt, and the two     *)
(* pure decisions taken from them, what recovery does with a row it finds  *)
(* (decide_recovery) and what follows a failed attempt (decide_retry of    *)
(* runtime/retry.py).                                                      *)
(*                                                                         *)
(* Every operation is one SQLite statement in its own transaction.  Its    *)
(* WHERE clause or UNIQUE constraint is given as a state formula beside    *)
(* it; where that formula is false, the code raises JournalError.          *)
(***************************************************************************)
EXTENDS Integers, FiniteSets

CONSTANTS
  Calls,        \* logical tool calls of one run
  EffectClass,  \* ToolSpec.effect_class of the tool each call names
  MaxAttempts   \* RunBudget.max_attempts_per_call

EffectClasses == {"read_only", "idempotent", "non_idempotent"}

ASSUME JournalConstants ==
  /\ EffectClass \in [Calls -> EffectClasses]
  /\ MaxAttempts \in Nat \ {0}

VARIABLES
  rows,     \* tool_invocations: state, checkpoint_revision and result per call
  attempts  \* tool_attempts: attempt_no and outcome of each physical execution

journalVars == <<rows, attempts>>

RowStates   == {"none", "claimed", "started", "completed", "failed", "indeterminate"}
Results     == {"none", "ok", "error"}
Row         == [state : RowStates, rev : Nat, result : Results]

\* How a dispatch can come back, by ToolErrorCode.  "execution_error" also stands
\* for the transient error and "invalid_arguments" for a path that is not found:
\* decide_retry treats them alike.
Outputs     == {"ok", "timeout", "execution_error", "invalid_arguments"}
AttemptRow  == [no : Nat, outcome : {"open", "completed", "failed", "timed_out"}]

NoRow == [state |-> "none", rev |-> 0, result |-> "none"]

JournalTypeOK ==
  /\ rows \in [Calls -> Row]
  /\ attempts \in [Calls -> SUBSET AttemptRow]

JournalInit ==
  /\ rows = [c \in Calls |-> NoRow]
  /\ attempts = [c \in Calls |-> {}]

-----------------------------------------------------------------------------
(* The decisions.                                                          *)

\* Faulty: a started call is replayed whatever its effect.
DecideRecoveryReplaysAll(r, c) ==
  CASE r.state = "completed" -> "reuse_result"
    [] r.state \in {"indeterminate", "failed"} -> "refuse_replay"
    [] r.state \in {"claimed", "started"} -> "execute"
    [] OTHER -> "no_row"

\* Faulty: a read-only result is not reused but computed again.
DecideRecoveryReruns(r, c) ==
  CASE r.state \in {"claimed", "completed"} -> "execute"
    [] r.state = "started" /\ EffectClass[c] # "non_idempotent" -> "replay"
    [] r.state = "none" -> "no_row"
    [] OTHER -> "refuse_replay"

\* decide_recovery(): the matrix of ADR 009.
DecideRecovery(r, c) ==
  CASE r.state = "completed" -> "reuse_result"
    [] r.state = "claimed" -> "execute"
    [] r.state = "started" /\ EffectClass[c] # "non_idempotent" -> "replay"
    [] r.state = "none" -> "no_row"
    [] OTHER -> "refuse_replay"

\* Faulty: one attempt too many.
AttemptsLeftOffByOne(n) == n <= MaxAttempts

AttemptsLeft(n) == n < MaxAttempts

\* decide_retry(): only a timeout of a repeatable tool is tried again.
Retries(c, o, n) ==
  /\ o = "timeout"
  /\ EffectClass[c] # "non_idempotent"
  /\ AttemptsLeft(n)

\* Faulty: whatever the tool returned counts as its result.
SettledStateIgnoresError(c, o) == "completed"

\* The terminal state of a call whose last attempt returned o: uncertain when a
\* non-idempotent body may have run (decide_retry, settle_invocation).
SettledState(c, o) ==
  CASE o = "ok" -> "completed"
    [] o \in {"timeout", "execution_error"} /\ EffectClass[c] = "non_idempotent" ->
         "indeterminate"
    [] OTHER -> "failed"

ResultOf(o) == IF o = "ok" THEN "ok" ELSE "error"

AttemptOutcome(o) ==
  CASE o = "ok" -> "completed" [] o = "timeout" -> "timed_out" [] OTHER -> "failed"

-----------------------------------------------------------------------------
(* The statements.                                                         *)

\* claim(): INSERT; UNIQUE (run_id, logical_call_id).
Claimable(c) == rows[c].state = "none"
ClaimRow(c, rev) ==
  rows' = [rows EXCEPT ![c] = [state |-> "claimed", rev |-> rev, result |-> "none"]]

\* Faulty: the row is left as it was claimed.
StartedRowNotMarked(r, rev) == [r EXCEPT !.rev = rev]

StartedRow(r, rev) == [r EXCEPT !.state = "started", !.rev = rev]

\* mark_started(): WHERE state = 'claimed'.
Startable(c) == rows[c].state = "claimed"
MarkStarted(c, rev) == rows' = [rows EXCEPT ![c] = StartedRow(@, rev)]

\* restart(): WHERE state and checkpoint_revision are those of the record loaded.
Restartable(c, r) == rows[c].state = r.state /\ rows[c].rev = r.rev
Restart(c, rev) == rows' = [rows EXCEPT ![c] = StartedRow(@, rev)]

\* settle(): WHERE state IN ('claimed', 'started').
Settleable(c) == rows[c].state \in {"claimed", "started"}
Settle(c, o) ==
  rows' = [rows EXCEPT ![c].state = SettledState(c, o), ![c].result = ResultOf(o)]

\* record_recovery_decision(): an UPDATE by primary key with no guard on the
\* state; recover_call() passes "indeterminate" for a refusal and otherwise the
\* state it loaded.
RecordDecision(c, r) ==
  rows' = [rows EXCEPT ![c].state =
             IF DecideRecovery(r, c) = "refuse_replay" THEN "indeterminate" ELSE r.state]

\* attempts_for(): the highest attempt number recorded, 0 without a row.
AttemptNos(c) == {a.no : a \in attempts[c]}
IsHighestAttempt(c, n) ==
  /\ n \in AttemptNos(c) \cup {0}
  /\ \A m \in AttemptNos(c) : m <= n

\* start_attempt(): INSERT; UNIQUE (invocation_id, attempt_no).
AttemptFree(c, n) == n \notin AttemptNos(c)
StartAttempt(c, n) ==
  attempts' = [attempts EXCEPT ![c] = @ \cup {[no |-> n, outcome |-> "open"]}]

\* finish_attempt(): WHERE attempt_id = ? AND outcome IS NULL.
AttemptOpen(c, n) == [no |-> n, outcome |-> "open"] \in attempts[c]
FinishAttempt(c, n, o) ==
  attempts' = [attempts EXCEPT ![c] =
                 (@ \ {[no |-> n, outcome |-> "open"]})
                   \cup {[no |-> n, outcome |-> AttemptOutcome(o)]}]
=============================================================================
