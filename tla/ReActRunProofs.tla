---------------------------- MODULE ReActRunProofs ----------------------------
(***************************************************************************)
(* Proofs about ReActRun for any processes, calls, effect classes, policy  *)
(* and bounds.  Unless a theorem assumes otherwise, Overlap is arbitrary:  *)
(* any number of processes may work on the run at the same time.  First    *)
(* what the checkpoints say, then what the run does to the world: its      *)
(* approvals, its attempts and the effects of its tools.                   *)
(***************************************************************************)
EXTENDS ReActRun, FiniteSetTheorems, TLAPS

USE DEF journalVars, runVars, procVars

-----------------------------------------------------------------------------
(* Snapshots.                                                              *)

\* The places at which a process works on one tool call.
CallPlaces == Places \ {"idle", "resume", "drive", "fail"}

\* An outstanding call is unanswered, a run that waits waits for a call, and only
\* the outstanding call can be authorized.
WellFormed(s) ==
  /\ s.outstanding # NoCall => s.results[s.outstanding] = "none"
  /\ s.status = "awaiting_approval" => s.outstanding # NoCall
  /\ s.authorized \in {NoCall, s.outstanding}
  /\ s.status = "none" => s = NoSnapshot

\* A process works from the checkpoint itself or from one that has since been
\* replaced, and is where the snapshot it holds lets it be.
Placed(p) ==
  /\ pc[p] # "idle" =>
       /\ WellFormed(mine[p])
       /\ mine[p].rev <= ckpt.rev
       /\ mine[p].rev = ckpt.rev => mine[p] = ckpt
  /\ pc[p] = "approve" => mine[p].status = "awaiting_approval"
  /\ pc[p] \notin {"idle", "approve"} => mine[p].status = "running"
  /\ pc[p] = "drive" => Call(p) = NoCall
  /\ pc[p] \in CallPlaces => Call(p) # NoCall
  /\ pc[p] = "attempt" => no[p] < MaxAttempts

SnapshotInvariant ==
  /\ WellFormed(ckpt)
  /\ \A p \in Procs : Placed(p)

\* The updates the loop makes to a snapshot are snapshots.
LEMMA SnapshotUpdates ==
  ASSUME NEW s \in Snapshot
  PROVE  /\ NoSnapshot \in Snapshot
         /\ \A n \in Nat : [s EXCEPT !.rev = n] \in Snapshot
         /\ [s EXCEPT !.steps = s.steps + 1] \in Snapshot
         /\ \A st \in Statuses : [s EXCEPT !.status = st] \in Snapshot
         /\ \A c \in Calls, r \in Results : [s EXCEPT !.results[c] = r] \in Snapshot
         /\ \A c \in Calls \cup {NoCall} : [s EXCEPT !.outstanding = c] \in Snapshot
         /\ \A c \in Calls \cup {NoCall} : [s EXCEPT !.authorized = c] \in Snapshot
<1>1. s.results \in [Calls -> Results] /\ s.steps \in Nat
  BY DEF Snapshot
<1>2. \A c \in Calls, r \in Results : [s.results EXCEPT ![c] = r] \in [Calls -> Results]
  BY <1>1
<1>3. NoSnapshot \in Snapshot
  BY DEF Snapshot, NoSnapshot, Statuses, Results
<1>4. \A c \in Calls, r \in Results : [s EXCEPT !.results[c] = r] \in Snapshot
  BY <1>1, <1>2 DEF Snapshot
<1>5. /\ \A n \in Nat : [s EXCEPT !.rev = n] \in Snapshot
      /\ [s EXCEPT !.steps = s.steps + 1] \in Snapshot
  BY <1>1 DEF Snapshot
<1>6. \A st \in Statuses : [s EXCEPT !.status = st] \in Snapshot
  BY DEF Snapshot
<1>7. /\ \A c \in Calls \cup {NoCall} : [s EXCEPT !.outstanding = c] \in Snapshot
      /\ \A c \in Calls \cup {NoCall} : [s EXCEPT !.authorized = c] \in Snapshot
  BY DEF Snapshot
<1> QED
  BY <1>3, <1>4, <1>5, <1>6, <1>7

\* A process that leaves, or goes somewhere, is of its type afterwards.
LEMMA LeaveTypes ==
  ASSUME ProcTypeOK, NEW p \in Procs, Leave(p)
  PROVE  ProcTypeOK'
<1> USE JournalConstants DEF ProcTypeOK, Leave
<1>1. recovering' \in [Procs -> BOOLEAN]
  BY Zenon
<1>2. NoSnapshot \in Snapshot /\ NoRow \in Row
  BY DEF NoSnapshot, Snapshot, Statuses, Results, NoRow, Row, RowStates
<1> QED
  BY <1>1, <1>2 DEF Places, Outputs

LEMMA GotoTypes ==
  ASSUME ProcTypeOK, NEW p \in Procs, NEW place \in Places, Goto(p, place)
  PROVE  pc' \in [Procs -> Places]
BY DEF ProcTypeOK, Goto

LEMMA OnJournalErrorTypes ==
  ASSUME ProcTypeOK, NEW p \in Procs, OnJournalError(p)
  PROVE  ProcTypeOK'
<1>1. CASE Leave(p)
  BY <1>1, LeaveTypes
<1>2. CASE Goto(p, "fail") /\ UNCHANGED <<mine, rec, no, output, recovering>>
  BY <1>2, GotoTypes DEF ProcTypeOK, Places
<1> QED
  BY <1>1, <1>2 DEF OnJournalError

LEMMA SaveTypes ==
  ASSUME RunTypeOK, ProcTypeOK, NEW p \in Procs, NEW s \in Snapshot,
         NEW place \in Places, Save(p, s, place) \/ SaveAndLeave(p, s)
  PROVE  ckpt' \in Snapshot /\ ProcTypeOK'
<1>1. ckpt \in Snapshot /\ ckpt.rev + 1 \in Nat
  BY DEF RunTypeOK, Snapshot
<1>2. Saved(p, s) => ckpt' \in Snapshot
  BY <1>1, SnapshotUpdates DEF Saved
<1>3. CASE Leave(p)
  BY <1>1, <1>2, <1>3, LeaveTypes DEF Save, SaveAndLeave
<1>4. CASE Save(p, s, place) /\ ~Leave(p)
  <2>1. /\ ckpt' \in Snapshot /\ mine' = [mine EXCEPT ![p] = ckpt']
        /\ UNCHANGED <<rec, no, output>>
    BY <1>2, <1>4 DEF Save
  <2>2. pc' \in [Procs -> Places]
    BY <1>4, GotoTypes DEF Save
  <2>3. recovering' \in [Procs -> BOOLEAN]
    BY <1>4, Zenon DEF Save, ProcTypeOK
  <2> QED
    BY <2>1, <2>2, <2>3 DEF ProcTypeOK
<1> QED
  BY <1>3, <1>4 DEF SaveAndLeave

\* Only the steps of a dispatch or a recovery touch the journal.
LEMMA JournalSteps ==
  ASSUME [Next]_vars
  PROVE  \/ UNCHANGED journalVars
         \/ \E p \in Procs : \/ ClaimCall(p) \/ StartCall(p) \/ BeginAttempt(p)
                             \/ FinishAttemptOf(p) \/ SettleCall(p)
                             \/ RecordRecoveryDecision(p) \/ ActOnDecision(p)
<1>1. CASE UNCHANGED vars
  BY <1>1 DEF vars
<1>2. ASSUME NEW c \in Calls, IssueGrant(c) \/ ExpireGrant(c) PROVE UNCHANGED journalVars
  BY <1>2 DEF IssueGrant, ExpireGrant
<1>3. ASSUME NEW p \in Procs, Run(p) \/ Load(p) \/ Crash(p) PROVE UNCHANGED journalVars
  BY <1>3 DEF Run, Load, Crash
<1>4. ASSUME NEW p \in Procs,
             ResumeRunning(p) \/ ResumeApproved(p) \/ Drive(p) \/ Append(p) \/ Fail(p)
      PROVE  UNCHANGED journalVars
  BY <1>4 DEF ResumeRunning, ResumeApproved, Drive, Append, Fail
<1>5. ASSUME NEW p \in Procs,
             CountAttempts(p) \/ Dispatch(p) \/ ToolReturns(p) \/ LoadRow(p)
      PROVE  UNCHANGED journalVars
  BY <1>5 DEF CountAttempts, Dispatch, ToolReturns, LoadRow
<1> QED
  BY <1>1, <1>2, <1>3, <1>4, <1>5 DEF Next, Work

LEMMA JournalTypeStep ==
  ASSUME TypeOK, SnapshotInvariant, [Next]_vars
  PROVE  JournalTypeOK'
<1> USE DEF JournalTypeOK
<1>1. CASE UNCHANGED journalVars
  BY <1>1 DEF TypeOK
<1>2. ASSUME NEW p \in Procs, ClaimCall(p) PROVE JournalTypeOK'
  <2>1. mine[p].rev \in Nat
    BY DEF TypeOK, ProcTypeOK, Snapshot
  <2> QED
    BY <1>2, <2>1 DEF ClaimCall, ClaimRow, TypeOK, Row, RowStates, Results
<1>3. ASSUME NEW p \in Procs, StartCall(p) \/ ActOnDecision(p) PROVE JournalTypeOK'
  <2>1. mine[p].rev \in Nat
    BY DEF TypeOK, ProcTypeOK, Snapshot
  <2>2. \A r \in Row : StartedRow(r, mine[p].rev) \in Row
    BY <2>1 DEF StartedRow, Row, RowStates
  <2> QED
    BY <1>3, <2>2 DEF StartCall, MarkStarted, ActOnDecision, Restart, TypeOK
<1>4. ASSUME NEW p \in Procs, BeginAttempt(p) PROVE JournalTypeOK'
  <2>1. no[p] + 1 \in Nat
    BY JournalConstants DEF TypeOK, ProcTypeOK
  <2> QED
    BY <1>4, <2>1 DEF BeginAttempt, StartAttempt, TypeOK, AttemptRow
<1>5. ASSUME NEW p \in Procs, FinishAttemptOf(p) PROVE JournalTypeOK'
  <2>1. no[p] \in Nat
    BY JournalConstants DEF TypeOK, ProcTypeOK
  <2>2. [no |-> no[p], outcome |-> AttemptOutcome(output[p])] \in AttemptRow
    BY <2>1 DEF AttemptRow, AttemptOutcome
  <2> QED
    BY <1>5, <2>2 DEF FinishAttemptOf, FinishAttempt, TypeOK
<1>6. ASSUME NEW p \in Procs, SettleCall(p) PROVE JournalTypeOK'
  <2> DEFINE S == SettledState(Call(p), output[p])
             R == ResultOf(output[p])
  <2>1. S \in RowStates /\ R \in Results
    BY DEF SettledState, RowStates, ResultOf, Results
  <2>2. CASE UNCHANGED rows
    BY <1>6, <2>2 DEF SettleCall, TypeOK
  <2>3. CASE rows' = [rows EXCEPT ![Call(p)].state = S, ![Call(p)].result = R]
    <3> HIDE DEF S, R
    <3> QED
      BY <1>6, <2>1, <2>3 DEF SettleCall, TypeOK, Row
  <2> QED
    BY <1>6, <2>2, <2>3 DEF SettleCall, Settle
<1>7. ASSUME NEW p \in Procs, RecordRecoveryDecision(p) PROVE JournalTypeOK'
  <2>1. rec[p].state \in RowStates /\ "indeterminate" \in RowStates
    BY DEF TypeOK, ProcTypeOK, Row, RowStates
  <2> QED
    BY <1>7, <2>1 DEF RecordRecoveryDecision, RecordDecision, TypeOK, Row
<1> QED
  BY <1>1, <1>2, <1>3, <1>4, <1>5, <1>6, <1>7, JournalSteps

\* Only the steps that save move the checkpoint, each as its own snapshot says.
LEMMA DriveTypes ==
  ASSUME TypeOK, NEW p \in Procs, Drive(p)
  PROVE  ckpt' \in Snapshot /\ ProcTypeOK'
<1> DEFINE s == [mine[p] EXCEPT !.steps = @ + 1]
<1> USE SnapshotUpdates, SaveTypes DEF TypeOK
<1>1. mine[p] \in Snapshot /\ s \in Snapshot
  BY DEF ProcTypeOK
<1>2. \A st \in Statuses, t \in {mine[p], s} : [t EXCEPT !.status = st] \in Snapshot
  BY <1>1
<1>3. \A c \in Calls : /\ [s EXCEPT !.results[c] = "error"] \in Snapshot
                       /\ [s EXCEPT !.status = "awaiting_approval", !.outstanding = c] \in Snapshot
                       /\ [s EXCEPT !.outstanding = c, !.authorized = c] \in Snapshot
  <2> HIDE DEF s
  <2> TAKE c \in Calls
  <2>1. [s EXCEPT !.results[c] = "error"] \in Snapshot
    BY <1>1 DEF Results
  <2>2. [[s EXCEPT !.status = "awaiting_approval"] EXCEPT !.outstanding = c] \in Snapshot
    BY <1>1, <1>2 DEF Statuses
  <2>3. [[s EXCEPT !.outstanding = c] EXCEPT !.authorized = c] \in Snapshot
    BY <1>1
  <2> QED
    BY <2>1, <2>2, <2>3
<1>4. \/ \E t \in Snapshot, place \in Places : Save(p, t, place)
      \/ \E t \in Snapshot : SaveAndLeave(p, t)
  <2> HIDE DEF s
  <2>1. Drive(p) =>
          \/ \E st \in Statuses, t \in {mine[p], s} : SaveAndLeave(p, [t EXCEPT !.status = st])
          \/ Save(p, s, "drive")
          \/ \E c \in Calls :
               \/ Save(p, [s EXCEPT !.results[c] = "error"], "drive")
               \/ SaveAndLeave(p, [s EXCEPT !.status = "awaiting_approval", !.outstanding = c])
               \/ Save(p, [s EXCEPT !.outstanding = c, !.authorized = c], "claim")
    BY Zenon DEF Drive, Statuses, Finished, Requested, s
  <2> QED
    BY <1>1, <1>2, <1>3, <2>1 DEF Places
<1> QED
  BY <1>4 DEF Places

\* What a process may do beside the journal keeps the types of the run row, of
\* the ledger and of the processes.
LEMMA WorkTypes ==
  ASSUME TypeOK, SnapshotInvariant, NEW p \in Procs, Work(p)
  PROVE  RunTypeOK' /\ ProcTypeOK'
<1> USE DEF TypeOK, RunTypeOK
<1>1. mine[p] \in Snapshot /\ ckpt \in Snapshot
  BY DEF ProcTypeOK
<1>2. Leave(p) => ProcTypeOK'
  BY LeaveTypes
<1>3. OnJournalError(p) => ProcTypeOK'
  BY OnJournalErrorTypes
<1>4. \A place \in Places :
        Goto(p, place) /\ UNCHANGED <<mine, rec, no, output, recovering>> => ProcTypeOK'
  BY GotoTypes DEF ProcTypeOK
<1>5. \A s \in Snapshot, place \in Places :
        Save(p, s, place) \/ SaveAndLeave(p, s) => ckpt' \in Snapshot /\ ProcTypeOK'
  BY SaveTypes
<1>6. \A s \in Snapshot : Saved(p, s) => ckpt' \in Snapshot
  <2>1. ckpt.rev + 1 \in Nat
    BY <1>1 DEF Snapshot
  <2> QED
    BY <2>1, SnapshotUpdates DEF Saved
<1>7. \A place \in Places : Goto(p, place) => pc' \in [Procs -> Places]
  BY GotoTypes DEF ProcTypeOK
<1>8. CASE ResumeRunning(p)
  <2>1. CASE ~Leave(p)
    <3>1. ckpt' \in Snapshot /\ mine' \in [Procs -> Snapshot]
      BY <1>1, <1>6, <1>8, <2>1 DEF ResumeRunning, ProcTypeOK
    <3>2. pc' \in [Procs -> Places]
      BY <1>7, <1>8, <2>1 DEF ResumeRunning, Places
    <3>3. recovering' \in [Procs -> BOOLEAN]
      BY <1>8, <2>1, Zenon DEF ResumeRunning, ProcTypeOK
    <3> QED
      BY <1>8, <2>1, <3>1, <3>2, <3>3 DEF ResumeRunning, ProcTypeOK
  <2> QED
    BY <1>1, <1>2, <1>6, <1>8, <2>1 DEF ResumeRunning
<1>9. CASE ResumeApproved(p)
  <2> DEFINE s == [mine[p] EXCEPT !.status = "running", !.authorized = Call(p)]
  <2>1. CASE Leave(p) /\ UNCHANGED runVars
    BY <1>2, <1>9, <2>1 DEF ResumeApproved
  <2>2. ASSUME NEW g \in Calls, GrantMatches(Call(p), g),
               live' = [live EXCEPT ![g] = @ - 1], spent' = [spent EXCEPT ![g] = @ + 1],
               Saved(p, s), mine' = [mine EXCEPT ![p] = ckpt'], Goto(p, "claim"),
               UNCHANGED <<rec, no, output, recovering>>
        PROVE  RunTypeOK' /\ ProcTypeOK'
    <3>1. s \in Snapshot
      <4>1. mine[p].outstanding \in Calls \cup {NoCall}
        BY <1>1 DEF Snapshot
      <4>2. [mine[p] EXCEPT !.status = "running"] \in Snapshot
        BY <1>1, SnapshotUpdates DEF Statuses
      <4>3. [[mine[p] EXCEPT !.status = "running"] EXCEPT !.authorized = Call(p)] \in Snapshot
        BY <4>1, <4>2, SnapshotUpdates DEF Call
      <4> QED
        BY <4>3
    <3>2. live' \in [Calls -> Nat] /\ spent' \in [Calls -> Nat]
      BY <2>2 DEF GrantMatches
    <3>3. pc' \in [Procs -> Places]
      BY <1>7, <2>2 DEF Places
    <3> HIDE DEF s
    <3>4. ckpt' \in Snapshot
      BY <1>6, <2>2, <3>1
    <3> QED
      BY <1>9, <2>2, <3>2, <3>3, <3>4 DEF ResumeApproved, ProcTypeOK
  <2> QED
    BY <1>9, <2>1, <2>2 DEF ResumeApproved
<1>10. CASE Drive(p)
  BY <1>10, DriveTypes DEF Drive
<1>11. CASE Append(p)
  <2> DEFINE s == [mine[p] EXCEPT !.results[Call(p)] = ResultOf(output[p]),
                                  !.outstanding = NoCall, !.authorized = NoCall]
  <2>1. s \in Snapshot
    <3>1. Call(p) \in Calls
      BY <1>1, <1>11 DEF Append, SnapshotInvariant, Placed, CallPlaces, Places, Call, Snapshot
    <3>2. ResultOf(output[p]) \in Results
      BY DEF ResultOf, Results
    <3>3. [mine[p] EXCEPT !.results[Call(p)] = ResultOf(output[p])] \in Snapshot
      BY <1>1, <3>1, <3>2, SnapshotUpdates
    <3>4. [[[mine[p] EXCEPT !.results[Call(p)] = ResultOf(output[p])]
              EXCEPT !.outstanding = NoCall] EXCEPT !.authorized = NoCall] \in Snapshot
      BY <3>3, SnapshotUpdates
    <3> QED
      BY <3>4
  <2> HIDE DEF s
  <2>2. Save(p, s, "drive")
    BY <1>11 DEF Append, s
  <2> QED
    BY <1>5, <1>11, <2>1, <2>2 DEF Append, Places
<1>12. CASE Fail(p)
  <2>1. [mine[p] EXCEPT !.status = "failed"] \in Snapshot
    BY <1>1, SnapshotUpdates DEF Statuses, Finished
  <2> QED
    BY <1>5, <1>12, <2>1 DEF Fail, Places
<1>13. CASE ClaimCall(p) \/ StartCall(p) \/ SettleCall(p)
  BY <1>3, <1>4, <1>13 DEF ClaimCall, StartCall, SettleCall, Places
<1>14. CASE CountAttempts(p)
  <2>1. ASSUME NEW n \in AttemptNos(Call(p)) \cup {0}, IsHighestAttempt(Call(p), n),
               AttemptsLeft(n), no' = [no EXCEPT ![p] = n], Goto(p, "attempt"),
               UNCHANGED <<mine, rec, output, recovering>>
        PROVE  ProcTypeOK'
    <3>1. Call(p) \in Calls
      BY <1>1, <1>14 DEF CountAttempts, SnapshotInvariant, Placed, CallPlaces, Places,
         Call, Snapshot
    <3>2. n \in 0..MaxAttempts
      BY <2>1, <3>1, JournalConstants DEF AttemptNos, AttemptsLeft, JournalTypeOK, AttemptRow
    <3>3. pc' \in [Procs -> Places]
      BY <1>7, <2>1 DEF Places
    <3> QED
      BY <2>1, <3>2, <3>3 DEF ProcTypeOK
  <2> QED
    BY <1>3, <1>14, <2>1 DEF CountAttempts
<1>15. CASE BeginAttempt(p)
  <2>1. CASE no' = [no EXCEPT ![p] = @ + 1] /\ Goto(p, "dispatch")
             /\ UNCHANGED <<mine, rec, output, recovering>>
    <3>1. no[p] + 1 \in 0..MaxAttempts
      BY <1>15, JournalConstants DEF BeginAttempt, SnapshotInvariant, Placed, ProcTypeOK
    <3>2. pc' \in [Procs -> Places]
      BY <1>7, <2>1 DEF Places
    <3> QED
      BY <1>15, <2>1, <3>1, <3>2 DEF BeginAttempt, ProcTypeOK
  <2> QED
    BY <1>3, <1>15, <2>1 DEF BeginAttempt
<1>16. CASE Dispatch(p)
  <2>1. pc' \in [Procs -> Places]
    BY <1>7, <1>16 DEF Dispatch, Places
  <2>2. executed' \in [Calls -> Nat]
    BY <1>16 DEF Dispatch
  <2>3. output' \in [Procs -> Outputs \cup {"error"}]
    BY <1>16 DEF Dispatch, ProcTypeOK, Outputs
  <2> QED
    BY <1>16, <2>1, <2>2, <2>3 DEF Dispatch, ProcTypeOK
<1>17. CASE ToolReturns(p) \/ FinishAttemptOf(p)
  <2>1. pc' \in [Procs -> Places]
    BY <1>7, <1>17 DEF ToolReturns, FinishAttemptOf, Places
  <2>2. output' \in [Procs -> Outputs \cup {"error"}]
    BY <1>17 DEF ToolReturns, FinishAttemptOf, ProcTypeOK
  <2> QED
    BY <1>17, <2>1, <2>2 DEF ToolReturns, FinishAttemptOf, ProcTypeOK
<1>18. CASE LoadRow(p)
  <2>1. pc' \in [Procs -> Places]
    BY <1>7, <1>18 DEF LoadRow, Places
  <2>2. rows[Call(p)] \in Row
    BY <1>1, <1>18 DEF LoadRow, SnapshotInvariant, Placed, CallPlaces, Places, Call, Snapshot,
       JournalTypeOK
  <2> QED
    BY <1>18, <2>1, <2>2 DEF LoadRow, ProcTypeOK
<1>19. CASE RecordRecoveryDecision(p)
  BY <1>4, <1>19 DEF RecordRecoveryDecision, Places
<1>20. CASE ActOnDecision(p)
  <2>1. CASE OnJournalError(p)
    BY <1>3, <1>20, <2>1 DEF ActOnDecision
  <2>2. CASE \E place \in Places :
               Goto(p, place) /\ UNCHANGED <<mine, rec, no, output, recovering>>
    BY <1>4, <1>20, <2>2 DEF ActOnDecision
  <2>3. CASE /\ output' = [output EXCEPT ![p] = ResultOf(rec[p].result)]
             /\ Goto(p, "append")
             /\ UNCHANGED <<mine, rec, no, recovering>>
    <3>1. pc' \in [Procs -> Places]
      BY <1>7, <2>3 DEF Places
    <3> QED
      BY <1>20, <2>3, <3>1 DEF ActOnDecision, ProcTypeOK, ResultOf, Outputs
  <2> QED
    BY <1>20, <2>1, <2>2, <2>3 DEF ActOnDecision, Places
<1> QED
  BY <1>8, <1>9, <1>10, <1>11, <1>12, <1>13, <1>14, <1>15, <1>16, <1>17, <1>18, <1>19, <1>20
     DEF Work

\* The types survive every step.
LEMMA TypeStep ==
  ASSUME TypeOK, SnapshotInvariant, [Next]_vars
  PROVE  TypeOK'
<1>1. JournalTypeOK'
  BY JournalTypeStep
<1>2. RunTypeOK' /\ ProcTypeOK'
  <2> USE DEF TypeOK, RunTypeOK
  <2>1. ASSUME NEW p \in Procs, Run(p) PROVE RunTypeOK' /\ ProcTypeOK'
    <3>1. ckpt' \in Snapshot
      BY <2>1, SnapshotUpdates DEF Run, NoSnapshot, Snapshot, Statuses
    <3>2. pc' \in [Procs -> Places]
      BY <2>1, GotoTypes DEF Run, Places
    <3> QED
      BY <2>1, <3>1, <3>2 DEF Run, ProcTypeOK
  <2>2. ASSUME NEW p \in Procs, Load(p) PROVE RunTypeOK' /\ ProcTypeOK'
    <3>1. pc' \in [Procs -> Places]
      BY <2>2, GotoTypes DEF Load, Places
    <3> QED
      BY <2>2, <3>1 DEF Load, ProcTypeOK
  <2>3. ASSUME NEW p \in Procs, Crash(p) PROVE RunTypeOK' /\ ProcTypeOK'
    BY <2>3, LeaveTypes, RunConstants DEF Crash
  <2>4. ASSUME NEW c \in Calls, IssueGrant(c) \/ ExpireGrant(c)
        PROVE  RunTypeOK' /\ ProcTypeOK'
    BY <2>4 DEF IssueGrant, ExpireGrant, ProcTypeOK
  <2>5. CASE UNCHANGED vars
    BY <2>5 DEF vars, ProcTypeOK
  <2> QED
    BY <2>1, <2>2, <2>3, <2>4, <2>5, WorkTypes DEF Next
<1> QED
  BY <1>1, <1>2 DEF TypeOK

\* The other processes are where they were, and their snapshots are no newer than
\* the checkpoint, when at most one revision is added to it.
LEMMA OthersStayPlaced ==
  ASSUME TypeOK, SnapshotInvariant, NEW p \in Procs,
         \A q \in Procs \ {p} : pc'[q] = pc[q] /\ mine'[q] = mine[q] /\ no'[q] = no[q],
         ckpt' = ckpt \/ ckpt'.rev = ckpt.rev + 1,
         WellFormed(ckpt)', Placed(p)'
  PROVE  SnapshotInvariant'
<1>1. ASSUME NEW q \in Procs \ {p} PROVE Placed(q)'
  <2>1. Placed(q) /\ mine[q].rev \in Nat /\ ckpt.rev \in Nat
    BY DEF SnapshotInvariant, TypeOK, RunTypeOK, ProcTypeOK, Snapshot
  <2> QED
    BY <2>1 DEF Placed, Call, WellFormed
<1> QED
  BY <1>1 DEF SnapshotInvariant

\* What Leave does to the processes.
LEMMA LeaveEffect ==
  ASSUME TypeOK, NEW p \in Procs, Leave(p)
  PROVE  /\ pc'[p] = "idle"
         /\ \A q \in Procs \ {p} : pc'[q] = pc[q] /\ mine'[q] = mine[q] /\ no'[q] = no[q]
         /\ Placed(p)'
<1>1. pc'[p] = "idle" /\ \A q \in Procs \ {p} : pc'[q] = pc[q]
  BY DEF TypeOK, ProcTypeOK, Leave
<1>2. \A q \in Procs \ {p} : mine'[q] = mine[q] /\ no'[q] = no[q]
  BY DEF TypeOK, ProcTypeOK, Leave
<1> QED
  BY <1>1, <1>2 DEF Placed, CallPlaces

LEMMA LeaveKeepsSnapshots ==
  ASSUME TypeOK, SnapshotInvariant, NEW p \in Procs, Leave(p), UNCHANGED ckpt
  PROVE  SnapshotInvariant'
BY LeaveEffect, OthersStayPlaced DEF SnapshotInvariant, WellFormed

\* Saving a well-formed snapshot of a run that has begun.
LEMMA SavedSnapshot ==
  ASSUME TypeOK, NEW p \in Procs, NEW s \in Snapshot, WellFormed(s), s.status # "none",
         Saved(p, s)
  PROVE  /\ WellFormed(ckpt)'
         /\ ckpt'.rev = ckpt.rev + 1
         /\ ckpt'.status = s.status /\ ckpt'.outstanding = s.outstanding
         /\ ckpt'.authorized = s.authorized /\ ckpt'.results = s.results
<1>1. ckpt' = [s EXCEPT !.rev = ckpt.rev + 1]
  BY DEF Saved
<1>2. s.results \in [Calls -> Results]
  BY DEF Snapshot
<1>3. /\ ckpt'.rev = ckpt.rev + 1
      /\ ckpt'.status = s.status /\ ckpt'.outstanding = s.outstanding
      /\ ckpt'.authorized = s.authorized /\ ckpt'.results = s.results
  BY <1>1 DEF Snapshot
<1> QED
  BY <1>3 DEF WellFormed

LEMMA SaveAndLeaveKeepsSnapshots ==
  ASSUME TypeOK, SnapshotInvariant, NEW p \in Procs, NEW s \in Snapshot,
         WellFormed(s), s.status # "none", SaveAndLeave(p, s)
  PROVE  SnapshotInvariant'
<1>1. CASE Saved(p, s)
  BY <1>1, SavedSnapshot, LeaveEffect, OthersStayPlaced DEF SaveAndLeave
<1>2. CASE UNCHANGED ckpt
  BY <1>2, LeaveKeepsSnapshots DEF SaveAndLeave
<1> QED
  BY <1>1, <1>2 DEF SaveAndLeave

\* A process that saved the snapshot of a running run works on from it.
LEMMA WorksOnFromSaved ==
  ASSUME TypeOK, SnapshotInvariant, NEW p \in Procs, NEW s \in Snapshot,
         NEW place \in Places \ {"idle", "approve", "attempt", "resume"},
         WellFormed(s), s.status = "running",
         place = "drive" => s.outstanding = NoCall,
         place \in CallPlaces => s.outstanding # NoCall,
         Saved(p, s), mine' = [mine EXCEPT ![p] = ckpt'], Goto(p, place), UNCHANGED no
  PROVE  SnapshotInvariant'
<1>1. /\ pc'[p] = place /\ mine'[p] = ckpt'
      /\ \A q \in Procs \ {p} : pc'[q] = pc[q] /\ mine'[q] = mine[q] /\ no'[q] = no[q]
  BY DEF Goto, TypeOK, ProcTypeOK
<1>2. /\ WellFormed(ckpt)' /\ ckpt'.rev = ckpt.rev + 1
      /\ ckpt'.status = "running" /\ ckpt'.outstanding = s.outstanding
  BY SavedSnapshot
<1>3. ckpt'.rev \in Nat
  BY <1>2 DEF TypeOK, RunTypeOK, Snapshot
<1>4. Placed(p)'
  BY <1>1, <1>2, <1>3 DEF Placed, Call, WellFormed
<1> QED
  BY <1>1, <1>2, <1>4, OthersStayPlaced

LEMMA SaveKeepsSnapshots ==
  ASSUME TypeOK, SnapshotInvariant, NEW p \in Procs, NEW s \in Snapshot,
         NEW place \in {"drive", "claim"}, WellFormed(s), s.status = "running",
         place = "drive" => s.outstanding = NoCall,
         place = "claim" => s.outstanding # NoCall,
         Save(p, s, place)
  PROVE  SnapshotInvariant'
<1>1. CASE Leave(p) /\ UNCHANGED ckpt
  BY <1>1, LeaveKeepsSnapshots
<1>2. CASE Saved(p, s) /\ mine' = [mine EXCEPT ![p] = ckpt'] /\ Goto(p, place) /\ UNCHANGED no
  BY <1>2, WorksOnFromSaved DEF Places, CallPlaces
<1> QED
  BY <1>1, <1>2 DEF Save

\* A process that goes on with its call, whatever the journal did, stays placed.
LEMMA GoesOnWithCall ==
  ASSUME TypeOK, SnapshotInvariant, NEW p \in Procs, UNCHANGED <<ckpt, mine>>,
         pc[p] \in CallPlaces \ {"approve"},
         NEW place \in (CallPlaces \ {"approve"}) \cup {"fail"}, Goto(p, place),
         \A q \in Procs \ {p} : no'[q] = no[q],
         place = "attempt" => no'[p] < MaxAttempts
  PROVE  SnapshotInvariant'
<1>1. pc'[p] = place /\ \A q \in Procs \ {p} : pc'[q] = pc[q]
  BY DEF Goto, TypeOK, ProcTypeOK
<1>2. Placed(p)
  BY DEF SnapshotInvariant
<1>3. Placed(p)'
  BY <1>1, <1>2 DEF Placed, Call, CallPlaces, WellFormed, Places
<1> QED
  BY <1>1, <1>3, OthersStayPlaced DEF SnapshotInvariant, WellFormed

LEMMA OnJournalErrorKeepsSnapshots ==
  ASSUME TypeOK, SnapshotInvariant, NEW p \in Procs, OnJournalError(p), UNCHANGED ckpt,
         pc[p] \in CallPlaces \ {"approve"}
  PROVE  SnapshotInvariant'
<1>1. CASE Leave(p)
  BY <1>1, LeaveKeepsSnapshots
<1>2. CASE Goto(p, "fail") /\ UNCHANGED <<mine, no>>
  BY <1>2, GoesOnWithCall
<1> QED
  BY <1>1, <1>2 DEF OnJournalError

\* What each outcome of the loop saves is well formed.
LEMMA DriveKeepsSnapshots ==
  ASSUME TypeOK, SnapshotInvariant, NEW p \in Procs, Drive(p)
  PROVE  SnapshotInvariant'
<1> DEFINE m == mine[p]
           s == [m EXCEPT !.steps = @ + 1]
<1>1. /\ m \in Snapshot /\ WellFormed(m) /\ m.status = "running" /\ m.outstanding = NoCall
      /\ m.authorized = NoCall
  <2>1. pc[p] = "drive"
    BY DEF Drive
  <2>2. m \in Snapshot
    BY DEF TypeOK, ProcTypeOK
  <2>3. Placed(p)
    BY DEF SnapshotInvariant
  <2>4. WellFormed(m) /\ m.status = "running" /\ m.outstanding = NoCall
    BY <2>1, <2>3 DEF Placed, Call
  <2> QED
    BY <2>2, <2>4 DEF WellFormed
<1>2. /\ s \in Snapshot /\ WellFormed(s) /\ s.status = "running" /\ s.outstanding = NoCall
      /\ s.authorized = NoCall /\ s.results = m.results
  <2>1. s \in Snapshot
    BY <1>1, SnapshotUpdates
  <2> QED
    BY <1>1, <2>1 DEF WellFormed, Snapshot
<1>3. ASSUME NEW t \in {m, s}, NEW end \in Finished, SaveAndLeave(p, [t EXCEPT !.status = end])
      PROVE  SnapshotInvariant'
  <2> DEFINE u == [t EXCEPT !.status = end]
  <2> HIDE DEF m, s
  <2>1. u \in Snapshot
    BY <1>1, <1>2, SnapshotUpdates DEF Statuses
  <2>2. WellFormed(u) /\ u.status # "none"
    BY <1>1, <1>2 DEF WellFormed, Snapshot, Finished
  <2> HIDE DEF u
  <2> QED
    BY <1>3, <2>1, <2>2, SaveAndLeaveKeepsSnapshots DEF u
<1>4. CASE Save(p, s, "drive")
  <2> HIDE DEF m, s
  <2> QED
    BY <1>2, <1>4, SaveKeepsSnapshots
<1>5. ASSUME NEW c \in Calls, Save(p, [s EXCEPT !.results[c] = "error"], "drive")
      PROVE  SnapshotInvariant'
  <2> DEFINE u == [s EXCEPT !.results[c] = "error"]
  <2> HIDE DEF m, s
  <2>1. u \in Snapshot
    BY <1>2, SnapshotUpdates DEF Results
  <2>2. WellFormed(u) /\ u.status = "running" /\ u.outstanding = NoCall
    BY <1>2 DEF WellFormed, Snapshot
  <2> HIDE DEF u
  <2> QED
    BY <1>5, <2>1, <2>2, SaveKeepsSnapshots DEF u
<1>6. ASSUME NEW c \in Calls \ Requested(p),
             SaveAndLeave(p, [s EXCEPT !.status = "awaiting_approval", !.outstanding = c])
      PROVE  SnapshotInvariant'
  <2> DEFINE u == [s EXCEPT !.status = "awaiting_approval", !.outstanding = c]
  <2>1. m.results[c] = "none"
    BY DEF Requested
  <2> HIDE DEF m, s
  <2>2. u \in Snapshot
    <3>1. [s EXCEPT !.status = "awaiting_approval"] \in Snapshot
      BY <1>2, SnapshotUpdates DEF Statuses
    <3>2. [[s EXCEPT !.status = "awaiting_approval"] EXCEPT !.outstanding = c] \in Snapshot
      BY <3>1, SnapshotUpdates
    <3> QED
      BY <3>2
  <2>3. WellFormed(u) /\ u.status # "none"
    BY <1>2, <2>1, RunConstants DEF WellFormed, Snapshot
  <2> HIDE DEF u
  <2> QED
    BY <1>6, <2>2, <2>3, SaveAndLeaveKeepsSnapshots DEF u
<1>7. ASSUME NEW c \in Calls \ Requested(p),
             Save(p, [s EXCEPT !.outstanding = c, !.authorized = c], "claim")
      PROVE  SnapshotInvariant'
  <2> DEFINE u == [s EXCEPT !.outstanding = c, !.authorized = c]
  <2>1. m.results[c] = "none"
    BY DEF Requested
  <2> HIDE DEF m, s
  <2>2. u \in Snapshot
    <3>1. [[s EXCEPT !.outstanding = c] EXCEPT !.authorized = c] \in Snapshot
      BY <1>2, SnapshotUpdates
    <3> QED
      BY <3>1
  <2>3. WellFormed(u) /\ u.status = "running" /\ u.outstanding = c
    BY <1>2, <2>1 DEF WellFormed, Snapshot
  <2> HIDE DEF u
  <2> QED
    BY <1>7, <2>2, <2>3, RunConstants, SaveKeepsSnapshots DEF u
<1> QED
  <2>1. \/ \E t \in {m, s}, end \in Finished : SaveAndLeave(p, [t EXCEPT !.status = end])
        \/ Save(p, s, "drive")
        \/ \E c \in Calls : Save(p, [s EXCEPT !.results[c] = "error"], "drive")
        \/ \E c \in Calls \ Requested(p) :
             \/ SaveAndLeave(p, [s EXCEPT !.status = "awaiting_approval", !.outstanding = c])
             \/ Save(p, [s EXCEPT !.outstanding = c, !.authorized = c], "claim")
    BY Zenon DEF Drive, Finished
  <2> HIDE DEF m, s
  <2> QED
    BY <1>3, <1>4, <1>5, <1>6, <1>7, <2>1

\* Every process stays where its snapshot lets it be.
LEMMA SnapshotStep ==
  ASSUME TypeOK, SnapshotInvariant, [Next]_vars
  PROVE  SnapshotInvariant'
<1>1. ASSUME NEW p \in Procs, Run(p) PROVE SnapshotInvariant'
  <2> DEFINE s == [NoSnapshot EXCEPT !.status = "running"]
  <2>1. ckpt = NoSnapshot
    BY <1>1 DEF Run, SnapshotInvariant, WellFormed
  <2>2. ckpt' = [NoSnapshot EXCEPT !.rev = 1, !.status = "running"]
    BY <1>1 DEF Run
  <2>3. WellFormed(ckpt)' /\ ckpt'.rev = 1 /\ ckpt.rev = 0 /\ ckpt'.status = "running"
        /\ ckpt'.outstanding = NoCall
    BY <2>1, <2>2 DEF NoSnapshot, WellFormed
  <2>4. /\ pc'[p] = "drive" /\ mine'[p] = ckpt'
        /\ \A q \in Procs \ {p} : pc'[q] = pc[q] /\ mine'[q] = mine[q] /\ no'[q] = no[q]
    BY <1>1 DEF Run, Goto, TypeOK, ProcTypeOK
  <2>5. Placed(p)'
    BY <2>3, <2>4 DEF Placed, Call, CallPlaces, WellFormed
  <2> QED
    BY <2>3, <2>4, <2>5, OthersStayPlaced
<1>2. ASSUME NEW p \in Procs, Load(p) PROVE SnapshotInvariant'
  <2>1. /\ mine'[p] = ckpt /\ ckpt' = ckpt
        /\ \/ ckpt.status = "running" /\ pc'[p] = "resume"
           \/ ckpt.status = "awaiting_approval" /\ pc'[p] = "approve"
        /\ \A q \in Procs \ {p} : pc'[q] = pc[q] /\ mine'[q] = mine[q] /\ no'[q] = no[q]
    BY <1>2 DEF Load, Goto, TypeOK, ProcTypeOK
  <2>2. WellFormed(ckpt) /\ ckpt.rev \in Nat
    BY DEF SnapshotInvariant, TypeOK, RunTypeOK, Snapshot
  <2>3. Placed(p)'
    BY <2>1, <2>2 DEF Placed, Call, CallPlaces, WellFormed
  <2> QED
    BY <2>1, <2>2, <2>3, OthersStayPlaced DEF WellFormed
<1>3. ASSUME NEW p \in Procs, ResumeRunning(p) PROVE SnapshotInvariant'
  <2>1. CASE Leave(p)
    BY <1>3, <2>1, LeaveKeepsSnapshots, SavedSnapshot, LeaveEffect, OthersStayPlaced
       DEF ResumeRunning, SnapshotInvariant, Placed, TypeOK, ProcTypeOK
  <2>2. CASE ~Leave(p)
    <3> DEFINE place == IF Call(p) = NoCall THEN "drive" ELSE "recover"
    <3>1. /\ Saved(p, mine[p]) /\ mine' = [mine EXCEPT ![p] = ckpt'] /\ UNCHANGED no
          /\ Goto(p, place)
      BY <1>3, <2>2 DEF ResumeRunning
    <3>2. mine[p] \in Snapshot /\ WellFormed(mine[p]) /\ mine[p].status = "running"
      BY <1>3 DEF ResumeRunning, SnapshotInvariant, Placed, TypeOK, ProcTypeOK
    <3>3. /\ place \in Places \ {"idle", "approve", "attempt", "resume"}
          /\ place = "drive" => mine[p].outstanding = NoCall
          /\ place \in CallPlaces => mine[p].outstanding # NoCall
      BY DEF Places, Call, CallPlaces
    <3> HIDE DEF place
    <3> QED
      BY <3>1, <3>2, <3>3, WorksOnFromSaved
  <2> QED
    BY <2>1, <2>2
<1>4. ASSUME NEW p \in Procs, ResumeApproved(p) PROVE SnapshotInvariant'
  <2> DEFINE s == [mine[p] EXCEPT !.status = "running", !.authorized = Call(p)]
  <2>1. CASE Leave(p) /\ UNCHANGED runVars
    BY <2>1, LeaveKeepsSnapshots
  <2>2. CASE Saved(p, s) /\ mine' = [mine EXCEPT ![p] = ckpt'] /\ Goto(p, "claim")
             /\ UNCHANGED no
    <3>1. mine[p] \in Snapshot /\ WellFormed(mine[p]) /\ Call(p) # NoCall
      BY <1>4 DEF ResumeApproved, SnapshotInvariant, Placed, CallPlaces, Places,
         TypeOK, ProcTypeOK
    <3>2. mine[p].outstanding \in Calls \cup {NoCall}
      BY <3>1 DEF Snapshot
    <3>3. s \in Snapshot
      <4>1. [mine[p] EXCEPT !.status = "running"] \in Snapshot
        BY <3>1, SnapshotUpdates DEF Statuses
      <4>2. [[mine[p] EXCEPT !.status = "running"] EXCEPT !.authorized = Call(p)] \in Snapshot
        BY <3>2, <4>1, SnapshotUpdates DEF Call
      <4> QED
        BY <4>2
    <3>4. WellFormed(s) /\ s.status = "running" /\ s.outstanding = Call(p)
      BY <3>1 DEF WellFormed, Snapshot, Call
    <3> HIDE DEF s
    <3> QED
      BY <2>2, <3>1, <3>3, <3>4, WorksOnFromSaved DEF Places
  <2> QED
    BY <1>4, <2>1, <2>2 DEF ResumeApproved
<1>5. ASSUME NEW p \in Procs, Append(p) PROVE SnapshotInvariant'
  <2> DEFINE s == [mine[p] EXCEPT !.results[Call(p)] = ResultOf(output[p]),
                                  !.outstanding = NoCall, !.authorized = NoCall]
  <2>1. mine[p] \in Snapshot /\ mine[p].status = "running" /\ Call(p) \in Calls
    BY <1>5 DEF Append, SnapshotInvariant, Placed, CallPlaces, Places, TypeOK, ProcTypeOK,
       Call, Snapshot
  <2>2. s \in Snapshot
    <3>1. [mine[p] EXCEPT !.results[Call(p)] = ResultOf(output[p])] \in Snapshot
      BY <2>1, SnapshotUpdates DEF ResultOf, Results
    <3>2. [[[mine[p] EXCEPT !.results[Call(p)] = ResultOf(output[p])]
              EXCEPT !.outstanding = NoCall] EXCEPT !.authorized = NoCall] \in Snapshot
      BY <3>1, SnapshotUpdates
    <3> QED
      BY <3>2
  <2>3. WellFormed(s) /\ s.status = "running" /\ s.outstanding = NoCall
    BY <2>1 DEF WellFormed, Snapshot
  <2> HIDE DEF s
  <2>4. Save(p, s, "drive")
    BY <1>5 DEF Append, s
  <2> QED
    BY <2>2, <2>3, <2>4, SaveKeepsSnapshots
<1>6. ASSUME NEW p \in Procs, Fail(p) PROVE SnapshotInvariant'
  <2> DEFINE s == [mine[p] EXCEPT !.status = "failed"]
  <2>1. mine[p] \in Snapshot /\ WellFormed(mine[p])
    BY <1>6 DEF Fail, SnapshotInvariant, Placed, TypeOK, ProcTypeOK
  <2>2. s \in Snapshot
    BY <2>1, SnapshotUpdates DEF Statuses, Finished
  <2>3. WellFormed(s) /\ s.status # "none"
    BY <2>1 DEF WellFormed, Snapshot
  <2> HIDE DEF s
  <2>4. SaveAndLeave(p, s)
    BY <1>6 DEF Fail, s
  <2> QED
    BY <2>2, <2>3, <2>4, SaveAndLeaveKeepsSnapshots
<1>7. ASSUME NEW p \in Procs, ClaimCall(p) \/ StartCall(p) \/ SettleCall(p)
      PROVE  SnapshotInvariant'
  BY <1>7, GoesOnWithCall, OnJournalErrorKeepsSnapshots
     DEF ClaimCall, StartCall, SettleCall, CallPlaces, Places
<1>8. ASSUME NEW p \in Procs, CountAttempts(p) PROVE SnapshotInvariant'
  <2>1. ASSUME NEW n \in AttemptNos(Call(p)) \cup {0}, AttemptsLeft(n),
               no' = [no EXCEPT ![p] = n], Goto(p, "attempt"), UNCHANGED mine
        PROVE  SnapshotInvariant'
    <3>1. no'[p] < MaxAttempts /\ \A q \in Procs \ {p} : no'[q] = no[q]
      BY <2>1 DEF AttemptsLeft, TypeOK, ProcTypeOK
    <3> QED
      BY <1>8, <2>1, <3>1, GoesOnWithCall DEF CountAttempts, CallPlaces, Places
  <2>2. CASE OnJournalError(p)
    BY <1>8, <2>2, OnJournalErrorKeepsSnapshots DEF CountAttempts, CallPlaces, Places
  <2> QED
    BY <1>8, <2>1, <2>2 DEF CountAttempts
<1>9. ASSUME NEW p \in Procs, BeginAttempt(p) PROVE SnapshotInvariant'
  <2>1. CASE no' = [no EXCEPT ![p] = @ + 1] /\ Goto(p, "dispatch") /\ UNCHANGED mine
    <3>1. \A q \in Procs \ {p} : no'[q] = no[q]
      BY <2>1 DEF TypeOK, ProcTypeOK
    <3> QED
      BY <1>9, <2>1, <3>1, GoesOnWithCall DEF BeginAttempt, CallPlaces, Places
  <2>2. CASE OnJournalError(p)
    BY <1>9, <2>2, OnJournalErrorKeepsSnapshots DEF BeginAttempt, CallPlaces, Places
  <2> QED
    BY <1>9, <2>1, <2>2 DEF BeginAttempt
<1>10. ASSUME NEW p \in Procs, Dispatch(p) \/ ToolReturns(p) PROVE SnapshotInvariant'
  BY <1>10, GoesOnWithCall DEF Dispatch, ToolReturns, CallPlaces, Places
<1>11. ASSUME NEW p \in Procs, FinishAttemptOf(p) PROVE SnapshotInvariant'
  <2>1. CASE Goto(p, "attempt") /\ Retries(Call(p), output[p], no[p])
    BY <1>11, <2>1, GoesOnWithCall
       DEF FinishAttemptOf, Retries, AttemptsLeft, CallPlaces, Places
  <2>2. CASE Goto(p, "settle")
    BY <1>11, <2>2, GoesOnWithCall DEF FinishAttemptOf, CallPlaces, Places
  <2> QED
    BY <1>11, <2>1, <2>2 DEF FinishAttemptOf
<1>12. ASSUME NEW p \in Procs, LoadRow(p) \/ RecordRecoveryDecision(p)
       PROVE  SnapshotInvariant'
  BY <1>12, GoesOnWithCall DEF LoadRow, RecordRecoveryDecision, CallPlaces, Places
<1>13. ASSUME NEW p \in Procs, ActOnDecision(p) PROVE SnapshotInvariant'
  <2>1. CASE OnJournalError(p)
    BY <1>13, <2>1, OnJournalErrorKeepsSnapshots DEF ActOnDecision, CallPlaces, Places
  <2>2. CASE (Goto(p, "append") \/ Goto(p, "count") \/ Goto(p, "claim"))
             /\ UNCHANGED <<mine, no>>
    BY <1>13, <2>2, GoesOnWithCall DEF ActOnDecision, CallPlaces, Places
  <2> QED
    BY <1>13, <2>1, <2>2 DEF ActOnDecision
<1>14. ASSUME NEW p \in Procs, Crash(p) PROVE SnapshotInvariant'
  BY <1>14, LeaveKeepsSnapshots DEF Crash
<1>15. CASE UNCHANGED vars \/ \E c \in Calls : IssueGrant(c) \/ ExpireGrant(c)
  <2>1. UNCHANGED <<ckpt, pc, mine, no>>
    BY <1>15 DEF vars, IssueGrant, ExpireGrant
  <2> QED
    BY <2>1 DEF SnapshotInvariant, Placed, Call, WellFormed
<1> QED
  BY <1>1, <1>2, <1>3, <1>4, <1>5, <1>6, <1>7, <1>8, <1>9, <1>10, <1>11, <1>12, <1>13, <1>14,
     <1>15, DriveKeepsSnapshots DEF Next, Work

-----------------------------------------------------------------------------
RunInvariant == TypeOK /\ SnapshotInvariant

LEMMA InitTypes == Init => RunInvariant
<1> SUFFICES ASSUME Init PROVE RunInvariant
  OBVIOUS
<1>1. recovering \in [Procs -> BOOLEAN]
  BY Zenon DEF Init
<1>2. NoSnapshot \in Snapshot /\ NoRow \in Row
  BY DEF NoSnapshot, Snapshot, Statuses, Results, NoRow, Row, RowStates
<1>3. ProcTypeOK
  BY <1>1, <1>2, JournalConstants DEF Init, ProcTypeOK, Places, Outputs
<1>4. JournalTypeOK /\ RunTypeOK
  BY <1>2, RunConstants DEF Init, JournalInit, JournalTypeOK, RunTypeOK
<1>5. SnapshotInvariant
  BY DEF Init, SnapshotInvariant, WellFormed, Placed, CallPlaces, NoSnapshot
<1> QED
  BY <1>3, <1>4, <1>5 DEF RunInvariant, TypeOK

LEMMA RunInvariantHolds == Spec => []RunInvariant
<1>1. RunInvariant /\ [Next]_vars => RunInvariant'
  BY TypeStep, SnapshotStep DEF RunInvariant
<1> QED
  BY <1>1, InitTypes, PTL DEF Spec

\* Every reachable state of the journal, the run row, the ledger and the processes
\* is of its type; in particular no process counts more attempts than it may make.
THEOREM TypeCorrect == Spec => []TypeOK
<1>1. RunInvariant => TypeOK
  BY DEF RunInvariant
<1> QED
  BY <1>1, RunInvariantHolds, PTL

-----------------------------------------------------------------------------
(* The transcript.                                                         *)

\* What a process saves in place of the snapshot m it loaded: answers stay, an
\* outstanding call is answered or stays outstanding, and nothing is authorized
\* that the policy does not allow, unless the run was waiting for an approval.
Continues(m, s) ==
  /\ \A c \in Calls : m.results[c] # "none" => s.results[c] = m.results[c]
  /\ m.outstanding # NoCall =>
       \/ s.results[m.outstanding] # "none"
       \/ s.outstanding = m.outstanding /\ s.status # "awaiting_approval"
  /\ \/ s.authorized \in {m.authorized, NoCall}
     \/ s.authorized \in Calls /\ "allow" \in Policy[s.authorized]
     \/ m.status = "awaiting_approval"

LEMMA SavesExtendTheTranscript ==
  ASSUME RunInvariant, NEW p \in Procs, pc[p] # "idle", NEW s \in Snapshot, Saved(p, s),
         Continues(mine[p], s)
  PROVE  TranscriptGrows
<1>1. mine[p] = ckpt /\ ckpt.status \notin Finished
  BY DEF RunInvariant, SnapshotInvariant, Placed, Saved, Current, Finished
<1>2. ckpt'.results = s.results
  BY DEF Saved, Snapshot
<1> QED
  BY <1>1, <1>2 DEF TranscriptGrows, Continues

\* The steps that move the checkpoint, and what they save.
LEMMA CheckpointSteps ==
  ASSUME RunInvariant, [Next]_vars
  PROVE  \/ UNCHANGED ckpt
         \/ ckpt.status = "none" /\ \E p \in Procs : Run(p)
         \/ \E p \in Procs, s \in Snapshot :
              Work(p) /\ pc[p] # "idle" /\ Saved(p, s) /\ Continues(mine[p], s)
<1> DEFINE Extends(p) ==
             \E s \in Snapshot : pc[p] # "idle" /\ Saved(p, s) /\ Continues(mine[p], s)
<1>1. ASSUME NEW p \in Procs PROVE mine[p] \in Snapshot
  BY DEF RunInvariant, TypeOK, ProcTypeOK
<1>2. ASSUME NEW p \in Procs, ResumeRunning(p) PROVE UNCHANGED ckpt \/ Extends(p)
  BY <1>1, <1>2 DEF ResumeRunning, RunInvariant, SnapshotInvariant, Placed, Continues
<1>3. ASSUME NEW p \in Procs, ResumeApproved(p) PROVE UNCHANGED ckpt \/ Extends(p)
  <2> DEFINE s == [mine[p] EXCEPT !.status = "running", !.authorized = Call(p)]
  <2>1. s \in Snapshot /\ s.results = mine[p].results /\ s.status = "running"
        /\ s.outstanding = mine[p].outstanding
    <3>1. mine[p].outstanding \in Calls \cup {NoCall}
      BY <1>1 DEF Snapshot
    <3>2. [mine[p] EXCEPT !.status = "running"] \in Snapshot
      BY <1>1, SnapshotUpdates DEF Statuses
    <3>3. [[mine[p] EXCEPT !.status = "running"] EXCEPT !.authorized = Call(p)] \in Snapshot
      BY <3>1, <3>2, SnapshotUpdates DEF Call
    <3>4. s \in Snapshot
      BY <3>3
    <3> QED
      BY <1>1, <3>4 DEF Snapshot
  <2> HIDE DEF s
  <2>2. UNCHANGED ckpt \/ (pc[p] # "idle" /\ Saved(p, s))
    BY <1>3 DEF ResumeApproved, s
  <2>3. mine[p].status = "awaiting_approval"
    BY <1>3 DEF ResumeApproved, RunInvariant, SnapshotInvariant, Placed
  <2> QED
    BY <2>1, <2>2, <2>3 DEF Continues
<1>4. ASSUME NEW p \in Procs, Append(p) PROVE UNCHANGED ckpt \/ Extends(p)
  <2> DEFINE s == [mine[p] EXCEPT !.results[Call(p)] = ResultOf(output[p]),
                                  !.outstanding = NoCall, !.authorized = NoCall]
  <2>1. Call(p) \in Calls /\ mine[p].results[Call(p)] = "none"
    BY <1>1, <1>4 DEF Append, RunInvariant, SnapshotInvariant, Placed, CallPlaces, Places,
       Call, Snapshot, WellFormed
  <2>2. s \in Snapshot
    <3>1. [mine[p] EXCEPT !.results[Call(p)] = ResultOf(output[p])] \in Snapshot
      BY <1>1, <2>1, SnapshotUpdates DEF ResultOf, Results
    <3>2. [[[mine[p] EXCEPT !.results[Call(p)] = ResultOf(output[p])]
              EXCEPT !.outstanding = NoCall] EXCEPT !.authorized = NoCall] \in Snapshot
      BY <3>1, SnapshotUpdates
    <3> QED
      BY <3>2
  <2>3. Continues(mine[p], s)
    BY <1>1, <2>1 DEF Snapshot, Continues, Call, ResultOf
  <2> HIDE DEF s
  <2>4. Saved(p, s) \/ UNCHANGED ckpt
    BY <1>4 DEF Append, Save, s
  <2> QED
    BY <1>4, <2>2, <2>3, <2>4 DEF Append
<1>5. ASSUME NEW p \in Procs, Fail(p) PROVE UNCHANGED ckpt \/ Extends(p)
  <2> DEFINE s == [mine[p] EXCEPT !.status = "failed"]
  <2>1. s \in Snapshot
    BY <1>1, SnapshotUpdates DEF Statuses, Finished
  <2>2. Continues(mine[p], s)
    BY <1>1 DEF Snapshot, Continues
  <2> HIDE DEF s
  <2>3. Saved(p, s) \/ UNCHANGED ckpt
    BY <1>5 DEF Fail, SaveAndLeave, s
  <2> QED
    BY <1>5, <2>1, <2>2, <2>3 DEF Fail
<1>6. ASSUME NEW p \in Procs, Drive(p) PROVE UNCHANGED ckpt \/ Extends(p)
  <2> DEFINE m == mine[p]
             s == [m EXCEPT !.steps = @ + 1]
  <2>1. /\ m \in Snapshot /\ m.outstanding = NoCall /\ m.authorized = NoCall
        /\ pc[p] # "idle"
    BY <1>1, <1>6 DEF Drive, RunInvariant, SnapshotInvariant, Placed, WellFormed, Call
  <2>2. s \in Snapshot /\ s.results = m.results /\ s.authorized = NoCall
    BY <2>1, SnapshotUpdates DEF Snapshot
  <2>3. Continues(m, s)
    BY <2>1, <2>2 DEF Continues
  <2>4. ASSUME NEW t \in {m, s}, NEW end \in Finished
        PROVE  [t EXCEPT !.status = end] \in Snapshot /\ Continues(m, [t EXCEPT !.status = end])
    <3> HIDE DEF m, s
    <3>1. [t EXCEPT !.status = end] \in Snapshot
      BY <2>1, <2>2, SnapshotUpdates DEF Statuses
    <3> QED
      BY <2>1, <2>2, <3>1 DEF Snapshot, Continues
  <2>5. ASSUME NEW c \in Calls \ Requested(p)
        PROVE  /\ [s EXCEPT !.results[c] = "error"] \in Snapshot
               /\ Continues(m, [s EXCEPT !.results[c] = "error"])
    <3>1. m.results[c] = "none"
      BY DEF Requested
    <3> HIDE DEF m, s
    <3>2. [s EXCEPT !.results[c] = "error"] \in Snapshot
      BY <2>2, SnapshotUpdates DEF Results
    <3> QED
      BY <2>1, <2>2, <3>1, <3>2 DEF Snapshot, Continues
  <2>6. ASSUME NEW c \in Calls
        PROVE  LET w == [s EXCEPT !.status = "awaiting_approval", !.outstanding = c]
               IN  w \in Snapshot /\ Continues(m, w)
    <3> HIDE DEF m, s
    <3> QED
      BY <2>1, <2>2 DEF Snapshot, Statuses, Continues
  <2>7. ASSUME NEW c \in Calls, "allow" \in Policy[c]
        PROVE  LET w == [s EXCEPT !.outstanding = c, !.authorized = c]
               IN  w \in Snapshot /\ Continues(m, w)
    <3> HIDE DEF m, s
    <3> QED
      BY <2>1, <2>2, <2>7 DEF Snapshot, Continues
  <2>8. \/ UNCHANGED ckpt
        \/ \E t \in {m, s}, end \in Finished : Saved(p, [t EXCEPT !.status = end])
        \/ Saved(p, s)
        \/ \E c \in Calls \ Requested(p) :
             \/ Saved(p, [s EXCEPT !.results[c] = "error"])
             \/ Saved(p, [s EXCEPT !.status = "awaiting_approval", !.outstanding = c])
             \/ "allow" \in Policy[c] /\ Saved(p, [s EXCEPT !.outstanding = c, !.authorized = c])
    BY <1>6, Zenon DEF Drive, Finished, Save, SaveAndLeave
  <2> HIDE DEF m, s
  <2>9. UNCHANGED ckpt \/ \E t \in Snapshot : Saved(p, t) /\ Continues(m, t)
    <3>1. ASSUME NEW t \in {m, s}, NEW end \in Finished, Saved(p, [t EXCEPT !.status = end])
          PROVE  \E u \in Snapshot : Saved(p, u) /\ Continues(m, u)
      BY <2>4, <3>1
    <3>2. ASSUME NEW c \in Calls \ Requested(p), Saved(p, [s EXCEPT !.results[c] = "error"])
          PROVE  \E u \in Snapshot : Saved(p, u) /\ Continues(m, u)
      BY <2>5, <3>2
    <3>3. ASSUME NEW c \in Calls,
                 Saved(p, [s EXCEPT !.status = "awaiting_approval", !.outstanding = c])
          PROVE  \E u \in Snapshot : Saved(p, u) /\ Continues(m, u)
      BY <2>6, <3>3
    <3>4. ASSUME NEW c \in Calls, "allow" \in Policy[c],
                 Saved(p, [s EXCEPT !.outstanding = c, !.authorized = c])
          PROVE  \E u \in Snapshot : Saved(p, u) /\ Continues(m, u)
      BY <2>7, <3>4
    <3> QED
      BY <2>2, <2>3, <2>8, <3>1, <3>2, <3>3, <3>4
  <2> QED
    BY <2>1, <2>9 DEF m
<1>7. ASSUME NEW p \in Procs, Work(p) PROVE UNCHANGED ckpt \/ Extends(p)
  <2>1. CASE \/ ClaimCall(p) \/ StartCall(p) \/ CountAttempts(p) \/ BeginAttempt(p)
             \/ Dispatch(p) \/ ToolReturns(p) \/ FinishAttemptOf(p) \/ SettleCall(p)
             \/ LoadRow(p) \/ RecordRecoveryDecision(p) \/ ActOnDecision(p)
    BY <2>1 DEF ClaimCall, StartCall, CountAttempts, BeginAttempt, Dispatch, ToolReturns,
       FinishAttemptOf, SettleCall, LoadRow, RecordRecoveryDecision, ActOnDecision
  <2> QED
    BY <1>2, <1>3, <1>4, <1>5, <1>6, <1>7, <2>1 DEF Work
<1>8. ASSUME NEW p \in Procs, Load(p) \/ Crash(p) PROVE UNCHANGED ckpt
  BY <1>8 DEF Load, Crash
<1>9. ASSUME UNCHANGED vars \/ \E c \in Calls : IssueGrant(c) \/ ExpireGrant(c)
      PROVE  UNCHANGED ckpt
  BY <1>9 DEF vars, IssueGrant, ExpireGrant
<1>10. ASSUME NEW p \in Procs, Run(p) PROVE ckpt.status = "none"
  BY <1>10 DEF Run
<1> HIDE DEF Extends
<1>11. UNCHANGED ckpt \/ (ckpt.status = "none" /\ \E p \in Procs : Run(p))
       \/ \E p \in Procs : Work(p) /\ Extends(p)
  BY <1>7, <1>8, <1>9, <1>10 DEF Next
<1> QED
  BY <1>11 DEF Extends

\* However many processes work on the run at once, observations stay in the
\* transcript and a finished run is final: the revision refuses every other save.
THEOREM AppendOnly == Spec => TranscriptIsAppendOnly
<1>1. ASSUME RunInvariant, [Next]_vars PROVE TranscriptGrows
  <2>1. CASE UNCHANGED ckpt
    BY <2>1 DEF TranscriptGrows
  <2>2. CASE ckpt.status = "none"
    BY <1>1, <2>2 DEF RunInvariant, SnapshotInvariant, WellFormed, NoSnapshot, TranscriptGrows,
       Finished
  <2> QED
    BY <1>1, <2>1, <2>2, CheckpointSteps, SavesExtendTheTranscript
<1>2. RunInvariant /\ [Next]_vars => [TranscriptGrows]_vars
  BY <1>1
<1> QED
  BY <1>2, RunInvariantHolds, PTL DEF Spec, TranscriptIsAppendOnly

-----------------------------------------------------------------------------
(* Approvals.                                                              *)

NeedsApproval(c) == "allow" \notin Policy[c]

\* The places from which the body of the tool can still be entered.
DispatchPlaces == {"claim", "start", "count", "attempt", "dispatch", "running", "finish"}

\* The run is past waiting for an approval of c.
Admitted(c) ==
  \/ ckpt.results[c] # "none"
  \/ ckpt.outstanding = c /\ ckpt.status # "awaiting_approval"

\* An authorization in a snapshot that the policy alone does not give was bought
\* with a grant.
Bought(s) ==
  \A c \in Calls : NeedsApproval(c) /\ s.authorized = c => spent[c] = 1

LedgerInvariant ==
  /\ \A c \in Calls : spent[c] <= 1
  /\ \A c \in Calls : spent[c] = 1 => Admitted(c)
  /\ Bought(ckpt)
  /\ \A p \in Procs : pc[p] # "idle" => Bought(mine[p])

\* A process on its way into a tool has the word of the policy or of the snapshot.
ClearedToDispatch ==
  \A p \in Procs : pc[p] \in DispatchPlaces =>
    "allow" \in Policy[Call(p)] \/ mine[p].authorized = Call(p)

ExecutedWasApproved ==
  \A c \in Calls : NeedsApproval(c) /\ executed[c] > 0 => spent[c] = 1

ApprovalInvariant ==
  RunInvariant /\ LedgerInvariant /\ ClearedToDispatch /\ ExecutedWasApproved

\* Grants are consumed by resume_approved() alone, together with the snapshot.
LEMMA SpentSteps ==
  ASSUME RunInvariant, [Next]_vars
  PROVE  \/ UNCHANGED spent
         \/ \E p \in Procs :
              /\ pc[p] = "approve"
              /\ Call(p) \in Calls
              /\ mine[p] = ckpt
              /\ ckpt.status = "awaiting_approval"
              /\ spent' = [spent EXCEPT ![Call(p)] = @ + 1]
              /\ ckpt' = [ckpt EXCEPT !.status = "running", !.authorized = Call(p),
                                      !.rev = ckpt.rev + 1]
<1>1. ASSUME NEW p \in Procs, ResumeApproved(p), ~ UNCHANGED spent
      PROVE  /\ pc[p] = "approve"
             /\ Call(p) \in Calls
             /\ mine[p] = ckpt
             /\ ckpt.status = "awaiting_approval"
             /\ spent' = [spent EXCEPT ![Call(p)] = @ + 1]
             /\ ckpt' = [ckpt EXCEPT !.status = "running", !.authorized = Call(p),
                                     !.rev = ckpt.rev + 1]
  <2>1. PICK g \in Calls :
          /\ ckpt.status = "awaiting_approval"
          /\ GrantMatches(Call(p), g)
          /\ spent' = [spent EXCEPT ![g] = @ + 1]
          /\ Saved(p, [mine[p] EXCEPT !.status = "running", !.authorized = Call(p)])
    BY <1>1 DEF ResumeApproved
  <2>2. pc[p] = "approve"
    BY <1>1 DEF ResumeApproved
  <2>3. mine[p] = ckpt
    BY <2>1, <2>2 DEF Saved, Current, RunInvariant, SnapshotInvariant, Placed
  <2> QED
    BY <2>1, <2>2, <2>3 DEF GrantMatches, Saved
<1>2. ASSUME NEW p \in Procs, Work(p), ~ResumeApproved(p) PROVE UNCHANGED spent
  BY <1>2 DEF Work, ResumeRunning, Drive, Append, Fail, ClaimCall, StartCall, CountAttempts,
     BeginAttempt, Dispatch, ToolReturns, FinishAttemptOf, SettleCall, LoadRow,
     RecordRecoveryDecision, ActOnDecision
<1>3. ASSUME NEW p \in Procs, Run(p) \/ Load(p) \/ Crash(p) PROVE UNCHANGED spent
  BY <1>3 DEF Run, Load, Crash
<1>4. ASSUME UNCHANGED vars \/ \E c \in Calls : IssueGrant(c) \/ ExpireGrant(c)
      PROVE  UNCHANGED spent
  BY <1>4 DEF vars, IssueGrant, ExpireGrant
<1> QED
  BY <1>1, <1>2, <1>3, <1>4 DEF Next

\* A process holds the snapshot it held, or the checkpoint before or after the step.
LEMMA MineSteps ==
  ASSUME RunInvariant, [Next]_vars, NEW q \in Procs, pc'[q] # "idle"
  PROVE  (pc[q] # "idle" /\ mine'[q] = mine[q]) \/ mine'[q] = ckpt \/ mine'[q] = ckpt'
<1> DEFINE Kept == (pc[q] # "idle" /\ mine'[q] = mine[q]) \/ mine'[q] = ckpt \/ mine'[q] = ckpt'
<1> USE DEF RunInvariant, TypeOK, ProcTypeOK
<1>1. ASSUME NEW p \in Procs, Leave(p) PROVE Kept
  BY <1>1 DEF Leave
<1>2. ASSUME NEW p \in Procs, NEW place \in Places, Goto(p, place), pc[p] # "idle",
             UNCHANGED mine \/ mine' = [mine EXCEPT ![p] = ckpt']
      PROVE  Kept
  BY <1>2 DEF Goto
<1>3. ASSUME NEW p \in Procs, Run(p) \/ Load(p) PROVE Kept
  BY <1>3 DEF Run, Load, Goto
<1>4. ASSUME NEW p \in Procs, OnJournalError(p), pc[p] # "idle" PROVE Kept
  BY <1>1, <1>2, <1>4 DEF OnJournalError, Places
<1>5. ASSUME NEW p \in Procs, NEW place \in Places, pc[p] # "idle",
             (\E s : Save(p, s, place)) \/ (\E s : SaveAndLeave(p, s))
      PROVE  Kept
  BY <1>1, <1>2, <1>5 DEF Save, SaveAndLeave
<1>6. ASSUME NEW p \in Procs, ResumeRunning(p) \/ ResumeApproved(p) PROVE Kept
  BY <1>1, <1>2, <1>6 DEF ResumeRunning, ResumeApproved, Places
<1>7. ASSUME NEW p \in Procs, Drive(p) \/ Append(p) \/ Fail(p) PROVE Kept
  <2>1. pc[p] # "idle"
    BY <1>7 DEF Drive, Append, Fail
  <2>2. \/ \E s : Save(p, s, "drive") \/ Save(p, s, "claim")
        \/ \E s : SaveAndLeave(p, s)
    BY <1>7, Zenon DEF Drive, Append, Fail
  <2> QED
    BY <1>5, <2>1, <2>2 DEF Places
<1>8. ASSUME NEW p \in Procs,
             \/ ClaimCall(p) \/ StartCall(p) \/ CountAttempts(p) \/ BeginAttempt(p)
             \/ SettleCall(p) \/ ActOnDecision(p)
      PROVE  Kept
  BY <1>2, <1>4, <1>8 DEF ClaimCall, StartCall, CountAttempts, BeginAttempt, SettleCall,
     ActOnDecision, Places
<1>9. ASSUME NEW p \in Procs,
             \/ Dispatch(p) \/ ToolReturns(p) \/ FinishAttemptOf(p) \/ LoadRow(p)
             \/ RecordRecoveryDecision(p)
      PROVE  Kept
  BY <1>2, <1>9 DEF Dispatch, ToolReturns, FinishAttemptOf, LoadRow, RecordRecoveryDecision,
     Places
<1>10. ASSUME NEW p \in Procs, Crash(p) PROVE Kept
  BY <1>1, <1>10 DEF Crash
<1>11. ASSUME UNCHANGED vars \/ \E c \in Calls : IssueGrant(c) \/ ExpireGrant(c)
       PROVE  Kept
  BY <1>11 DEF vars, IssueGrant, ExpireGrant
<1> QED
  BY <1>3, <1>6, <1>7, <1>8, <1>9, <1>10, <1>11 DEF Next, Work

LEMMA LedgerStep ==
  ASSUME RunInvariant, LedgerInvariant, [Next]_vars
  PROVE  LedgerInvariant'
<1> USE DEF RunInvariant, TypeOK, RunTypeOK
<1>1. ckpt \in Snapshot /\ ckpt' \in Snapshot /\ spent \in [Calls -> Nat]
  BY TypeStep
<1>2. CASE UNCHANGED spent
  <2>1. \A c \in Calls : spent[c] = 1 => Admitted(c)'
    <3>1. CASE UNCHANGED ckpt
      BY <1>2, <3>1 DEF LedgerInvariant, Admitted
    <3>2. CASE ckpt.status = "none"
      BY <1>1, <3>2, RunConstants DEF LedgerInvariant, Admitted, SnapshotInvariant, WellFormed,
         NoSnapshot
    <3>3. ASSUME NEW p \in Procs, NEW s \in Snapshot, pc[p] # "idle", Saved(p, s),
                 Continues(mine[p], s)
          PROVE  \A c \in Calls : spent[c] = 1 => Admitted(c)'
      <4>1. mine[p] = ckpt
        BY <3>3 DEF Saved, Current, SnapshotInvariant, Placed
      <4>2. /\ ckpt'.results = s.results /\ ckpt'.status = s.status
            /\ ckpt'.outstanding = s.outstanding
        BY <3>3 DEF Saved, Snapshot
      <4> QED
        BY <3>3, <4>1, <4>2, RunConstants DEF LedgerInvariant, Admitted, Continues
    <3> QED
      BY <3>1, <3>2, <3>3, CheckpointSteps
  <2>2. Bought(ckpt)'
    <3>1. CASE UNCHANGED ckpt
      BY <1>2, <3>1 DEF LedgerInvariant, Bought
    <3>2. ASSUME NEW p \in Procs, Run(p) PROVE Bought(ckpt)'
      BY <3>2, RunConstants DEF Run, NoSnapshot, Bought
    <3>3. ASSUME NEW p \in Procs, NEW s \in Snapshot, pc[p] # "idle", Saved(p, s),
                 Continues(mine[p], s), mine[p].status # "awaiting_approval"
          PROVE  Bought(ckpt)'
      <4>1. mine[p] = ckpt
        BY <3>3 DEF Saved, Current, SnapshotInvariant, Placed
      <4>2. ckpt'.authorized = s.authorized
        BY <3>3 DEF Saved, Snapshot
      <4> QED
        BY <1>2, <3>3, <4>1, <4>2, RunConstants
           DEF LedgerInvariant, Bought, Continues, NeedsApproval
    <3>4. ASSUME NEW p \in Procs, pc[p] = "approve", ~UNCHANGED ckpt, Work(p) PROVE FALSE
      <4>1. ResumeApproved(p)
        BY <3>4 DEF Work, ResumeRunning, Drive, Append, Fail, ClaimCall, StartCall,
           CountAttempts, BeginAttempt, Dispatch, ToolReturns, FinishAttemptOf, SettleCall,
           LoadRow, RecordRecoveryDecision, ActOnDecision
      <4>2. PICK g \in Calls : spent' = [spent EXCEPT ![g] = @ + 1]
        BY <3>4, <4>1 DEF ResumeApproved
      <4> QED
        BY <1>1, <1>2, <4>2
    <3> QED
      <4>1. ASSUME NEW p \in Procs, NEW s \in Snapshot, Work(p), pc[p] # "idle",
                   Saved(p, s), Continues(mine[p], s)
            PROVE  Bought(ckpt)'
        BY <3>1, <3>3, <3>4, <4>1 DEF SnapshotInvariant, Placed
      <4> QED
        BY <3>1, <3>2, <4>1, CheckpointSteps
  <2>3. ASSUME NEW q \in Procs, pc'[q] # "idle" PROVE Bought(mine[q])'
    BY <1>2, <2>2, <2>3, MineSteps DEF LedgerInvariant, Bought
  <2> QED
    BY <1>2, <2>1, <2>2, <2>3 DEF LedgerInvariant
<1>3. ASSUME NEW p \in Procs, pc[p] = "approve", Call(p) \in Calls, mine[p] = ckpt,
             ckpt.status = "awaiting_approval",
             spent' = [spent EXCEPT ![Call(p)] = @ + 1],
             ckpt' = [ckpt EXCEPT !.status = "running", !.authorized = Call(p),
                                  !.rev = ckpt.rev + 1]
      PROVE  LedgerInvariant'
  <2>1. /\ ckpt'.results = ckpt.results /\ ckpt'.status = "running"
        /\ ckpt'.outstanding = ckpt.outstanding /\ ckpt'.authorized = Call(p)
    BY <1>1, <1>3 DEF Snapshot
  <2>2. ckpt.outstanding = Call(p) /\ ckpt.results[Call(p)] = "none"
    BY <1>3, RunConstants DEF Call, SnapshotInvariant, WellFormed
  <2>3. ~Admitted(Call(p)) /\ spent[Call(p)] = 0
    BY <1>1, <1>3, <2>2 DEF Admitted, LedgerInvariant
  <2>4. \A c \in Calls : spent'[c] = IF c = Call(p) THEN 1 ELSE spent[c]
    BY <1>1, <1>3, <2>3
  <2>5. \A c \in Calls : spent'[c] <= 1 /\ (spent'[c] = 1 => Admitted(c)')
    BY <2>1, <2>2, <2>4 DEF LedgerInvariant, Admitted
  <2>6. Bought(ckpt)'
    BY <2>1, <2>4 DEF Bought
  <2>7. ASSUME NEW q \in Procs, pc'[q] # "idle" PROVE Bought(mine[q])'
    BY <2>4, <2>6, <2>7, MineSteps DEF LedgerInvariant, Bought
  <2> QED
    BY <2>5, <2>6, <2>7 DEF LedgerInvariant
<1> QED
  BY <1>2, <1>3, SpentSteps

\* A step of one process leaves the place, the snapshot and the attempt number of
\* every other one alone.
LEMMA OneMoves ==
  ASSUME RunInvariant, [Next]_vars, NEW q \in Procs,
         pc'[q] # pc[q] \/ mine'[q] # mine[q] \/ no'[q] # no[q]
  PROVE  Work(q) \/ Run(q) \/ Load(q) \/ Crash(q)
<1> DEFINE Alone(p) == q # p => pc'[q] = pc[q] /\ mine'[q] = mine[q] /\ no'[q] = no[q]
<1> USE DEF RunInvariant, TypeOK, ProcTypeOK
<1>1. ASSUME NEW p \in Procs, Leave(p) PROVE Alone(p)
  BY <1>1 DEF Leave
<1>2. ASSUME NEW p \in Procs, NEW place \in Places, Goto(p, place),
             UNCHANGED mine \/ \E m : mine' = [mine EXCEPT ![p] = m],
             UNCHANGED no \/ \E n : no' = [no EXCEPT ![p] = n]
      PROVE  Alone(p)
  BY <1>2 DEF Goto
<1>3. ASSUME NEW p \in Procs, Run(p) \/ Load(p) PROVE Alone(p)
  BY <1>3 DEF Run, Load, Goto
<1>4. ASSUME NEW p \in Procs, OnJournalError(p) PROVE Alone(p)
  BY <1>1, <1>2, <1>4 DEF OnJournalError, Places
<1>5. ASSUME NEW p \in Procs, NEW place \in Places,
             (\E s : Save(p, s, place)) \/ (\E s : SaveAndLeave(p, s))
      PROVE  Alone(p)
  BY <1>1, <1>2, <1>5 DEF Save, SaveAndLeave
<1>6. ASSUME NEW p \in Procs, ResumeRunning(p) \/ ResumeApproved(p) PROVE Alone(p)
  BY <1>1, <1>2, <1>6 DEF ResumeRunning, ResumeApproved, Places
<1>7. ASSUME NEW p \in Procs, Drive(p) \/ Append(p) \/ Fail(p) PROVE Alone(p)
  <2>1. \/ \E s : Save(p, s, "drive") \/ Save(p, s, "claim")
        \/ \E s : SaveAndLeave(p, s)
    BY <1>7, Zenon DEF Drive, Append, Fail
  <2> QED
    BY <1>5, <2>1 DEF Places
<1>8. ASSUME NEW p \in Procs,
             \/ ClaimCall(p) \/ StartCall(p) \/ SettleCall(p) \/ ActOnDecision(p)
      PROVE  Alone(p)
  BY <1>2, <1>4, <1>8 DEF ClaimCall, StartCall, SettleCall, ActOnDecision, Places
<1>9. ASSUME NEW p \in Procs, CountAttempts(p) \/ BeginAttempt(p) PROVE Alone(p)
  BY <1>2, <1>4, <1>9 DEF CountAttempts, BeginAttempt, Places
<1>10. ASSUME NEW p \in Procs,
             \/ Dispatch(p) \/ ToolReturns(p) \/ FinishAttemptOf(p) \/ LoadRow(p)
             \/ RecordRecoveryDecision(p)
       PROVE  Alone(p)
  BY <1>2, <1>10 DEF Dispatch, ToolReturns, FinishAttemptOf, LoadRow, RecordRecoveryDecision,
     Places
<1>11. ASSUME NEW p \in Procs, Crash(p) PROVE Alone(p)
  BY <1>1, <1>11 DEF Crash
<1>12. ASSUME UNCHANGED vars \/ \E c \in Calls : IssueGrant(c) \/ ExpireGrant(c)
       PROVE  FALSE
  BY <1>12 DEF vars, IssueGrant, ExpireGrant
<1> QED
  BY <1>3, <1>6, <1>7, <1>8, <1>9, <1>10, <1>11, <1>12 DEF Next, Work

\* The ways into the places of a dispatch.
LEMMA DispatchSteps ==
  ASSUME RunInvariant, [Next]_vars, NEW q \in Procs, pc'[q] \in DispatchPlaces
  PROVE  \/ pc[q] \in DispatchPlaces /\ mine'[q] = mine[q]
         \/ mine'[q].authorized = mine'[q].outstanding
         \/ /\ ActOnDecision(q) /\ mine'[q] = mine[q]
            /\ \E d \in Policy[Call(q)] : StillAllowed(q, d)
<1> DEFINE Goal == \/ pc[q] \in DispatchPlaces /\ mine'[q] = mine[q]
                   \/ mine'[q].authorized = mine'[q].outstanding
                   \/ /\ ActOnDecision(q) /\ mine'[q] = mine[q]
                      /\ \E d \in Policy[Call(q)] : StillAllowed(q, d)
<1> USE DEF RunInvariant, TypeOK, ProcTypeOK, DispatchPlaces
<1>1. ASSUME Leave(q) PROVE FALSE
  BY <1>1 DEF Leave
<1>2. ASSUME OnJournalError(q) PROVE FALSE
  BY <1>1, <1>2 DEF OnJournalError, Goto
<1>3. CASE Run(q) \/ Load(q) \/ Crash(q)
  BY <1>1, <1>3 DEF Run, Load, Crash, Goto
<1>4. CASE ResumeRunning(q)
  BY <1>1, <1>4 DEF ResumeRunning, Goto
<1>5. CASE ResumeApproved(q)
  <2>1. /\ mine'[q] = ckpt'
        /\ ckpt' = [[mine[q] EXCEPT !.status = "running", !.authorized = Call(q)]
                      EXCEPT !.rev = ckpt.rev + 1]
    BY <1>1, <1>5 DEF ResumeApproved, Saved
  <2>2. mine[q] \in Snapshot
    OBVIOUS
  <2>3. mine'[q].authorized = mine'[q].outstanding
    BY <2>1, <2>2 DEF Snapshot, Call
  <2> QED
    BY <2>3
<1>6. CASE Drive(q)
  <2> DEFINE s == [mine[q] EXCEPT !.steps = @ + 1]
  <2>1. \E c \in Calls : Save(q, [s EXCEPT !.outstanding = c, !.authorized = c], "claim")
    <3>1. \/ \E t : SaveAndLeave(q, t)
          \/ \E t : Save(q, t, "drive")
          \/ \E c \in Calls : Save(q, [s EXCEPT !.outstanding = c, !.authorized = c], "claim")
      BY <1>6, Zenon DEF Drive
    <3>2. ~(\E t : SaveAndLeave(q, t)) /\ ~(\E t : Save(q, t, "drive"))
      BY <1>1 DEF SaveAndLeave, Save, Goto
    <3> QED
      BY <3>1, <3>2
  <2>2. PICK c \in Calls :
          /\ mine'[q] = ckpt'
          /\ ckpt' = [[s EXCEPT !.outstanding = c, !.authorized = c] EXCEPT !.rev = ckpt.rev + 1]
    BY <1>1, <2>1 DEF Save, Saved
  <2>3. mine[q] \in Snapshot
    OBVIOUS
  <2>4. mine'[q].authorized = mine'[q].outstanding
    BY <2>2, <2>3 DEF Snapshot
  <2> QED
    BY <2>4
<1>7. CASE Append(q) \/ Fail(q)
  BY <1>1, <1>7 DEF Append, Fail, Save, SaveAndLeave, Goto
<1>8. CASE ActOnDecision(q)
  BY <1>2, <1>8 DEF ActOnDecision, Goto
<1>9. CASE LoadRow(q) \/ RecordRecoveryDecision(q)
  BY <1>9 DEF LoadRow, RecordRecoveryDecision, Goto
<1>10. CASE \/ ClaimCall(q) \/ StartCall(q) \/ CountAttempts(q) \/ BeginAttempt(q)
            \/ Dispatch(q) \/ ToolReturns(q) \/ FinishAttemptOf(q)
  BY <1>2, <1>10 DEF ClaimCall, StartCall, CountAttempts, BeginAttempt, Dispatch, ToolReturns,
     FinishAttemptOf
<1>11. CASE SettleCall(q)
  BY <1>2, <1>11 DEF SettleCall, Goto
<1>12. CASE pc'[q] = pc[q] /\ mine'[q] = mine[q]
  BY <1>12
<1> QED
  BY <1>3, <1>4, <1>5, <1>6, <1>7, <1>8, <1>9, <1>10, <1>11, <1>12, OneMoves DEF Work

\* Only the dispatcher enters the body of a tool.
LEMMA ExecutedSteps ==
  ASSUME [Next]_vars
  PROVE  \/ UNCHANGED executed
         \/ \E p \in Procs : /\ pc[p] = "dispatch"
                             /\ Dispatch(p)
                             /\ executed' = [executed EXCEPT ![Call(p)] = @ + 1]
<1>1. ASSUME NEW p \in Procs, Work(p), ~Dispatch(p) PROVE UNCHANGED executed
  BY <1>1 DEF Work, ResumeRunning, ResumeApproved, Drive, Append, Fail, ClaimCall, StartCall,
     CountAttempts, BeginAttempt, ToolReturns, FinishAttemptOf, SettleCall, LoadRow,
     RecordRecoveryDecision, ActOnDecision
<1>2. ASSUME NEW p \in Procs, Run(p) \/ Load(p) \/ Crash(p) PROVE UNCHANGED executed
  BY <1>2 DEF Run, Load, Crash
<1>3. ASSUME UNCHANGED vars \/ \E c \in Calls : IssueGrant(c) \/ ExpireGrant(c)
      PROVE  UNCHANGED executed
  BY <1>3 DEF vars, IssueGrant, ExpireGrant
<1>4. ASSUME NEW p \in Procs, Dispatch(p)
      PROVE  \/ UNCHANGED executed
             \/ pc[p] = "dispatch" /\ executed' = [executed EXCEPT ![Call(p)] = @ + 1]
  BY <1>4 DEF Dispatch
<1> QED
  BY <1>1, <1>2, <1>3, <1>4 DEF Next

LEMMA ApprovalStep ==
  ASSUME ApprovalInvariant, [Next]_vars
  PROVE  ApprovalInvariant'
<1> USE DEF ApprovalInvariant
<1>1. RunInvariant' /\ LedgerInvariant'
  BY TypeStep, SnapshotStep, LedgerStep DEF RunInvariant
<1>2. ClearedToDispatch'
  <2>1. ASSUME NEW q \in Procs, pc'[q] \in DispatchPlaces
        PROVE  "allow" \in Policy[Call(q)'] \/ mine'[q].authorized = Call(q)'
    BY <2>1, DispatchSteps DEF ClearedToDispatch, Call, StillAllowed
  <2> QED
    BY <2>1 DEF ClearedToDispatch
<1>3. \A c \in Calls : spent[c] = 1 => spent'[c] = 1
  <2>1. spent \in [Calls -> Nat] /\ spent' \in [Calls -> Nat]
    BY <1>1 DEF RunInvariant, TypeOK, RunTypeOK
  <2> QED
    <3>1. \A c \in Calls : spent'[c] <= 1
      BY <1>1 DEF LedgerInvariant
    <3>2. ASSUME NEW d \in Calls, spent' = [spent EXCEPT ![d] = @ + 1]
          PROVE  \A c \in Calls : spent[c] = 1 => spent'[c] = 1
      BY <2>1, <3>1, <3>2
    <3> QED
      BY <3>2, SpentSteps
<1>4. ExecutedWasApproved'
  <2>1. CASE UNCHANGED executed
    BY <1>3, <2>1 DEF ExecutedWasApproved
  <2>2. ASSUME NEW p \in Procs, pc[p] = "dispatch",
               executed' = [executed EXCEPT ![Call(p)] = @ + 1]
        PROVE  ExecutedWasApproved'
    <3>1. NeedsApproval(Call(p)) /\ Call(p) \in Calls => spent[Call(p)] = 1
      BY <2>2 DEF ClearedToDispatch, DispatchPlaces, LedgerInvariant, Bought, NeedsApproval
    <3> QED
      BY <1>3, <2>2, <3>1 DEF ExecutedWasApproved, RunInvariant, TypeOK, RunTypeOK
  <2> QED
    BY <2>1, <2>2, ExecutedSteps
<1> QED
  BY <1>1, <1>2, <1>4

LEMMA ApprovalInvariantHolds == Spec => []ApprovalInvariant
<1>1. Init => ApprovalInvariant
  <2> SUFFICES ASSUME Init PROVE ApprovalInvariant
    OBVIOUS
  <2>1. RunInvariant
    BY InitTypes
  <2>2. LedgerInvariant
    BY RunConstants DEF Init, LedgerInvariant, Bought, NoSnapshot
  <2>3. ClearedToDispatch /\ ExecutedWasApproved
    BY DEF Init, ClearedToDispatch, DispatchPlaces, ExecutedWasApproved
  <2> QED
    BY <2>1, <2>2, <2>3 DEF ApprovalInvariant
<1> QED
  BY <1>1, ApprovalStep, PTL DEF Spec

\* A call that the policy never allows outright is executed only after exactly one
\* grant for exactly this call was consumed, and no call consumes a second one,
\* however many processes resume the run and however many grants there are.
THEOREM ApprovalGates == Spec => []ApprovalGatesExecution
<1>1. ApprovalInvariant => ApprovalGatesExecution
  BY DEF ApprovalInvariant, LedgerInvariant, ExecutedWasApproved, NeedsApproval,
     ApprovalGatesExecution
<1> QED
  BY <1>1, ApprovalInvariantHolds, PTL

-----------------------------------------------------------------------------
(* Effects, when no process works beside another.                          *)

AtMostOneWorks ==
  \A p, q \in Procs : pc[p] # "idle" /\ pc[q] # "idle" => p = q

\* The row of a call follows its effects: it says "started" before the first one,
\* and holds a result only once it is settled.
RowFollowsEffects(c) ==
  /\ executed[c] > 0 => rows[c].state \notin {"none", "claimed"}
  /\ EffectClass[c] = "non_idempotent" => executed[c] <= 1
  /\ rows[c].state \in {"none", "claimed", "started"} => rows[c].result = "none"

\* A process inside a call finds the row started, as it left it; one that has yet
\* to enter a non-idempotent tool is the first to do so.
Underway(p) ==
  /\ pc[p] \in {"count", "attempt", "dispatch", "running", "finish", "settle"} =>
       rows[Call(p)].state = "started"
  /\ pc[p] \in {"count", "attempt", "dispatch"} /\ EffectClass[Call(p)] = "non_idempotent" =>
       executed[Call(p)] = 0
  /\ pc[p] = "decision" => rec[p] = rows[Call(p)]

OnceInvariant ==
  /\ RunInvariant
  /\ AtMostOneWorks
  /\ \A c \in Calls : RowFollowsEffects(c)
  /\ \A p \in Procs : Underway(p)

LEMMA AloneStep ==
  ASSUME Overlap = FALSE, RunInvariant, AtMostOneWorks, [Next]_vars
  PROVE  AtMostOneWorks'
<1> USE DEF AtMostOneWorks
<1>1. ASSUME NEW p \in Procs, NEW q \in Procs, pc'[p] # "idle", pc'[q] # "idle", p # q
      PROVE  FALSE
  <2>1. ASSUME NEW r \in Procs, pc[r] = "idle", pc'[r] # "idle" PROVE Free(r)
    <3>1. Run(r) \/ Load(r) \/ Work(r) \/ Crash(r)
      BY <2>1, OneMoves
    <3> QED
      BY <2>1, <3>1 DEF Run, Load, Crash, Work, ResumeRunning, ResumeApproved, Drive, Append,
         Fail, ClaimCall, StartCall, CountAttempts, BeginAttempt, Dispatch, ToolReturns,
         FinishAttemptOf, SettleCall, LoadRow, RecordRecoveryDecision, ActOnDecision
  <2>2. ASSUME NEW r \in Procs, NEW t \in Procs, r # t, Free(r), pc'[r] # "idle",
               pc'[t] # "idle"
        PROVE  FALSE
    <3>1. pc[r] = "idle" /\ pc[t] = "idle"
      BY <2>2 DEF Free
    <3>2. Run(r) \/ Load(r) \/ Work(r) \/ Crash(r)
      BY <2>2, <3>1, OneMoves
    <3>3. Run(r) \/ Load(r)
      BY <3>1, <3>2 DEF Crash, Work, ResumeRunning, ResumeApproved, Drive, Append,
         Fail, ClaimCall, StartCall, CountAttempts, BeginAttempt, Dispatch, ToolReturns,
         FinishAttemptOf, SettleCall, LoadRow, RecordRecoveryDecision, ActOnDecision
    <3>4. pc'[t] = pc[t]
      BY <2>2, <3>3 DEF Run, Load, Goto, RunInvariant, TypeOK, ProcTypeOK
    <3> QED
      BY <2>2, <3>1, <3>4
  <2> QED
    BY <1>1, <2>1, <2>2
<1> QED
  BY <1>1

\* The steps of the working process keep the rows behind its effects.
LEMMA WorkKeepsRows ==
  ASSUME OnceInvariant, [Next]_vars, NEW p \in Procs, Work(p), RunInvariant'
  PROVE  (\A c \in Calls : RowFollowsEffects(c)') /\ Underway(p)'
<1> USE DEF OnceInvariant
<1>1. /\ \A q \in Procs : pc'[q] \in Places /\ mine'[q] \in Snapshot
      /\ rows \in [Calls -> Row] /\ rows' \in [Calls -> Row]
      /\ executed \in [Calls -> Nat] /\ pc \in [Procs -> Places]
      /\ rec \in [Procs -> Row]
  BY DEF RunInvariant, TypeOK, RunTypeOK, ProcTypeOK, JournalTypeOK
<1>2. pc[p] \in CallPlaces => Call(p) \in Calls
  BY DEF RunInvariant, TypeOK, ProcTypeOK, Snapshot, SnapshotInvariant, Placed, Call
<1>3. ASSUME UNCHANGED <<rows, executed>> PROVE \A c \in Calls : RowFollowsEffects(c)'
  BY <1>3 DEF RowFollowsEffects
<1>4. ASSUME pc'[p] \in {"idle", "resume", "approve", "drive", "claim", "start", "append",
                         "recover", "act", "fail"}
      PROVE  Underway(p)'
  BY <1>4 DEF Underway
<1>5. ASSUME Leave(p) \/ OnJournalError(p) PROVE Underway(p)'
  BY <1>1, <1>4, <1>5 DEF Leave, OnJournalError, Goto
<1>6. CASE ResumeRunning(p) \/ ResumeApproved(p) \/ Append(p) \/ Fail(p)
  <2>1. UNCHANGED <<rows, executed>>
    BY <1>6 DEF ResumeRunning, ResumeApproved, Append, Fail
  <2>2. Leave(p) \/ Goto(p, "drive") \/ Goto(p, "recover") \/ Goto(p, "claim")
    BY <1>6 DEF ResumeRunning, ResumeApproved, Append, Fail, Save, SaveAndLeave
  <2> QED
    BY <1>1, <1>3, <1>4, <1>5, <2>1, <2>2 DEF Goto
<1>7. CASE Drive(p)
  <2>1. UNCHANGED <<rows, executed>>
    BY <1>7 DEF Drive
  <2>2. \/ \E s : SaveAndLeave(p, s)
        \/ \E s : Save(p, s, "drive") \/ Save(p, s, "claim")
    BY <1>7, Zenon DEF Drive
  <2>3. Leave(p) \/ Goto(p, "drive") \/ Goto(p, "claim")
    BY <2>2 DEF Save, SaveAndLeave
  <2> QED
    BY <1>1, <1>3, <1>4, <1>5, <2>1, <2>3 DEF Goto
<1>8. CASE ClaimCall(p)
  <2>1. CASE Claimable(Call(p)) /\ ClaimRow(Call(p), mine[p].rev) /\ Goto(p, "start")
             /\ UNCHANGED executed
    BY <1>1, <1>2, <1>4, <1>8, <2>1
       DEF ClaimCall, Claimable, ClaimRow, Goto, RowFollowsEffects, CallPlaces, Places
  <2> QED
    BY <1>3, <1>5, <1>8, <2>1 DEF ClaimCall
<1>9. CASE StartCall(p)
  <2>1. CASE Startable(Call(p)) /\ MarkStarted(Call(p), mine[p].rev) /\ Goto(p, "count")
             /\ UNCHANGED <<mine, executed>>
    <3>1. executed[Call(p)] = 0 /\ Call(p) \in Calls
      BY <1>1, <1>2, <1>9, <2>1
         DEF StartCall, Startable, RowFollowsEffects, CallPlaces, Places
    <3>2. rows' = [rows EXCEPT ![Call(p)] = StartedRow(rows[Call(p)], mine[p].rev)]
      BY <2>1 DEF MarkStarted
    <3>3. /\ rows'[Call(p)].state = "started"
          /\ rows'[Call(p)].result = rows[Call(p)].result
          /\ \A c \in Calls \ {Call(p)} : rows'[c] = rows[c]
      BY <1>1, <3>1, <3>2 DEF StartedRow, Row
    <3>4. pc'[p] = "count" /\ Call(p)' = Call(p)
      BY <1>1, <2>1 DEF Goto, Call
    <3> QED
      BY <2>1, <3>1, <3>3, <3>4 DEF RowFollowsEffects, Underway, Startable
  <2> QED
    BY <1>3, <1>5, <1>9, <2>1 DEF StartCall
<1>10. CASE CountAttempts(p) \/ BeginAttempt(p)
  <2>1. UNCHANGED <<rows, executed>>
    BY <1>10 DEF CountAttempts, BeginAttempt
  <2>2. \/ OnJournalError(p)
        \/ /\ pc[p] \in {"count", "attempt"} /\ pc'[p] \in {"attempt", "dispatch"}
           /\ UNCHANGED mine
    BY <1>1, <1>10 DEF CountAttempts, BeginAttempt, Goto
  <2> QED
    BY <1>3, <1>5, <2>1, <2>2 DEF Underway, Call
<1>11. CASE Dispatch(p)
  <2>1. pc[p] = "dispatch" /\ pc'[p] \in {"finish", "running"} /\ UNCHANGED <<rows, mine>>
    BY <1>1, <1>11 DEF Dispatch, Goto
  <2>2. UNCHANGED executed \/ executed' = [executed EXCEPT ![Call(p)] = @ + 1]
    BY <1>11 DEF Dispatch
  <2>3. Call(p) \in Calls /\ rows[Call(p)].state = "started"
    BY <1>2, <2>1 DEF Underway, CallPlaces, Places
  <2>4. EffectClass[Call(p)] = "non_idempotent" => executed[Call(p)] = 0
    BY <2>1 DEF Underway
  <2> QED
    BY <1>1, <2>1, <2>2, <2>3, <2>4 DEF RowFollowsEffects, Underway, Call
<1>12. CASE ToolReturns(p)
  BY <1>1, <1>3, <1>12 DEF ToolReturns, Goto, Underway, Call
<1>13. CASE FinishAttemptOf(p)
  <2>1. /\ pc[p] = "finish" /\ UNCHANGED <<rows, executed, mine>>
        /\ \/ pc'[p] = "settle"
           \/ pc'[p] = "attempt" /\ EffectClass[Call(p)] # "non_idempotent"
    BY <1>1, <1>13 DEF FinishAttemptOf, Retries, Goto
  <2> QED
    BY <1>3, <2>1 DEF Underway, Call
<1>14. CASE SettleCall(p)
  <2>1. CASE Settleable(Call(p)) /\ Settle(Call(p), output[p]) /\ Goto(p, "append")
             /\ UNCHANGED executed
    <3> DEFINE S == SettledState(Call(p), output[p])
               R == ResultOf(output[p])
    <3>1. S \in {"completed", "failed", "indeterminate"}
      BY DEF SettledState
    <3>2. rows' = [rows EXCEPT ![Call(p)].state = S, ![Call(p)].result = R]
      BY <2>1 DEF Settle
    <3> HIDE DEF S, R
    <3>3. Call(p) \in Calls
      BY <1>2, <1>14 DEF SettleCall, CallPlaces, Places
    <3>4. rows'[Call(p)].state = S /\ \A c \in Calls \ {Call(p)} : rows'[c] = rows[c]
      BY <1>1, <3>2, <3>3 DEF Row
    <3>5. \A c \in Calls : RowFollowsEffects(c)'
      BY <2>1, <3>1, <3>4 DEF RowFollowsEffects
    <3> QED
      BY <1>1, <1>4, <2>1, <3>5 DEF Goto
  <2> QED
    BY <1>3, <1>5, <1>14, <2>1 DEF SettleCall
<1>15. CASE LoadRow(p)
  <2>1. /\ rec'[p] = rows[Call(p)] /\ UNCHANGED <<rows, executed, mine>>
        /\ pc'[p] \in {"act", "decision"}
    BY <1>1, <1>15 DEF LoadRow, Goto
  <2> QED
    BY <1>3, <2>1 DEF Underway, Call
<1>16. CASE RecordRecoveryDecision(p)
  <2>1. rec[p] = rows[Call(p)] /\ Call(p) \in Calls
    BY <1>2, <1>16 DEF RecordRecoveryDecision, Underway, CallPlaces, Places
  <2>2. /\ rows'[Call(p)].state \in {"indeterminate", rows[Call(p)].state}
        /\ rows'[Call(p)].result = rows[Call(p)].result
        /\ \A c \in Calls \ {Call(p)} : rows'[c] = rows[c]
    <3> DEFINE S == IF DecideRecovery(rec[p], Call(p)) = "refuse_replay"
                    THEN "indeterminate" ELSE rec[p].state
    <3>1. rows' = [rows EXCEPT ![Call(p)].state = S]
      BY <1>16 DEF RecordRecoveryDecision, RecordDecision
    <3>2. S \in {"indeterminate", rows[Call(p)].state}
      BY <2>1
    <3> HIDE DEF S
    <3> QED
      BY <1>1, <2>1, <3>1, <3>2 DEF Row
  <2>3. \A c \in Calls : RowFollowsEffects(c)'
    BY <1>16, <2>2 DEF RecordRecoveryDecision, RowFollowsEffects
  <2> QED
    BY <1>1, <1>4, <1>16, <2>3 DEF RecordRecoveryDecision, Goto
<1>17. CASE ActOnDecision(p)
  <2>1. CASE UNCHANGED rows /\ (Goto(p, "append") \/ Goto(p, "claim"))
    BY <1>1, <1>3, <1>4, <1>17, <2>1 DEF ActOnDecision, Goto
  <2>2. CASE UNCHANGED rows /\ OnJournalError(p)
    BY <1>3, <1>5, <1>17, <2>2 DEF ActOnDecision
  <2>3. CASE /\ DecideRecovery(rec[p], Call(p)) \in {"execute", "replay"}
             /\ Restartable(Call(p), rec[p])
             /\ Restart(Call(p), mine[p].rev)
             /\ Goto(p, "count")
             /\ UNCHANGED mine
    <3>1. Call(p) \in Calls /\ UNCHANGED executed
      BY <1>2, <1>17 DEF ActOnDecision, CallPlaces, Places
    <3>2. \/ rows[Call(p)].state = "claimed"
          \/ rows[Call(p)].state = "started" /\ EffectClass[Call(p)] # "non_idempotent"
      BY <2>3 DEF Restartable, DecideRecovery
    <3>3. rows' = [rows EXCEPT ![Call(p)] = StartedRow(rows[Call(p)], mine[p].rev)]
      BY <2>3 DEF Restart
    <3>4. /\ rows'[Call(p)].state = "started"
          /\ rows'[Call(p)].result = rows[Call(p)].result
          /\ \A c \in Calls \ {Call(p)} : rows'[c] = rows[c]
      BY <1>1, <3>1, <3>3 DEF StartedRow, Row
    <3>5. pc'[p] = "count" /\ Call(p)' = Call(p)
      BY <1>1, <2>3 DEF Goto, Call
    <3>6. EffectClass[Call(p)] = "non_idempotent" => executed[Call(p)] = 0
      BY <1>1, <3>1, <3>2 DEF RowFollowsEffects
    <3> QED
      BY <3>1, <3>2, <3>4, <3>5, <3>6 DEF RowFollowsEffects, Underway
  <2> QED
    BY <1>17, <2>1, <2>2, <2>3 DEF ActOnDecision
<1> QED
  BY <1>6, <1>7, <1>8, <1>9, <1>10, <1>11, <1>12, <1>13, <1>14, <1>15, <1>16, <1>17 DEF Work

LEMMA OnceStep ==
  ASSUME Overlap = FALSE, OnceInvariant, [Next]_vars
  PROVE  OnceInvariant'
<1> USE DEF OnceInvariant
<1>1. RunInvariant' /\ AtMostOneWorks'
  BY TypeStep, SnapshotStep, AloneStep DEF RunInvariant
<1>2. CASE \E p \in Procs : Work(p)
  <2>1. PICK p \in Procs : Work(p)
    BY <1>2
  <2>2. (\A c \in Calls : RowFollowsEffects(c)') /\ Underway(p)'
    BY <1>1, <2>1, WorkKeepsRows
  <2>3. pc[p] # "idle"
    BY <2>1 DEF Work, ResumeRunning, ResumeApproved, Drive, Append, Fail, ClaimCall, StartCall,
       CountAttempts, BeginAttempt, Dispatch, ToolReturns, FinishAttemptOf, SettleCall, LoadRow,
       RecordRecoveryDecision, ActOnDecision
  <2>4. ASSUME NEW q \in Procs \ {p} PROVE Underway(q)'
    <3>1. pc[q] = "idle"
      BY <2>3 DEF AtMostOneWorks
    <3>2. pc'[q] \notin {"count", "attempt", "dispatch", "running", "finish", "settle", "decision"}
      <4>1. CASE pc'[q] = pc[q]
        BY <3>1, <4>1
      <4>2. CASE pc'[q] # pc[q]
        <5>1. Work(q) \/ Run(q) \/ Load(q) \/ Crash(q)
          BY <4>2, OneMoves
        <5>2. Run(q) \/ Load(q)
          BY <3>1, <5>1 DEF Crash, Work, ResumeRunning, ResumeApproved, Drive, Append, Fail,
             ClaimCall, StartCall, CountAttempts, BeginAttempt, Dispatch, ToolReturns,
             FinishAttemptOf, SettleCall, LoadRow, RecordRecoveryDecision, ActOnDecision
        <5> QED
          BY <5>2 DEF Run, Load, Goto, RunInvariant, TypeOK, ProcTypeOK
      <4> QED
        BY <4>1, <4>2
    <3> QED
      BY <3>2 DEF Underway
  <2> QED
    BY <1>1, <2>2, <2>4
<1>3. ASSUME UNCHANGED <<rows, executed>>,
             \A q \in Procs : \/ pc'[q] \in {"idle", "drive", "resume", "approve"}
                              \/ pc'[q] = pc[q] /\ mine'[q] = mine[q] /\ rec'[q] = rec[q]
      PROVE  OnceInvariant'
  BY <1>1, <1>3 DEF RowFollowsEffects, Underway, Call
<1>4. ASSUME NEW p \in Procs, Run(p) \/ Load(p) \/ Crash(p) PROVE OnceInvariant'
  <2>1. UNCHANGED <<rows, executed>>
    BY <1>4 DEF Run, Load, Crash
  <2>2. pc'[p] \in {"idle", "drive", "resume", "approve"}
    BY <1>4 DEF Run, Load, Crash, Leave, Goto, RunInvariant, TypeOK, ProcTypeOK
  <2>3. \A q \in Procs \ {p} : pc'[q] = pc[q] /\ mine'[q] = mine[q] /\ rec'[q] = rec[q]
    BY <1>4 DEF Run, Load, Crash, Leave, Goto, RunInvariant, TypeOK, ProcTypeOK
  <2> QED
    BY <1>3, <2>1, <2>2, <2>3
<1>5. CASE UNCHANGED vars \/ \E c \in Calls : IssueGrant(c) \/ ExpireGrant(c)
  BY <1>3, <1>5 DEF vars, IssueGrant, ExpireGrant
<1> QED
  BY <1>2, <1>4, <1>5 DEF Next

LEMMA InitOnce == Init => OnceInvariant
BY InitTypes DEF Init, JournalInit, NoRow, OnceInvariant, AtMostOneWorks, RowFollowsEffects,
   Underway

LEMMA OnceInvariantHolds ==
  ASSUME Overlap = FALSE
  PROVE  Spec => []OnceInvariant
<1>1. Init => OnceInvariant
  BY InitOnce
<1>2. OnceInvariant /\ [Next]_vars => OnceInvariant'
  BY OnceStep
<1> QED
  BY <1>1, <1>2, PTL DEF Spec

\* With one process at a time, the body of a non-idempotent tool is entered at most
\* once per logical call, through any number of crashes, retries and recoveries.
THEOREM AtMostOnce ==
  ASSUME Overlap = FALSE
  PROVE  Spec => []NonIdempotentOnce
<1>1. OnceInvariant => NonIdempotentOnce
  BY DEF OnceInvariant, RowFollowsEffects, NonIdempotentOnce
<1> QED
  BY <1>1, OnceInvariantHolds, PTL

\* With one process at a time, a call that completed is never executed again.
THEOREM NoRerun ==
  ASSUME Overlap = FALSE
  PROVE  Spec => CompletedIsNotRerun
<1> DEFINE A == \A c \in Calls : rows[c].result = "ok" => executed'[c] = executed[c]
<1>1. ASSUME OnceInvariant, [Next]_vars PROVE A
  <2>1. CASE UNCHANGED executed
    BY <2>1
  <2>2. ASSUME NEW p \in Procs, pc[p] = "dispatch",
               executed' = [executed EXCEPT ![Call(p)] = @ + 1]
        PROVE  A
    <3>1. Call(p) \in Calls => rows[Call(p)].result = "none"
      BY <1>1, <2>2 DEF OnceInvariant, Underway, RowFollowsEffects
    <3> QED
      BY <1>1, <2>2, <3>1 DEF OnceInvariant, RunInvariant, TypeOK, RunTypeOK
  <2> QED
    BY <1>1, <2>1, <2>2, ExecutedSteps
<1>2. OnceInvariant /\ [Next]_vars => [A]_vars
  BY <1>1
<1> QED
  BY <1>2, OnceInvariantHolds, PTL DEF Spec, CompletedIsNotRerun

-----------------------------------------------------------------------------
(* The transcript and the journal, when no process works beside another.   *)

\* The row of an answered call is settled as the answer says, or was never claimed
\* when the loop refused the call itself; a call that is neither answered nor
\* outstanding has no row; and only success completes a row.
AnswerFits(c) ==
  /\ ckpt.results[c] = "ok" => rows[c].state = "completed"
  /\ ckpt.results[c] = "error" => rows[c].state \in {"none", "failed", "indeterminate"}
  /\ ckpt.results[c] = "none" /\ ckpt.outstanding # c => rows[c].state = "none"
  /\ rows[c].state = "completed" => rows[c].result = "ok"

\* A process works from the checkpoint itself, and the result it is about to append,
\* be it new or reused, is the one its row was settled with.
Reports(p) ==
  /\ pc[p] # "idle" => mine[p] = ckpt
  /\ pc[p] = "act" /\ rec[p].state = "completed" =>
       rec[p].result = "ok" /\ rows[Call(p)].state = "completed"
  /\ pc[p] = "append" =>
       IF output[p] = "ok" THEN rows[Call(p)].state = "completed"
       ELSE rows[Call(p)].state \in {"failed", "indeterminate"}

NothingOpen(s) == s.status = "succeeded" => s.outstanding = NoCall

TranscriptInvariant ==
  /\ OnceInvariant
  /\ \A c \in Calls : AnswerFits(c)
  /\ \A p \in Procs : Reports(p)
  /\ NothingOpen(ckpt)

\* Writing the row of the outstanding call, while the checkpoint stays, disturbs the
\* answer of no other call, and of this one neither: it has none yet.
LEMMA RowSteps ==
  ASSUME TranscriptInvariant, NEW p \in Procs, UNCHANGED ckpt, pc[p] \in CallPlaces,
         NEW r \in Row, rows' = [rows EXCEPT ![Call(p)] = r],
         r.state = "completed" => r.result = "ok"
  PROVE  (\A c \in Calls : AnswerFits(c)') /\ rows'[Call(p)] = r
<1> USE DEF TranscriptInvariant, OnceInvariant, RunInvariant, TypeOK
<1>1. Call(p) = ckpt.outstanding /\ Call(p) \in Calls /\ ckpt.results[Call(p)] = "none"
  BY RunConstants DEF Reports, CallPlaces, Call, SnapshotInvariant, Placed, WellFormed, RunTypeOK,
     Snapshot
<1>2. rows'[Call(p)] = r /\ \A c \in Calls \ {Call(p)} : rows'[c] = rows[c]
  BY <1>1 DEF JournalTypeOK
<1>3. ASSUME NEW c \in Calls PROVE AnswerFits(c)'
  <2>1. CASE c = Call(p)
    BY <1>1, <1>2, <2>1 DEF AnswerFits
  <2>2. CASE c # Call(p)
    BY <1>2, <2>2 DEF AnswerFits
  <2> QED
    BY <2>1, <2>2
<1> QED
  BY <1>2, <1>3

\* What the loop makes of a model answer.
LEMMA DriveKeepsAnswers ==
  ASSUME TranscriptInvariant, NEW p \in Procs, Drive(p)
  PROVE  (\A c \in Calls : AnswerFits(c)') /\ NothingOpen(ckpt)' /\ Reports(p)'
<1>0. UNCHANGED rows
  BY DEF Drive
<1> USE DEF TranscriptInvariant, OnceInvariant, RunInvariant, TypeOK
<1> DEFINE m == mine[p]
           s == [m EXCEPT !.steps = @ + 1]
           Goal == (\A c \in Calls : AnswerFits(c)') /\ NothingOpen(ckpt)'
<1>1. /\ m = ckpt /\ m.outstanding = NoCall /\ m \in Snapshot /\ UNCHANGED rows
      /\ m.status = "running"
  <2>1. pc[p] = "drive"
    BY Zenon DEF Drive
  <2> QED
    BY <1>0, <2>1 DEF Reports, SnapshotInvariant, Placed, Call, ProcTypeOK
<1>2. s \in Snapshot /\ s.results = m.results /\ s.outstanding = NoCall /\ s.status = m.status
  BY <1>1, SnapshotUpdates DEF Snapshot
<1> HIDE DEF m, s
<1>3. ASSUME NEW t \in {m, s}, NEW end \in Statuses, Saved(p, [t EXCEPT !.status = end])
      PROVE  Goal
  <2>1. ckpt'.results = ckpt.results /\ ckpt'.outstanding = NoCall
    BY <1>1, <1>2, <1>3 DEF Saved, Snapshot
  <2> QED
    BY <1>1, <2>1 DEF AnswerFits, NothingOpen
<1>4. ASSUME Saved(p, s) PROVE Goal
  <2>1. ckpt'.results = ckpt.results /\ ckpt'.outstanding = NoCall
    BY <1>1, <1>2, <1>4 DEF Saved, Snapshot
  <2> QED
    BY <1>1, <2>1 DEF AnswerFits, NothingOpen
<1>5. ASSUME NEW c \in Calls \ Requested(p), Saved(p, [s EXCEPT !.results[c] = "error"])
      PROVE  Goal
  <2>1. ckpt.results[c] = "none" /\ ckpt.outstanding # c
    BY <1>1, RunConstants DEF Requested, m
  <2>2. /\ ckpt'.outstanding = NoCall
        /\ ckpt'.results = [ckpt.results EXCEPT ![c] = "error"]
    BY <1>1, <1>2, <1>5 DEF Saved, Snapshot
  <2>3. \A d \in Calls : ckpt'.results[d] = IF d = c THEN "error" ELSE ckpt.results[d]
    BY <1>1, <2>2 DEF Snapshot
  <2> QED
    BY <1>1, <2>1, <2>2, <2>3 DEF AnswerFits, NothingOpen
<1>6. ASSUME NEW c \in Calls,
             \/ Saved(p, [s EXCEPT !.status = "awaiting_approval", !.outstanding = c])
             \/ Saved(p, [s EXCEPT !.outstanding = c, !.authorized = c])
      PROVE  Goal
  <2>1. /\ ckpt'.results = ckpt.results /\ ckpt'.outstanding = c
        /\ ckpt'.status \in {"running", "awaiting_approval"}
    BY <1>1, <1>2, <1>6 DEF Saved, Snapshot
  <2> QED
    BY <1>1, <2>1, RunConstants DEF AnswerFits, NothingOpen
<1>7. ASSUME UNCHANGED ckpt PROVE Goal
  BY <1>1, <1>7 DEF AnswerFits, NothingOpen
<1>8. \/ UNCHANGED ckpt
      \/ \E t \in {m, s}, end \in Statuses : Saved(p, [t EXCEPT !.status = end])
      \/ Saved(p, s)
      \/ \E c \in Calls \ Requested(p) :
           \/ Saved(p, [s EXCEPT !.results[c] = "error"])
           \/ Saved(p, [s EXCEPT !.status = "awaiting_approval", !.outstanding = c])
           \/ Saved(p, [s EXCEPT !.outstanding = c, !.authorized = c])
  BY Zenon DEF Drive, Finished, Statuses, Save, SaveAndLeave, m, s
<1>9. Goal
  BY <1>3, <1>4, <1>5, <1>6, <1>7, <1>8
<1>10. Reports(p)'
  <2>1. \/ Leave(p)
        \/ mine' = [mine EXCEPT ![p] = ckpt'] /\ (Goto(p, "drive") \/ Goto(p, "claim"))
    <3>1. \/ \E t : SaveAndLeave(p, t)
          \/ \E t : Save(p, t, "drive") \/ Save(p, t, "claim")
      BY Zenon DEF Drive
    <3> QED
      BY <3>1 DEF Save, SaveAndLeave
  <2> QED
    BY <2>1 DEF Leave, Goto, Reports, ProcTypeOK
<1> QED
  BY <1>9, <1>10
\* The steps of the working process.
LEMMA WorkKeepsAnswers ==
  ASSUME TranscriptInvariant, [Next]_vars, NEW p \in Procs, Work(p)
  PROVE  (\A c \in Calls : AnswerFits(c)') /\ NothingOpen(ckpt)' /\ Reports(p)'
<1> USE DEF TranscriptInvariant, OnceInvariant
<1> DEFINE Fits == (\A c \in Calls : AnswerFits(c)') /\ NothingOpen(ckpt)'
<1>1. /\ rows \in [Calls -> Row] /\ pc \in [Procs -> Places]
      /\ mine \in [Procs -> Snapshot] /\ rec \in [Procs -> Row]
      /\ output \in [Procs -> Outputs \cup {"error"}] /\ ckpt \in Snapshot
  BY DEF RunInvariant, TypeOK, RunTypeOK, ProcTypeOK, JournalTypeOK
<1>2. pc[p] \in CallPlaces => Call(p) \in Calls
  BY DEF RunInvariant, TypeOK, ProcTypeOK, Snapshot, SnapshotInvariant, Placed, Call
<1>3. ASSUME UNCHANGED <<rows, ckpt>> PROVE Fits
  BY <1>3 DEF AnswerFits, NothingOpen
<1>4. ASSUME Leave(p) PROVE Reports(p)'
  BY <1>1, <1>4 DEF Leave, Reports
<1>5. ASSUME NEW place \in Places \ {"act", "append"}, Goto(p, place),
             UNCHANGED <<ckpt, mine>>, pc[p] # "idle"
      PROVE  Reports(p)'
  BY <1>1, <1>5 DEF Goto, Reports
<1>6. ASSUME OnJournalError(p), UNCHANGED <<rows, ckpt>>, pc[p] # "idle"
      PROVE  Fits /\ Reports(p)'
  BY <1>3, <1>4, <1>5, <1>6 DEF OnJournalError, Places
<1>7. ASSUME NEW s \in Snapshot, Saved(p, s), UNCHANGED rows, NothingOpen(s),
             s.results = ckpt.results, s.outstanding = ckpt.outstanding
      PROVE  Fits
  <2>1. /\ ckpt'.results = ckpt.results /\ ckpt'.outstanding = ckpt.outstanding
        /\ ckpt'.status = s.status
    BY <1>7 DEF Saved, Snapshot
  <2> QED
    BY <1>7, <2>1 DEF AnswerFits, NothingOpen
<1>8. ASSUME NEW place \in Places \ {"act", "append"}, Goto(p, place),
             mine' = [mine EXCEPT ![p] = ckpt']
      PROVE  Reports(p)'
  BY <1>1, <1>8 DEF Goto, Reports
<1>9. pc[p] # "idle" => mine[p] = ckpt
  BY DEF Reports
<1>10. CASE ResumeRunning(p)
  <2>1. UNCHANGED rows /\ pc[p] = "resume" /\ mine[p] = ckpt
    BY <1>9, <1>10 DEF ResumeRunning
  <2>2. \/ Leave(p) /\ UNCHANGED ckpt
        \/ /\ Saved(p, ckpt) /\ mine' = [mine EXCEPT ![p] = ckpt']
           /\ Goto(p, "drive") \/ Goto(p, "recover")
    BY <1>10, <2>1 DEF ResumeRunning
  <2> QED
    BY <1>1, <1>3, <1>4, <1>7, <1>8, <2>1, <2>2 DEF Places
<1>11. CASE ResumeApproved(p)
  <2> DEFINE s == [mine[p] EXCEPT !.status = "running", !.authorized = Call(p)]
  <2>1. UNCHANGED rows /\ pc[p] = "approve" /\ mine[p] = ckpt
    BY <1>9, <1>11 DEF ResumeApproved
  <2>2. \/ Leave(p) /\ UNCHANGED ckpt
        \/ Saved(p, s) /\ mine' = [mine EXCEPT ![p] = ckpt'] /\ Goto(p, "claim")
    BY <1>11 DEF ResumeApproved
  <2>3. ASSUME Saved(p, s) PROVE Fits
    <3>1. /\ ckpt'.results = ckpt.results /\ ckpt'.outstanding = ckpt.outstanding
          /\ ckpt'.status = "running"
      BY <1>1, <2>1, <2>3 DEF Saved, Snapshot
    <3> QED
      BY <2>1, <3>1 DEF AnswerFits, NothingOpen
  <2> QED
    BY <1>3, <1>4, <1>8, <2>1, <2>2, <2>3 DEF Places
<1>12. CASE Append(p)
  <2> DEFINE r == ResultOf(output[p])
             s == [mine[p] EXCEPT !.results[Call(p)] = r, !.outstanding = NoCall,
                                  !.authorized = NoCall]
  <2>1. UNCHANGED rows /\ pc[p] = "append" /\ mine[p] = ckpt /\ Call(p) \in Calls
    BY <1>2, <1>9, <1>12 DEF Append, CallPlaces, Places
  <2>2. \/ Leave(p) /\ UNCHANGED ckpt
        \/ Saved(p, s) /\ mine' = [mine EXCEPT ![p] = ckpt'] /\ Goto(p, "drive")
    BY <1>12 DEF Append, Save
  <2>3. /\ r \in {"ok", "error"}
        /\ r = "ok" => rows[Call(p)].state = "completed"
        /\ r = "error" => rows[Call(p)].state \in {"failed", "indeterminate"}
    BY <2>1 DEF ResultOf, Reports
  <2> HIDE DEF r
  <2>4. ASSUME Saved(p, s) PROVE Fits
    <3>1. /\ ckpt'.results = [ckpt.results EXCEPT ![Call(p)] = r]
          /\ ckpt'.outstanding = NoCall
      BY <1>1, <2>1, <2>4 DEF Saved, Snapshot
    <3>2. \A c \in Calls : ckpt'.results[c] = IF c = Call(p) THEN r ELSE ckpt.results[c]
      BY <1>1, <3>1 DEF Snapshot
    <3> QED
      BY <2>1, <2>3, <3>1, <3>2 DEF AnswerFits, NothingOpen, Call
  <2> QED
    BY <1>3, <1>4, <1>8, <2>1, <2>2, <2>4 DEF Places
<1>13. CASE Fail(p)
  <2> DEFINE s == [mine[p] EXCEPT !.status = "failed"]
  <2>1. UNCHANGED rows /\ pc[p] = "fail" /\ mine[p] = ckpt
    BY <1>9, <1>13 DEF Fail
  <2>2. Leave(p) /\ (UNCHANGED ckpt \/ Saved(p, s))
    BY <1>13 DEF Fail, SaveAndLeave
  <2>3. ASSUME Saved(p, s) PROVE Fits
    <3>1. /\ ckpt'.results = ckpt.results /\ ckpt'.outstanding = ckpt.outstanding
          /\ ckpt'.status = "failed"
      BY <1>1, <2>1, <2>3 DEF Saved, Snapshot
    <3> QED
      BY <2>1, <3>1 DEF AnswerFits, NothingOpen
  <2> QED
    BY <1>3, <1>4, <2>1, <2>2, <2>3
<1>14. CASE ClaimCall(p)
  <2>1. CASE ClaimRow(Call(p), mine[p].rev) /\ Goto(p, "start") /\ UNCHANGED <<ckpt, mine>>
    <3> DEFINE r == [state |-> "claimed", rev |-> mine[p].rev, result |-> "none"]
    <3>1. r \in Row /\ rows' = [rows EXCEPT ![Call(p)] = r] /\ pc[p] = "claim"
      BY <1>1, <1>14, <2>1 DEF ClaimCall, ClaimRow, Row, RowStates, Results, Snapshot
    <3> QED
      BY <1>5, <2>1, <3>1, RowSteps DEF CallPlaces, Places, NothingOpen
  <2> QED
    BY <1>6, <1>14, <2>1 DEF ClaimCall
<1>15. CASE StartCall(p)
  <2>1. CASE /\ Startable(Call(p)) /\ MarkStarted(Call(p), mine[p].rev)
             /\ Goto(p, "count") /\ UNCHANGED <<ckpt, mine>>
    <3> DEFINE r == StartedRow(rows[Call(p)], mine[p].rev)
    <3>1. pc[p] = "start" /\ Call(p) \in Calls
      BY <1>2, <1>15 DEF StartCall, CallPlaces, Places
    <3>2. r \in Row /\ r.state = "started"
      <4>1. rows[Call(p)] \in Row /\ mine[p].rev \in Nat
        BY <1>1, <3>1 DEF Snapshot
      <4> QED
        BY <4>1 DEF StartedRow, Row, RowStates
    <3>3. rows' = [rows EXCEPT ![Call(p)] = r]
      BY <2>1 DEF MarkStarted
    <3> HIDE DEF r
    <3> QED
      BY <1>5, <2>1, <3>1, <3>2, <3>3, RowSteps DEF CallPlaces, Places, NothingOpen
  <2> QED
    BY <1>6, <1>15, <2>1 DEF StartCall
<1>16. CASE CountAttempts(p) \/ BeginAttempt(p)
  <2>1. UNCHANGED <<rows, ckpt>> /\ pc[p] # "idle"
    BY <1>16 DEF CountAttempts, BeginAttempt
  <2>2. OnJournalError(p) \/ (UNCHANGED mine /\ (Goto(p, "attempt") \/ Goto(p, "dispatch")))
    BY <1>16 DEF CountAttempts, BeginAttempt
  <2> QED
    BY <1>3, <1>5, <1>6, <2>1, <2>2 DEF Places
<1>17. CASE Dispatch(p) \/ ToolReturns(p) \/ FinishAttemptOf(p)
  <2>1. UNCHANGED <<rows, ckpt, mine>> /\ pc[p] # "idle"
    BY <1>17 DEF Dispatch, ToolReturns, FinishAttemptOf
  <2>2. \E place \in {"finish", "running", "attempt", "settle"} : Goto(p, place)
    BY <1>17 DEF Dispatch, ToolReturns, FinishAttemptOf
  <2> QED
    BY <1>3, <1>5, <2>1, <2>2 DEF Places
<1>18. CASE SettleCall(p)
  <2>1. CASE /\ Settle(Call(p), output[p]) /\ Goto(p, "append")
             /\ UNCHANGED <<ckpt, mine, output>>
    <3> DEFINE S == SettledState(Call(p), output[p])
               r == [rows[Call(p)] EXCEPT !.state = S, !.result = ResultOf(output[p])]
    <3>1. /\ S \in {"completed", "failed", "indeterminate"}
          /\ S = "completed" <=> output[p] = "ok"
      BY DEF SettledState
    <3>2. ResultOf(output[p]) = IF output[p] = "ok" THEN "ok" ELSE "error"
      BY DEF ResultOf
    <3>3. rows' = [rows EXCEPT ![Call(p)] = r] /\ pc[p] = "settle" /\ Call(p) \in Calls
      BY <1>1, <1>2, <1>18, <2>1 DEF SettleCall, Settle, CallPlaces, Places
    <3> HIDE DEF S
    <3>4. r \in Row /\ r.state = S /\ (r.state = "completed" => r.result = "ok")
      BY <1>1, <3>1, <3>2, <3>3 DEF Row, RowStates, Results
    <3> HIDE DEF r
    <3>5. (\A c \in Calls : AnswerFits(c)') /\ rows'[Call(p)] = r
      BY <2>1, <3>3, <3>4, RowSteps DEF CallPlaces, Places
    <3>6. Reports(p)'
      BY <1>1, <1>9, <2>1, <3>1, <3>3, <3>4, <3>5 DEF Reports, Goto, Call
    <3> QED
      BY <2>1, <3>5, <3>6 DEF NothingOpen
  <2> QED
    BY <1>6, <1>18, <2>1 DEF SettleCall
<1>19. CASE LoadRow(p)
  <2>1. /\ rec'[p] = rows[Call(p)] /\ UNCHANGED <<rows, ckpt, mine>> /\ pc[p] = "recover"
        /\ pc'[p] \in {"act", "decision"} /\ Call(p) \in Calls
        /\ pc'[p] = "act" => rec'[p].state = "none"
    BY <1>1, <1>2, <1>19 DEF LoadRow, Goto, CallPlaces, Places
  <2> QED
    BY <1>3, <1>9, <2>1 DEF Reports
<1>20. CASE RecordRecoveryDecision(p)
  <2> DEFINE S == IF DecideRecovery(rec[p], Call(p)) = "refuse_replay"
                  THEN "indeterminate" ELSE rec[p].state
             r == [rows[Call(p)] EXCEPT !.state = S]
  <2>1. /\ pc[p] = "decision" /\ Call(p) \in Calls /\ rec[p] = rows[Call(p)]
        /\ UNCHANGED <<ckpt, mine, rec>> /\ Goto(p, "act")
    BY <1>2, <1>20 DEF RecordRecoveryDecision, Underway, CallPlaces, Places
  <2>2. rows' = [rows EXCEPT ![Call(p)] = r]
    BY <1>1, <1>20, <2>1 DEF RecordRecoveryDecision, RecordDecision
  <2>3. S \in {"indeterminate", rec[p].state} /\ (rec[p].state = "completed" => S = "completed")
    BY DEF DecideRecovery
  <2> HIDE DEF S
  <2>4. /\ r \in Row /\ r.state = S /\ r.result = rec[p].result
        /\ rec[p].state = "completed" => rec[p].result = "ok"
    BY <1>1, <2>1, <2>3 DEF Row, RowStates, AnswerFits
  <2> HIDE DEF r
  <2>5. (\A c \in Calls : AnswerFits(c)') /\ rows'[Call(p)] = r
    BY <2>1, <2>2, <2>3, <2>4, RowSteps DEF CallPlaces, Places
  <2>6. Reports(p)'
    BY <1>1, <1>9, <2>1, <2>3, <2>4, <2>5 DEF Reports, Goto, Call
  <2> QED
    BY <2>1, <2>5, <2>6 DEF NothingOpen
<1>21. CASE ActOnDecision(p)
  <2>1. UNCHANGED ckpt /\ pc[p] = "act" /\ Call(p) \in Calls
    BY <1>2, <1>21 DEF ActOnDecision, CallPlaces, Places
  <2>2. CASE UNCHANGED rows /\ OnJournalError(p)
    BY <1>6, <2>1, <2>2
  <2>3. CASE /\ DecideRecovery(rec[p], Call(p)) = "reuse_result"
             /\ output' = [output EXCEPT ![p] = ResultOf(rec[p].result)]
             /\ Goto(p, "append") /\ UNCHANGED <<rows, mine>>
    <3>1. rec[p].state = "completed"
      BY <2>3 DEF DecideRecovery
    <3>2. rec[p].result = "ok" /\ rows[Call(p)].state = "completed"
      BY <2>1, <3>1 DEF Reports
    <3>3. output'[p] = "ok" /\ pc'[p] = "append"
      <4>1. ResultOf(rec[p].result) = "ok"
        BY <3>2 DEF ResultOf
      <4> QED
        BY <1>1, <2>3, <4>1 DEF Goto
    <3> QED
      BY <1>3, <1>9, <2>1, <2>3, <3>2, <3>3 DEF Reports, Call
  <2>4. CASE Restart(Call(p), mine[p].rev) /\ Goto(p, "count") /\ UNCHANGED mine
    <3> DEFINE r == StartedRow(rows[Call(p)], mine[p].rev)
    <3>1. r \in Row /\ rows' = [rows EXCEPT ![Call(p)] = r] /\ r.state = "started"
      BY <1>1, <2>1, <2>4 DEF Restart, StartedRow, Row, RowStates, Snapshot
    <3> QED
      BY <1>5, <2>1, <2>4, <3>1, RowSteps DEF CallPlaces, Places, NothingOpen
  <2>5. CASE UNCHANGED <<rows, mine>> /\ Goto(p, "claim")
    BY <1>3, <1>5, <2>1, <2>5 DEF Places
  <2> QED
    BY <1>21, <2>2, <2>3, <2>4, <2>5 DEF ActOnDecision
<1> QED
  BY <1>10, <1>11, <1>12, <1>13, <1>14, <1>15, <1>16, <1>17, <1>18, <1>19, <1>20, <1>21,
     DriveKeepsAnswers DEF Work

\* With one process at a time, nobody takes the run up beside the one that has it.
LEMMA OthersStayIdle ==
  ASSUME Overlap = FALSE, TranscriptInvariant, [Next]_vars, NEW p \in Procs, NEW q \in Procs,
         pc[p] # "idle", q # p
  PROVE  pc'[q] = "idle"
<1>1. pc[q] = "idle"
  BY DEF TranscriptInvariant, OnceInvariant, AtMostOneWorks
<1>2. ASSUME pc'[q] # pc[q] PROVE FALSE
  <2>1. Work(q) \/ Run(q) \/ Load(q) \/ Crash(q)
    BY <1>2, OneMoves DEF TranscriptInvariant, OnceInvariant
  <2>2. Run(q) \/ Load(q)
    BY <1>1, <2>1 DEF Crash, Work, ResumeRunning, ResumeApproved, Drive, Append, Fail,
       ClaimCall, StartCall, CountAttempts, BeginAttempt, Dispatch, ToolReturns,
       FinishAttemptOf, SettleCall, LoadRow, RecordRecoveryDecision, ActOnDecision
  <2> QED
    BY <2>2 DEF Run, Load, Free
<1> QED
  BY <1>1, <1>2

LEMMA TranscriptStep ==
  ASSUME Overlap = FALSE, TranscriptInvariant, [Next]_vars
  PROVE  TranscriptInvariant'
<1> USE DEF TranscriptInvariant
<1>1. OnceInvariant' /\ TypeOK
  BY OnceStep DEF OnceInvariant, RunInvariant
<1>2. ASSUME NEW q \in Procs, pc'[q] = "idle" PROVE Reports(q)'
  BY <1>2 DEF Reports
<1>3. ASSUME NEW p \in Procs, Work(p) PROVE TranscriptInvariant'
  <2>1. pc[p] # "idle"
    BY <1>3 DEF Work, ResumeRunning, ResumeApproved, Drive, Append, Fail, ClaimCall, StartCall,
       CountAttempts, BeginAttempt, Dispatch, ToolReturns, FinishAttemptOf, SettleCall, LoadRow,
       RecordRecoveryDecision, ActOnDecision
  <2> QED
    BY <1>1, <1>2, <1>3, <2>1, WorkKeepsAnswers, OthersStayIdle
<1>4. ASSUME NEW p \in Procs, Crash(p) PROVE TranscriptInvariant'
  <2>1. pc[p] # "idle" /\ pc'[p] = "idle" /\ UNCHANGED <<rows, ckpt>>
    BY <1>1, <1>4 DEF Crash, Leave, TypeOK, ProcTypeOK
  <2> QED
    BY <1>1, <1>2, <2>1, OthersStayIdle DEF AnswerFits, NothingOpen
<1>5. ASSUME NEW p \in Procs, Run(p) \/ Load(p) PROVE TranscriptInvariant'
  <2>1. /\ mine'[p] = ckpt' /\ pc'[p] \in {"drive", "resume", "approve"} /\ UNCHANGED rows
        /\ \A q \in Procs \ {p} : pc'[q] = pc[q] /\ mine'[q] = mine[q]
        /\ \A q \in Procs : pc[q] = "idle"
    BY <1>1, <1>5 DEF Run, Load, Goto, Free, TypeOK, ProcTypeOK
  <2>2. Reports(p)'
    BY <2>1 DEF Reports
  <2>3. UNCHANGED ckpt \/ (/\ ckpt'.results = ckpt.results
                          /\ ckpt'.outstanding = ckpt.outstanding
                          /\ ckpt'.status = "running")
    <3>1. ckpt.status = "none" => ckpt = NoSnapshot
      BY DEF OnceInvariant, RunInvariant, SnapshotInvariant, WellFormed
    <3>2. CASE Run(p)
      <4>1. ckpt = NoSnapshot
        BY <3>1, <3>2 DEF Run
      <4>2. ckpt' = [NoSnapshot EXCEPT !.rev = 1, !.status = "running"]
        BY <3>2 DEF Run
      <4> QED
        BY <4>1, <4>2 DEF NoSnapshot
    <3>3. CASE Load(p)
      BY <3>3 DEF Load
    <3> QED
      BY <1>5, <3>2, <3>3
  <2>4. (\A c \in Calls : AnswerFits(c)') /\ NothingOpen(ckpt)'
    BY <2>1, <2>3 DEF AnswerFits, NothingOpen
  <2> QED
    BY <1>1, <1>2, <2>1, <2>2, <2>4
<1>6. CASE UNCHANGED vars \/ \E c \in Calls : IssueGrant(c) \/ ExpireGrant(c)
  <2>1. UNCHANGED <<rows, ckpt, pc, mine, rec, output>>
    BY <1>6 DEF vars, IssueGrant, ExpireGrant
  <2> QED
    BY <1>1, <2>1 DEF AnswerFits, NothingOpen, Reports, Call
<1> QED
  BY <1>3, <1>4, <1>5, <1>6 DEF Next

LEMMA TranscriptInvariantHolds ==
  ASSUME Overlap = FALSE
  PROVE  Spec => []TranscriptInvariant
<1>1. Init => TranscriptInvariant
  BY InitOnce DEF Init, JournalInit, NoRow, NoSnapshot, TranscriptInvariant, AnswerFits, Reports,
     NothingOpen
<1>2. TranscriptInvariant /\ [Next]_vars => TranscriptInvariant'
  BY TranscriptStep
<1> QED
  BY <1>1, <1>2, PTL DEF Spec

\* With one process at a time, the transcript and the journal tell the same story of
\* every call through any crash between the two writes: what is answered with success
\* completed, what is answered with an error did not, and a run that succeeded has no
\* call left open.
THEOREM TranscriptAgrees ==
  ASSUME Overlap = FALSE
  PROVE  Spec => []TranscriptMatchesJournal
<1>1. TranscriptInvariant => TranscriptMatchesJournal
  <2> SUFFICES ASSUME TranscriptInvariant, NEW c \in Calls, ckpt.status = "succeeded"
               PROVE  rows[c].state \notin {"claimed", "started"}
    BY DEF TranscriptInvariant, AnswerFits, TranscriptMatchesJournal
  <2>1. ckpt.outstanding = NoCall /\ AnswerFits(c) /\ ckpt.results[c] \in Results
    BY DEF TranscriptInvariant, NothingOpen, OnceInvariant, RunInvariant, TypeOK, RunTypeOK,
       Snapshot
  <2> QED
    BY <2>1, RunConstants DEF AnswerFits, Results
<1> QED
  BY <1>1, TranscriptInvariantHolds, PTL

-----------------------------------------------------------------------------
(* Attempts, however many processes work on the run.                       *)

Dispatching(c) == {p \in Procs : pc[p] = "dispatch" /\ Call(p) = c}

\* The attempt numbers under which the body of the tool may have been entered.
UsedNos(c) == AttemptNos(c) \ {no[p] : p \in Dispatching(c)}

AttemptInvariant ==
  /\ RunInvariant
  /\ \A c \in Calls : AttemptNos(c) \subseteq 1..MaxAttempts
  /\ \A c \in Calls, p \in Procs : p \in Dispatching(c) => no[p] \in AttemptNos(c)
  /\ \A c \in Calls, p, q \in Procs :
       p \in Dispatching(c) /\ q \in Dispatching(c) /\ p # q => no[p] # no[q]
  /\ \A c \in Calls : executed[c] <= Cardinality(UsedNos(c))

LEMMA UsedNosFinite ==
  ASSUME NEW c \in Calls, AttemptNos(c) \subseteq 1..MaxAttempts
  PROVE  /\ IsFiniteSet(AttemptNos(c)) /\ IsFiniteSet(UsedNos(c))
         /\ Cardinality(UsedNos(c)) \in Nat
         /\ Cardinality(UsedNos(c)) <= Cardinality(AttemptNos(c))
         /\ Cardinality(AttemptNos(c)) <= MaxAttempts
<1>1. IsFiniteSet(1..MaxAttempts) /\ Cardinality(1..MaxAttempts) = MaxAttempts
  BY FS_Interval, JournalConstants
<1>2. IsFiniteSet(AttemptNos(c)) /\ Cardinality(AttemptNos(c)) <= MaxAttempts
  BY <1>1, FS_Subset
<1>3. UsedNos(c) \subseteq AttemptNos(c)
  BY DEF UsedNos
<1>4. IsFiniteSet(UsedNos(c)) /\ Cardinality(UsedNos(c)) <= Cardinality(AttemptNos(c))
  BY <1>2, <1>3, FS_Subset
<1> QED
  BY <1>2, <1>4, FS_CardinalityType

\* A set of used numbers that grows keeps its bound on the effects.
LEMMA UsedNosGrow ==
  ASSUME NEW S, NEW T, S \subseteq T, IsFiniteSet(T), NEW n \in Nat, n <= Cardinality(S)
  PROVE  n <= Cardinality(T) /\ \A x \in T \ S : n + 1 <= Cardinality(T)
<1>1. IsFiniteSet(S) /\ Cardinality(S) <= Cardinality(T)
  BY FS_Subset
<1>2. Cardinality(S) \in Nat /\ Cardinality(T) \in Nat
  BY <1>1, FS_CardinalityType
<1>3. ASSUME NEW x \in T \ S PROVE n + 1 <= Cardinality(T)
  <2>1. Cardinality(S \cup {x}) = Cardinality(S) + 1
    BY <1>1, FS_AddElement
  <2>2. Cardinality(S \cup {x}) <= Cardinality(T)
    <3>1. S \cup {x} \subseteq T
      OBVIOUS
    <3> QED
      BY <3>1, FS_Subset
  <2> QED
    BY <1>2, <2>1, <2>2
<1> QED
  BY <1>1, <1>2, <1>3

\* The ways of attempts and of processes about to enter a tool.
LEMMA AttemptSteps ==
  ASSUME AttemptInvariant, [Next]_vars
  PROVE  \/ /\ \A c \in Calls : AttemptNos(c)' = AttemptNos(c)
            /\ \A q \in Procs : pc'[q] = "dispatch" =>
                 pc[q] = "dispatch" /\ mine'[q] = mine[q] /\ no'[q] = no[q]
         \/ \E p \in Procs : BeginAttempt(p) /\ AttemptFree(Call(p), no[p] + 1)
<1> USE DEF AttemptInvariant
<1>1. ASSUME NEW q \in Procs, pc'[q] = "dispatch",
             ~(pc[q] = "dispatch" /\ mine'[q] = mine[q] /\ no'[q] = no[q])
      PROVE  BeginAttempt(q) /\ AttemptFree(Call(q), no[q] + 1)
  <2>1. pc' \in [Procs -> Places]
    BY TypeStep DEF RunInvariant, TypeOK, ProcTypeOK
  <2>2. ~Leave(q)
    BY <1>1 DEF Leave, RunInvariant, TypeOK, ProcTypeOK
  <2>3. \A place \in Places : Goto(q, place) => place = "dispatch"
    BY <1>1 DEF Goto, RunInvariant, TypeOK, ProcTypeOK
  <2>4. ~OnJournalError(q)
    BY <2>2, <2>3 DEF OnJournalError, Places
  <2>5. ~(Run(q) \/ Load(q) \/ Crash(q) \/ ResumeRunning(q) \/ ResumeApproved(q))
    BY <2>2, <2>3 DEF Run, Load, Crash, ResumeRunning, ResumeApproved, Places
  <2>6. ~(Append(q) \/ Fail(q))
    BY <2>2, <2>3 DEF Append, Fail, Save, SaveAndLeave, Places
  <2>7. ~Drive(q)
    <3>1. Drive(q) => \/ \E s : SaveAndLeave(q, s)
                      \/ \E s : Save(q, s, "drive") \/ Save(q, s, "claim")
      BY Zenon DEF Drive
    <3> QED
      BY <2>2, <2>3, <3>1 DEF Save, SaveAndLeave, Places
  <2>8. ~(ClaimCall(q) \/ StartCall(q) \/ CountAttempts(q) \/ SettleCall(q) \/ ActOnDecision(q))
    BY <2>3, <2>4 DEF ClaimCall, StartCall, CountAttempts, SettleCall, ActOnDecision, Places
  <2>9. ~(Dispatch(q) \/ ToolReturns(q) \/ LoadRow(q) \/ RecordRecoveryDecision(q)
          \/ FinishAttemptOf(q))
    BY <2>3 DEF Dispatch, ToolReturns, LoadRow, RecordRecoveryDecision, FinishAttemptOf, Places
  <2>10. BeginAttempt(q)
    BY <1>1, <2>5, <2>6, <2>7, <2>8, <2>9, OneMoves DEF Work
  <2> QED
    BY <2>4, <2>10 DEF BeginAttempt
<1>2. ASSUME NEW p \in Procs, FinishAttemptOf(p)
      PROVE  \A c \in Calls : AttemptNos(c)' = AttemptNos(c)
  <2>1. Call(p) \in Calls
    <3>1. pc[p] = "finish"
      BY <1>2 DEF FinishAttemptOf
    <3>4. pc[p] \in CallPlaces
      BY <3>1 DEF CallPlaces, Places
    <3>2. Call(p) # NoCall
      BY <3>4 DEF RunInvariant, SnapshotInvariant, Placed
    <3>3. mine[p] \in Snapshot
      BY DEF RunInvariant, TypeOK, ProcTypeOK
    <3> QED
      BY <3>2, <3>3 DEF Call, Snapshot
  <2> DEFINE old == [no |-> no[p], outcome |-> "open"]
             new == [no |-> no[p], outcome |-> AttemptOutcome(output[p])]
  <2>2. old \in attempts[Call(p)] /\ old.no = no[p] /\ new.no = no[p]
    BY <1>2 DEF FinishAttemptOf, AttemptOpen
  <2>3. attempts' = [attempts EXCEPT ![Call(p)] = (@ \ {old}) \cup {new}]
    BY <1>2 DEF FinishAttemptOf, FinishAttempt
  <2> HIDE DEF old, new
  <2>4. attempts'[Call(p)] = (attempts[Call(p)] \ {old}) \cup {new}
        /\ \A c \in Calls \ {Call(p)} : attempts'[c] = attempts[c]
    BY <2>1, <2>3 DEF RunInvariant, TypeOK, JournalTypeOK
  <2> QED
    BY <2>2, <2>4 DEF AttemptNos
<1>3. ASSUME NEW p \in Procs,
             \/ ClaimCall(p) \/ StartCall(p) \/ SettleCall(p) \/ RecordRecoveryDecision(p)
             \/ ActOnDecision(p)
      PROVE  UNCHANGED attempts
  BY <1>3 DEF ClaimCall, StartCall, SettleCall, RecordRecoveryDecision, ActOnDecision
<1>4. ASSUME NEW p \in Procs, BeginAttempt(p), ~AttemptFree(Call(p), no[p] + 1)
      PROVE  UNCHANGED attempts
  BY <1>4 DEF BeginAttempt
<1>5. UNCHANGED attempts => \A c \in Calls : AttemptNos(c)' = AttemptNos(c)
  BY DEF AttemptNos
<1>6. \/ \A c \in Calls : AttemptNos(c)' = AttemptNos(c)
      \/ \E p \in Procs : BeginAttempt(p) /\ AttemptFree(Call(p), no[p] + 1)
  BY <1>2, <1>3, <1>4, <1>5, JournalSteps
<1> QED
  BY <1>1, <1>6

LEMMA AttemptStep ==
  ASSUME AttemptInvariant, [Next]_vars
  PROVE  AttemptInvariant'
<1> USE DEF AttemptInvariant
<1>1. RunInvariant'
  BY TypeStep, SnapshotStep DEF RunInvariant
<1>2. executed \in [Calls -> Nat]
  BY DEF RunInvariant, TypeOK, RunTypeOK
<1>3. CASE /\ \A c \in Calls : AttemptNos(c)' = AttemptNos(c)
           /\ \A q \in Procs : pc'[q] = "dispatch" =>
                pc[q] = "dispatch" /\ mine'[q] = mine[q] /\ no'[q] = no[q]
  <2>1. ASSUME NEW c \in Calls, NEW q \in Dispatching(c)'
        PROVE  q \in Dispatching(c) /\ no'[q] = no[q]
    BY <1>3, <2>1 DEF Dispatching, Call
  <2>2. \A c \in Calls : UsedNos(c) \subseteq UsedNos(c)'
    BY <1>3, <2>1 DEF UsedNos
  <2>3. \A c \in Calls : AttemptNos(c)' \subseteq 1..MaxAttempts
    BY <1>3
  <2>4. \A c \in Calls : IsFiniteSet(UsedNos(c)')
    <3>1. \A c \in Calls : UsedNos(c)' \subseteq AttemptNos(c)
      BY <1>3 DEF UsedNos
    <3> QED
      BY <3>1, UsedNosFinite, FS_Subset
  <2>5. \A c \in Calls : executed'[c] <= Cardinality(UsedNos(c)')
    <3>1. CASE UNCHANGED executed
      BY <1>2, <2>2, <2>4, <3>1, UsedNosGrow
    <3>2. ASSUME NEW p \in Procs, pc[p] = "dispatch", Dispatch(p),
                 executed' = [executed EXCEPT ![Call(p)] = @ + 1], executed' # executed,
                 NEW c \in Calls
          PROVE  executed'[c] <= Cardinality(UsedNos(c)')
      <4>1. CASE c # Call(p)
        <5>1. executed'[c] = executed[c]
          BY <1>2, <3>2, <4>1
        <5> QED
          BY <1>2, <2>2, <2>4, <5>1, UsedNosGrow
      <4>2. CASE c = Call(p)
        <5>1. executed'[c] = executed[c] + 1
          BY <1>2, <3>2, <4>2
        <5>2. p \in Dispatching(c) /\ no[p] \in AttemptNos(c) /\ no[p] \notin UsedNos(c)
          BY <3>2, <4>2 DEF Dispatching, UsedNos
        <5>3. pc'[p] # "dispatch"
          BY <3>2 DEF Dispatch, Goto, RunInvariant, TypeOK, ProcTypeOK
        <5>4. no[p] \in UsedNos(c)'
          <6>1. \A q \in Dispatching(c)' : no'[q] # no[p]
            BY <2>1, <5>2, <5>3 DEF Dispatching
          <6> QED
            BY <1>3, <5>2, <6>1 DEF UsedNos
        <5> QED
          BY <1>2, <2>2, <2>4, <5>1, <5>2, <5>4, UsedNosGrow
      <4> QED
        BY <4>1, <4>2
    <3> QED
      BY <3>1, <3>2, ExecutedSteps
  <2>6. \A c \in Calls, q \in Procs : q \in Dispatching(c)' => no'[q] \in AttemptNos(c)'
    BY <1>3, <2>1
  <2>7. \A c \in Calls, q, r \in Procs :
          q \in Dispatching(c)' /\ r \in Dispatching(c)' /\ q # r => no'[q] # no'[r]
    BY <2>1
  <2> QED
    BY <1>1, <2>3, <2>5, <2>6, <2>7
<1>4. ASSUME NEW p \in Procs, BeginAttempt(p), AttemptFree(Call(p), no[p] + 1)
      PROVE  AttemptInvariant'
  <2>1. Call(p) \in Calls /\ no[p] + 1 \in 1..MaxAttempts
    <3>1. pc[p] = "attempt" /\ no[p] \in 0..MaxAttempts
      BY <1>4 DEF BeginAttempt, RunInvariant, TypeOK, ProcTypeOK
    <3>2. no[p] < MaxAttempts /\ Call(p) # NoCall /\ mine[p] \in Snapshot
      BY <3>1 DEF RunInvariant, TypeOK, ProcTypeOK, SnapshotInvariant, Placed, CallPlaces, Places
    <3> QED
      BY <3>1, <3>2, JournalConstants DEF Call, Snapshot
  <2>2. PICK b \in Calls, n \in 1..MaxAttempts : b = Call(p) /\ n = no[p] + 1
    BY <2>1
  <2>3. CASE StartAttempt(b, n) /\ no' = [no EXCEPT ![p] = @ + 1] /\ Goto(p, "dispatch")
             /\ UNCHANGED <<mine, executed>>
    <3>1. AttemptNos(b)' = AttemptNos(b) \cup {n}
          /\ \A c \in Calls \ {b} : AttemptNos(c)' = AttemptNos(c)
      <4>1. /\ attempts'[b] = attempts[b] \cup {[no |-> n, outcome |-> "open"]}
            /\ \A c \in Calls \ {b} : attempts'[c] = attempts[c]
        BY <2>3 DEF StartAttempt, RunInvariant, TypeOK, JournalTypeOK
      <4>2. [no |-> n, outcome |-> "open"].no = n
        OBVIOUS
      <4> QED
        BY <4>1, <4>2 DEF AttemptNos
    <3>2. no'[p] = n /\ \A q \in Procs \ {p} : no'[q] = no[q]
      BY <2>2, <2>3 DEF RunInvariant, TypeOK, ProcTypeOK
    <3>3. pc[p] # "dispatch" /\ pc'[p] = "dispatch" /\ \A q \in Procs \ {p} : pc'[q] = pc[q]
      BY <1>4, <2>3 DEF BeginAttempt, Goto, RunInvariant, TypeOK, ProcTypeOK
    <3>4. n \notin AttemptNos(b)
      BY <1>4, <2>2 DEF AttemptFree
    <3>5. Dispatching(b)' = Dispatching(b) \cup {p}
          /\ \A c \in Calls \ {b} : Dispatching(c)' = Dispatching(c)
      BY <2>2, <2>3, <3>3 DEF Dispatching, Call
    <3>6. \A c \in Calls : p \notin Dispatching(c)
      BY <3>3 DEF Dispatching
    <3>7. \A c \in Calls : UsedNos(c)' = UsedNos(c)
      <4>1. ASSUME NEW c \in Calls \ {b} PROVE UsedNos(c)' = UsedNos(c)
        <5>1. \A q \in Dispatching(c) : no'[q] = no[q]
          BY <3>2, <3>6 DEF Dispatching
        <5> QED
          BY <3>1, <3>5, <5>1 DEF UsedNos
      <4>2. UsedNos(b)' = UsedNos(b)
        <5>1. \A q \in Dispatching(b) : no'[q] = no[q]
          BY <3>2, <3>6 DEF Dispatching
        <5>2. {no'[q] : q \in Dispatching(b)'} = {no[q] : q \in Dispatching(b)} \cup {n}
          BY <3>2, <3>5, <5>1
        <5> QED
          BY <3>1, <3>4, <5>2 DEF UsedNos
      <4> QED
        BY <4>1, <4>2
    <3>8. \A c \in Calls, q \in Procs : q \in Dispatching(c)' => no'[q] \in AttemptNos(c)'
      <4>1. ASSUME NEW c \in Calls, NEW q \in Procs, q \in Dispatching(c)'
            PROVE  no'[q] \in AttemptNos(c)'
        <5>1. CASE q = p
          BY <3>1, <3>2, <3>5, <3>6, <4>1, <5>1
        <5>2. CASE q # p
          <6>1. q \in Dispatching(c) /\ no'[q] = no[q]
            BY <3>2, <3>5, <4>1, <5>2
          <6> QED
            BY <3>1, <6>1
        <5> QED
          BY <5>1, <5>2
      <4> QED
        BY <4>1
    <3>9. \A c \in Calls, q, r \in Procs :
            q \in Dispatching(c)' /\ r \in Dispatching(c)' /\ q # r => no'[q] # no'[r]
      <4>1. ASSUME NEW c \in Calls, NEW q \in Procs, NEW r \in Procs, q # r,
                   q \in Dispatching(c)', r \in Dispatching(c)'
            PROVE  no'[q] # no'[r]
        <5>1. ASSUME NEW s \in Procs \ {p}, s \in Dispatching(c)'
              PROVE  s \in Dispatching(c) /\ no'[s] = no[s] /\ no[s] \in AttemptNos(c)
          BY <3>2, <3>5, <5>1
        <5>2. p \in Dispatching(c)' => c = b
          BY <3>5, <3>6
        <5>3. CASE q # p /\ r # p
          BY <4>1, <5>1, <5>3
        <5>4. CASE q = p
          BY <3>2, <3>4, <4>1, <5>1, <5>2, <5>4
        <5>5. CASE r = p
          BY <3>2, <3>4, <4>1, <5>1, <5>2, <5>5
        <5> QED
          BY <5>3, <5>4, <5>5
      <4> QED
        BY <4>1
    <3>10. \A c \in Calls : AttemptNos(c)' \subseteq 1..MaxAttempts
      BY <3>1
    <3> QED
      BY <1>1, <2>3, <3>7, <3>8, <3>9, <3>10
  <2> QED
    BY <1>4, <2>2, <2>3 DEF BeginAttempt
<1> QED
  BY <1>3, <1>4, AttemptSteps

LEMMA AttemptInvariantHolds == Spec => []AttemptInvariant
<1>1. Init => AttemptInvariant
  <2> SUFFICES ASSUME Init PROVE AttemptInvariant
    OBVIOUS
  <2>1. RunInvariant
    BY InitTypes
  <2>2. \A c \in Calls : AttemptNos(c) = {} /\ UsedNos(c) = {} /\ Dispatching(c) = {}
    BY DEF Init, JournalInit, AttemptNos, UsedNos, Dispatching
  <2>3. Cardinality({}) = 0
    BY FS_EmptySet
  <2> QED
    <3>1. \A c \in Calls : executed[c] <= Cardinality(UsedNos(c))
      BY <2>2, <2>3 DEF Init
    <3> QED
      BY <2>1, <2>2, <3>1 DEF AttemptInvariant
<1> QED
  BY <1>1, AttemptStep, PTL DEF Spec

\* However many processes work on the run and however often they are lost, the
\* tool of a call is never entered more often than max_attempts_per_call.
THEOREM AttemptBudget == Spec => []AttemptsWithinBudget
<1>1. AttemptInvariant => AttemptsWithinBudget
  <2> SUFFICES ASSUME AttemptInvariant, NEW c \in Calls PROVE executed[c] <= MaxAttempts
    BY DEF AttemptsWithinBudget
  <2>1. executed[c] \in Nat /\ executed[c] <= Cardinality(UsedNos(c))
    BY DEF AttemptInvariant, RunInvariant, TypeOK, RunTypeOK
  <2>2. Cardinality(AttemptNos(c)) \in Nat
    BY UsedNosFinite, FS_CardinalityType DEF AttemptInvariant
  <2> QED
    BY <2>1, <2>2, UsedNosFinite, JournalConstants DEF AttemptInvariant
<1> QED
  BY <1>1, AttemptInvariantHolds, PTL

\* With one process at a time, the journal knows of every effect before it happens:
\* each entry into a tool has an attempt of its own, under a row marked started.
THEOREM EvidenceFirst ==
  ASSUME Overlap = FALSE
  PROVE  Spec => []EvidenceBeforeEffect
<1>1. AttemptInvariant /\ OnceInvariant => EvidenceBeforeEffect
  <2> SUFFICES ASSUME AttemptInvariant, OnceInvariant, NEW c \in Calls
               PROVE  /\ executed[c] <= Cardinality(AttemptNos(c))
                      /\ executed[c] > 0 => rows[c].state \notin {"none", "claimed"}
    BY DEF EvidenceBeforeEffect
  <2>1. executed[c] \in Nat /\ executed[c] <= Cardinality(UsedNos(c))
    BY DEF AttemptInvariant, RunInvariant, TypeOK, RunTypeOK
  <2>2. Cardinality(AttemptNos(c)) \in Nat
    BY UsedNosFinite, FS_CardinalityType DEF AttemptInvariant
  <2>3. executed[c] <= Cardinality(AttemptNos(c))
    BY <2>1, <2>2, UsedNosFinite DEF AttemptInvariant
  <2> QED
    BY <2>3 DEF OnceInvariant, RowFollowsEffects
<1> QED
  BY <1>1, AttemptInvariantHolds, OnceInvariantHolds, PTL
=============================================================================
