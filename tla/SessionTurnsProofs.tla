------------------------- MODULE SessionTurnsProofs -------------------------
(***************************************************************************)
(* Proofs about SessionTurns for any number of turns, sources, processes,  *)
(* readers and crashes, and any history limit.                             *)
(***************************************************************************)
EXTENDS SessionTurns, SumFacts, TLAPS

-----------------------------------------------------------------------------
(* Types.                                                                  *)

\* What rows are made of.
LEMMA RowTypes ==
  ASSUME SessionTypeOK, NEW k \in Turns
  PROVE  /\ turn[k] \in Row
         /\ ResultRow(k) \in Row
         /\ ReconciledRow(k) \in Row
         /\ AfterException(k) \in Row
         /\ Tombstone \in Row
<1> USE DEF SessionTypeOK, Row, Evidence, TurnStates, RunStates, UnderWay, Missing
<1>1. turn[k] \in Row /\ run[k] \in Evidence
  OBVIOUS
<1>2. ResultRow(k) \in Row
  BY <1>1 DEF ResultRow
<1>3. ReconciledRow(k) \in Row
  BY <1>1, <1>2 DEF ReconciledRow, Found
<1>4. AfterException(k) \in Row
  BY <1>1, <1>2 DEF AfterException, Found
<1>5. Tombstone \in Row
  BY DEF Tombstone
<1> QED
  BY <1>1, <1>2, <1>3, <1>4, <1>5

\* _update_turn() keeps the types of what it writes.
LEMMA UpdateTypes ==
  ASSUME SessionTypeOK, NEW k \in Turns, NEW row \in Row, Update(k, row)
  PROVE  /\ turn' \in [Turns -> Row]
         /\ session' \in SessionRow
<1>1. turn' \in [Turns -> Row]
  BY DEF SessionTypeOK, Update
<1>2. session' \in SessionRow
  BY SessionConstants DEF SessionTypeOK, SessionRow, Update
<1> QED
  BY <1>1, <1>2

\* A process stays in its operation, begins another one, or returns.
LEMMA OperationTypes ==
  ASSUME SessionTypeOK, NEW p \in Procs, NEW place \in Places, NEW k \in 0..TurnCount,
         Go(p, place) \/ Take(p, place, k) \/ Return(p)
  PROVE  op' \in [Procs -> Operation]
<1> USE SessionConstants DEF SessionTypeOK
<1>1. op[p] \in Operation
  OBVIOUS
<1>2. [op[p] EXCEPT !.pc = place] \in Operation
  BY <1>1 DEF Operation
<1>3. [pc |-> place, turn |-> k, todo |-> {}] \in Operation
  BY DEF Operation
<1>4. Resting \in Operation
  BY DEF Operation, Resting, Places
<1>5. PICK o \in Operation : op' = [op EXCEPT ![p] = o]
  BY <1>2, <1>3, <1>4 DEF Go, Take, Return
<1> QED
  BY <1>5

\* A run that takes another status, or reads a source, keeps its type.
LEMMA EvidenceTypes ==
  ASSUME SessionTypeOK, NEW k, NEW s \in RunStates, NEW new \in SUBSET Sources,
         \/ run' = [run EXCEPT ![k].status = s]
         \/ run' = [run EXCEPT ![k].read = @ \cup new]
         \/ run' = [run EXCEPT ![k] = [status |-> s, read |-> {}]]
  PROVE  run' \in [Turns -> Evidence]
<1> USE DEF SessionTypeOK
<1>1. CASE k \in Turns
  <2>1. run[k] \in Evidence
    BY <1>1
  <2>2. [run[k] EXCEPT !.status = s] \in Evidence
    BY <2>1 DEF Evidence
  <2>3. [run[k] EXCEPT !.read = run[k].read \cup new] \in Evidence
    BY <2>1 DEF Evidence
  <2>4. [status |-> s, read |-> {}] \in Evidence
    BY DEF Evidence
  <2>5. PICK e \in Evidence : run' = [run EXCEPT ![k] = e]
    BY <2>2, <2>3, <2>4
  <2> QED
    BY <2>5
<1>2. CASE k \notin Turns
  BY <1>2
<1> QED
  BY <1>1, <1>2

\* Every reachable state of the session, its runs, its processes and its readers is
\* of its type.
THEOREM TypeCorrect == SessionSpec => []SessionTypeOK
<1> USE SessionConstants
<1>1. SessionInit => SessionTypeOK
  BY DEF SessionInit, SessionTypeOK, SessionRow, Row, Evidence, Operation, TurnStates, RunStates,
         Missing, Places, NoRow, NoRun, Resting, NoView, Turns
<1>2. SessionTypeOK /\ [SessionNext]_sessionVars => SessionTypeOK'
  <2> SUFFICES ASSUME SessionTypeOK, [SessionNext]_sessionVars PROVE SessionTypeOK'
    OBVIOUS
  <2> USE DEF SessionTypeOK
  <2>0. /\ 0 \in 0..TurnCount
        /\ \A k \in Turns : k \in 0..TurnCount
        /\ \A p \in Procs : op[p] \in Operation /\ op[p].turn \in 0..TurnCount
    BY DEF Turns, Operation
  <2>1. CASE Create
    BY <2>1 DEF Create, SessionRow
  <2>2. ASSUME NEW s \in Sources, Withdraw(s) PROVE SessionTypeOK'
    BY <2>2 DEF Withdraw
  <2>3. ASSUME NEW p \in Procs, Submit(p) \/ Close(p) PROVE SessionTypeOK'
    <3>1. PICK place \in Places : FinishActive(p, place)
      BY <2>3 DEF Submit, Close, Places
    <3>2. UNCHANGED <<run, withdrawn, view, rests, crashes>>
      BY <2>3 DEF Submit, Close
    <3>3. op' \in [Procs -> Operation]
      BY <2>0, <3>1, OperationTypes DEF FinishActive
    <3>4. CASE session.active = 0
      BY <3>1, <3>2, <3>3, <3>4 DEF FinishActive
    <3>5. CASE session.active # 0
      <4>1. session.active \in Turns
        BY <3>5 DEF Turns, SessionRow
      <4> QED
        BY <3>1, <3>2, <3>3, <3>5, <4>1, RowTypes, UpdateTypes DEF FinishActive
    <3> QED
      BY <3>4, <3>5
  <2>4. ASSUME NEW p \in Procs, DeleteSession(p) PROVE SessionTypeOK'
    BY <2>4 DEF DeleteSession, SessionRow, Operation, Places
  <2>5. ASSUME NEW p \in Procs, Work(p) PROVE SessionTypeOK'
    <3>0. "work" \in Places /\ "record" \in Places /\ "reply" \in Places /\ "shown" \in Places
          /\ "drop" \in Places /\ "provide" \in Places
      BY DEF Places
    <3>1. ASSUME NEW k \in Turns, Insert(p, k) PROVE SessionTypeOK'
      <4>0. op' \in [Procs -> Operation]
        BY <2>0, <3>0, <3>1, OperationTypes DEF Insert
      <4>1. CASE \A a \in History(k) : Sound(a)
        <5>1. [status |-> "starting", history |-> History(k), sources |-> {}] \in Row
          BY DEF Row, TurnStates, UnderWay, History
        <5>2. session' = [session EXCEPT !.active = k]
          BY <3>1, <4>1 DEF Insert
        <5>3. session' \in SessionRow
          BY <2>0, <5>2 DEF SessionRow
        <5>4. turn' \in [Turns -> Row]
          BY <3>1, <4>1, <5>1 DEF Insert
        <5>5. rests' \in [Turns -> SUBSET (Sources \cup Turns)]
          BY <3>1, <4>1 DEF Insert
        <5> QED
          BY <3>1, <4>0, <5>3, <5>4, <5>5 DEF Insert
      <4>2. CASE ~\A a \in History(k) : Sound(a)
        BY <3>1, <4>0, <4>2 DEF Insert
      <4> QED
        BY <4>1, <4>2
    <3>2. CASE SaveClosed(p)
      BY <2>0, <3>0, <3>2, OperationTypes DEF SaveClosed, SessionRow
    <3>3. CASE Compile(p)
      <4>1. run' \in [Turns -> Evidence]
        BY <3>3, EvidenceTypes DEF Compile, RunStates
      <4>2. rests' \in [Turns -> SUBSET (Sources \cup Turns)]
        <5> DEFINE k == op[p].turn
                   new == rests[k] \cup UNION {rests[a] : a \in turn[k].history}
        <5>1. rests' = [rests EXCEPT ![k] = new]
          BY <3>3 DEF Compile
        <5>2. CASE k \in Turns
          <6>1. turn[k].history \subseteq Turns
            BY <5>2 DEF Row
          <6>2. new \subseteq Sources \cup Turns
            BY <5>2, <6>1
          <6> HIDE DEF new
          <6> QED
            BY <5>1, <6>2
        <5>3. CASE k \notin Turns
          BY <5>1, <5>3
        <5> QED
          BY <5>2, <5>3
      <4>3. op' \in [Procs -> Operation]
        BY <2>0, <3>0, <3>3, OperationTypes DEF Compile
      <4> QED
        BY <3>3, <4>1, <4>2, <4>3 DEF Compile
    <3>4. CASE EndRun(p)
      <4>1. run' \in [Turns -> Evidence]
        BY <3>4, EvidenceTypes DEF EndRun, RunStates
      <4>2. op' \in [Procs -> Operation]
        BY <2>0, <3>0, <3>4, OperationTypes DEF EndRun
      <4> QED
        BY <3>4, <4>1, <4>2 DEF EndRun
    <3>5. CASE Raise(p) \/ Record(p)
      <4>1. op' \in [Procs -> Operation]
        BY <2>0, <3>0, <3>5, OperationTypes DEF Raise, Record
      <4>2. CASE op[p].turn \in Turns
        <5>1. PICK row \in Row : Update(op[p].turn, row)
          BY <3>5, <4>2, RowTypes DEF Raise, Record
        <5> QED
          BY <3>5, <4>1, <4>2, <5>1, UpdateTypes DEF Raise, Record
      <4>3. CASE op[p].turn \notin Turns
        <5>1. op[p].turn = 0
          BY <2>0, <4>3 DEF Turns
        <5>2. turn' = turn
          BY <3>5, <4>3 DEF Raise, Record, Update
        <5>3. session' = session
          BY <3>5, <5>1 DEF Raise, Record, Update, SessionRow
        <5> QED
          BY <3>5, <4>1, <5>2, <5>3 DEF Raise, Record
      <4> QED
        BY <4>2, <4>3
    <3>6. CASE Reply(p)
      BY <2>0, <3>0, <3>6, OperationTypes DEF Reply
    <3>7. CASE Answered(p) \/ Swept(p)
      BY <2>0, <3>0, <3>7, OperationTypes DEF Answered, Swept
    <3>8. ASSUME NEW k \in Turns, Sweep(p, k) PROVE SessionTypeOK'
      <4>1. [pc |-> "clean", turn |-> k, todo |-> op[p].todo \ {k}] \in Operation
        BY <2>0 DEF Operation, Places
      <4>2. op' \in [Procs -> Operation]
        BY <3>8, <4>1 DEF Sweep
      <4> QED
        BY <3>8, <4>2, RowTypes, UpdateTypes DEF Sweep
    <3>9. CASE Erase(p)
      <4>1. run' \in [Turns -> Evidence]
        BY <3>9, EvidenceTypes DEF Erase, RunStates
      <4>2. op' \in [Procs -> Operation]
        BY <2>0, <3>0, <3>9, OperationTypes DEF Erase
      <4> QED
        BY <3>9, <4>1, <4>2 DEF Erase
    <3>10. CASE Refuse(p)
      <4>1. [pc |-> "sweep", turn |-> 0, todo |-> op[p].todo] \in Operation
        BY <2>0 DEF Operation, Places
      <4>2. Resting \in Operation
        BY <2>0 DEF Operation, Places, Resting
      <4>3. op' \in [Procs -> Operation]
        BY <3>10, <4>1, <4>2 DEF Refuse, LeftToSweep
      <4> QED
        BY <3>10, <4>3 DEF Refuse
    <3>11. CASE Drop(p)
      <4>1. [op[p] EXCEPT !.pc = "sweep", !.turn = 0] \in Operation
        BY <2>0 DEF Operation, Places
      <4>2. op' \in [Procs -> Operation]
        BY <3>11, <4>1 DEF Drop
      <4>3. [NoRow EXCEPT !.status = "dropped"] \in Row
        BY DEF NoRow, Row, TurnStates, Missing
      <4> QED
        BY <3>11, <4>2, <4>3 DEF Drop
    <3>12. ASSUME NEW s \in Sources, Provide(p, s) PROVE SessionTypeOK'
      <4> DEFINE k == op[p].turn
      <4>1. CASE k \in Turns
        <5>1. [turn[k] EXCEPT !.sources = turn[k].sources \cup {s}] \in Row
          BY <4>1 DEF Row
        <5>2. turn' \in [Turns -> Row]
          BY <3>12, <5>1 DEF Provide
        <5> QED
          BY <3>12, <4>1, <5>2 DEF Provide
      <4>2. CASE k \notin Turns
        BY <3>12, <4>2 DEF Provide
      <4> QED
        BY <4>1, <4>2
    <3>13. ASSUME NEW s \in Sources, ReadSource(p, s) PROVE SessionTypeOK'
      <4> DEFINE k == op[p].turn
      <4>0. {s} \in SUBSET Sources /\ "none" \in RunStates
            /\ run' = [run EXCEPT ![k].read = @ \cup {s}]
        BY <3>13 DEF ReadSource, RunStates
      <4> HIDE DEF k
      <4>1. run' \in [Turns -> Evidence]
        BY <4>0, EvidenceTypes
      <4> QED
        BY <3>13, <4>1 DEF ReadSource
    <3> QED
      BY <2>5, <3>1, <3>2, <3>3, <3>4, <3>5, <3>6, <3>7, <3>8, <3>9, <3>10, <3>11, <3>12, <3>13
         DEF Work
  <2>6. ASSUME NEW p \in Procs, Crash(p) PROVE SessionTypeOK'
    <3>1. op' \in [Procs -> Operation]
      BY <2>0, <2>6, OperationTypes DEF Crash, Places
    <3> QED
      BY <2>6, <3>1 DEF Crash
  <2>7. ASSUME NEW p \in Procs, NEW k \in Turns, Replay(p, k) PROVE SessionTypeOK'
    <3>1. op' \in [Procs -> Operation]
      BY <2>0, <2>7, OperationTypes DEF Replay, Places
    <3> QED
      BY <2>7, <3>1, RowTypes, UpdateTypes DEF Replay
  <2>8. ASSUME NEW p \in Procs, NEW k \in Turns, Resume(p, k) PROVE SessionTypeOK'
    <3>1. op' \in [Procs -> Operation]
      BY <2>0, <2>8, OperationTypes DEF Resume, Places
    <3>2. run' \in [Turns -> Evidence]
      BY <2>8, EvidenceTypes DEF Resume, RunStates
    <3>3. turn' \in [Turns -> Row] /\ session' \in SessionRow
      BY <2>8, RowTypes, UpdateTypes DEF Resume
    <3> QED
      BY <2>8, <3>1, <3>2, <3>3 DEF Resume
  <2>9. ASSUME NEW p \in Procs, NEW k \in Turns, DeleteTurn(p, k) PROVE SessionTypeOK'
    <3>1. op' \in [Procs -> Operation]
      BY <2>0, <2>9, OperationTypes DEF DeleteTurn, Places
    <3> QED
      BY <2>9, <3>1, RowTypes, UpdateTypes DEF DeleteTurn
  <2>10. ASSUME NEW r \in Readers, NEW k \in Turns, Load(r, k) PROVE SessionTypeOK'
    BY <2>0, <2>10 DEF Load
  <2>11. ASSUME NEW r \in Readers, Show(r) PROVE SessionTypeOK'
    BY <2>0, <2>11 DEF Show, NoView, NoRow, Row, TurnStates, Missing
  <2>12. CASE UNCHANGED sessionVars
    BY <2>12 DEF sessionVars
  <2> QED
    BY <2>1, <2>2, <2>3, <2>4, <2>5, <2>6, <2>7, <2>8, <2>9, <2>10, <2>11, <2>12 DEF SessionNext
<1> QED
  BY <1>1, <1>2, PTL DEF SessionSpec

-----------------------------------------------------------------------------
(* One turn at a time.                                                     *)

\* A row is written whose status agrees with the run and with the session.
LEMMA UpdateKeepsRows ==
  ASSUME SessionTypeOK, RowsAgree, NEW k \in Turns, NEW row \in Row, Update(k, row),
         run' = run, row.status # "none",
         session.status # "deleted" =>
           /\ row.status \in UnderWay => k = session.active
           /\ run[k].status \in UnderWay /\ row.status # "deleted" => row.status \in UnderWay
  PROVE  /\ RowsAgree'
         /\ session'.status = session.status
         /\ session'.active \in {session.active, 0}
         /\ session.active = k /\ row.status \notin UnderWay => session'.active = 0
         /\ session.active = k /\ row.status \in UnderWay => session'.active = k
         /\ turn' = [turn EXCEPT ![k] = row]
<1>1. turn' = [turn EXCEPT ![k] = row]
  BY DEF Update
<1>2. /\ session'.status = session.status
      /\ session'.active = IF session.active = k /\ row.status \notin UnderWay THEN 0
                           ELSE session.active
  BY DEF Update, SessionTypeOK, SessionRow
<1>3. k # 0 /\ \A j \in Turns : j # 0
  BY SessionConstants DEF Turns
<1>4. turn'[k] = row /\ \A j \in Turns \ {k} : turn'[j] = turn[j]
  BY <1>1 DEF SessionTypeOK
<1>5. RowsAgree'
  BY <1>2, <1>3, <1>4 DEF RowsAgree
<1> QED
  BY <1>1, <1>2, <1>5

\* Whoever acts under the lock is the only one in an operation.
LEMMA HolderActs ==
  ASSUME SessionTypeOK, OneHolder, NEW p \in Procs, LockFree \/ op[p].pc # "idle",
         NEW o, op' = [op EXCEPT ![p] = o], Placed(p)'
  PROVE  OneHolder' /\ \A q \in Procs : Placed(q)'
<1>1. \A q \in Procs \ {p} : op[q].pc = "idle"
  BY DEF OneHolder, LockFree, At
<1>2. \A q \in Procs \ {p} : op'[q].pc = "idle"
  BY <1>1 DEF SessionTypeOK
<1>3. OneHolder'
  BY <1>2 DEF OneHolder
<1>4. \A q \in Procs \ {p} : Placed(q)'
  BY <1>2 DEF Placed
<1> QED
  BY <1>3, <1>4

\* The three ways an operation moves.
LEMMA Moves ==
  ASSUME SessionTypeOK, OneHolder, NEW p \in Procs, LockFree \/ op[p].pc # "idle",
         NEW place, NEW k, Go(p, place) \/ Take(p, place, k) \/ Return(p), Placed(p)'
  PROVE  OneHolder' /\ \A q \in Procs : Placed(q)'
<1>1. PICK o : op' = [op EXCEPT ![p] = o]
  BY DEF Go, Take, Return
<1> QED
  BY <1>1, HolderActs

\* Where it moves to.
LEMMA MovedTo ==
  ASSUME SessionTypeOK, NEW p \in Procs, NEW place, NEW k
  PROVE  /\ Go(p, place) => op'[p].pc = place /\ op'[p].turn = op[p].turn
         /\ Take(p, place, k) => op'[p].pc = place /\ op'[p].turn = k
         /\ Return(p) => op'[p].pc = "idle"
<1>1. op[p] \in Operation
  BY DEF SessionTypeOK
<1> QED
  BY <1>1 DEF SessionTypeOK, Operation, Go, Take, Return, Resting

\* What an operation writes of a turn agrees with its run and with the session.
LEMMA WrittenRows ==
  ASSUME SessionTypeOK, RowsAgree, NEW k \in Turns, session.status # "deleted",
         turn[k].status # "none"
  PROVE  /\ /\ ReconciledRow(k).status # "none"
            /\ ReconciledRow(k).status \in UnderWay => k = session.active
            /\ run[k].status \in UnderWay /\ ReconciledRow(k).status # "deleted"
                 => ReconciledRow(k).status \in UnderWay
         /\ turn[k].status # "deleted" =>
              /\ AfterException(k).status # "none"
              /\ AfterException(k).status \in UnderWay => k = session.active
              /\ run[k].status \in UnderWay => AfterException(k).status \in UnderWay
         /\ ResultRow(k).status = run[k].status
<1> USE DEF SessionTypeOK, Row, Evidence
<1>1. turn[k] \in Row /\ run[k] \in Evidence
  OBVIOUS
<1>2. ResultRow(k).status = run[k].status
  BY <1>1 DEF ResultRow
<1>3. Found(k) => ReconciledRow(k).status = IF turn[k].status \in UnderWay THEN run[k].status
                                            ELSE turn[k].status
  BY <1>2 DEF ReconciledRow
<1>4. ~Found(k) => ReconciledRow(k).status = turn[k].status
  BY DEF ReconciledRow
<1>5. AfterException(k).status = IF Found(k) THEN run[k].status ELSE "failed"
  BY <1>1, <1>2 DEF AfterException
<1> QED
  BY <1>2, <1>3, <1>4, <1>5 DEF RowsAgree, Found, UnderWay

\* submit() and close() leave no active turn, or go no further.
LEMMA FinishActiveKeeps ==
  ASSUME SessionTypeOK, SessionInvariant, NEW p \in Procs, NEW place \in {"insert", "close"},
         LockFree, session.status = "open", FinishActive(p, place), run' = run
  PROVE  SessionInvariant'
<1> USE DEF SessionInvariant
<1>1. RowsAgree' /\ session'.status = "open"
  <2>1. CASE session.active = 0
    BY <2>1 DEF FinishActive, RowsAgree
  <2>2. CASE session.active # 0
    <3>1. session.active \in Turns
      BY <2>2 DEF Turns, SessionTypeOK, SessionRow
    <3>2. turn[session.active].status # "none"
      BY <3>1 DEF RowsAgree, UnderWay
    <3> QED
      BY <2>2, <3>1, <3>2, RowTypes, WrittenRows, UpdateKeepsRows DEF FinishActive
  <2> QED
    BY <2>1, <2>2
<1>2. Placed(p)'
  BY <1>1, MovedTo DEF FinishActive, Placed
<1> QED
  BY <1>1, <1>2, Moves DEF FinishActive

\* The invariant is inductive.
LEMMA InvariantKept ==
  ASSUME SessionTypeOK, SessionInvariant, [SessionNext]_sessionVars
  PROVE  SessionInvariant'
<1> USE DEF SessionInvariant
<1>0. \A k \in Turns : turn[k] \in Row /\ run[k] \in Evidence
  BY DEF SessionTypeOK
<1>1. CASE Create
  BY <1>1 DEF Create, RowsAgree, OneHolder, Placed, LockFree, At, SessionTypeOK, SessionRow
<1>2. ASSUME NEW s \in Sources, Withdraw(s) PROVE SessionInvariant'
  BY <1>2 DEF Withdraw, RowsAgree, OneHolder, Placed
<1>3. ASSUME NEW p \in Procs, Submit(p) PROVE SessionInvariant'
  BY <1>3, FinishActiveKeeps DEF Submit
<1>4. ASSUME NEW p \in Procs, Close(p) PROVE SessionInvariant'
  BY <1>4, FinishActiveKeeps DEF Close
<1>5. ASSUME NEW p \in Procs, DeleteSession(p) PROVE SessionInvariant'
  <2>1. session'.status = "deleted" /\ turn' = turn /\ run' = run
    BY <1>5 DEF DeleteSession, SessionTypeOK, SessionRow
  <2>2. PICK rows : op' = [op EXCEPT ![p] = [pc |-> "sweep", turn |-> 0, todo |-> rows]]
    BY <1>5 DEF DeleteSession
  <2>3. RowsAgree'
    BY <2>1 DEF RowsAgree
  <2>4. Placed(p)'
    BY <2>1, <2>2 DEF Placed, SessionTypeOK
  <2> QED
    BY <1>5, <2>2, <2>3, <2>4, HolderActs DEF DeleteSession
<1>6. ASSUME NEW p \in Procs, Work(p) PROVE SessionInvariant'
  <2> DEFINE t == op[p].turn
  <2>1. ASSUME NEW k \in Turns, Insert(p, k) PROVE SessionInvariant'
    <3>1. op[p].pc = "insert" /\ session.status = "open" /\ session.active = 0 /\ run' = run
      BY <2>1 DEF Insert, At, Placed
    <3>2. CASE \A a \in History(k) : Sound(a)
      <4>1. /\ turn'[k].status = "starting"
            /\ \A j \in Turns \ {k} : turn'[j] = turn[j]
            /\ session'.active = k /\ session'.status = "open"
            /\ Take(p, "provide", k)
        BY <2>1, <3>1, <3>2 DEF Insert, SessionTypeOK, SessionRow
      <4>2. run[k].status = "none" /\ \A j \in Turns : j # 0
        BY <2>1, SessionConstants DEF Insert, RowsAgree, Turns
      <4>3. RowsAgree'
        BY <3>1, <4>1, <4>2 DEF RowsAgree, UnderWay
      <4>4. Placed(p)'
        BY <3>1, <4>1, <4>2, MovedTo DEF Placed
      <4> QED
        BY <3>1, <4>1, <4>3, <4>4, Moves
    <3>3. CASE ~\A a \in History(k) : Sound(a)
      <4>1. Return(p) /\ UNCHANGED <<turn, session, run>>
        BY <2>1, <3>3 DEF Insert
      <4> QED
        BY <3>1, <4>1, MovedTo, Moves DEF RowsAgree, Placed
    <3> QED
      BY <3>2, <3>3
  <2>2. CASE SaveClosed(p)
    <3>1. op[p].pc = "close" /\ session.active = 0
      BY <2>2 DEF SaveClosed, At, Placed
    <3>2. session'.active = 0 /\ session'.status = "closed" /\ turn' = turn /\ run' = run
      BY <2>2, <3>1 DEF SaveClosed, SessionTypeOK, SessionRow
    <3>3. session.status = "open"
      BY <3>1 DEF Placed
    <3>4. RowsAgree'
      BY <3>1, <3>2, <3>3 DEF RowsAgree
    <3>5. Return(p) /\ Placed(p)'
      BY <2>2, MovedTo DEF SaveClosed, Placed
    <3> QED
      BY <3>1, <3>4, <3>5, Moves
  <2>3. CASE Compile(p)
    <3>1. op[p].pc = "provide" /\ t \in Turns /\ session.status = "open" /\ session.active = t
      BY <2>3 DEF Compile, At, Placed
    <3>2. /\ run'[t].status = "running" /\ \A j \in Turns \ {t} : run'[j] = run[j]
          /\ turn' = turn /\ session' = session /\ Go(p, "work")
      BY <1>0, <2>3, <3>1 DEF Compile, SessionTypeOK, Evidence
    <3>3. RowsAgree'
      BY <3>1, <3>2 DEF RowsAgree, UnderWay
    <3>4. Placed(p)'
      BY <3>1, <3>2, MovedTo DEF Placed
    <3> QED
      BY <3>1, <3>2, <3>3, <3>4, Moves
  <2>4. CASE EndRun(p)
    <3>1. op[p].pc = "work" /\ t \in Turns /\ session.status = "open" /\ session.active = t
      BY <2>4 DEF EndRun, At, Placed
    <3>2. turn[t].status \in UnderWay
      BY <3>1 DEF RowsAgree
    <3>3. /\ run'[t].status \in {"succeeded", "failed", "awaiting_approval"}
          /\ \A j \in Turns \ {t} : run'[j] = run[j]
          /\ turn' = turn /\ session' = session /\ Go(p, "record")
      BY <1>0, <2>4, <3>1 DEF EndRun, SessionTypeOK, Evidence
    <3>4. RowsAgree'
      BY <3>1, <3>2, <3>3 DEF RowsAgree, UnderWay
    <3>5. op'[p].pc = "record" /\ op'[p].turn = t
      BY <3>3, MovedTo
    <3>6. turn'[t].status \notin {"none", "deleted"} /\ session'.active = t
          /\ session'.status = "open"
      BY <3>1, <3>2, <3>3 DEF UnderWay
    <3> HIDE DEF t
    <3>7. Placed(p)'
      BY <3>1, <3>3, <3>5, <3>6 DEF Placed
    <3> QED
      BY <3>1, <3>3, <3>4, <3>7, Moves
  <2>5. CASE Raise(p)
    <3>1. /\ op[p].pc \in {"provide", "work"} /\ t \in Turns
          /\ session.status = "open" /\ session.active = t
      BY <2>5 DEF Raise, Placed
    <3>2. turn[t].status \in UnderWay
      BY <3>1 DEF RowsAgree
    <3>3. RowsAgree'
      BY <2>5, <3>1, <3>2, RowTypes, WrittenRows, UpdateKeepsRows DEF Raise, UnderWay
    <3>4. Return(p) /\ Placed(p)'
      BY <2>5, MovedTo DEF Raise, Placed
    <3> QED
      BY <3>1, <3>3, <3>4, Moves
  <2>6. CASE Record(p)
    <3>1. /\ op[p].pc = "record" /\ t \in Turns /\ session.status = "open"
          /\ turn[t].status \notin {"none", "deleted"}
          /\ run[t].status \in {"succeeded", "failed", "awaiting_approval"}
          /\ run[t].status = "awaiting_approval" => session.active = t
      BY <2>6 DEF Record, At, Placed
    <3>2. RowsAgree'
      BY <2>6, <3>1, RowTypes, WrittenRows, UpdateKeepsRows DEF Record, UnderWay
    <3>3. Go(p, "reply") /\ Placed(p)'
      <4>1. Go(p, "reply") /\ op'[p].pc = "reply" /\ op'[p].turn = t
        BY <2>6, MovedTo DEF Record
      <4> QED
        BY <3>1, <4>1 DEF Placed
    <3> QED
      BY <3>1, <3>2, <3>3, Moves
  <2>7. CASE Reply(p) \/ Answered(p) \/ Swept(p)
    <3>1. UNCHANGED <<session, turn, run>> /\ op[p].pc # "idle"
      BY <2>7 DEF Reply, Answered, Swept, At
    <3>2. (op[p].pc = "reply" /\ Go(p, "shown")) \/ Return(p)
      BY <2>7 DEF Reply, Answered, Swept, At
    <3>3. Placed(p)'
      BY <3>2, MovedTo DEF Placed
    <3>4. RowsAgree'
      BY <3>1 DEF RowsAgree
    <3> QED
      BY <3>1, <3>2, <3>3, <3>4, Moves
  <2>8. ASSUME NEW k \in Turns, Sweep(p, k) PROVE SessionInvariant'
    <3>1. op[p].pc = "sweep" /\ session.status = "deleted"
      BY <2>8 DEF Sweep, At, Placed
    <3>2. /\ RowsAgree' /\ session'.status = "deleted"
          /\ turn'[k].status = "deleted"
      <4>1. Tombstone \in Row /\ Tombstone.status = "deleted" /\ Update(k, Tombstone) /\ run' = run
        BY <2>8, RowTypes DEF Sweep, Tombstone
      <4> QED
        BY <3>1, <4>1, UpdateKeepsRows DEF SessionTypeOK
    <3>3. op' = [op EXCEPT ![p] = [pc |-> "clean", turn |-> k, todo |-> op[p].todo \ {k}]]
      BY <2>8 DEF Sweep
    <3>4. Placed(p)'
      BY <3>2, <3>3 DEF Placed, SessionTypeOK
    <3> QED
      BY <3>1, <3>2, <3>3, <3>4, HolderActs
  <2>9. CASE Erase(p)
    <3>1. op[p].pc \in {"erase", "clean"} /\ t \in Turns /\ turn[t].status = "deleted"
      BY <2>9 DEF Erase, Placed
    <3>2. /\ run'[t].status = "deleted" /\ \A j \in Turns \ {t} : run'[j] = run[j]
          /\ turn' = turn /\ session' = session
      BY <2>9, <3>1 DEF Erase, SessionTypeOK
    <3>3. RowsAgree'
      BY <3>1, <3>2 DEF RowsAgree, UnderWay
    <3>4. (op[p].pc = "clean" /\ Go(p, "drop")) \/ Return(p)
      BY <2>9 DEF Erase, At
    <3>5. Placed(p)'
      BY <3>1, <3>2, <3>4, MovedTo DEF Placed
    <3> QED
      BY <3>1, <3>3, <3>4, <3>5, Moves
  <2>10. CASE Refuse(p)
    <3>1. op[p].pc \in {"erase", "clean"} /\ UNCHANGED <<session, turn, run>>
      BY <2>10 DEF Refuse
    <3>2. PICK o : /\ op' = [op EXCEPT ![p] = o]
                   /\ o.pc \in {"idle", "sweep"}
                   /\ o.pc = "sweep" => op[p].pc = "clean"
      <4>1. CASE op[p].pc = "erase"
        <5>1. op' = [op EXCEPT ![p] = Resting]
          BY <2>10, <4>1 DEF Refuse, At
        <5>2. Resting.pc = "idle"
          BY DEF Resting
        <5> QED
          BY <5>1, <5>2
      <4>2. CASE op[p].pc = "clean"
        <5>1. op' = [op EXCEPT ![p] = [pc |-> "sweep", turn |-> 0, todo |-> LeftToSweep(op[p].todo)]]
          BY <2>10, <4>2 DEF Refuse, At
        <5> QED
          BY <4>2, <5>1
      <4> QED
        BY <3>1, <4>1, <4>2
    <3>3. Placed(p)'
      BY <3>1, <3>2 DEF Placed, SessionTypeOK
    <3>4. RowsAgree'
      BY <3>1 DEF RowsAgree
    <3> QED
      BY <3>1, <3>2, <3>3, <3>4, HolderActs
  <2>11. CASE Drop(p)
    <3>1. op[p].pc = "drop" /\ t \in Turns /\ session.status = "deleted"
      BY <2>11 DEF Drop, At, Placed
    <3>2. /\ turn'[t].status = "dropped" /\ \A j \in Turns \ {t} : turn'[j] = turn[j]
          /\ run' = run /\ session' = session
      BY <2>11, <3>1 DEF Drop, SessionTypeOK, NoRow
    <3>3. RowsAgree'
      BY <3>1, <3>2 DEF RowsAgree
    <3>4. PICK o : op' = [op EXCEPT ![p] = o] /\ o.pc = "sweep"
      <4>1. op' = [op EXCEPT ![p] = [op[p] EXCEPT !.pc = "sweep", !.turn = 0]]
        BY <2>11 DEF Drop
      <4>2. [op[p] EXCEPT !.pc = "sweep", !.turn = 0].pc = "sweep"
        BY DEF SessionTypeOK, Operation
      <4> QED
        BY <4>1, <4>2
    <3>5. Placed(p)'
      BY <3>1, <3>2, <3>4 DEF Placed, SessionTypeOK
    <3> QED
      BY <3>1, <3>3, <3>4, <3>5, HolderActs
  <2>12. ASSUME NEW s \in Sources, Provide(p, s) PROVE SessionInvariant'
    <3>1. op[p].pc = "provide" /\ t \in Turns
      BY <2>12 DEF Provide, At, Placed
    <3>2. UNCHANGED <<session, run, op>> /\ \A j \in Turns : turn'[j].status = turn[j].status
      BY <1>0, <2>12, <3>1 DEF Provide, SessionTypeOK, Row
    <3> QED
      BY <3>2 DEF RowsAgree, OneHolder, Placed
  <2>13. ASSUME NEW s \in Sources, ReadSource(p, s) PROVE SessionInvariant'
    <3>1. op[p].pc = "work" /\ t \in Turns
      BY <2>13 DEF ReadSource, At, Placed
    <3>2. UNCHANGED <<session, turn, op>> /\ \A j \in Turns : run'[j].status = run[j].status
      BY <1>0, <2>13, <3>1 DEF ReadSource, SessionTypeOK, Evidence
    <3> QED
      BY <3>2 DEF RowsAgree, OneHolder, Placed
  <2> QED
    BY <1>6, <2>1, <2>2, <2>3, <2>4, <2>5, <2>6, <2>7, <2>8, <2>9, <2>10, <2>11, <2>12, <2>13
       DEF Work
<1>7. ASSUME NEW p \in Procs, Crash(p) PROVE SessionInvariant'
  <2>1. UNCHANGED <<session, turn, run>> /\ Return(p) /\ op[p].pc # "idle"
    BY <1>7 DEF Crash
  <2>2. RowsAgree' /\ Placed(p)'
    BY <2>1, MovedTo DEF RowsAgree, Placed
  <2> QED
    BY <2>1, <2>2, Moves
<1>8. ASSUME NEW p \in Procs, NEW k \in Turns, Replay(p, k) PROVE SessionInvariant'
  <2>1. RowsAgree'
    BY <1>8, RowTypes, WrittenRows, UpdateKeepsRows DEF Replay, Missing
  <2>2. Take(p, "shown", k) /\ Placed(p)'
    BY <1>8, MovedTo DEF Replay, Placed
  <2> QED
    BY <1>8, <2>1, <2>2, Moves DEF Replay
<1>9. ASSUME NEW p \in Procs, NEW k \in Turns, Resume(p, k) PROVE SessionInvariant'
  <2>0. LockFree /\ session.status = "open" /\ turn[k].status \notin {"none", "deleted"}
    BY <1>9 DEF Resume, SoundCopy, Vouched, Missing
  <2>1. CASE /\ run[k].status = "none" /\ turn[k].status = "starting"
             /\ Take(p, "provide", k)
             /\ UNCHANGED <<session, turn, run>>
    <3>1. session.active = k
      BY <2>0, <2>1 DEF RowsAgree, UnderWay
    <3>2. RowsAgree' /\ Placed(p)'
      BY <2>0, <2>1, <3>1, MovedTo DEF RowsAgree, Placed
    <3> QED
      BY <2>0, <2>1, <3>2, Moves
  <2>2. CASE Update(k, AfterException(k)) /\ Return(p) /\ UNCHANGED run
    <3>1. RowsAgree'
      BY <2>0, <2>2, RowTypes, WrittenRows, UpdateKeepsRows
    <3>2. Placed(p)'
      BY <2>2, MovedTo DEF Placed
    <3> QED
      BY <2>0, <2>2, <3>1, <3>2, Moves
  <2>3. CASE /\ run[k].status \in {"succeeded", "failed"}
             /\ Take(p, "record", k)
             /\ UNCHANGED <<session, turn, run>>
    <3>1. RowsAgree' /\ Placed(p)'
      BY <2>0, <2>3, MovedTo DEF RowsAgree, Placed
    <3> QED
      BY <2>0, <2>3, <3>1, Moves
  <2>4. CASE /\ run[k].status \in {"running", "awaiting_approval"}
             /\ run' = [run EXCEPT ![k].status = "running"]
             /\ Take(p, "work", k)
             /\ UNCHANGED <<session, turn>>
    <3>1. session.active = k
      BY <2>0, <2>4 DEF RowsAgree, UnderWay
    <3>2. run'[k].status = "running" /\ \A j \in Turns \ {k} : run'[j] = run[j]
      BY <1>0, <2>4 DEF SessionTypeOK, Evidence
    <3>3. RowsAgree'
      BY <2>0, <2>4, <3>1, <3>2 DEF RowsAgree
    <3>4. Placed(p)'
      BY <2>0, <2>4, <3>1, <3>2, MovedTo DEF Placed
    <3> QED
      BY <2>0, <2>4, <3>3, <3>4, Moves
  <2> QED
    BY <1>9, <2>1, <2>2, <2>3, <2>4 DEF Resume
<1>10. ASSUME NEW p \in Procs, NEW k \in Turns, DeleteTurn(p, k) PROVE SessionInvariant'
  <2>1. RowsAgree' /\ turn'[k].status = "deleted"
    <3>1. Tombstone \in Row /\ Tombstone.status = "deleted" /\ Update(k, Tombstone) /\ run' = run
      BY <1>10, RowTypes DEF DeleteTurn, Tombstone
    <3> QED
      BY <3>1, UpdateKeepsRows DEF SessionTypeOK, UnderWay
  <2>2. Take(p, "erase", k) /\ Placed(p)'
    BY <1>10, <2>1, MovedTo DEF DeleteTurn, Placed
  <2> QED
    BY <1>10, <2>1, <2>2, Moves DEF DeleteTurn
<1>11. ASSUME NEW r \in Readers, Show(r) \/ \E k \in Turns : Load(r, k) PROVE SessionInvariant'
  BY <1>11 DEF Show, Load, RowsAgree, OneHolder, Placed
<1>12. CASE UNCHANGED sessionVars
  BY <1>12 DEF sessionVars, RowsAgree, OneHolder, Placed
<1> QED
  BY <1>1, <1>2, <1>3, <1>4, <1>5, <1>6, <1>7, <1>8, <1>9, <1>10, <1>11, <1>12 DEF SessionNext

\* SessionInvariant holds in every reachable state.
LEMMA InvariantHolds == SessionSpec => []SessionInvariant
<1>1. SessionInit => SessionInvariant
  BY SessionConstants DEF SessionInit, SessionInvariant, RowsAgree, OneHolder, Placed, NoRow, NoRun,
         Resting, UnderWay, Turns
<1>2. SessionTypeOK /\ SessionInvariant /\ [SessionNext]_sessionVars => SessionInvariant'
  BY InvariantKept
<1> QED
  BY <1>1, <1>2, TypeCorrect, PTL DEF SessionSpec

\* Never two turns of a session under way, whatever crashes and exceptions leave
\* behind: the property of the run, for any number of turns and processes.
THEOREM OneTurn == SessionSpec => []OneTurnUnderWay
<1>1. SessionTypeOK /\ SessionInvariant => OneTurnUnderWay
  <2> SUFFICES ASSUME SessionTypeOK, RowsAgree PROVE OneTurnUnderWay
    BY DEF SessionInvariant
  <2>1. session.active = 0 \/ session.active \in Turns
    BY DEF SessionTypeOK, SessionRow, Turns
  <2>2. \A k \in Turns : k # 0
    BY SessionConstants DEF Turns
  <2> QED
    BY <2>1, <2>2 DEF RowsAgree, OneTurnUnderWay
<1> QED
  BY <1>1, InvariantHolds, TypeCorrect, PTL

-----------------------------------------------------------------------------
(* What is used is current.                                                *)

\* A turn is there: it was submitted, and neither it nor the session was deleted.
Alive(row) == row.status \notin Missing \cup {"deleted"}

\* A row that is validated together with its history rests on nothing that is gone,
\* however far back: the first turn that did would have named what it rests on, or
\* have it from an earlier one.
LEMMA SoundIsCurrent ==
  ASSUME SessionTypeOK, TextsAccounted, NEW k \in Turns, Sound(k)
  PROVE  rests[k] \cap Gone = {}
<1>1. PICK done \in SUBSET Turns :
        k \in done /\ \A n \in done : Vouched(n, turn[n]) /\ turn[n].history \subseteq done
  BY DEF Sound
<1> DEFINE Bad == {n \in done : rests[n] \cap Gone # {}}
<1>2. SUFFICES ASSUME Bad # {} PROVE FALSE
  BY <1>1
<1>3. PICK n \in Bad : \A m \in Bad : n <= m
  <2>1. Bad \subseteq Nat
    BY DEF Turns
  <2> HIDE DEF Bad
  <2> QED
    BY <1>2, <2>1, Least
<1>4. /\ n \in Turns /\ Vouched(n, turn[n])
      /\ turn[n].history \subseteq done /\ turn[n].history \subseteq 1..(n - 1)
      /\ Accounted(rests[n], n, turn[n])
  BY <1>1, <1>3 DEF TextsAccounted, TurnAccounted, Vouched
<1>5. PICK x \in rests[n] : x \in Gone
  BY <1>3
<1>6. \A m \in Turns : m \notin withdrawn
  BY SessionConstants DEF SessionTypeOK
<1>7. x # n
  BY <1>4, <1>5, <1>6 DEF Gone, Vouched
<1>8. x \notin Named(n, turn[n])
  <2>1. Named(n, turn[n]) \subseteq Sources
    BY <1>4 DEF Named, SessionTypeOK, Row, Evidence
  <2>2. Named(n, turn[n]) \cap withdrawn = {}
    BY <1>4 DEF Vouched
  <2> QED
    BY <1>5, <2>1, <2>2, SessionConstants DEF Gone
<1>9. PICK a \in turn[n].history : x \in rests[a]
  BY <1>4, <1>5, <1>7, <1>8 DEF Accounted
<1>10. a \in Bad /\ a < n
  BY <1>4, <1>5, <1>9 DEF Turns
<1> QED
  BY <1>3, <1>4, <1>10 DEF Turns

\* The same of a row that was read earlier.
LEMMA SoundCopyIsCurrent ==
  ASSUME SessionTypeOK, TextsAccounted, NEW k \in Turns, NEW row \in Row, NEW text,
         Accounted(text, k, row), SoundCopy(k, row)
  PROVE  text \cap Gone = {}
<1>1. SUFFICES ASSUME NEW x \in text, x \in Gone PROVE FALSE
  OBVIOUS
<1>2. row.history \subseteq Turns /\ row.sources \subseteq Sources /\ run[k].read \subseteq Sources
  BY DEF SessionTypeOK, Row, Evidence
<1>3. x # k
  BY <1>1, SessionConstants DEF Gone, SoundCopy, Vouched, SessionTypeOK
<1>4. x \notin Named(k, row)
  BY <1>1, <1>2, SessionConstants DEF Gone, SoundCopy, Vouched, Named
<1>5. PICK a \in row.history : x \in rests[a]
  BY <1>1, <1>3, <1>4 DEF Accounted
<1> QED
  BY <1>1, <1>2, <1>5, SoundIsCurrent DEF SoundCopy

\* A turn that is validated as its row is now is sound.
LEMMA CopyOfItself ==
  ASSUME SessionTypeOK, NEW k \in Turns, SoundCopy(k, turn[k]) PROVE Sound(k)
<1> DEFINE Closed(done) == \A n \in done : Vouched(n, turn[n]) /\ turn[n].history \subseteq done
           all == {n \in Turns : Sound(n)} \cup {k}
<1>1. ASSUME NEW n \in Turns, Sound(n) PROVE Vouched(n, turn[n]) /\ turn[n].history \subseteq all
  <2>1. PICK done \in SUBSET Turns : n \in done /\ Closed(done)
    BY <1>1 DEF Sound
  <2>2. \A m \in done : Sound(m)
    BY <2>1 DEF Sound
  <2> QED
    BY <2>1, <2>2
<1>2. Vouched(k, turn[k]) /\ turn[k].history \subseteq all
  BY DEF SoundCopy, SessionTypeOK, Row
<1>3. all \in SUBSET Turns /\ k \in all /\ Closed(all)
  BY <1>1, <1>2
<1> QED
  BY <1>3 DEF Sound

\* A process that goes on, begins or returns has another operation, at that place.
LEMMA NewOperation ==
  ASSUME SessionTypeOK, NEW p \in Procs, NEW place, NEW k,
         Go(p, place) \/ Take(p, place, k) \/ (Return(p) /\ place = "idle")
  PROVE  \E o : op' = [op EXCEPT ![p] = o] /\ o.pc = place
<1>1. CASE Go(p, place)
  <2>1. op' = [op EXCEPT ![p] = [op[p] EXCEPT !.pc = place]]
    BY <1>1 DEF Go
  <2>2. [op[p] EXCEPT !.pc = place].pc = place
    BY DEF SessionTypeOK, Operation
  <2> QED
    BY <2>1, <2>2
<1>2. CASE Take(p, place, k)
  <2>1. op' = [op EXCEPT ![p] = [pc |-> place, turn |-> k, todo |-> {}]]
    BY <1>2 DEF Take
  <2>2. [pc |-> place, turn |-> k, todo |-> {}].pc = place
    OBVIOUS
  <2> QED
    BY <2>1, <2>2
<1>3. CASE Return(p) /\ place = "idle"
  <2>1. op' = [op EXCEPT ![p] = Resting] /\ Resting.pc = "idle"
    BY <1>3 DEF Return, Resting
  <2> QED
    BY <1>3, <2>1
<1> QED
  BY <1>1, <1>2, <1>3

\* The text of a turn is used only where the turn was found sound.
LEMMA OnlySoundIsUsed ==
  ASSUME SessionTypeOK, SessionInvariant, [SessionNext]_sessionVars, NEW k \in Turns, Uses(k)
  PROVE  Sound(k)
<1> USE DEF SessionInvariant
<1>0. \A p \in Procs : op[p] \in Operation
  BY DEF SessionTypeOK
<1>1. ASSUME UNCHANGED op, \A j \in Turns : run'[j].status = run[j].status PROVE FALSE
  BY <1>1 DEF Uses
<1>2. ASSUME NEW p \in Procs, NEW o, op' = [op EXCEPT ![p] = o],
             o.pc # "shown", o.pc = "work" => op[p].pc # "idle",
             \A j \in Turns : run[j].status = "none" => run'[j].status # "running"
      PROVE  FALSE
  BY <1>2 DEF Uses, At, SessionTypeOK
<1>3. CASE Create \/ UNCHANGED sessionVars
  BY <1>1, <1>3 DEF Create, sessionVars
<1>4. ASSUME NEW s \in Sources, Withdraw(s) PROVE FALSE
  BY <1>1, <1>4 DEF Withdraw
<1>5. ASSUME NEW p \in Procs, Submit(p) \/ Close(p) PROVE FALSE
  <2>1. PICK place \in {"insert", "close"} : FinishActive(p, place)
    BY <1>5 DEF Submit, Close
  <2>2. run' = run
    BY <1>5 DEF Submit, Close
  <2>3. PICK o : op' = [op EXCEPT ![p] = o] /\ o.pc \in {"insert", "close", "idle"}
    <3>1. Take(p, place, 0) \/ Return(p)
      BY <2>1 DEF FinishActive
    <3> QED
      BY <3>1, NewOperation
  <2> QED
    BY <1>2, <2>2, <2>3
<1>6. ASSUME NEW p \in Procs, DeleteSession(p) PROVE FALSE
  <2>1. PICK o : op' = [op EXCEPT ![p] = o] /\ o.pc = "sweep" /\ run' = run
    BY <1>6 DEF DeleteSession
  <2> QED
    BY <1>2, <2>1
<1>7. ASSUME NEW p \in Procs, Crash(p) PROVE FALSE
  <2>1. PICK o : op' = [op EXCEPT ![p] = o] /\ o.pc = "idle" /\ run' = run
    BY <1>7 DEF Crash, Return, Resting
  <2> QED
    BY <1>2, <2>1
<1>8. ASSUME NEW p \in Procs, NEW j \in Turns, Replay(p, j) PROVE Sound(k)
  BY <1>8 DEF Replay, Uses, Take, At, SessionTypeOK
<1>9. ASSUME NEW p \in Procs, NEW j \in Turns, Resume(p, j) PROVE Sound(k)
  <2>1. k = j
    BY <1>9 DEF Resume, Uses, Take, Return, Resting, At, SessionTypeOK, Evidence
  <2> QED
    BY <1>9, <2>1, CopyOfItself DEF Resume
<1>10. ASSUME NEW p \in Procs, NEW j \in Turns, DeleteTurn(p, j) PROVE FALSE
  <2>1. PICK o : op' = [op EXCEPT ![p] = o] /\ o.pc = "erase" /\ run' = run
    BY <1>10 DEF DeleteTurn, Take
  <2> QED
    BY <1>2, <2>1
<1>11. ASSUME NEW r \in Readers, Show(r) \/ \E j \in Turns : Load(r, j) PROVE FALSE
  BY <1>1, <1>11 DEF Show, Load
<1>12. ASSUME NEW p \in Procs, Work(p) PROVE Sound(k)
  <2> DEFINE t == op[p].turn
  <2>0. op[p] \in Operation
    BY <1>0
  <2>1. CASE Compile(p)
    <3>1. /\ run' = [run EXCEPT ![t].status = "running"] /\ Go(p, "work")
          /\ At(p, "provide") /\ Sound(t)
      BY <2>1 DEF Compile, Rechecked
    <3>2. k = t
      BY <3>1 DEF Uses, Go, At, SessionTypeOK, Operation, Evidence
    <3> QED
      BY <3>1, <3>2
  <2>2. CASE Reply(p)
    <3>1. run' = run /\ IF Sound(t) THEN Go(p, "shown") ELSE Return(p)
      BY <2>2 DEF Reply
    <3>2. Sound(t) /\ Go(p, "shown")
      BY <3>1 DEF Uses, Return, Resting, SessionTypeOK
    <3>3. k = t
      BY <3>1, <3>2 DEF Uses, Go, SessionTypeOK, Operation
    <3> QED
      BY <3>2, <3>3
  <2>3. ASSUME NEW o, op' = [op EXCEPT ![p] = o], o.pc # "shown",
               o.pc = "work" => op[p].pc # "idle", run' = run
        PROVE  FALSE
    BY <1>2, <2>3
  <2>4. CASE SaveClosed(p) \/ Answered(p) \/ Swept(p) \/ Raise(p)
    <3>1. Return(p) /\ run' = run
      BY <2>4 DEF SaveClosed, Answered, Swept, Raise
    <3>2. PICK o : op' = [op EXCEPT ![p] = o] /\ o.pc = "idle"
      BY <3>1, NewOperation
    <3> QED
      BY <2>3, <3>1, <3>2
  <2>5. CASE EndRun(p)
    <3>1. PICK s \in {"succeeded", "failed", "awaiting_approval"} :
            run' = [run EXCEPT ![t].status = s]
      BY <2>5 DEF EndRun
    <3>2. \A j \in Turns : run[j].status = "none" => run'[j].status # "running"
      BY <3>1 DEF SessionTypeOK, Evidence
    <3>3. PICK o : op' = [op EXCEPT ![p] = o] /\ o.pc = "record"
      BY <2>5, NewOperation DEF EndRun
    <3> QED
      BY <1>2, <3>2, <3>3
  <2>6. CASE Record(p)
    <3>1. PICK o : op' = [op EXCEPT ![p] = o] /\ o.pc = "reply" /\ run' = run
      BY <2>6, NewOperation DEF Record
    <3> QED
      BY <2>3, <3>1
  <2>7. CASE Erase(p)
    <3>1. run' = [run EXCEPT ![t] = [status |-> "deleted", read |-> {}]]
      BY <2>7 DEF Erase
    <3>2. \A j \in Turns : run[j].status = "none" => run'[j].status # "running"
      BY <3>1 DEF SessionTypeOK
    <3>3. PICK o : op' = [op EXCEPT ![p] = o] /\ o.pc \in {"drop", "idle"}
      <4>1. Go(p, "drop") \/ Return(p)
        BY <2>7 DEF Erase
      <4> QED
        BY <4>1, NewOperation
    <3> QED
      BY <1>2, <3>2, <3>3
  <2>8. CASE Refuse(p)
    <3>1. CASE At(p, "erase")
      <4>1. op' = [op EXCEPT ![p] = Resting] /\ run' = run /\ Resting.pc = "idle"
        BY <2>8, <3>1 DEF Refuse, Resting
      <4> QED
        BY <2>3, <4>1
    <3>2. CASE ~At(p, "erase")
      <4>1. /\ op' = [op EXCEPT ![p] =
                      [pc |-> "sweep", turn |-> 0, todo |-> LeftToSweep(op[p].todo)]]
            /\ run' = run
        BY <2>8, <3>2 DEF Refuse
      <4>2. [pc |-> "sweep", turn |-> 0, todo |-> LeftToSweep(op[p].todo)].pc = "sweep"
        OBVIOUS
      <4> QED
        BY <2>3, <4>1, <4>2
    <3> QED
      BY <3>1, <3>2
  <2>9. CASE Drop(p)
    <3>1. PICK o : op' = [op EXCEPT ![p] = o] /\ o.pc = "sweep" /\ run' = run
      <4>1. op' = [op EXCEPT ![p] = [op[p] EXCEPT !.pc = "sweep", !.turn = 0]] /\ run' = run
        BY <2>9 DEF Drop
      <4>2. [op[p] EXCEPT !.pc = "sweep", !.turn = 0].pc = "sweep"
        BY <2>0 DEF Operation
      <4> QED
        BY <4>1, <4>2
    <3> QED
      BY <2>3, <3>1
  <2>10. ASSUME NEW j \in Turns, Insert(p, j) PROVE FALSE
    <3>1. PICK o : op' = [op EXCEPT ![p] = o] /\ o.pc \in {"provide", "idle"} /\ run' = run
      BY <2>10 DEF Insert, Take, Return, Resting
    <3> QED
      BY <2>3, <3>1
  <2>11. ASSUME NEW j \in Turns, Sweep(p, j) PROVE FALSE
    <3>1. PICK o : op' = [op EXCEPT ![p] = o] /\ o.pc = "clean" /\ run' = run
      BY <2>11 DEF Sweep
    <3> QED
      BY <2>3, <3>1
  <2>12. ASSUME NEW s \in Sources, Provide(p, s) PROVE FALSE
    BY <1>1, <2>12 DEF Provide
  <2>13. ASSUME NEW s \in Sources, ReadSource(p, s) PROVE FALSE
    <3>1. UNCHANGED op /\ \A j \in Turns : run'[j].status = run[j].status
      BY <2>13 DEF ReadSource, SessionTypeOK, Evidence
    <3> QED
      BY <1>1, <3>1
  <2> QED
    BY <1>12, <2>1, <2>2, <2>4, <2>5, <2>6, <2>7, <2>8, <2>9, <2>10, <2>11, <2>12, <2>13 DEF Work
<1> QED
  BY <1>3, <1>4, <1>5, <1>6, <1>7, <1>8, <1>9, <1>10, <1>11, <1>12 DEF SessionNext

-----------------------------------------------------------------------------
(* What a text rests on stays accounted for.                               *)

\* No text loses what it rests on, and no run the record of what its tools read, unless
\* its evidence is erased for good.
NothingForgotten ==
  \A j \in Turns :
    /\ rests[j] \subseteq rests'[j]
    /\ run'[j].status # "deleted" => run[j].status # "deleted" /\ run[j].read \subseteq run'[j].read

\* Rows that readers hold stay accounted for.
LEMMA ViewsKept ==
  ASSUME SessionTypeOK, TextsAccounted, NothingForgotten, NEW r \in Readers, view'[r] = view[r]
  PROVE  ViewAccounted(view[r])'
<1>1. SUFFICES ASSUME view[r].state = "loaded"
               PROVE  /\ view[r].turn \in Turns
                      /\ view[r].row.status # "deleted" /\ run'[view[r].turn].status # "deleted" =>
                           Accounted(view[r].rests, view[r].turn, view[r].row)'
  BY DEF ViewAccounted
<1>2. /\ view[r].turn \in Turns
      /\ view[r].row.status # "deleted" /\ run[view[r].turn].status # "deleted" =>
           Accounted(view[r].rests, view[r].turn, view[r].row)
  BY <1>1 DEF TextsAccounted, ViewAccounted
<1>3. view[r].row.history \subseteq Turns
  BY DEF SessionTypeOK, Row
<1> QED
  BY <1>2, <1>3 DEF NothingForgotten, Accounted, Named

\* A turn stays accounted for that keeps its history and its text, and loses no source.
LEMMA TurnKept ==
  ASSUME SessionTypeOK, TextsAccounted, NothingForgotten, NEW k \in Turns,
         rests'[k] = rests[k], turn'[k].history = turn[k].history,
         turn[k].sources \subseteq turn'[k].sources,
         Alive(turn'[k]) => Alive(turn[k]) /\ run[k].read \subseteq run'[k].read,
         turn'[k].status = "none" => turn[k].status = "none"
  PROVE  TurnAccounted(k)'
<1>1. TurnAccounted(k) /\ turn[k].history \subseteq Turns
  BY DEF TextsAccounted, SessionTypeOK, Row
<1>2. Alive(turn'[k]) => Accounted(rests[k], k, turn[k])'
  BY <1>1 DEF TurnAccounted, Alive, Accounted, Named, NothingForgotten
<1> QED
  BY <1>1, <1>2 DEF TurnAccounted, Alive

\* One row is written: it was there, or it is not there now.
LEMMA RowWritten ==
  ASSUME SessionTypeOK, TextsAccounted, NEW k \in Turns, NEW row \in Row,
         turn' = [turn EXCEPT ![k] = row], UNCHANGED <<run, view, rests>>,
         \/ /\ Alive(turn[k]) /\ row.status \notin Missing
            /\ row.history = turn[k].history /\ turn[k].sources \subseteq row.sources
         \/ row.status \in {"deleted", "dropped"} /\ row.history = {},
         session'.status # "deleted" => session.status # "deleted" /\ row.status # "dropped"
  PROVE  TextsAccounted'
<1>1. NothingForgotten
  BY DEF NothingForgotten
<1>2. turn'[k] = row /\ \A j \in Turns \ {k} : turn'[j] = turn[j]
  BY DEF SessionTypeOK
<1>3. \A j \in Turns \ {k} : TurnAccounted(j)'
  BY <1>1, <1>2, TurnKept
<1>4. TurnAccounted(k)'
  <2>1. CASE Alive(turn[k]) /\ row.status \notin Missing
             /\ row.history = turn[k].history /\ turn[k].sources \subseteq row.sources
    BY <1>1, <1>2, <2>1, TurnKept DEF Missing
  <2>2. CASE row.status \in {"deleted", "dropped"} /\ row.history = {}
    BY <1>2, <2>2 DEF TurnAccounted, Missing
  <2> QED
    BY <2>1, <2>2
<1>5. \A r \in Readers : ViewAccounted(view[r])'
  BY <1>1, ViewsKept
<1>6. session'.status # "deleted" => \A j \in Turns : turn'[j].status # "dropped"
  BY <1>2 DEF TextsAccounted
<1> QED
  BY <1>3, <1>4, <1>5, <1>6 DEF TextsAccounted

\* Rows, runs and texts stay as they are.
LEMMA NothingWritten ==
  ASSUME SessionTypeOK, TextsAccounted, UNCHANGED <<turn, run, rests, view>>,
         session'.status # "deleted" => session.status # "deleted"
  PROVE  TextsAccounted'
BY DEF TextsAccounted, TurnAccounted, ViewAccounted, Accounted, Named

\* What the operations write of a turn that is there keeps its history and its sources.
LEMMA WrittenSources ==
  ASSUME SessionTypeOK, NEW k \in Turns, Alive(turn[k]),
         NEW row,
         \/ row \in {ReconciledRow(k), AfterException(k)}
         \/ row = ResultRow(k) /\ run[k].status # "none"
  PROVE  /\ row \in Row /\ row.status \notin Missing
         /\ row.history = turn[k].history /\ turn[k].sources \subseteq row.sources
<1>1. turn[k] \in Row /\ run[k] \in Evidence
  BY DEF SessionTypeOK
<1>2. /\ ResultRow(k).status = run[k].status
      /\ ResultRow(k).history = turn[k].history
      /\ ResultRow(k).sources = turn[k].sources \cup run[k].read
  BY <1>1 DEF ResultRow, Row
<1>3. /\ run[k].status # "dropped"
      /\ Found(k) => run[k].status # "none"
  BY <1>1 DEF Evidence, RunStates, Found
<1>4. CASE row = ResultRow(k) /\ run[k].status # "none"
  BY <1>2, <1>3, <1>4, RowTypes DEF Missing
<1>5. CASE row = ReconciledRow(k)
  BY <1>2, <1>3, <1>5, RowTypes DEF ReconciledRow, Missing, Alive
<1>6. CASE row = AfterException(k)
  <2>1. CASE Found(k)
    BY <1>2, <1>3, <1>6, <2>1, RowTypes DEF AfterException, Missing
  <2>2. CASE ~Found(k)
    BY <1>1, <1>6, <2>2, RowTypes DEF AfterException, Missing, Row
  <2> QED
    BY <2>1, <2>2
<1> QED
  BY <1>4, <1>5, <1>6

LEMMA UpdateWritten ==
  ASSUME SessionTypeOK, TextsAccounted, NEW k \in Turns, Alive(turn[k]),
         NEW row,
         \/ row \in {ReconciledRow(k), AfterException(k)}
         \/ row = ResultRow(k) /\ run[k].status # "none",
         Update(k, row), UNCHANGED <<run, view, rests>>
  PROVE  TextsAccounted'
<1>1. /\ row \in Row /\ row.status \notin Missing
      /\ row.history = turn[k].history /\ turn[k].sources \subseteq row.sources
  BY WrittenSources
<1>2. turn' = [turn EXCEPT ![k] = row] /\ session'.status = session.status
  BY DEF Update, SessionTypeOK, SessionRow
<1> QED
  BY <1>1, <1>2, RowWritten DEF Missing

\* A text gains a source that its row or its run names from now on, and nobody else's
\* row, run or text changes.
LEMMA SourceNamed ==
  ASSUME SessionTypeOK, TextsAccounted, NEW k \in Turns, Alive(turn[k]), NEW s,
         rests' = [rests EXCEPT ![k] = @ \cup {s}], UNCHANGED <<session, view>>,
         \/ turn' = [turn EXCEPT ![k].sources = @ \cup {s}] /\ run' = run
         \/ run' = [run EXCEPT ![k].read = @ \cup {s}] /\ turn' = turn
  PROVE  TextsAccounted'
<1>1. turn[k] \in Row /\ run[k] \in Evidence
  BY DEF SessionTypeOK
<1>2. /\ rests'[k] = rests[k] \cup {s} /\ \A j \in Turns \ {k} : rests'[j] = rests[j]
      /\ \A j \in Turns \ {k} : turn'[j] = turn[j] /\ run'[j] = run[j]
      /\ turn'[k].status = turn[k].status /\ turn'[k].history = turn[k].history
      /\ run'[k].status = run[k].status
      /\ Named(k, turn[k]) \cup {s} \subseteq Named(k, turn[k])'
      /\ run[k].read \subseteq run'[k].read
  BY <1>1 DEF SessionTypeOK, Row, Evidence, Named
<1>3. NothingForgotten
  BY <1>2 DEF NothingForgotten
<1>4. \A j \in Turns \ {k} : TurnAccounted(j)'
  BY <1>2, <1>3, TurnKept
<1>5. TurnAccounted(k)'
  <2>1. TurnAccounted(k) /\ turn[k].history \subseteq Turns
    BY <1>1 DEF TextsAccounted, Row
  <2>2. turn[k].status # "none"
    BY DEF Alive, Missing
  <2> QED
    BY <1>2, <1>3, <2>1, <2>2 DEF TurnAccounted, Accounted, NothingForgotten
<1>6. \A r \in Readers : ViewAccounted(view[r])'
  BY <1>3, ViewsKept
<1> QED
  BY <1>2, <1>4, <1>5, <1>6 DEF TextsAccounted

\* A run takes another status, and is not erased.
LEMMA RunMoved ==
  ASSUME SessionTypeOK, TextsAccounted, NEW k, NEW s, s # "deleted",
         k \in Turns => run[k].status # "deleted",
         run' = [run EXCEPT ![k].status = s], UNCHANGED <<session, turn, rests, view>>
  PROVE  TextsAccounted'
<1>1. \A j \in Turns : /\ run'[j].read = run[j].read
                       /\ run'[j].status = "deleted" <=> run[j].status = "deleted"
  BY DEF SessionTypeOK, Evidence
<1>2. NothingForgotten
  BY <1>1 DEF NothingForgotten
<1>3. \A j \in Turns : TurnAccounted(j)'
  BY <1>1, <1>2, TurnKept
<1>4. \A r \in Readers : ViewAccounted(view[r])'
  BY <1>2, ViewsKept
<1> QED
  BY <1>3, <1>4 DEF TextsAccounted

\* The steps of an operation that is under way.
LEMMA WorkKeepsTexts ==
  ASSUME SessionTypeOK, SessionInvariant, TextsAccounted, NEW p \in Procs, Work(p)
  PROVE  TextsAccounted'
<1> USE DEF SessionInvariant
<1> DEFINE t == op[p].turn
<1>0. Placed(p) /\ \A k \in Turns : turn[k] \in Row /\ run[k] \in Evidence
  BY DEF SessionTypeOK
<1>1. op[p].pc \in {"provide", "work"} => t \in Turns /\ Alive(turn[t])
  BY <1>0 DEF Placed, RowsAgree, UnderWay, Alive, Missing
<1>2. CASE SaveClosed(p) \/ Reply(p) \/ Answered(p) \/ Swept(p) \/ Refuse(p)
  <2>1. op[p].pc = "close" => session.status = "open"
    BY <1>0 DEF Placed
  <2> QED
    BY <1>2, <2>1, NothingWritten DEF SaveClosed, Reply, Answered, Swept, Refuse, At
<1>3. CASE Compile(p)
  <2>1. PICK k \in Turns :
          /\ Alive(turn[k])
          /\ run' = [run EXCEPT ![k].status = "running"]
          /\ rests' = [rests EXCEPT ![k] = @ \cup UNION {rests[a] : a \in turn[k].history}]
          /\ run[k].status = "none" /\ UNCHANGED <<session, turn, view>>
    BY <1>1, <1>3 DEF Compile, At
  <2>2. /\ \A j \in Turns : /\ run'[j].read = run[j].read
                            /\ run'[j].status = "deleted" <=> run[j].status = "deleted"
        /\ rests'[k] = rests[k] \cup UNION {rests[a] : a \in turn[k].history}
        /\ \A j \in Turns \ {k} : rests'[j] = rests[j]
    BY <1>0, <2>1 DEF SessionTypeOK, Evidence
  <2>3. NothingForgotten
    BY <2>2 DEF NothingForgotten
  <2>4. \A j \in Turns \ {k} : TurnAccounted(j)'
    BY <2>1, <2>2, <2>3, TurnKept
  <2>5. TurnAccounted(k)'
    <3>1. TurnAccounted(k) /\ \A a \in turn[k].history : a \in Turns \ {k}
      BY <1>0 DEF TextsAccounted, TurnAccounted, Row, Turns
    <3>2. \A a \in turn[k].history : rests'[a] = rests[a]
      BY <2>2, <3>1
    <3>3. Accounted(rests[k], k, turn[k])'
      BY <2>1, <2>2, <3>1, <3>2 DEF Accounted, Named, TurnAccounted, Alive
    <3> QED
      BY <2>1, <3>1, <3>3 DEF TurnAccounted, Alive, Missing
  <2>6. \A r \in Readers : ViewAccounted(view[r])'
    BY <2>1, <2>3, ViewsKept
  <2> QED
    BY <2>1, <2>4, <2>5, <2>6 DEF TextsAccounted
<1>4. CASE EndRun(p)
  <2>1. PICK s \in {"succeeded", "failed", "awaiting_approval"} :
          run' = [run EXCEPT ![t].status = s]
    BY <1>4 DEF EndRun
  <2>2. run[t].status = "running" /\ UNCHANGED <<session, turn, rests, view>>
    BY <1>0, <1>4 DEF EndRun, At, Placed
  <2> QED
    BY <2>1, <2>2, RunMoved
<1>5. CASE Raise(p)
  <2>1. t \in Turns /\ Alive(turn[t]) /\ Update(t, AfterException(t))
        /\ UNCHANGED <<run, view, rests>>
    BY <1>1, <1>5 DEF Raise
  <2> QED
    BY <2>1, UpdateWritten
<1>6. CASE Record(p)
  <2>1. op[p].pc = "record" /\ Update(t, ResultRow(t)) /\ UNCHANGED <<run, view, rests>>
    BY <1>6 DEF Record, At
  <2>2. t \in Turns /\ Alive(turn[t]) /\ run[t].status # "none"
    BY <1>0, <2>1 DEF Placed, Alive, Missing, TextsAccounted
  <2> QED
    BY <2>1, <2>2, UpdateWritten
<1>7. CASE Erase(p)
  <2>1. /\ t \in Turns /\ turn[t].status = "deleted"
        /\ run' = [run EXCEPT ![t] = [status |-> "deleted", read |-> {}]]
        /\ UNCHANGED <<session, turn, rests, view>>
    BY <1>0, <1>7 DEF Erase, Placed
  <2>2. run'[t].status = "deleted" /\ \A j \in Turns \ {t} : run'[j] = run[j]
    BY <2>1 DEF SessionTypeOK
  <2>3. NothingForgotten
    BY <2>1, <2>2 DEF NothingForgotten
  <2>4. \A j \in Turns : TurnAccounted(j)'
    BY <2>1, <2>2, <2>3, TurnKept DEF Alive
  <2>5. \A r \in Readers : ViewAccounted(view[r])'
    BY <2>1, <2>3, ViewsKept
  <2> QED
    BY <2>1, <2>4, <2>5 DEF TextsAccounted
<1>8. CASE Drop(p)
  <2>1. op[p].pc = "drop" /\ t \in Turns /\ session.status = "deleted"
    BY <1>0, <1>8 DEF Drop, At, Placed
  <2>2. turn' = [turn EXCEPT ![t] = [NoRow EXCEPT !.status = "dropped"]]
        /\ UNCHANGED <<session, run, rests, view>>
    BY <1>8 DEF Drop
  <2>3. [NoRow EXCEPT !.status = "dropped"] = [status |-> "dropped", history |-> {}, sources |-> {}]
    BY DEF NoRow
  <2>4. [status |-> "dropped", history |-> {}, sources |-> {}] \in Row
    BY DEF Row, TurnStates, Missing
  <2> QED
    BY <2>1, <2>2, <2>3, <2>4, RowWritten
<1>9. ASSUME NEW k \in Turns, Insert(p, k) PROVE TextsAccounted'
  <2>1. op[p].pc = "insert" /\ turn[k].status = "none" /\ UNCHANGED <<run, view>>
    BY <1>9 DEF Insert, At
  <2>2. session.status = "open" /\ rests[k] = {}
    BY <1>0, <2>1 DEF Placed, TextsAccounted, TurnAccounted
  <2>3. CASE \A a \in History(k) : Sound(a)
    <3>1. /\ turn' = [turn EXCEPT ![k] = [status |-> "starting", history |-> History(k),
                                         sources |-> {}]]
          /\ session' = [session EXCEPT !.active = k]
          /\ rests' = [rests EXCEPT ![k] = {k}]
      BY <1>9, <2>3 DEF Insert
    <3>2. /\ turn'[k] = [status |-> "starting", history |-> History(k), sources |-> {}]
          /\ \A j \in Turns \ {k} : turn'[j] = turn[j] /\ rests'[j] = rests[j]
          /\ rests'[k] = {k} /\ session'.status = "open"
      BY <2>2, <3>1 DEF SessionTypeOK, SessionRow
    <3>3. NothingForgotten
      BY <2>1, <2>2, <3>2 DEF NothingForgotten
    <3>4. \A j \in Turns \ {k} : TurnAccounted(j)'
      BY <2>1, <3>2, <3>3, TurnKept
    <3>5. History(k) \subseteq 1..(k - 1)
      BY DEF History, Turns
    <3>6. TurnAccounted(k)'
      BY <3>2, <3>5 DEF TurnAccounted, Accounted
    <3>7. \A r \in Readers : ViewAccounted(view[r])'
      BY <2>1, <3>3, ViewsKept
    <3>8. \A j \in Turns : turn'[j].status # "dropped"
      BY <2>2, <3>2 DEF TextsAccounted
    <3> QED
      BY <3>4, <3>6, <3>7, <3>8 DEF TextsAccounted
  <2>4. CASE ~\A a \in History(k) : Sound(a)
    BY <1>9, <2>4, NothingWritten DEF Insert
  <2> QED
    BY <2>3, <2>4
<1>10. ASSUME NEW k \in Turns, Sweep(p, k) PROVE TextsAccounted'
  <2>1. /\ turn' = [turn EXCEPT ![k] = Tombstone] /\ UNCHANGED <<run, view, rests>>
        /\ session'.status = session.status
    BY <1>10 DEF Sweep, Update, SessionTypeOK, SessionRow
  <2>2. Tombstone \in Row /\ Tombstone.status = "deleted" /\ Tombstone.history = {}
    BY RowTypes DEF Tombstone
  <2> QED
    BY <2>1, <2>2, RowWritten
<1>11. ASSUME NEW s \in Sources, Provide(p, s) \/ ReadSource(p, s) PROVE TextsAccounted'
  <2>1. t \in Turns /\ Alive(turn[t])
    BY <1>1, <1>11 DEF Provide, ReadSource, At
  <2> QED
    BY <1>11, <2>1, SourceNamed DEF Provide, ReadSource
<1> QED
  BY <1>2, <1>3, <1>4, <1>5, <1>6, <1>7, <1>8, <1>9, <1>10, <1>11 DEF Work

\* A reader is shown the text of a row that was found sound only.
LEMMA OnlySoundIsShown ==
  ASSUME SessionTypeOK, TextsAccounted, [SessionNext]_sessionVars,
         NEW r \in Readers, view[r].state = "loaded", view'[r].state = "shown"
  PROVE  view[r].rests \cap Gone = {}
<1>1. PICK q \in Readers : Show(q)
  <2>1. view' # view
    OBVIOUS
  <2>2. ASSUME NEW q \in Readers, NEW k \in Turns, Load(q, k) PROVE FALSE
    BY <2>2 DEF Load, SessionTypeOK
  <2>3. ASSUME NEW p \in Procs, Submit(p) \/ Close(p) \/ DeleteSession(p) \/ Work(p) \/ Crash(p)
        PROVE  view' = view
    BY <2>3 DEF Submit, Close, DeleteSession, Work, Crash, SaveClosed, Compile, EndRun, Raise,
                Record, Reply, Answered, Swept, Erase, Refuse, Drop, Insert, Sweep, Provide, ReadSource
  <2>4. ASSUME NEW p \in Procs, NEW k \in Turns, Replay(p, k) \/ Resume(p, k) \/ DeleteTurn(p, k)
        PROVE  view' = view
    BY <2>4 DEF Replay, Resume, DeleteTurn
  <2> QED
    BY <2>1, <2>2, <2>3, <2>4 DEF SessionNext, sessionVars, Create, Withdraw
<1>2. SoundCopy(view[r].turn, view[r].row)
  BY <1>1 DEF Show, NoView, SessionTypeOK
<1>3. /\ view[r].turn \in Turns /\ view[r].row \in Row
      /\ Accounted(view[r].rests, view[r].turn, view[r].row)
  BY <1>2 DEF TextsAccounted, ViewAccounted, SoundCopy, Vouched, SessionTypeOK
<1> QED
  BY <1>2, <1>3, SoundCopyIsCurrent

\* TextsAccounted is inductive.
LEMMA TextsKept ==
  ASSUME SessionTypeOK, SessionInvariant, TextsAccounted, [SessionNext]_sessionVars
  PROVE  TextsAccounted'
<1> USE DEF SessionInvariant
<1>0. /\ \A k \in Turns : turn[k] \in Row /\ run[k] \in Evidence
      /\ \A p \in Procs : op[p] \in Operation
  BY DEF SessionTypeOK
<1>1. CASE Create \/ UNCHANGED sessionVars
  BY <1>1, NothingWritten DEF Create, sessionVars
<1>2. ASSUME NEW s \in Sources, Withdraw(s) PROVE TextsAccounted'
  BY <1>2, NothingWritten DEF Withdraw
<1>3. ASSUME NEW p \in Procs, Submit(p) \/ Close(p) PROVE TextsAccounted'
  <2>1. PICK place \in {"insert", "close"} : FinishActive(p, place)
    BY <1>3 DEF Submit, Close
  <2>2. session.status = "open" /\ UNCHANGED <<run, view, rests>>
    BY <1>3 DEF Submit, Close
  <2>3. CASE session.active = 0
    BY <2>1, <2>2, <2>3, NothingWritten DEF FinishActive
  <2>4. CASE session.active # 0
    <3>1. session.active \in Turns
      BY <2>4 DEF Turns, SessionTypeOK, SessionRow
    <3>2. Alive(turn[session.active])
      BY <2>2, <3>1 DEF RowsAgree, UnderWay, Alive, Missing
    <3>3. Update(session.active, ReconciledRow(session.active))
      BY <2>1, <2>4 DEF FinishActive
    <3> QED
      BY <2>2, <3>1, <3>2, <3>3, UpdateWritten
  <2> QED
    BY <2>3, <2>4
<1>4. ASSUME NEW p \in Procs, DeleteSession(p) PROVE TextsAccounted'
  <2>1. session'.status = "deleted" /\ UNCHANGED <<turn, run, rests, view>>
    BY <1>4 DEF DeleteSession, SessionTypeOK, SessionRow
  <2> QED
    BY <2>1, NothingWritten
<1>5. ASSUME NEW p \in Procs, Crash(p) PROVE TextsAccounted'
  BY <1>5, NothingWritten DEF Crash
<1>6. ASSUME NEW p \in Procs, NEW k \in Turns, Replay(p, k) PROVE TextsAccounted'
  <2>1. Alive(turn[k])
    BY <1>6 DEF Replay, Sound, Vouched, Alive
  <2> QED
    BY <1>6, <2>1, UpdateWritten DEF Replay
<1>7. ASSUME NEW p \in Procs, NEW k \in Turns, Resume(p, k) PROVE TextsAccounted'
  <2>1. Alive(turn[k]) /\ UNCHANGED <<view, rests>>
    BY <1>7 DEF Resume, SoundCopy, Vouched, Alive
  <2>2. CASE UNCHANGED <<session, turn, run>>
    BY <2>1, <2>2, NothingWritten
  <2>3. CASE Update(k, AfterException(k)) /\ UNCHANGED run
    BY <2>1, <2>3, UpdateWritten
  <2>4. CASE run' = [run EXCEPT ![k].status = "running"] /\ UNCHANGED <<session, turn>>
             /\ run[k].status \in {"running", "awaiting_approval"}
    BY <2>1, <2>4, RunMoved
  <2> QED
    BY <1>7, <2>2, <2>3, <2>4 DEF Resume
<1>8. ASSUME NEW p \in Procs, NEW k \in Turns, DeleteTurn(p, k) PROVE TextsAccounted'
  <2>1. /\ turn' = [turn EXCEPT ![k] = Tombstone] /\ UNCHANGED <<run, view, rests>>
        /\ session'.status = session.status
    BY <1>8 DEF DeleteTurn, Update, SessionTypeOK, SessionRow
  <2>2. Tombstone \in Row /\ Tombstone.status = "deleted" /\ Tombstone.history = {}
    BY RowTypes DEF Tombstone
  <2> QED
    BY <2>1, <2>2, RowWritten
<1>9. ASSUME NEW r \in Readers, NEW k \in Turns, Load(r, k) PROVE TextsAccounted'
  <2>1. /\ view'[r] = [state |-> "loaded", turn |-> k, row |-> turn[k], rests |-> rests[k]]
        /\ \A q \in Readers \ {r} : view'[q] = view[q]
        /\ UNCHANGED <<session, turn, run, rests>> /\ turn[k].status \notin Missing
    BY <1>9 DEF Load, SessionTypeOK
  <2>2. ViewAccounted(view'[r])
    BY <2>1 DEF ViewAccounted, TextsAccounted, TurnAccounted
  <2>3. ViewAccounted(view[r])'
    BY <2>1, <2>2 DEF ViewAccounted, Accounted, Named
  <2>4. \A q \in Readers \ {r} : ViewAccounted(view[q])'
    BY <2>1, ViewsKept DEF NothingForgotten
  <2>5. \A j \in Turns : TurnAccounted(j)'
    BY <2>1 DEF TextsAccounted, TurnAccounted, Accounted, Named
  <2> QED
    BY <2>1, <2>3, <2>4, <2>5 DEF TextsAccounted
<1>10. ASSUME NEW r \in Readers, Show(r) PROVE TextsAccounted'
  <2>1. /\ view'[r].state # "loaded"
        /\ \A q \in Readers \ {r} : view'[q] = view[q]
        /\ UNCHANGED <<session, turn, run, rests>>
    BY <1>10 DEF Show, SessionTypeOK, NoView
  <2>2. \A q \in Readers : ViewAccounted(view[q])'
    BY <2>1, ViewsKept DEF NothingForgotten, ViewAccounted
  <2>3. \A j \in Turns : TurnAccounted(j)'
    BY <2>1 DEF TextsAccounted, TurnAccounted, Accounted, Named
  <2> QED
    BY <2>1, <2>2, <2>3 DEF TextsAccounted
<1>11. ASSUME NEW p \in Procs, Work(p) PROVE TextsAccounted'
  BY <1>11, WorkKeepsTexts
<1> QED
  BY <1>1, <1>2, <1>3, <1>4, <1>5, <1>6, <1>7, <1>8, <1>9, <1>10, <1>11 DEF SessionNext

\* Nothing that is gone is used, at whatever remove, for any number of turns, sources,
\* processes, readers and crashes, and any history limit (_validate_turn()).
THEOREM CurrentOnly == SessionSpec => OnlyCurrentIsUsed
<1>1. SessionInit => TextsAccounted
  BY DEF SessionInit, TextsAccounted, TurnAccounted, ViewAccounted, NoRow, NoView, Missing
<1>2. SessionTypeOK /\ SessionInvariant /\ TextsAccounted /\ [SessionNext]_sessionVars
        => TextsAccounted'
  BY TextsKept
<1>3. SessionTypeOK /\ SessionInvariant /\ TextsAccounted /\ [SessionNext]_sessionVars =>
        [/\ \A k \in Turns : Uses(k) => rests[k] \cap Gone = {}
         /\ \A r \in Readers : view[r].state = "loaded" /\ view'[r].state = "shown"
                                => view[r].rests \cap Gone = {}]_sessionVars
  <2> SUFFICES ASSUME SessionTypeOK, SessionInvariant, TextsAccounted, [SessionNext]_sessionVars
               PROVE  /\ \A k \in Turns : Uses(k) => rests[k] \cap Gone = {}
                      /\ \A r \in Readers : view[r].state = "loaded" /\ view'[r].state = "shown"
                                             => view[r].rests \cap Gone = {}
    OBVIOUS
  <2>1. ASSUME NEW k \in Turns, Uses(k) PROVE rests[k] \cap Gone = {}
    BY <2>1, OnlySoundIsUsed, SoundIsCurrent
  <2>2. ASSUME NEW r \in Readers, view[r].state = "loaded", view'[r].state = "shown"
        PROVE  view[r].rests \cap Gone = {}
    BY <2>2, OnlySoundIsShown
  <2> QED
    BY <2>1, <2>2
<1> QED
  BY <1>1, <1>2, <1>3, TypeCorrect, InvariantHolds, PTL DEF SessionSpec, OnlyCurrentIsUsed
=============================================================================
