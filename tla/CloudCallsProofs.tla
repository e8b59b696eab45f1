-------------------------- MODULE CloudCallsProofs --------------------------
(***************************************************************************)
(* Proofs about CloudCalls for any number of workers, approvers, approvals *)
(* and calls, any reservations and any budget; one section is about    *)
(* the counters of CloudBudget.                                            *)
(***************************************************************************)
EXTENDS CloudBudget, SumFacts, TLAPS

USE DEF storeVars, runVars, envVars, approvalVars, callVars, worldVars

-----------------------------------------------------------------------------
(* Types.                                                                  *)

\* Every reachable state of the run row, the call tables and the processes is
\* of its type; the epochs that tickets and invocations carry are real ones.
THEOREM TypeCorrect == Spec => []TypeOK
<1>1. Init => TypeOK
  <2> SUFFICES ASSUME Init PROVE TypeOK
    OBVIOUS
  <2> USE StoreConstants, CallConstants DEF Init
  <2>1. status \in {"absent"} \cup Active \cup Terminal /\ epoch \in 0..MaxEpoch
        /\ holder \in Workers \cup {NoWorker} /\ leaseLeft \in 0..LeaseTTL
        /\ used \in Nat /\ reserved \in Int /\ ticket \in [Workers -> 0..MaxEpoch]
    BY DEF StoreInit
  <2>2. cancelRequested \in BOOLEAN /\ deadlinePassed \in BOOLEAN
        /\ member \in [Actors -> BOOLEAN]
    BY Zenon DEF StoreInit
  <2>3. consumed \in [Approvals -> BOOLEAN] /\ expired \in [Approvals -> BOOLEAN]
    BY Zenon
  <2> QED
    BY <2>1, <2>2, <2>3 DEF TypeOK, StoreTypeOK, CallStates, Outcomes
<1>2. TypeOK /\ [Next]_vars => TypeOK'
  <2> SUFFICES ASSUME TypeOK, [Next]_vars PROVE TypeOK'
    OBVIOUS
  <2> USE StoreConstants, CallConstants DEF TypeOK, StoreTypeOK, CallStates, Outcomes
  <2>1. CASE RunStep
    <3>1. StoreTypeOK'
      <4>1. CASE Submit
        BY <4>1 DEF Submit, Active
      <4>2. ASSUME NEW w \in Workers, Claim(w, HasUnresolved) PROVE StoreTypeOK'
        BY <4>2 DEF Claim, ClaimedStatus, Active
      <4>3. ASSUME NEW w \in Workers, Renew(w) \/ Release(w) PROVE StoreTypeOK'
        BY <4>3 DEF Renew, Release, Transaction, LockLease
      <4>4. ASSUME NEW a \in {Owner} \cup Workers, Cancel(a) PROVE StoreTypeOK'
        BY <4>4 DEF Cancel
      <4>5. ASSUME NEW w \in Workers, NEW s \in Terminal,
                   Finish(w, s, HasUnresolved, Confirmed)
            PROVE StoreTypeOK'
        BY <4>5 DEF Finish
      <4>6. CASE LeaseTick
        BY <4>6 DEF LeaseTick
      <4>7. CASE PassDeadline
        BY <4>7 DEF PassDeadline
      <4>8. ASSUME NEW a \in Actors, SetMember(a) PROVE StoreTypeOK'
        BY <4>8 DEF SetMember
      <4> QED
        BY <2>1, <4>1, <4>2, <4>3, <4>4, <4>5, <4>6, <4>7, <4>8 DEF RunStep
    <3> QED
      BY <2>1, <3>1 DEF RunStep
  <2>2. ASSUME NEW p \in Approvers, NEW a \in Approvals, NEW c \in Calls, Grant(p, a, c)
        PROVE TypeOK'
    BY <2>2 DEF Grant, Actors
  <2>3. ASSUME NEW w \in Workers, NEW c \in Calls, NEW a \in Approvals, Admit(w, c, a)
        PROVE TypeOK'
    BY <2>3 DEF Admit, EpochOf
  <2>4. ASSUME NEW w \in Workers, NEW c \in Calls, MarkSent(w, c) PROVE TypeOK'
    BY <2>4 DEF MarkSent
  <2>5. ASSUME NEW w \in Workers, NEW c \in Calls, MarkUnknown(w, c) PROVE TypeOK'
    BY <2>5 DEF MarkUnknown, Active
  <2>6. ASSUME NEW w \in Workers, NEW c \in Calls, NEW o \in Outcomes,
               NEW u \in ActualUnits \cup {0}, RecordReceipt(w, c, o, u)
        PROVE TypeOK'
    <3>1. /\ receipt' = [receipt EXCEPT ![c] = o] /\ units' = [units EXCEPT ![c] = u]
          /\ UNCHANGED <<storeVars, approvalVars, callState, admissionEpoch, approvalOf, worldVars>>
      BY <2>6 DEF RecordReceipt
    <3>2. u \in Nat
      BY <2>6
    <3> QED
      BY <3>1, <3>2
  <2>7. ASSUME NEW w \in Workers, NEW c \in Calls, Settle(w, c) PROVE TypeOK'
    BY <2>7 DEF Settle, Released, Beyond
  <2>8. ASSUME NEW a \in Approvals, ExpireApproval(a) PROVE TypeOK'
    BY <2>8 DEF ExpireApproval
  <2>9. ASSUME NEW w \in Workers, NEW c \in Calls, Transmit(w, c) PROVE TypeOK'
    BY <2>9 DEF Transmit
  <2>10. ASSUME NEW c \in Calls, Execute(c) \/ Refuse(c) PROVE TypeOK'
    BY <2>10 DEF Execute, Refuse
  <2>11. ASSUME NEW w \in Workers, Crash(w) PROVE TypeOK'
    BY <2>11 DEF Crash, LoseTicket
  <2>12. CASE UNCHANGED vars
    BY <2>12 DEF vars
  <2> QED
    BY <2>1, <2>2, <2>3, <2>4, <2>5, <2>6, <2>7, <2>8, <2>9, <2>10, <2>11, <2>12 DEF Next
<1> QED
  BY <1>1, <1>2, PTL DEF Spec

-----------------------------------------------------------------------------
(* Money.                                                                  *)

\* However calls are admitted, settled, lost and taken over, usage and
\* reservations stay within the budget but for what providers charged beyond
\* their reservations.
THEOREM ExposureStaysBounded == Spec => []ExposureIsBounded
<1> USE StoreConstants, CallConstants DEF ExposureIsBounded
<1>1. Init => ExposureIsBounded
  BY DEF Init, StoreInit
<1>2. TypeOK /\ ExposureIsBounded /\ [Next]_vars => ExposureIsBounded'
  <2> SUFFICES ASSUME TypeOK, ExposureIsBounded, [Next]_vars PROVE ExposureIsBounded'
    OBVIOUS
  <2> USE DEF TypeOK, StoreTypeOK
  <2>1. ASSUME NEW w \in Workers, NEW c \in Calls, NEW a \in Approvals, Admit(w, c, a)
        PROVE ExposureIsBounded'
    BY <2>1 DEF Admit, FitsBudget
  <2>2. ASSUME NEW w \in Workers, NEW c \in Calls, Settle(w, c)
        PROVE ExposureIsBounded'
    <3>1. /\ used' = used + units[c] /\ reserved' = reserved - Reserve[c]
          /\ overrun' = overrun + Beyond(c)
      BY <2>2 DEF Settle, Released
    <3>2. units[c] \in Nat /\ Reserve[c] \in Nat /\ used \in Nat /\ reserved \in Int
          /\ overrun \in Nat /\ MaxUnits \in Nat
      OBVIOUS
    <3>3. Beyond(c) \in Nat /\ units[c] - Reserve[c] <= Beyond(c)
      BY <3>2 DEF Beyond
    <3> HIDE DEF Beyond
    <3> QED
      BY <3>1, <3>2, <3>3
  <2>3. CASE UNCHANGED <<used, reserved, overrun>>
    BY <2>3
  <2> QED
    BY <2>1, <2>2, <2>3
       DEF Next, vars, RunStep, Submit, Claim, Renew, Release, Cancel, Finish, LeaseTick, PassDeadline,
           SetMember, Grant, MarkSent, MarkUnknown, RecordReceipt, ExpireApproval, Transmit,
           Execute, Refuse, Crash, LoseTicket
<1> QED
  BY <1>1, <1>2, TypeCorrect, PTL DEF Spec

-----------------------------------------------------------------------------
(* Effects.                                                                *)

effectParts == <<callState, receipt, worldVars>>

\* The bookkeeping of sends and receipts survives every step.
LEMMA EffectStep ==
  ASSUME TypeOK, EffectInvariant, [Next]_vars
  PROVE  EffectInvariant'
<1> USE DEF EffectInvariant, SendsMatchStates, ReceiptsAreTrue, TypeOK, CallStates, Outcomes
<1>1. CASE UNCHANGED effectParts
  BY <1>1 DEF effectParts
<1>2. ASSUME NEW w \in Workers, NEW c \in Calls, NEW a \in Approvals, Admit(w, c, a)
      PROVE EffectInvariant'
  BY <1>2 DEF Admit
<1>3. ASSUME NEW w \in Workers, NEW c \in Calls, MarkSent(w, c) PROVE EffectInvariant'
  <2>1. SendsMatchStates'
    BY <1>3 DEF MarkSent, Sendable
  <2>2. ReceiptsAreTrue'
    BY <1>3 DEF MarkSent, Sendable
  <2> QED
    BY <2>1, <2>2
<1>4. ASSUME NEW w \in Workers, NEW c \in Calls, MarkUnknown(w, c) PROVE EffectInvariant'
  BY <1>4 DEF MarkUnknown
<1>5. ASSUME NEW w \in Workers, NEW c \in Calls, NEW o \in Outcomes,
             NEW u \in ActualUnits \cup {0}, RecordReceipt(w, c, o, u)
      PROVE EffectInvariant'
  <2>1. o = "completed" => effects[c] = 1
    BY <1>5 DEF RecordReceipt, Verified
  <2>2. o = "not_executed" => effects[c] = 0 /\ (c \in refused \/ sends[c] = 0)
    BY <1>5 DEF RecordReceipt, Verified
  <2> QED
    BY <1>5, <2>1, <2>2 DEF RecordReceipt, Invoked
<1>6. ASSUME NEW w \in Workers, NEW c \in Calls, Settle(w, c) PROVE EffectInvariant'
  BY <1>6 DEF Settle, Settleable, Open
<1>7. ASSUME NEW w \in Workers, NEW c \in Calls, Transmit(w, c) PROVE EffectInvariant'
  BY <1>7 DEF Transmit
<1>8. ASSUME NEW c \in Calls, Execute(c) PROVE EffectInvariant'
  <2>1. sends[c] = 1 /\ effects[c] = 0 /\ c \notin refused
        /\ \A w \in Workers : c \notin toSend[w]
    BY <1>8 DEF Execute
  <2>2. receipt[c] # "not_executed" /\ receipt[c] # "completed"
    BY <2>1
  <2>3. SendsMatchStates'
    BY <1>8, <2>1 DEF Execute
  <2>4. ReceiptsAreTrue'
    BY <1>8, <2>1, <2>2 DEF Execute
  <2> QED
    BY <2>3, <2>4
<1>9. ASSUME NEW c \in Calls, Refuse(c) PROVE EffectInvariant'
  BY <1>9 DEF Refuse
<1>10. ASSUME NEW w \in Workers, Crash(w) PROVE EffectInvariant'
  BY <1>10 DEF Crash, LoseTicket
<1>11. CASE RunStep
  BY <1>1, <1>11 DEF RunStep, effectParts
<1>12. ASSUME NEW p \in Approvers, NEW a \in Approvals, NEW c \in Calls, Grant(p, a, c)
       PROVE EffectInvariant'
  BY <1>1, <1>12 DEF Grant, effectParts
<1>13. ASSUME NEW a \in Approvals, ExpireApproval(a) PROVE EffectInvariant'
  BY <1>1, <1>13 DEF ExpireApproval, effectParts
<1>14. CASE UNCHANGED vars
  BY <1>1, <1>14 DEF vars, effectParts
<1> QED
  BY <1>2, <1>3, <1>4, <1>5, <1>6, <1>7, <1>8, <1>9, <1>10, <1>11, <1>12, <1>13, <1>14
     DEF Next

LEMMA EffectInit == Init => EffectInvariant
BY DEF Init, EffectInvariant, SendsMatchStates, ReceiptsAreTrue

\* The bookkeeping holds in every reachable state.
THEOREM EffectsAccounted == Spec => []EffectInvariant
BY EffectInit, EffectStep, TypeCorrect, PTL DEF Spec

\* For any number of workers that crash, stall and take over from each other, a
\* call is sent at most once and takes effect at most once.
THEOREM EffectAtMostOnce == Spec => []AtMostOneEffect
<1>1. TypeOK /\ EffectInvariant => AtMostOneEffect
  BY DEF TypeOK, EffectInvariant, SendsMatchStates, AtMostOneEffect
<1> QED
  BY <1>1, TypeCorrect, EffectsAccounted, PTL

\* A receipt of nonexecution is never contradicted by an effect.
THEOREM NonexecutionIsTrue == Spec => []NotExecutedIsTrue
<1>1. EffectInvariant => NotExecutedIsTrue
  BY DEF EffectInvariant, ReceiptsAreTrue, NotExecutedIsTrue
<1> QED
  BY <1>1, EffectsAccounted, PTL

-----------------------------------------------------------------------------
(* The counters.                                                           *)

\* The sums of CloudBudget are the sums over functions that SumFacts is about.
LEMMA SumsOverCalls ==
  /\ SumOver(Open, LAMBDA c : Reserve[c]) = SumFunctionOnSet(Reserve, Open)
  /\ SumOver(SettledCalls, LAMBDA c : units[c]) = SumFunctionOnSet(units, SettledCalls)
BY DEF SumOver, MapThenSumSet, SumFunctionOnSet, FoldFunctionOnSet, MapThenFoldSet

\* Only calls that were invoked are summed over, and one transaction invokes one call.
BudgetInvariant ==
  /\ IsFiniteSet(Invoked)
  /\ reserved = SumFunctionOnSet(Reserve, Open)
  /\ used = SumFunctionOnSet(units, SettledCalls)

\* Nothing is counted yet.
LEMMA BudgetInit == Init => BudgetInvariant
<1> SUFFICES ASSUME Init PROVE BudgetInvariant
  OBVIOUS
<1>1. Invoked = {} /\ Open = {} /\ SettledCalls = {} /\ reserved = 0 /\ used = 0
  BY DEF Init, StoreInit, Invoked, Open, SettledCalls
<1>2. IsFiniteSet({}) /\ \A f : SumFunctionOnSet(f, {}) = 0
  BY FS_EmptySet, SumTakesChosen
<1> QED
  BY <1>1, <1>2 DEF BudgetInvariant

\* A transaction that changes a call moves the counters by what that call adds to or
\* takes from its sum; a receipt comes before the call is counted as settled.
LEMMA BudgetStep ==
  ASSUME TypeOK, EffectInvariant, BudgetInvariant, [Next]_vars
  PROVE  BudgetInvariant'
<1> USE DEF BudgetInvariant
<1>1. /\ Reserve \in [Calls -> Nat] /\ units \in [Calls -> Nat]
      /\ callState \in [Calls -> CallStates] /\ receipt \in [Calls -> {"none"} \cup Outcomes]
      /\ Open \subseteq Calls /\ SettledCalls \subseteq Calls
  BY CallConstants DEF TypeOK, Open, SettledCalls
<1>2. IsFiniteSet(Open) /\ IsFiniteSet(SettledCalls)
  <2>1. Open \subseteq Invoked /\ SettledCalls \subseteq Invoked
    BY DEF Open, SettledCalls, Invoked
  <2> QED
    BY <2>1, FS_Subset
<1>3. CASE UNCHANGED <<reserved, used, callState, units>>
  BY <1>3 DEF Invoked, Open, SettledCalls
<1>4. ASSUME NEW w \in Workers, NEW c \in Calls, NEW a \in Approvals, Admit(w, c, a)
      PROVE BudgetInvariant'
  <2>1. /\ callState[c] = "none" /\ callState' = [callState EXCEPT ![c] = "admitted"]
        /\ reserved' = reserved + Reserve[c] /\ UNCHANGED <<used, units>>
    BY <1>4 DEF Admit
  <2>2. /\ Invoked' = Invoked \cup {c} /\ SettledCalls' = SettledCalls
        /\ c \in Open' /\ Open' \ {c} = Open /\ Open' = Open \cup {c}
    BY <1>1, <2>1 DEF Invoked, SettledCalls, Open
  <2>3. IsFiniteSet(Invoked') /\ IsFiniteSet(Open')
    BY <1>2, <2>2, FS_AddElement
  <2>4. \A x \in Open' : Reserve[x] \in Nat
    BY <1>1, <2>2
  <2>5. SumFunctionOnSet(Reserve, Open') = Reserve[c] + SumFunctionOnSet(Reserve, Open)
    BY <2>2, <2>3, <2>4, SumTakesAny
  <2>6. Reserve[c] \in Nat /\ SumFunctionOnSet(Reserve, Open) \in Nat
    BY <1>1, <1>2, SumType
  <2> QED
    BY <2>1, <2>2, <2>3, <2>5, <2>6
<1>5. ASSUME NEW w \in Workers, NEW c \in Calls, MarkSent(w, c) \/ MarkUnknown(w, c)
      PROVE BudgetInvariant'
  <2>1. c \in Open /\ UNCHANGED <<reserved, used, units>>
    BY <1>5 DEF MarkSent, MarkUnknown, Sendable, Open
  <2>2. \E s \in {"sent", "unknown"} : callState' = [callState EXCEPT ![c] = s]
    BY <1>5 DEF MarkSent, MarkUnknown
  <2>3. Invoked' = Invoked /\ Open' = Open /\ SettledCalls' = SettledCalls
    BY <1>1, <2>1, <2>2 DEF Invoked, Open, SettledCalls
  <2> QED
    BY <2>1, <2>3
<1>6. ASSUME NEW w \in Workers, NEW c \in Calls, NEW o \in Outcomes,
             NEW u \in ActualUnits \cup {0}, RecordReceipt(w, c, o, u)
      PROVE BudgetInvariant'
  <2>1. /\ receipt[c] = "none" /\ units' = [units EXCEPT ![c] = u]
        /\ UNCHANGED <<reserved, used, callState>>
    BY <1>6 DEF RecordReceipt
  <2>2. c \notin SettledCalls
    BY <2>1 DEF EffectInvariant, ReceiptsAreTrue, SettledCalls
  <2>3. Invoked' = Invoked /\ Open' = Open /\ SettledCalls' = SettledCalls
    BY <2>1 DEF Invoked, Open, SettledCalls
  <2>4. \A x \in SettledCalls : units[x] = units'[x]
    BY <1>1, <2>1, <2>2
  <2>5. SumFunctionOnSet(units, SettledCalls) = SumFunctionOnSet(units', SettledCalls)
    BY <1>2, <2>4, SumOfSame
  <2> QED
    BY <2>1, <2>3, <2>5
<1>7. ASSUME NEW w \in Workers, NEW c \in Calls, Settle(w, c) PROVE BudgetInvariant'
  <2>1. /\ c \in Open /\ callState' = [callState EXCEPT ![c] = "settled"]
        /\ used' = used + units[c] /\ reserved' = reserved - Reserve[c] /\ units' = units
    BY <1>7 DEF Settle, Settleable, Released
  <2>2. /\ Invoked' = Invoked /\ Open' = Open \ {c}
        /\ SettledCalls' = SettledCalls \cup {c}
        /\ SettledCalls' \ {c} = SettledCalls
    BY <1>1, <2>1 DEF Invoked, SettledCalls, Open
  <2>3. SumFunctionOnSet(Reserve, Open) = Reserve[c] + SumFunctionOnSet(Reserve, Open \ {c})
    BY <1>1, <1>2, <2>1, SumTakesAny
  <2>4. IsFiniteSet(SettledCalls') /\ IsFiniteSet(Open \ {c})
    BY <1>2, <2>2, FS_AddElement, FS_RemoveElement
  <2>5. c \in SettledCalls' /\ \A x \in SettledCalls' : units[x] \in Nat
    BY <1>1, <2>2
  <2>6. SumFunctionOnSet(units, SettledCalls') = units[c] + SumFunctionOnSet(units, SettledCalls)
    BY <2>2, <2>4, <2>5, SumTakesAny
  <2>7. /\ Reserve[c] \in Nat /\ units[c] \in Nat
        /\ SumFunctionOnSet(Reserve, Open \ {c}) \in Nat
        /\ SumFunctionOnSet(units, SettledCalls) \in Nat
    BY <1>1, <1>2, <2>4, SumType
  <2> QED
    BY <2>1, <2>2, <2>3, <2>6, <2>7
<1> QED
  BY <1>3, <1>4, <1>5, <1>6, <1>7
     DEF Next, vars, RunStep, Submit, Claim, Renew, Release, Cancel, Finish, LeaseTick, PassDeadline,
         SetMember, Grant, ExpireApproval, Transmit, Execute, Refuse, Crash, LoseTicket

\* The counters of the run row are the sums of what its rows say.
THEOREM CountersStayExact == Spec => []CountersMatchRows
<1>1. BudgetInvariant => CountersMatchRows
  BY SumsOverCalls DEF BudgetInvariant, CountersMatchRows
<1>2. TypeOK /\ EffectInvariant /\ BudgetInvariant /\ [Next]_vars => BudgetInvariant'
  BY BudgetStep
<1> QED
  BY <1>1, <1>2, BudgetInit, TypeCorrect, EffectsAccounted, PTL DEF Spec

-----------------------------------------------------------------------------
(* Owners.                                                                 *)

\* A run goes on only where nothing of an earlier owner is left open.
THEOREM RunningStaysClean == Spec => []RunningIsClean
<1>1. Init => RunningIsClean
  BY DEF Init, StoreInit, RunningIsClean
<1>2. TypeOK /\ RunningIsClean /\ [Next]_vars => RunningIsClean'
  <2> SUFFICES ASSUME TypeOK, RunningIsClean, [Next]_vars PROVE RunningIsClean'
    OBVIOUS
  <2> USE DEF RunningIsClean, Open, TypeOK, CallStates, Outcomes
  <2>1. CASE UNCHANGED <<status, epoch, callState, admissionEpoch>>
    BY <2>1
  <2>2. CASE RunStep
    <3>1. CASE UNCHANGED <<status, epoch>>
      BY <2>1, <2>2, <3>1 DEF RunStep
    <3>2. ASSUME NEW w \in Workers, Claim(w, HasUnresolved) PROVE RunningIsClean'
      BY <2>2, <3>2 DEF RunStep, Claim, ClaimedStatus, HasUnresolved
    <3>3. CASE Submit
      BY <3>3 DEF Submit
    <3>4. ASSUME NEW w \in Workers, NEW s \in Terminal,
                 Finish(w, s, HasUnresolved, Confirmed)
          PROVE RunningIsClean'
      BY <3>4 DEF Finish, Terminal
    <3> QED
      BY <2>2, <3>1, <3>2, <3>3, <3>4
         DEF RunStep, Renew, Release, Cancel, LeaseTick, PassDeadline, SetMember
  <2>3. ASSUME NEW w \in Workers, NEW c \in Calls, NEW a \in Approvals, Admit(w, c, a)
        PROVE RunningIsClean'
    BY <2>3 DEF Admit, EpochOf, LockLease
  <2>4. ASSUME NEW w \in Workers, NEW c \in Calls, MarkSent(w, c) PROVE RunningIsClean'
    BY <2>4 DEF MarkSent, Sendable
  <2>5. ASSUME NEW w \in Workers, NEW c \in Calls, MarkUnknown(w, c) PROVE RunningIsClean'
    BY <2>5 DEF MarkUnknown
  <2>6. ASSUME NEW w \in Workers, NEW c \in Calls, Settle(w, c) PROVE RunningIsClean'
    BY <2>6 DEF Settle
  <2> QED
    BY <2>1, <2>2, <2>3, <2>4, <2>5, <2>6
       DEF Next, vars, Grant, RecordReceipt, ExpireApproval, Transmit, Execute, Refuse,
           Crash, LoseTicket
<1> QED
  BY <1>1, <1>2, TypeCorrect, PTL DEF Spec

-----------------------------------------------------------------------------
(* Approvals.                                                              *)

\* Every consumed approval backs one admitted call, the one it was granted for.
THEOREM ApprovalsSpentExactly == Spec => []ApprovalsBackCalls
<1>1. Init => ApprovalsBackCalls
  BY DEF Init, ApprovalsBackCalls, Invoked
<1>2. TypeOK /\ ApprovalsBackCalls /\ [Next]_vars => ApprovalsBackCalls'
  <2> SUFFICES ASSUME TypeOK, ApprovalsBackCalls, [Next]_vars PROVE ApprovalsBackCalls'
    OBVIOUS
  <2> USE CallConstants DEF ApprovalsBackCalls, Invoked, TypeOK, CallStates, Outcomes
  <2>1. CASE UNCHANGED <<approvedCall, approver, consumed, callState, approvalOf>>
    BY <2>1
  <2>2. CASE RunStep
    BY <2>1, <2>2 DEF RunStep
  <2>3. ASSUME NEW p \in Approvers, NEW a \in Approvals, NEW c \in Calls, Grant(p, a, c)
        PROVE ApprovalsBackCalls'
    BY <2>3 DEF Grant
  <2>4. ASSUME NEW w \in Workers, NEW c \in Calls, NEW a \in Approvals, Admit(w, c, a)
        PROVE ApprovalsBackCalls'
    <3>1. /\ approvedCall[a] = c /\ ~consumed[a] /\ callState[c] = "none"
          /\ approver[a] \in Approvers \ {Owner}
      BY <2>4 DEF Admit, Approves, ApprovalCurrent
    <3>2. /\ consumed' = [consumed EXCEPT ![a] = TRUE]
          /\ callState' = [callState EXCEPT ![c] = "admitted"]
          /\ approvalOf' = [approvalOf EXCEPT ![c] = a]
          /\ approvedCall' = approvedCall /\ approver' = approver
      BY <2>4 DEF Admit
    <3>3. Invoked' = Invoked \cup {c}
      BY <3>2
    <3>4. ASSUME NEW b \in Approvals
          PROVE  consumed'[b] <=> \E d \in Invoked' : approvalOf'[d] = b
      <4>1. CASE b = a
        BY <3>2, <3>3, <4>1
      <4>2. CASE b # a
        <5>1. consumed'[b] <=> consumed[b]
          BY <3>2, <4>2
        <5>2. \A d \in Invoked : d # c
          BY <3>1
        <5> QED
          BY <3>2, <3>3, <4>2, <5>1, <5>2
      <4> QED
        BY <4>1, <4>2
    <3>5. ASSUME NEW d \in Invoked'
          PROVE  /\ approvalOf'[d] \in Approvals
                 /\ approvedCall'[approvalOf'[d]] = d
                 /\ approver'[approvalOf'[d]] \in Approvers \ {Owner}
      BY <3>1, <3>2, <3>3
    <3> QED
      BY <3>4, <3>5
  <2>5. ASSUME NEW w \in Workers, NEW c \in Calls,
               MarkSent(w, c) \/ MarkUnknown(w, c) \/ Settle(w, c)
        PROVE ApprovalsBackCalls'
    <3>1. callState[c] # "none"
      <4> HIDE DEF ApprovalsBackCalls, Invoked, TypeOK
      <4>1. CASE MarkSent(w, c)
        BY <4>1 DEF MarkSent, Sendable
      <4>2. CASE MarkUnknown(w, c)
        BY <4>2 DEF MarkUnknown
      <4>3. CASE Settle(w, c)
        BY <4>3 DEF Settle, Settleable, Open
      <4> QED
        BY <2>5, <4>1, <4>2, <4>3
    <3>2. \E s \in {"sent", "unknown", "settled"} :
             callState' = [callState EXCEPT ![c] = s]
      <4> HIDE DEF ApprovalsBackCalls, Invoked, TypeOK
      <4>1. CASE MarkSent(w, c)
        BY <4>1 DEF MarkSent
      <4>2. CASE MarkUnknown(w, c)
        BY <4>2 DEF MarkUnknown
      <4>3. CASE Settle(w, c)
        BY <4>3 DEF Settle
      <4> QED
        BY <2>5, <4>1, <4>2, <4>3
    <3>3. callState \in [Calls -> CallStates]
      BY DEF TypeOK
    <3>4. Invoked' = Invoked
      <4> HIDE DEF ApprovalsBackCalls, TypeOK
      <4> QED
        BY <3>1, <3>2, <3>3
    <3>5. UNCHANGED <<approvedCall, approver, consumed, approvalOf>>
      <4> HIDE DEF ApprovalsBackCalls, Invoked, TypeOK
      <4> QED
        BY <2>5 DEF MarkSent, MarkUnknown, Settle
    <3> QED
      BY <3>4, <3>5
  <2> QED
    BY <2>1, <2>2, <2>3, <2>4, <2>5
       DEF Next, vars, RecordReceipt, ExpireApproval, Transmit, Execute, Refuse, Crash
<1> QED
  BY <1>1, <1>2, TypeCorrect, PTL DEF Spec

-----------------------------------------------------------------------------
(* The end of a run.                                                       *)

\* What a finished run says was true when it finished and stays true.
THEOREM TerminalStaysSettled == Spec => []TerminalIsSettled
<1>1. Init => TerminalIsSettled
  BY DEF Init, StoreInit, TerminalIsSettled, Terminal
<1>2. TypeOK /\ EffectInvariant /\ TerminalIsSettled /\ [Next]_vars => TerminalIsSettled'
  <2> SUFFICES ASSUME TypeOK, EffectInvariant, TerminalIsSettled, [Next]_vars
               PROVE  TerminalIsSettled'
    OBVIOUS
  <2> USE DEF TerminalIsSettled, Open, Invoked, TypeOK, CallStates, Outcomes
  <2>1. CASE UNCHANGED <<status, used, reserved, callState, receipt, effects>>
    BY <2>1
  <2>2. CASE RunStep
    <3>1. CASE UNCHANGED <<status, used, reserved>>
      BY <2>1, <2>2, <3>1 DEF RunStep
    <3>2. CASE status' \notin Terminal
      BY <3>2
    <3>3. ASSUME NEW w \in Workers, NEW s \in Terminal,
                 Finish(w, s, HasUnresolved, Confirmed)
          PROVE TerminalIsSettled'
      <4>1. UNCHANGED <<used, reserved, callState, receipt, effects>>
        BY <2>2, <3>3 DEF RunStep, Finish
      <4>2. Open = {} /\ reserved = 0 /\ status' = s
        BY <3>3 DEF Finish, HasUnresolved
      <4>3. s = "succeeded" => used <= MaxUnits /\ \A c \in Invoked : receipt[c] = "completed"
        BY <3>3 DEF Finish, Confirmed
      <4>4. \A c \in Calls : receipt[c] = "completed" => effects[c] > 0
        BY DEF EffectInvariant, ReceiptsAreTrue
      <4> QED
        BY <4>1, <4>2, <4>3, <4>4
    <3> QED
      BY <2>2, <3>1, <3>2, <3>3
         DEF RunStep, Submit, Claim, ClaimedStatus, Renew, Release, Cancel, LeaseTick,
             PassDeadline, SetMember, Terminal
  <2>3. ASSUME NEW w \in Workers, NEW c \in Calls,
               \/ \E a \in Approvals : Admit(w, c, a)
               \/ MarkSent(w, c) \/ MarkUnknown(w, c) \/ Settle(w, c)
        PROVE TerminalIsSettled'
    <3>1. status' \notin Terminal
      BY <2>3 DEF Admit, MarkSent, MarkUnknown, Settle, LockLease, Active, Terminal
    <3> QED
      BY <3>1
  <2>4. ASSUME NEW w \in Workers, NEW c \in Calls, NEW o \in Outcomes,
               NEW u \in ActualUnits \cup {0}, RecordReceipt(w, c, o, u)
        PROVE TerminalIsSettled'
    <3>1. callState[c] # "settled"
      BY <2>4 DEF RecordReceipt, EffectInvariant, ReceiptsAreTrue
    <3>2. c \in Open
      BY <2>4, <3>1 DEF RecordReceipt
    <3> QED
      BY <2>4, <3>2 DEF RecordReceipt
  <2>5. ASSUME NEW c \in Calls, Execute(c) PROVE TerminalIsSettled'
    <3>1. /\ UNCHANGED <<status, used, reserved, callState, receipt>>
          /\ effects' = [effects EXCEPT ![c] = @ + 1]
      BY <2>5 DEF Execute
    <3>2. \A d \in Calls : effects[d] > 0 => effects'[d] > 0
      BY <3>1
    <3> QED
      BY <3>1, <3>2
  <2>6. ASSUME NEW a \in Approvals,
               ExpireApproval(a) \/ \E p \in Approvers, c \in Calls : Grant(p, a, c)
        PROVE TerminalIsSettled'
    BY <2>1, <2>6 DEF Grant, ExpireApproval
  <2>7. CASE UNCHANGED vars
    BY <2>1, <2>7 DEF vars
  <2>8. ASSUME NEW c \in Calls, Refuse(c) PROVE TerminalIsSettled'
    BY <2>1, <2>8 DEF Refuse
  <2>9. ASSUME NEW w \in Workers, Crash(w) PROVE TerminalIsSettled'
    BY <2>1, <2>9 DEF Crash, LoseTicket
  <2>10. ASSUME NEW w \in Workers, NEW c \in Calls, Transmit(w, c) PROVE TerminalIsSettled'
    BY <2>1, <2>10 DEF Transmit
  <2> QED
    BY <2>2, <2>3, <2>4, <2>5, <2>6, <2>7, <2>8, <2>9, <2>10 DEF Next
<1> QED
  BY <1>1, <1>2, TypeCorrect, EffectsAccounted, PTL DEF Spec

\* Nothing that arrives after the end reopens the run or moves its counters.
THEOREM TerminalStaysFinal == Spec => TerminalIsFinal
<1>1. TypeOK /\ TerminalIsSettled /\ [Next]_vars =>
        ((status \in Terminal) =>
           UNCHANGED <<status, epoch, used, reserved, callState, consumed, sends>>)
  <2> SUFFICES ASSUME TypeOK, TerminalIsSettled, [Next]_vars, status \in Terminal
               PROVE  UNCHANGED <<status, epoch, used, reserved, callState, consumed, sends>>
    OBVIOUS
  <2>1. status \notin Active /\ status # "absent"
    BY DEF Active, Terminal
  <2>2. \A w \in Workers : ~LockLease(w)
    BY <2>1 DEF LockLease
  <2>3. CASE RunStep
    BY <2>1, <2>2, <2>3
       DEF RunStep, Submit, Claim, Claimable, Renew, Release, Cancel, Finish, LeaseTick,
           PassDeadline, SetMember
  <2> QED
    BY <2>2, <2>3
       DEF Next, vars, Grant, Admit, MarkSent, MarkUnknown, RecordReceipt, Settle,
           ExpireApproval, Transmit, Execute, Refuse, Crash, LoseTicket
<1> QED
  BY <1>1, TypeCorrect, TerminalStaysSettled, PTL DEF Spec, TerminalIsFinal

-----------------------------------------------------------------------------
(* The call store implements the contract.                                 *)

effectMap == <<Invoked, sends, effects, receipt>>

\* The run, its call store and every worker, network and provider around them
\* implement GovernedEffect: each step is one of its steps or changes none of
\* what it speaks of.
THEOREM StoreKeepsContract == Spec => EffectContract
<1> USE DEF Effect!Allow, Effect!Ask, Effect!Happen, Effect!Judge, Effect!effectVars
<1>1. Init => Effect!EffectInit
  BY DEF Init, Effect!EffectInit, Invoked
<1>2. TypeOK /\ EffectInvariant /\ [Next]_vars => [Effect!EffectNext]_(Effect!effectVars)
  <2> SUFFICES ASSUME TypeOK, EffectInvariant, [Next]_vars
               PROVE  Effect!EffectNext \/ UNCHANGED effectMap
    BY DEF effectMap
  <2> USE DEF Invoked, TypeOK, CallStates, Outcomes
  <2>1. CASE UNCHANGED <<callState, sends, effects, receipt>>
    BY <2>1 DEF effectMap
  <2>2. ASSUME NEW w \in Workers, NEW c \in Calls, NEW a \in Approvals, Admit(w, c, a)
        PROVE Effect!EffectNext
    <3>1. Effect!Allow(c)
      BY <2>2 DEF Admit
    <3> QED
      BY <3>1 DEF Effect!EffectNext
  <2>3. ASSUME NEW w \in Workers, NEW c \in Calls, MarkSent(w, c) PROVE Effect!EffectNext
    <3>1. sends[c] = 0 /\ callState[c] = "admitted" /\ receipt[c] = "none"
      BY <2>3 DEF MarkSent, Sendable, EffectInvariant, SendsMatchStates
    <3>2. Effect!Ask(c)
      BY <2>3, <3>1 DEF MarkSent
    <3> QED
      BY <3>2 DEF Effect!EffectNext
  <2>4. ASSUME NEW w \in Workers, NEW c \in Calls, MarkUnknown(w, c) \/ Settle(w, c)
        PROVE UNCHANGED effectMap
    BY <2>4 DEF MarkUnknown, Settle, Settleable, Open, effectMap
  <2>5. ASSUME NEW w \in Workers, NEW c \in Calls, NEW o \in Outcomes,
               NEW u \in ActualUnits \cup {0}, RecordReceipt(w, c, o, u)
        PROVE Effect!EffectNext
    <3>1. /\ c \in Invoked /\ receipt[c] = "none"
          /\ receipt' = [receipt EXCEPT ![c] = o]
          /\ UNCHANGED <<callState, sends, effects>>
      BY <2>5 DEF RecordReceipt
    <3>2. o = IF effects[c] = 1 THEN "completed" ELSE "not_executed"
      <4>1. /\ effects[c] \in Nat /\ effects[c] <= sends[c] /\ sends[c] \in Nat /\ sends[c] <= 1
            /\ c \in refused => effects[c] = 0
            /\ callState[c] = "admitted" => sends[c] = 0
        BY DEF EffectInvariant, SendsMatchStates, ReceiptsAreTrue, TypeOK
      <4>2. \/ o = "completed" /\ effects[c] > 0
            \/ o = "not_executed" /\ (c \in refused \/ callState[c] = "admitted")
        BY <2>5 DEF RecordReceipt, Verified
      <4> QED
        BY <4>1, <4>2
    <3>3. Effect!Judge(c)
      BY <3>1, <3>2
    <3> QED
      BY <3>3 DEF Effect!EffectNext
  <2>6. ASSUME NEW c \in Calls, Execute(c) PROVE Effect!EffectNext
    <3>1. sends[c] = 1 /\ effects[c] = 0 /\ c \notin refused
      BY <2>6 DEF Execute, EffectInvariant, SendsMatchStates
    <3>2. receipt[c] = "none"
      BY <3>1 DEF EffectInvariant, ReceiptsAreTrue
    <3>3. Effect!Happen(c)
      BY <2>6, <3>1, <3>2 DEF Execute
    <3> QED
      BY <3>3 DEF Effect!EffectNext
  <2>7. CASE RunStep
    BY <2>1, <2>7 DEF RunStep
  <2>8. ASSUME NEW a \in Approvals,
               ExpireApproval(a) \/ \E p \in Approvers, c \in Calls : Grant(p, a, c)
        PROVE UNCHANGED effectMap
    BY <2>1, <2>8 DEF Grant, ExpireApproval, effectMap
  <2>9. ASSUME NEW w \in Workers, NEW c \in Calls, Transmit(w, c) PROVE UNCHANGED effectMap
    BY <2>9 DEF Transmit, effectMap
  <2>10. ASSUME NEW c \in Calls, Refuse(c) PROVE UNCHANGED effectMap
    BY <2>10 DEF Refuse, effectMap
  <2>11. ASSUME NEW w \in Workers, Crash(w) PROVE UNCHANGED effectMap
    BY <2>11 DEF Crash, effectMap
  <2>12. CASE UNCHANGED vars
    BY <2>12 DEF vars, effectMap
  <2> QED
    BY <2>2, <2>3, <2>4, <2>5, <2>6, <2>7, <2>8, <2>9, <2>10, <2>11, <2>12, <2>1
       DEF Next, effectMap
<1> QED
  BY <1>1, <1>2, TypeCorrect, EffectsAccounted, PTL DEF Spec, EffectContract, Effect!EffectSpec
=============================================================================
