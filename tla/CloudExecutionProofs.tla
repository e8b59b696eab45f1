------------------------ MODULE CloudExecutionProofs ------------------------
(***************************************************************************)
(* Proofs about CloudExecution for any number of workers, steps, epochs    *)
(* and reviewers, any policy, and any budget: what the rows of a hosted    *)
(* run, its checkpoint and its receipts say of each other stays true       *)
(* whoever drives it, and each of its calls keeps GovernedEffect.          *)
(*                                                                         *)
(* Two arguments carry all of it.  What is invoked is behind the           *)
(* checkpoint, settled and completed, or it is the one call the checkpoint *)
(* needs next (TranscriptSound); and a worker whose revision is current    *)
(* holds the current checkpoint, however long ago it read it (Current).    *)
(***************************************************************************)
EXTENDS CloudExecution, FiniteSetTheorems, TLAPS

-----------------------------------------------------------------------------
(* The inductive invariant.                                                *)

\* A lease is held only of a run that is public as driven.
LeaseSound == leaseLeft > 0 => status \in {"running", "reconciling"}

\* What the row of a call, its receipt, its request and its effect say of each other.
CallSound(i) ==
  /\ inv[i] \in {"none", "admitted"} => sends[i] = 0 /\ fact[i] = "none"
  /\ inv[i] \in {"sent", "unknown"} => sends[i] = 1
  /\ inv[i] = "settled" => fact[i] # "none"
  /\ effects[i] = 1 => sends[i] = 1
  /\ i \in wire => sends[i] = 1 /\ effects[i] = 0
  /\ fact[i] = "completed" => effects[i] = 1
  /\ fact[i] = "not_executed" => effects[i] = 0 /\ (i \in refused \/ i \notin wire)

EffectInvariant == \A i \in Ids : CallSound(i)

\* A transcript that goes on is within its steps, and waits only for a tool.
SnapshotSound(s) ==
  s.status \notin Terminal =>
    /\ s.status \in {"created", "running", "awaiting_approval"}
    /\ s.steps <= MaxSteps
    /\ s.at = "tool" => s.steps > 0
    /\ s.status = "awaiting_approval" => s.at = "tool"

\* Who has the current revision has the current checkpoint.
Current(s) == s.rev <= ckpt.rev /\ (s.rev = ckpt.rev => s = ckpt)

\* The places of a worker that has a physical call in hand.
HandPlaces == {"send", "sent", "settle", "result"}

WorkerSound(w) ==
  /\ SnapshotSound(mine[w])
  /\ Current(mine[w])
  /\ pc[w] = "drive" => mine[w].status \in {"created", "running"}
  /\ pc[w] = "approve" => mine[w].status = "awaiting_approval"
  /\ pc[w] \in HandPlaces => mine[w].status = "running" /\ NextCall(mine[w]) \in Ids
  /\ pc[w] \in {"settle", "result"} => fact[NextCall(mine[w])] = "completed"
  /\ pc[w] = "result" => inv[NextCall(mine[w])] = "settled"

PlacesInvariant ==
  /\ SnapshotSound(ckpt)
  /\ ckpt.rev = 0 => ckpt = Created
  /\ \A w \in Workers : WorkerSound(w)

\* A call the transcript has taken in.
Behind(i) == i[2] < ckpt.steps /\ i # NextCall(ckpt)

\* Usage is the transcript's, but for the one result it needs next.
Ahead(kind) == IF NextCall(ckpt) \in SettledOf(kind) THEN 1 ELSE 0

TranscriptSound ==
  ckpt.status \notin Terminal =>
    /\ \A i \in Invoked : \/ i = NextCall(ckpt)
                          \/ Behind(i) /\ inv[i] = "settled" /\ fact[i] = "completed"
    /\ \A k \in rejected : k < ckpt.steps
    /\ UsedSteps = ckpt.steps + Ahead("model")
    /\ UsedTools = ckpt.tools + Ahead("tool")

\* What holds of rows and workers whatever the transcript says.
RowsInvariant == HostedTypeOK /\ EffectInvariant /\ PlacesInvariant

-----------------------------------------------------------------------------
(* Operators.                                                              *)

\* The identities of calls are finite in number, and each is a kind and a step.
LEMMA IdsFinite ==
  /\ IsFiniteSet(Ids) /\ IsFiniteSet(Steps)
  /\ \A i \in Ids : i[1] \in Kinds /\ i[2] \in Steps /\ i = <<i[1], i[2]>>
  /\ \A k \in Steps : <<"model", k>> \in Ids /\ <<"tool", k>> \in Ids
<1>1. IsFiniteSet(Steps)
  BY FS_Interval, HostedConstants DEF Steps
<1>2. IsFiniteSet(Kinds)
  <2>1. IsFiniteSet({"model"}) /\ Kinds = {"model"} \cup {"tool"}
    BY FS_Singleton DEF Kinds
  <2> QED
    BY <2>1, FS_AddElement
<1>3. IsFiniteSet(Ids)
  BY <1>1, <1>2, FS_Product DEF Ids
<1> QED
  BY <1>1, <1>3 DEF Ids, Kinds

\* The usage of a run is a number.
LEMMA UsageTyped ==
  ASSUME HostedTypeOK
  PROVE  /\ UsedSteps \in Nat /\ UsedTools \in Nat
         /\ \A kind \in Kinds : IsFiniteSet(SettledOf(kind)) /\ SettledOf(kind) \subseteq Ids
         /\ IsFiniteSet(rejected)
<1>1. \A kind \in Kinds : IsFiniteSet(SettledOf(kind)) /\ SettledOf(kind) \subseteq Ids
  BY IdsFinite, FS_Subset DEF SettledOf
<1>2. IsFiniteSet(rejected)
  BY IdsFinite, FS_Subset DEF HostedTypeOK
<1>3. /\ Cardinality(SettledOf("model")) \in Nat /\ Cardinality(SettledOf("tool")) \in Nat
      /\ Cardinality(rejected) \in Nat
  BY <1>1, <1>2, FS_CardinalityType DEF Kinds
<1> QED
  BY <1>1, <1>2, <1>3 DEF UsedSteps, UsedTools

\* Where the next call of a transcript is a call of the run.
LEMMA NextCallSound ==
  ASSUME NEW s \in Snapshots
  PROVE  /\ s.at = "tool" /\ s.steps > 0 /\ s.steps <= MaxSteps => NextCall(s) \in Ids
         /\ NextCall(s) \in Ids /\ s.at = "model" => s.steps \in Steps
         /\ s.at = "tool" => NextCall(s) = <<"tool", s.steps - 1>>
         /\ s.at = "model" => NextCall(s) = <<"model", s.steps>>
<1>1. s.steps \in Nat /\ s.at \in {"model", "tool"} /\ MaxSteps \in Nat
  BY HostedConstants DEF Snapshots, Kinds
<1>2. s.at = "tool" => NextCall(s) = <<"tool", s.steps - 1>>
  BY DEF NextCall
<1>3. s.at = "model" => NextCall(s) = <<"model", s.steps>>
  BY DEF NextCall
<1>4. s.at = "tool" /\ s.steps > 0 /\ s.steps <= MaxSteps => s.steps - 1 \in Steps
  BY <1>1 DEF Steps
<1>5. s.at = "tool" /\ s.steps > 0 /\ s.steps <= MaxSteps => NextCall(s) \in Ids
  BY <1>2, <1>4, IdsFinite
<1>6. NextCall(s) \in Ids /\ s.at = "model" => s.steps \in Steps
  BY <1>3, IdsFinite
<1> QED
  BY <1>2, <1>3, <1>5, <1>6

\* The values snapshots are made of.
LEMMA Values ==
  /\ "model" \in Kinds /\ "tool" \in Kinds
  /\ \A f \in {"created", "running", "awaiting_approval", "succeeded", "failed", "exhausted",
               "cancelled"} : f \in {"created"} \cup Active \cup Terminal
  /\ {"created", "running", "awaiting_approval"} \cap Terminal = {}
BY DEF Kinds, Active, Terminal

\* What a save makes of a snapshot.
LEMMA CommittedSound ==
  ASSUME NEW s \in Snapshots
  PROVE  /\ Committed(s) \in Snapshots
         /\ Committed(s).rev = s.rev + 1
         /\ Committed(s).at = s.at /\ Committed(s).steps = s.steps /\ Committed(s).tools = s.tools
         /\ Committed(s).status = IF Closing(s) /\ cancelRequested THEN "cancelled" ELSE s.status
         /\ SnapshotSound(s) => SnapshotSound(Committed(s))
<1> DEFINE f == IF Closing(s) /\ cancelRequested THEN "cancelled" ELSE s.status
<1>1. Committed(s) = [s EXCEPT !.rev = s.rev + 1, !.status = f]
  BY DEF Committed
<1>2. f \in {"created"} \cup Active \cup Terminal
  BY Values DEF Snapshots
<1>3. f = s.status \/ f \in Terminal
  BY DEF Terminal
<1>0. s.rev + 1 \in Nat
  BY DEF Snapshots
<1> HIDE DEF f
<1>4. /\ Committed(s) \in Snapshots
      /\ Committed(s).rev = s.rev + 1 /\ Committed(s).status = f
      /\ Committed(s).at = s.at /\ Committed(s).steps = s.steps /\ Committed(s).tools = s.tools
  BY <1>0, <1>1, <1>2 DEF Snapshots
<1>5. SnapshotSound(s) => SnapshotSound(Committed(s))
  BY <1>3, <1>4 DEF SnapshotSound
<1> QED
  BY <1>4, <1>5 DEF f

\* What the loop may save once it has the result of its call.
LEMMA TakenSound ==
  ASSUME NEW s \in Snapshots, s.status = "running", SnapshotSound(s),
         NextCall(s) \in Ids, NEW t \in Taken(s)
  PROVE  /\ t \in Snapshots /\ SnapshotSound(t) /\ t.rev = s.rev
         /\ t.status \in {"running", "awaiting_approval", "succeeded", "failed", "exhausted"}
         /\ \/ /\ s.at = "tool" /\ t.at = "model"
               /\ t.steps = s.steps /\ t.tools = s.tools + 1
               /\ t.status = "running" /\ Denied(s) = {}
            \/ /\ s.at = "model" /\ t.steps = s.steps + 1
               /\ \/ t.tools = s.tools /\ Denied(s) = {}
                  \/ t.tools = s.tools + 1 /\ Denied(s) = {s.steps} /\ t.at = "model"
<1>1. /\ s.steps \in Nat /\ s.tools \in Nat /\ MaxTools \in Nat /\ MaxSteps \in Nat
      /\ s.at \in {"model", "tool"} /\ s.rev \in Nat
  BY HostedConstants DEF Snapshots, Kinds
<1>2. CASE s.at = "tool"
  <2>1. t = [s EXCEPT !.at = "model", !.tools = s.tools + 1]
    BY <1>2 DEF Taken
  <2>2. s.tools + 1 \in Nat
    BY <1>1
  <2>3. t \in Snapshots /\ t.rev = s.rev /\ t.at = "model" /\ t.steps = s.steps
        /\ t.tools = s.tools + 1 /\ t.status = "running"
    BY <2>1, <2>2, Values DEF Snapshots
  <2>4. Denied(s) = {}
    BY <1>2 DEF Denied
  <2> QED
    BY <1>2, <2>3, <2>4 DEF SnapshotSound
<1>3. CASE s.at = "model"
  <2> DEFINE k == s.steps
             u == [s EXCEPT !.steps = s.steps + 1]
  <2>1. k \in Steps /\ k < MaxSteps
    BY <1>1, <1>3, NextCallSound DEF Steps
  <2>2. u \in Snapshots /\ u.steps = k + 1 /\ u.tools = s.tools /\ u.rev = s.rev
        /\ u.at = "model" /\ u.status = "running"
    BY <1>1, <1>3 DEF Snapshots
  <2>3. \/ /\ \E f \in {"succeeded", "failed", "exhausted"} : t = [u EXCEPT !.status = f]
           /\ Denied(s) = {}
        \/ t = u /\ Denied(s) = {}
        \/ t = [u EXCEPT !.tools = u.tools + 1] /\ Denied(s) = {k}
        \/ t = [u EXCEPT !.at = "tool"] /\ Denied(s) = {}
        \/ t = [u EXCEPT !.at = "tool", !.status = "awaiting_approval"] /\ Denied(s) = {}
    <3> DEFINE proposed == IF u.tools >= MaxTools THEN "over" ELSE Decision[k]
    <3>1. s.tools < MaxTools <=> proposed # "over"
      <4>1. Decision[k] # "over"
        BY <2>1, HostedConstants
      <4>2. s.tools < MaxTools <=> ~(u.tools >= MaxTools)
        BY <1>1, <2>2
      <4> QED
        BY <4>1, <4>2
    <3>2. Denied(s) = IF s.tools < MaxTools /\ answer[k] = "tool" /\ Decision[k] = "deny"
                      THEN {k} ELSE {}
      BY <1>3 DEF Denied
    <3>3. proposed # "over" => proposed = Decision[k]
      OBVIOUS
    <3>4. t \in CASE answer[k] = "final" -> {[u EXCEPT !.status = f] : f \in {"succeeded", "failed"}}
            [] answer[k] = "retry" -> {u}
            [] answer[k] = "tool" /\ proposed = "over"  -> {[u EXCEPT !.status = "exhausted"]}
            [] answer[k] = "tool" /\ proposed = "deny"  -> {[u EXCEPT !.tools = u.tools + 1]}
            [] answer[k] = "tool" /\ proposed = "allow" -> {[u EXCEPT !.at = "tool"]}
            [] answer[k] = "tool" /\ proposed = "approve" ->
                 {[u EXCEPT !.at = "tool", !.status = "awaiting_approval"]}
            [] OTHER -> {}
      BY <1>3 DEF Taken
    <3> HIDE DEF u, k, proposed
    <3>5. \/ answer[k] = "final" /\ \E f \in {"succeeded", "failed"} : t = [u EXCEPT !.status = f]
          \/ answer[k] = "retry" /\ t = u
          \/ answer[k] = "tool" /\ proposed = "over" /\ t = [u EXCEPT !.status = "exhausted"]
          \/ answer[k] = "tool" /\ proposed = "deny" /\ t = [u EXCEPT !.tools = u.tools + 1]
          \/ answer[k] = "tool" /\ proposed = "allow" /\ t = [u EXCEPT !.at = "tool"]
          \/ /\ answer[k] = "tool" /\ proposed = "approve"
             /\ t = [u EXCEPT !.at = "tool", !.status = "awaiting_approval"]
      BY <3>4
    <3> QED
      BY <3>1, <3>2, <3>3, <3>5
  <2> HIDE DEF u
  <2>4. u.tools + 1 \in Nat /\ s.tools + 1 \in Nat
    BY <1>1, <2>2
  <2>5. /\ t \in Snapshots /\ t.rev = s.rev /\ t.steps = k + 1
        /\ t.status \in {"running", "awaiting_approval", "succeeded", "failed", "exhausted"}
        /\ (t.status = "awaiting_approval" => t.at = "tool")
        /\ \/ t.tools = s.tools /\ Denied(s) = {}
           \/ t.tools = s.tools + 1 /\ Denied(s) = {k} /\ t.at = "model"
    <3>1. CASE /\ \E f \in {"succeeded", "failed", "exhausted"} : t = [u EXCEPT !.status = f]
               /\ Denied(s) = {}
      BY <3>1, <2>2, Values DEF Snapshots
    <3>2. CASE t = u /\ Denied(s) = {}
      BY <3>2, <2>2
    <3>3. CASE t = [u EXCEPT !.tools = u.tools + 1] /\ Denied(s) = {k}
      BY <3>3, <2>2, <2>4 DEF Snapshots
    <3>4. CASE t = [u EXCEPT !.at = "tool"] /\ Denied(s) = {}
      BY <3>4, <2>2, Values DEF Snapshots
    <3>5. CASE t = [u EXCEPT !.at = "tool", !.status = "awaiting_approval"] /\ Denied(s) = {}
      BY <3>5, <2>2, Values DEF Snapshots
    <3> QED
      BY <2>3, <3>1, <3>2, <3>3, <3>4, <3>5
  <2>6. SnapshotSound(t)
    BY <1>1, <2>1, <2>5 DEF SnapshotSound, Terminal
  <2> QED
    BY <1>3, <2>5, <2>6
<1> QED
  BY <1>1, <1>2, <1>3

-----------------------------------------------------------------------------
(* Effects.                                                                *)

\* What CallSound speaks of.
effectParts == <<inv, fact, wire, sends, effects, refused>>

\* The steps of a call that any worker can take keep what is true of calls.
LEMMA CallStepKeepsEffects ==
  ASSUME HostedTypeOK, EffectInvariant, NEW w \in Workers, NEW i \in Ids,
         Settle(w, i) \/ Retire(w, i) \/ RecordResult(w, i) \/ MarkUnknown(w, i)
  PROVE  EffectInvariant'
<1> USE DEF HostedTypeOK, EffectInvariant, CallSound
<1>1. CASE Settle(w, i)
  BY <1>1 DEF Settle, Unsettled, Invoked, worldVars
<1>2. CASE Retire(w, i)
  BY <1>2 DEF Retire, Retireable, worldVars
<1>3. CASE RecordResult(w, i)
  <2>1. effects[i] = 1
    BY <1>3 DEF RecordResult
  <2> QED
    BY <1>3, <2>1 DEF RecordResult, worldVars
<1>4. CASE MarkUnknown(w, i)
  BY <1>4 DEF MarkUnknown, worldVars
<1> QED
  BY <1>1, <1>2, <1>3, <1>4

\* So do those of the provider.
LEMMA ProviderKeepsEffects ==
  ASSUME HostedTypeOK, EffectInvariant, NEW i \in Ids, Execute(i) \/ Refuse(i)
  PROVE  EffectInvariant'
<1> USE DEF HostedTypeOK, EffectInvariant, CallSound
<1>1. CASE Execute(i)
  <2>1. /\ effects[i] = 0 /\ sends[i] = 1 /\ fact[i] = "none" /\ i \in wire
    BY <1>1 DEF Execute
  <2>2. /\ effects' = [effects EXCEPT ![i] = 1] /\ wire' = wire \ {i}
        /\ UNCHANGED <<inv, fact, sends, refused>>
    BY <1>1, <2>1 DEF Execute, callRows
  <2> QED
    BY <2>1, <2>2
<1>2. CASE Refuse(i)
  BY <1>2 DEF Refuse
<1> QED
  BY <1>1, <1>2

\* A new row is of a call that has no past.
LEMMA AdmissionKeepsEffects ==
  ASSUME HostedTypeOK, EffectInvariant, NEW w \in Workers, NEW i \in Ids,
         inv[i] = "none", Insert(w, i), UNCHANGED <<fact, worldVars>>
  PROVE  EffectInvariant'
BY DEF HostedTypeOK, EffectInvariant, CallSound, Insert, worldVars

\* What a worker has in hand is a call of the run.
LEMMA InHand ==
  ASSUME PlacesInvariant, NEW w \in Workers, pc[w] \in HandPlaces
  PROVE  NextCall(mine[w]) \in Ids
BY DEF PlacesInvariant, WorkerSound

\* The call an approved checkpoint admits is its tool.
LEMMA ApprovedCall ==
  ASSUME RowsInvariant, NEW w \in Workers, AdmitApproved(w)
  PROVE  /\ mine[w] = ckpt /\ ckpt.status = "awaiting_approval" /\ ckpt.at = "tool"
         /\ ckpt.steps - 1 \in Steps
         /\ NextCall([mine[w] EXCEPT !.status = "running"]) = NextCall(ckpt)
         /\ NextCall(ckpt) = <<"tool", ckpt.steps - 1>> /\ NextCall(ckpt) \in Ids
<1>1. pc[w] = "approve" /\ Saveable([mine[w] EXCEPT !.status = "running"], {})
  BY DEF AdmitApproved, At
<1>2. mine[w] \in Snapshots /\ ckpt \in Snapshots
  BY DEF RowsInvariant, HostedTypeOK
<1>3. mine[w].rev = ckpt.rev
  BY <1>1, <1>2 DEF Saveable, Snapshots
<1>4. mine[w] = ckpt /\ ckpt.status = "awaiting_approval"
  BY <1>1, <1>3 DEF RowsInvariant, PlacesInvariant, WorkerSound, Current
<1>5. ckpt.at = "tool" /\ ckpt.steps > 0 /\ ckpt.steps <= MaxSteps
  BY <1>4, Values DEF RowsInvariant, PlacesInvariant, SnapshotSound
<1>6. NextCall(ckpt) = <<"tool", ckpt.steps - 1>> /\ NextCall(ckpt) \in Ids
  BY <1>2, <1>5, NextCallSound
<1>7. ckpt.steps - 1 \in Steps
  BY <1>6 DEF Ids
<1>8. NextCall([mine[w] EXCEPT !.status = "running"]) = NextCall(ckpt)
  BY <1>2, <1>4 DEF NextCall, Snapshots
<1> QED
  BY <1>4, <1>5, <1>6, <1>7, <1>8

\* Every step keeps what rows, receipts, requests and effects say of each other.
LEMMA EffectStep ==
  ASSUME RowsInvariant, [HostedNext]_hostedVars
  PROVE  EffectInvariant'
<1> USE DEF RowsInvariant
<1>1. CASE UNCHANGED effectParts
  BY <1>1 DEF effectParts, EffectInvariant, CallSound
<1>2. ASSUME NEW w \in Workers, Reconcile(w) PROVE EffectInvariant'
  BY <1>2, CallStepKeepsEffects DEF Reconcile, Unsettled, Invoked
<1>3. ASSUME NEW w \in Workers, LoseResult(w) PROVE EffectInvariant'
  <2>1. pc[w] = "sent" => NextCall(mine[w]) \in Ids
    BY InHand DEF HandPlaces
  <2> QED
    BY <1>3, <2>1, CallStepKeepsEffects DEF LoseResult, Unsettled, Invoked, At
<1>4. ASSUME NEW w \in Workers, Admit(w) PROVE EffectInvariant'
  BY <1>4, AdmissionKeepsEffects DEF Admit
<1>5. ASSUME NEW w \in Workers, AdmitApproved(w) PROVE EffectInvariant'
  BY <1>5, ApprovedCall, AdmissionKeepsEffects DEF AdmitApproved
<1>6. ASSUME NEW w \in Workers, Send(w) PROVE EffectInvariant'
  <2> DEFINE i == NextCall(mine[w])
  <2>1. i \in Ids
    BY <1>6, InHand DEF HandPlaces, Send, At
  <2>2. /\ inv[i] = "admitted" /\ fact[i] = "none"
        /\ inv' = [inv EXCEPT ![i] = "sent"]
        /\ sends' = [sends EXCEPT ![i] = sends[i] + 1]
        /\ wire' = wire \cup {i}
        /\ UNCHANGED <<fact, effects, refused>>
    BY <1>6 DEF Send
  <2> HIDE DEF i
  <2>3. sends[i] = 0 /\ effects[i] = 0
    BY <2>1, <2>2 DEF EffectInvariant, CallSound, HostedTypeOK
  <2> QED
    BY <2>1, <2>2, <2>3 DEF EffectInvariant, CallSound, HostedTypeOK
<1>7. ASSUME NEW w \in Workers, Receive(w) \/ SettleOwn(w) PROVE EffectInvariant'
  BY <1>7, InHand, CallStepKeepsEffects DEF Receive, SettleOwn, At, HandPlaces
<1>8. ASSUME NEW i \in Ids, Execute(i) \/ Refuse(i) PROVE EffectInvariant'
  BY <1>8, ProviderKeepsEffects
<1>9. CASE Accept \/ RowStep \/ (\E p \in Approvers : Review(p)) \/ \E k \in Steps : LapseGrant(k)
  BY <1>1, <1>9 DEF Accept, Review, LapseGrant, RowStep, callRows, worldVars, effectParts
<1>10. ASSUME NEW w \in Workers,
              \/ Inspect(w) \/ ClaimRun(w) \/ Heartbeat(w) \/ ResumeOrStop(w) \/ Stop(w) \/ Load(w)
              \/ Start(w) \/ OverBudget(w) \/ Reuse(w) \/ Take(w) \/ Overspent(w) \/ OutOfSteps(w)
              \/ Exhaust(w) \/ Abandon(w) \/ Crash(w)
       PROVE EffectInvariant'
  BY <1>1, <1>10 DEF Inspect, ClaimRun, Heartbeat, ResumeOrStop, Stop, Load, Start, OverBudget, Reuse,
     Take, Overspent, OutOfSteps, Exhaust, Abandon, Crash, callRows, worldVars, effectParts
<1>11. CASE UNCHANGED hostedVars
  BY <1>1, <1>11 DEF hostedVars, callRows, worldVars, effectParts
<1> QED
  BY <1>2, <1>3, <1>4, <1>5, <1>6, <1>7, <1>8, <1>9, <1>10, <1>11 DEF HostedNext, WorkerStep

\* The steps a worker takes on a call that is open.
LEMMA OpenCallStep ==
  ASSUME RowsInvariant, NEW w \in Workers,
         Reconcile(w) \/ LoseResult(w) \/ Receive(w) \/ SettleOwn(w)
  PROVE  \E i \in Ids : Settle(w, i) \/ Retire(w, i) \/ RecordResult(w, i) \/ MarkUnknown(w, i)
<1>1. pc[w] \in HandPlaces => NextCall(mine[w]) \in Ids
  BY InHand DEF RowsInvariant
<1>2. CASE Reconcile(w)
  BY <1>2 DEF Reconcile, Unsettled, Invoked
<1>3. CASE LoseResult(w)
  BY <1>1, <1>3 DEF LoseResult, Unsettled, Invoked, At, HandPlaces
<1>4. CASE Receive(w) \/ SettleOwn(w)
  BY <1>1, <1>4 DEF Receive, SettleOwn, At, HandPlaces
<1> QED
  BY <1>2, <1>3, <1>4

\* What a receipt says stands, and a settled row stays settled.
LEMMA FactsStand ==
  ASSUME RowsInvariant, [HostedNext]_hostedVars
  PROVE  \A i \in Ids : /\ fact[i] # "none" => fact'[i] = fact[i]
                        /\ inv[i] = "settled" => inv'[i] = "settled"
                        /\ inv[i] # "none" => inv'[i] # "none"
<1> SUFFICES ASSUME NEW j \in Ids
             PROVE  /\ fact[j] # "none" => fact'[j] = fact[j]
                    /\ inv[j] = "settled" => inv'[j] = "settled"
                    /\ inv[j] # "none" => inv'[j] # "none"
  OBVIOUS
<1> USE DEF RowsInvariant, HostedTypeOK
<1>1. CASE UNCHANGED <<inv, fact>>
  BY <1>1
<1>2. ASSUME NEW w \in Workers, NEW i \in Ids,
             Settle(w, i) \/ Retire(w, i) \/ RecordResult(w, i) \/ MarkUnknown(w, i)
      PROVE  /\ fact[j] # "none" => fact'[j] = fact[j]
             /\ inv[j] = "settled" => inv'[j] = "settled"
             /\ inv[j] # "none" => inv'[j] # "none"
  BY <1>2 DEF Settle, Retire, RecordResult, MarkUnknown
<1>3. ASSUME NEW w \in Workers, Reconcile(w) \/ LoseResult(w) \/ Receive(w) \/ SettleOwn(w)
      PROVE  \E i \in Ids : Settle(w, i) \/ Retire(w, i) \/ RecordResult(w, i) \/ MarkUnknown(w, i)
  BY <1>3, OpenCallStep
<1>4. ASSUME NEW w \in Workers, NEW i \in Ids, Insert(w, i), inv[i] = "none", UNCHANGED fact
      PROVE  /\ fact[j] # "none" => fact'[j] = fact[j]
             /\ inv[j] = "settled" => inv'[j] = "settled"
             /\ inv[j] # "none" => inv'[j] # "none"
  BY <1>4 DEF Insert
<1>5. ASSUME NEW w \in Workers, Admit(w) \/ AdmitApproved(w)
      PROVE  \E i \in Ids : Insert(w, i) /\ inv[i] = "none" /\ UNCHANGED fact
  BY <1>5, ApprovedCall DEF Admit, AdmitApproved
<1>6. ASSUME NEW w \in Workers, Send(w)
      PROVE  /\ fact[j] # "none" => fact'[j] = fact[j]
             /\ inv[j] = "settled" => inv'[j] = "settled"
             /\ inv[j] # "none" => inv'[j] # "none"
  <2>1. /\ NextCall(mine[w]) \in Ids /\ inv[NextCall(mine[w])] = "admitted"
        /\ inv' = [inv EXCEPT ![NextCall(mine[w])] = "sent"] /\ UNCHANGED fact
    BY <1>6, InHand DEF Send, At, HandPlaces
  <2> QED
    BY <2>1
<1>7. ASSUME NEW i \in Ids, Execute(i) \/ Refuse(i)
      PROVE  /\ fact[j] # "none" => fact'[j] = fact[j]
             /\ inv[j] = "settled" => inv'[j] = "settled"
             /\ inv[j] # "none" => inv'[j] # "none"
  BY <1>7 DEF Execute, Refuse, callRows
<1>8. CASE Accept \/ RowStep \/ (\E p \in Approvers : Review(p)) \/ (\E k \in Steps : LapseGrant(k))
           \/ UNCHANGED hostedVars
  BY <1>1, <1>8 DEF Accept, Review, LapseGrant, RowStep, hostedVars, callRows
<1>9. ASSUME NEW w \in Workers,
             \/ Inspect(w) \/ ClaimRun(w) \/ Heartbeat(w) \/ ResumeOrStop(w) \/ Stop(w) \/ Load(w)
             \/ Start(w) \/ OverBudget(w) \/ Reuse(w) \/ Take(w) \/ Overspent(w) \/ OutOfSteps(w)
             \/ Exhaust(w) \/ Abandon(w) \/ Crash(w)
      PROVE UNCHANGED <<inv, fact>>
  BY <1>9 DEF Inspect, ClaimRun, Heartbeat, ResumeOrStop, Stop, Load, Start, OverBudget, Reuse,
     Take, Overspent, OutOfSteps, Exhaust, Abandon, Crash, callRows
<1> QED
  BY <1>1, <1>2, <1>3, <1>4, <1>5, <1>6, <1>7, <1>8, <1>9 DEF HostedNext, WorkerStep

-----------------------------------------------------------------------------
(* Checkpoints and workers.                                                *)

\* The snapshot that stops a run, or closes it as exhausted.
Stopped(s, f) == [s EXCEPT !.status = f, !.steps = UsedSteps, !.tools = UsedTools]

\* It is a sound one of the same revision.
LEMMA StoppedSound ==
  ASSUME HostedTypeOK, NEW s \in Snapshots, NEW f \in Terminal
  PROVE  /\ Stopped(s, f) \in Snapshots /\ SnapshotSound(Stopped(s, f))
         /\ Stopped(s, f).rev = s.rev /\ Stopped(s, f).status = f
<1> DEFINE t == Stopped(s, f)
<1>1. UsedSteps \in Nat /\ UsedTools \in Nat
  BY UsageTyped
<1>2. t \in Snapshots /\ t.rev = s.rev /\ t.status = f
  BY <1>1 DEF Snapshots, Stopped
<1> HIDE DEF t
<1>3. SnapshotSound(t)
  BY <1>2 DEF SnapshotSound
<1> QED
  BY <1>2, <1>3 DEF t

\* A change of status alone.
LEMMA StatusChanged ==
  ASSUME NEW s \in Snapshots, NEW f \in {"created"} \cup Active \cup Terminal, NEW t,
         t = [s EXCEPT !.status = f]
  PROVE  /\ t \in Snapshots /\ t.rev = s.rev /\ t.status = f
         /\ t.at = s.at /\ t.steps = s.steps /\ t.tools = s.tools
         /\ NextCall(t) = NextCall(s)
<1>1. /\ t \in Snapshots /\ t.rev = s.rev /\ t.status = f
      /\ t.at = s.at /\ t.steps = s.steps /\ t.tools = s.tools
  BY DEF Snapshots
<1> QED
  BY <1>1 DEF NextCall

\* The snapshot a saving step saves, and the proposals it rejects.
Saves(w, s, denied) ==
  \/ Start(w) /\ s = [mine[w] EXCEPT !.status = "running"] /\ denied = {}
  \/ /\ Stop(w) /\ denied = {}
     /\ s = Stopped(mine[w], IF At(w, "cancel") THEN "cancelled" ELSE "failed")
  \/ /\ Take(w) /\ s \in Taken(mine[w]) /\ denied = Denied(mine[w])
     /\ Go(w, IF Closing(s) THEN "leave" ELSE "drive")
  \/ OutOfSteps(w) /\ s = [mine[w] EXCEPT !.status = "exhausted"] /\ denied = {}
  \/ /\ Exhaust(w) /\ denied = {}
     /\ s = Stopped(ckpt, "exhausted")

SavingStep(w) == Start(w) \/ Stop(w) \/ Take(w) \/ OutOfSteps(w) \/ Exhaust(w)

\* Every saving step saves a sound snapshot, which continues the checkpoint.
LEMMA SavingStepSound ==
  ASSUME RowsInvariant, NEW w \in Workers, SavingStep(w)
  PROVE  \E s \in Snapshots, denied \in SUBSET Steps :
           /\ Saves(w, s, denied) /\ Save(w, s, denied)
           /\ SnapshotSound(s) /\ s.status # "created" /\ s.rev = ckpt.rev
           /\ UNCHANGED <<inv, invEpoch, fact, grant, granted, worldVars>>
           /\ \/ pc' = [pc EXCEPT ![w] = "leave"]
              \/ pc' = [pc EXCEPT ![w] = "drive"] /\ s.status = "running"
<1>1. /\ HostedTypeOK /\ mine[w] \in Snapshots /\ ckpt \in Snapshots
      /\ SnapshotSound(mine[w]) /\ SnapshotSound(ckpt) /\ WorkerSound(w)
  BY DEF RowsInvariant, HostedTypeOK, PlacesInvariant, WorkerSound
<1>2. ASSUME NEW s, NEW denied, Save(w, s, denied) PROVE s.rev = ckpt.rev
  BY <1>2 DEF Save, Saveable
<1>3. CASE Start(w)
  <2> DEFINE s == [mine[w] EXCEPT !.status = "running"]
  <2>1. Save(w, s, {}) /\ mine[w].status = "created"
        /\ UNCHANGED <<inv, invEpoch, fact, grant, pc, granted, worldVars>>
    BY <1>3 DEF Start
  <2>2. /\ s \in Snapshots /\ s.status = "running" /\ s.steps = mine[w].steps /\ s.at = mine[w].at
        /\ s.rev = mine[w].rev
    BY <1>1, Values, StatusChanged
  <2>3. SnapshotSound(s)
    BY <1>1, <2>1, <2>2 DEF SnapshotSound, Terminal
  <2>4. Saves(w, s, {})
    BY <1>3 DEF Saves
  <2>5. pc' = [pc EXCEPT ![w] = "drive"]
    BY <1>1, <1>3 DEF Start, At, HostedTypeOK
  <2> HIDE DEF s
  <2> QED
    BY <1>2, <2>1, <2>2, <2>3, <2>4, <2>5
<1>4. CASE Stop(w)
  <2> DEFINE f == IF At(w, "cancel") THEN "cancelled" ELSE "failed"
             s == Stopped(mine[w], f)
  <2>1. /\ Save(w, s, {}) /\ pc' = [pc EXCEPT ![w] = "leave"]
        /\ UNCHANGED <<inv, invEpoch, fact, grant, granted, worldVars>>
    BY <1>4 DEF Stop, Stopped, Go
  <2>2. f \in Terminal /\ f # "created"
    BY DEF Terminal
  <2>3. Saves(w, s, {})
    BY <1>4 DEF Saves
  <2> HIDE DEF f
  <2>4. s \in Snapshots /\ SnapshotSound(s) /\ s.status = f
    <3>1. HostedTypeOK /\ mine[w] \in Snapshots
      BY <1>1
    <3> QED
      BY <2>2, <3>1, StoppedSound
  <2> HIDE DEF s
  <2> QED
    BY <1>2, <2>1, <2>2, <2>3, <2>4
<1>5. CASE Take(w)
  <2>1. PICK s \in Taken(mine[w]) : /\ Save(w, s, Denied(mine[w]))
                                    /\ Go(w, IF Closing(s) THEN "leave" ELSE "drive")
    BY <1>5 DEF Take
  <2>2. mine[w].status = "running" /\ NextCall(mine[w]) \in Ids
    BY <1>1, <1>5 DEF Take, At, WorkerSound, HandPlaces
  <2>3. /\ s \in Snapshots /\ SnapshotSound(s)
        /\ s.status \in {"running", "awaiting_approval", "succeeded", "failed", "exhausted"}
        /\ Denied(mine[w]) \subseteq Steps
    <3> DEFINE m == mine[w]
    <3>0. m \in Snapshots /\ m.status = "running" /\ SnapshotSound(m) /\ NextCall(m) \in Ids
          /\ s \in Taken(m)
      BY <1>1, <2>2
    <3> HIDE DEF m
    <3>1. /\ s \in Snapshots /\ SnapshotSound(s)
          /\ s.status \in {"running", "awaiting_approval", "succeeded", "failed", "exhausted"}
          /\ Denied(m) = {} \/ (m.at = "model" /\ Denied(m) = {m.steps})
      BY <3>0, TakenSound
    <3>2. Denied(m) \subseteq Steps
      BY <3>0, <3>1, NextCallSound
    <3> QED
      BY <3>1, <3>2 DEF m
  <2>4. UNCHANGED <<inv, invEpoch, fact, grant, granted, worldVars>>
    BY <1>5 DEF Take
  <2>5. \/ pc' = [pc EXCEPT ![w] = "leave"]
        \/ pc' = [pc EXCEPT ![w] = "drive"] /\ s.status = "running"
    BY <2>1, <2>3 DEF Go, Closing, Terminal
  <2>6. Saves(w, s, Denied(mine[w]))
    BY <1>5, <2>1 DEF Saves
  <2> QED
    BY <1>2, <2>1, <2>3, <2>4, <2>5, <2>6
<1>6. CASE OutOfSteps(w)
  <2> DEFINE s == [mine[w] EXCEPT !.status = "exhausted"]
  <2>1. /\ Save(w, s, {}) /\ pc' = [pc EXCEPT ![w] = "leave"]
        /\ UNCHANGED <<inv, invEpoch, fact, grant, granted, worldVars>>
    BY <1>6 DEF OutOfSteps, Go
  <2>2. s \in Snapshots /\ s.status = "exhausted"
    BY <1>1, Values, StatusChanged
  <2>3. SnapshotSound(s)
    BY <2>2 DEF SnapshotSound, Terminal
  <2>4. Saves(w, s, {})
    BY <1>6 DEF Saves
  <2> HIDE DEF s
  <2> QED
    BY <1>2, <2>1, <2>2, <2>3, <2>4
<1>7. CASE Exhaust(w)
  <2> DEFINE s == Stopped(ckpt, "exhausted")
  <2>1. /\ Save(w, s, {}) /\ pc' = [pc EXCEPT ![w] = "leave"]
        /\ UNCHANGED <<inv, invEpoch, fact, grant, granted, worldVars>>
    BY <1>7 DEF Exhaust, Stopped, Go
  <2>2. "exhausted" \in Terminal
    BY DEF Terminal
  <2>3. Saves(w, s, {})
    BY <1>7 DEF Saves
  <2>4. s \in Snapshots /\ SnapshotSound(s) /\ s.status = "exhausted"
    <3>1. HostedTypeOK /\ ckpt \in Snapshots
      BY <1>1
    <3> QED
      BY <2>2, <3>1, StoppedSound
  <2> HIDE DEF s
  <2> QED
    BY <1>2, <2>1, <2>3, <2>4
<1> QED
  BY <1>3, <1>4, <1>5, <1>6, <1>7 DEF SavingStep

\* A step of one worker, which may move the checkpoint on, keeps what is true of the others.
LEMMA OneWorkerActs ==
  ASSUME RowsInvariant, [HostedNext]_hostedVars, NEW w \in Workers,
         ckpt' = ckpt \/ (ckpt'.rev = ckpt.rev + 1 /\ SnapshotSound(ckpt')),
         \A q \in Workers \ {w} : pc'[q] = pc[q] /\ mine'[q] = mine[q],
         WorkerSound(w)'
  PROVE  PlacesInvariant'
<1>1. /\ ckpt.rev \in Nat /\ \A q \in Workers : mine[q].rev \in Nat
  BY DEF RowsInvariant, HostedTypeOK, Snapshots
<1>2. SnapshotSound(ckpt') /\ (ckpt'.rev = 0 => ckpt' = Created)
  BY <1>1 DEF RowsInvariant, PlacesInvariant
<1>3. ASSUME NEW q \in Workers \ {w} PROVE WorkerSound(q)'
  <2>1. WorkerSound(q) /\ pc'[q] = pc[q] /\ mine'[q] = mine[q]
    BY DEF RowsInvariant, PlacesInvariant
  <2>2. Current(mine[q])'
    BY <1>1, <2>1 DEF WorkerSound, Current
  <2>3. NextCall(mine[q])' = NextCall(mine[q]) /\ (SnapshotSound(mine[q])' <=> SnapshotSound(mine[q]))
    BY <2>1 DEF NextCall, SnapshotSound
  <2>4. NextCall(mine[q]) \in Ids =>
          /\ fact[NextCall(mine[q])] = "completed" => fact'[NextCall(mine[q])] = "completed"
          /\ inv[NextCall(mine[q])] = "settled" => inv'[NextCall(mine[q])] = "settled"
    BY FactsStand
  <2>5. pc[q] \in {"settle", "result"} => NextCall(mine[q]) \in Ids
    BY <2>1 DEF WorkerSound, HandPlaces
  <2>6. /\ pc'[q] \in {"settle", "result"} => fact'[NextCall(mine[q])] = "completed"
        /\ pc'[q] = "result" => inv'[NextCall(mine[q])] = "settled"
    BY <2>1, <2>4, <2>5 DEF WorkerSound
  <2> QED
    BY <2>1, <2>2, <2>3, <2>6 DEF WorkerSound
<1> QED
  BY <1>2, <1>3 DEF PlacesInvariant, SnapshotSound

\* A step that moves no worker and saves nothing.
LEMMA NobodyActs ==
  ASSUME RowsInvariant, [HostedNext]_hostedVars, UNCHANGED <<ckpt, pc, mine>>
  PROVE  PlacesInvariant'
<1>1. CASE Workers = {}
  BY <1>1 DEF RowsInvariant, PlacesInvariant, SnapshotSound
<1>2. ASSUME NEW w \in Workers PROVE PlacesInvariant'
  <2>1. WorkerSound(w) /\ pc'[w] = pc[w] /\ mine'[w] = mine[w]
    BY DEF RowsInvariant, PlacesInvariant
  <2>2. /\ fact[NextCall(mine[w])] = "completed" /\ pc[w] \in {"settle", "result"} =>
              fact'[NextCall(mine[w])] = "completed"
        /\ inv[NextCall(mine[w])] = "settled" /\ pc[w] = "result" =>
              inv'[NextCall(mine[w])] = "settled"
    BY <2>1, FactsStand DEF WorkerSound, HandPlaces
  <2>3. /\ NextCall(mine[w])' = NextCall(mine[w]) /\ (SnapshotSound(mine[w])' <=> SnapshotSound(mine[w]))
        /\ (Current(mine[w])' <=> Current(mine[w]))
    BY <2>1 DEF NextCall, SnapshotSound, Current
  <2>4. WorkerSound(w)'
    BY <2>1, <2>2, <2>3 DEF WorkerSound
  <2> QED
    BY <2>4, OneWorkerActs
<1> QED
  BY <1>1, <1>2

\* Every step of a worker leaves it with a snapshot that fits its place.
LEMMA WorkerStepKeepsPlaces ==
  ASSUME RowsInvariant, [HostedNext]_hostedVars, NEW w \in Workers, WorkerStep(w)
  PROVE  PlacesInvariant'
<1>1. /\ HostedTypeOK /\ mine[w] \in Snapshots /\ ckpt \in Snapshots /\ pc \in [Workers -> Places]
      /\ mine \in [Workers -> Snapshots]
      /\ SnapshotSound(mine[w]) /\ SnapshotSound(ckpt) /\ WorkerSound(w) /\ Current(mine[w])
      /\ ckpt.rev \in Nat
  BY DEF RowsInvariant, HostedTypeOK, PlacesInvariant, WorkerSound, Snapshots
<1>2. ASSUME mine'[w] = mine[w], ckpt' = ckpt
      PROVE  /\ SnapshotSound(mine[w])' /\ Current(mine[w])' /\ NextCall(mine[w])' = NextCall(mine[w])
  BY <1>1, <1>2 DEF SnapshotSound, Current, NextCall
<1>3. ASSUME NEW place, Go(w, place), UNCHANGED <<ckpt, mine>>,
             place \in {"claim", "reconcile", "load", "stop", "cancel", "exhaust", "leave"}
      PROVE  PlacesInvariant'
  <2>1. /\ pc'[w] \notin HandPlaces \cup {"drive", "approve"}
        /\ \A q \in Workers \ {w} : pc'[q] = pc[q] /\ mine'[q] = mine[q]
    BY <1>1, <1>3 DEF Go, HandPlaces
  <2>2. WorkerSound(w)'
    BY <1>2, <1>3, <2>1 DEF WorkerSound, HandPlaces
  <2> QED
    BY <1>3, <2>1, <2>2, OneWorkerActs
<1>4. ASSUME SavingStep(w) PROVE PlacesInvariant'
  <2>1. PICK s \in Snapshots, denied \in SUBSET Steps :
           /\ Save(w, s, denied)
           /\ SnapshotSound(s) /\ s.rev = ckpt.rev
           /\ \/ pc' = [pc EXCEPT ![w] = "leave"]
              \/ pc' = [pc EXCEPT ![w] = "drive"] /\ s.status = "running"
    BY <1>4, SavingStepSound
  <2>2. mine' = [mine EXCEPT ![w] = Committed(s)] /\ ckpt' = Committed(s)
    BY <2>1 DEF Save, Persist
  <2>3. /\ SnapshotSound(Committed(s)) /\ Committed(s).rev = ckpt.rev + 1
        /\ s.status = "running" => Committed(s).status = "running"
    BY <2>1, CommittedSound DEF Closing, Terminal
  <2>4. /\ mine'[w] = ckpt' /\ \A q \in Workers \ {w} : pc'[q] = pc[q] /\ mine'[q] = mine[q]
        /\ pc'[w] = "leave" \/ pc'[w] = "drive"
        /\ pc'[w] = "drive" => mine'[w].status = "running"
    BY <1>1, <2>1, <2>2, <2>3
  <2>5. SnapshotSound(mine[w])' /\ Current(mine[w])'
    BY <1>1, <2>2, <2>3, <2>4 DEF SnapshotSound, Current
  <2>6. WorkerSound(w)'
    BY <2>4, <2>5 DEF WorkerSound, HandPlaces
  <2> QED
    BY <2>2, <2>3, <2>4, <2>6, OneWorkerActs
<1>5. CASE Inspect(w)
  <2>1. /\ mine' = [mine EXCEPT ![w] = ckpt] /\ pc' = [pc EXCEPT ![w] = "claim"] /\ ckpt' = ckpt
    BY <1>5 DEF Inspect, Go
  <2>2. WorkerSound(w)'
    BY <1>1, <2>1 DEF WorkerSound, HandPlaces, SnapshotSound, Current
  <2> QED
    BY <1>1, <2>1, <2>2, OneWorkerActs
<1>6. CASE ClaimRun(w)
  BY <1>3, <1>6 DEF ClaimRun
<1>7. CASE Heartbeat(w)
  BY <1>7, NobodyActs DEF Heartbeat
<1>8. CASE Reconcile(w)
  BY <1>8, NobodyActs DEF Reconcile, Settle, Retire, RecordResult
<1>9. CASE LoseResult(w)
  BY <1>3, <1>9 DEF LoseResult, MarkUnknown
<1>10. CASE ResumeOrStop(w)
  BY <1>3, <1>10 DEF ResumeOrStop
<1>11. CASE Load(w)
  <2>1. /\ mine' = [mine EXCEPT ![w] = ckpt] /\ ckpt' = ckpt /\ ckpt.status \notin Terminal
        /\ pc' = [pc EXCEPT ![w] = IF ckpt.status = "awaiting_approval" THEN "approve" ELSE "drive"]
    BY <1>11 DEF Load, Go
  <2>2. ckpt.status \in {"created", "running", "awaiting_approval"}
    BY <1>1, <2>1 DEF SnapshotSound
  <2>3. WorkerSound(w)'
    BY <1>1, <2>1, <2>2 DEF WorkerSound, HandPlaces, SnapshotSound, Current
  <2> QED
    BY <1>1, <2>1, <2>3, OneWorkerActs
<1>12. CASE Admit(w)
  <2>1. /\ mine' = mine /\ ckpt' = ckpt /\ pc' = [pc EXCEPT ![w] = "send"]
        /\ mine[w].status = "running" /\ NextCall(mine[w]) \in Ids
    BY <1>12 DEF Admit, Go, Wants
  <2>2. WorkerSound(w)'
    BY <1>1, <1>2, <2>1 DEF WorkerSound, HandPlaces
  <2> QED
    BY <1>1, <2>1, <2>2, OneWorkerActs
<1>13. CASE AdmitApproved(w)
  <2> DEFINE s == [mine[w] EXCEPT !.status = "running"]
  <2>1. /\ s \in Snapshots /\ s.status = "running" /\ s.rev = mine[w].rev /\ NextCall(s) = NextCall(ckpt)
        /\ s.at = mine[w].at /\ s.steps = mine[w].steps
    BY <1>1, <1>13, Values, StatusChanged, ApprovedCall
  <2>2. /\ mine[w] = ckpt /\ NextCall(ckpt) \in Ids /\ ckpt.status = "awaiting_approval"
    BY <1>13, ApprovedCall
  <2>3. /\ mine' = [mine EXCEPT ![w] = Committed(s)] /\ ckpt' = Committed(s)
        /\ pc' = [pc EXCEPT ![w] = "send"]
    BY <1>13 DEF AdmitApproved, AdmitsWith, Persist, Go
  <2> HIDE DEF s
  <2>4. SnapshotSound(s)
    BY <1>1, <2>1, <2>2, Values DEF SnapshotSound
  <2>5. /\ SnapshotSound(Committed(s)) /\ Committed(s).rev = ckpt.rev + 1
        /\ Committed(s).status = "running" /\ NextCall(Committed(s)) = NextCall(ckpt)
    BY <2>1, <2>2, <2>4, CommittedSound DEF Closing, Terminal, NextCall
  <2>6. /\ mine'[w] = ckpt' /\ \A q \in Workers \ {w} : pc'[q] = pc[q] /\ mine'[q] = mine[q]
        /\ pc'[w] = "send" /\ mine'[w].status = "running" /\ NextCall(mine[w])' \in Ids
    BY <1>1, <2>2, <2>3, <2>5 DEF NextCall
  <2>7. SnapshotSound(mine[w])' /\ Current(mine[w])'
    BY <1>1, <2>3, <2>5, <2>6 DEF SnapshotSound, Current
  <2>8. WorkerSound(w)'
    BY <2>6, <2>7 DEF WorkerSound, HandPlaces
  <2> QED
    BY <2>3, <2>5, <2>6, <2>8, OneWorkerActs
<1>14. CASE OverBudget(w)
  BY <1>3, <1>14 DEF OverBudget
<1>15. CASE Send(w)
  <2>1. /\ mine' = mine /\ ckpt' = ckpt /\ pc' = [pc EXCEPT ![w] = "sent"] /\ pc[w] = "send"
    BY <1>15 DEF Send, Go, At
  <2>2. WorkerSound(w)'
    BY <1>1, <1>2, <2>1 DEF WorkerSound, HandPlaces
  <2> QED
    BY <1>1, <2>1, <2>2, OneWorkerActs
<1>16. CASE Receive(w)
  <2> DEFINE i == NextCall(mine[w])
  <2>1. /\ mine' = mine /\ ckpt' = ckpt /\ pc' = [pc EXCEPT ![w] = "settle"] /\ pc[w] = "sent"
        /\ fact' = [fact EXCEPT ![i] = "completed"]
    BY <1>16 DEF Receive, RecordResult, Go, At
  <2>2. i \in Ids /\ mine[w].status = "running"
    BY <1>1, <2>1 DEF WorkerSound, HandPlaces
  <2>3. fact'[i] = "completed" /\ i' = i
    BY <1>1, <1>2, <2>1, <2>2 DEF HostedTypeOK
  <2> HIDE DEF i
  <2>4. /\ pc'[w] = "settle" /\ mine'[w] = mine[w]
    BY <1>1, <2>1
  <2>5. WorkerSound(w)'
    BY <1>1, <1>2, <2>1, <2>2, <2>3, <2>4 DEF WorkerSound, HandPlaces, i
  <2> QED
    BY <1>1, <2>1, <2>5, OneWorkerActs
<1>17. CASE SettleOwn(w)
  <2> DEFINE i == NextCall(mine[w])
  <2>1. /\ mine' = mine /\ ckpt' = ckpt /\ pc' = [pc EXCEPT ![w] = "result"] /\ pc[w] = "settle"
        /\ inv' = [inv EXCEPT ![i] = "settled"] /\ fact' = fact
    BY <1>17 DEF SettleOwn, Settle, Go, At
  <2>2. i \in Ids /\ mine[w].status = "running" /\ fact[i] = "completed"
    BY <1>1, <2>1 DEF WorkerSound, HandPlaces
  <2>3. fact'[i] = "completed" /\ inv'[i] = "settled" /\ i' = i
    BY <1>1, <1>2, <2>1, <2>2 DEF HostedTypeOK
  <2> HIDE DEF i
  <2>4. /\ pc'[w] = "result" /\ mine'[w] = mine[w]
    BY <1>1, <2>1
  <2>5. WorkerSound(w)'
    BY <1>1, <1>2, <2>1, <2>2, <2>3, <2>4 DEF WorkerSound, HandPlaces, i
  <2> QED
    BY <1>1, <2>1, <2>5, OneWorkerActs
<1>18. CASE Reuse(w)
  <2> DEFINE i == NextCall(mine[w])
  <2>1. /\ mine' = mine /\ ckpt' = ckpt /\ pc' = [pc EXCEPT ![w] = "result"]
        /\ i \in Ids /\ mine[w].status = "running"
        /\ inv[i] = "settled" /\ fact[i] = "completed" /\ inv' = inv /\ fact' = fact
    BY <1>18 DEF Reuse, Go, At, callRows
  <2>2. fact'[i] = "completed" /\ inv'[i] = "settled" /\ i' = i
    BY <1>1, <1>2, <2>1
  <2> HIDE DEF i
  <2>3. /\ pc'[w] = "result" /\ mine'[w] = mine[w]
    BY <1>1, <2>1
  <2>4. WorkerSound(w)'
    BY <1>1, <1>2, <2>1, <2>2, <2>3 DEF WorkerSound, HandPlaces, i
  <2> QED
    BY <1>1, <2>1, <2>4, OneWorkerActs
<1>19. CASE Overspent(w)
  BY <1>3, <1>19 DEF Overspent
<1>20. CASE Abandon(w) \/ Crash(w)
  <2>1. /\ mine' = [mine EXCEPT ![w] = Created] /\ pc' = [pc EXCEPT ![w] = "idle"] /\ ckpt' = ckpt
    BY <1>20 DEF Abandon, Crash, Forget, Go
  <2>2. /\ SnapshotSound(Created) /\ Current(Created)
    BY <1>1, HostedConstants DEF RowsInvariant, PlacesInvariant, SnapshotSound, Created, Current, Terminal
  <2>3. WorkerSound(w)'
    BY <1>1, <2>1, <2>2 DEF WorkerSound, HandPlaces, SnapshotSound, Current
  <2> QED
    BY <1>1, <2>1, <2>3, OneWorkerActs
<1> QED
  BY <1>4, <1>5, <1>6, <1>7, <1>8, <1>9, <1>10, <1>11, <1>12, <1>13, <1>14, <1>15, <1>16, <1>17,
     <1>18, <1>19, <1>20 DEF WorkerStep, SavingStep

\* Every step keeps the type of the run's rows, of its workers and of the world.
LEMMA TypeStep ==
  ASSUME RowsInvariant, [HostedNext]_hostedVars
  PROVE  HostedTypeOK'
<1> USE StoreConstants, HostedConstants DEF StoreTypeOK, storeVars, runVars, envVars, callRows, worldVars
<1>1. HostedTypeOK
  BY DEF RowsInvariant
<1>2. CASE Accept
  BY <1>1, <1>2 DEF Accept, Submit, HostedTypeOK, Active
<1>3. ASSUME NEW p \in Approvers, Review(p) PROVE HostedTypeOK'
  BY <1>1, <1>3 DEF Review, HostedTypeOK
<1>4. ASSUME NEW k \in Steps, LapseGrant(k) PROVE HostedTypeOK'
  BY <1>1, <1>4 DEF LapseGrant, HostedTypeOK
<1>5. CASE RowStep
  <2>1. StoreTypeOK'
    <3>1. CASE Cancel(Owner)
      BY <1>1, <3>1 DEF Cancel, HostedTypeOK
    <3>2. CASE LeaseTick
      BY <1>1, <3>2 DEF LeaseTick, HostedTypeOK
    <3>3. CASE PassDeadline
      BY <1>1, <3>3 DEF PassDeadline, HostedTypeOK
    <3>4. ASSUME NEW a \in Actors, SetMember(a) PROVE StoreTypeOK'
      BY <1>1, <3>4 DEF SetMember, HostedTypeOK
    <3> QED
      BY <1>5, <3>1, <3>2, <3>3, <3>4 DEF RowStep
  <2> QED
    BY <1>1, <1>5, <2>1 DEF RowStep, HostedTypeOK
<1>6. ASSUME NEW w \in Workers, SavingStep(w) PROVE HostedTypeOK'
  <2>1. PICK s \in Snapshots, denied \in SUBSET Steps :
           /\ Save(w, s, denied) /\ SnapshotSound(s) /\ s.status # "created"
           /\ UNCHANGED <<inv, invEpoch, fact, grant, granted, worldVars>>
           /\ \/ pc' = [pc EXCEPT ![w] = "leave"]
              \/ pc' = [pc EXCEPT ![w] = "drive"]
    BY <1>6, SavingStepSound
  <2>2. /\ mine' = [mine EXCEPT ![w] = Committed(s)] /\ ckpt' = Committed(s)
        /\ rejected' = rejected \cup denied
        /\ status' = IF s.status = "running" /\ status = "reconciling"
                     THEN "reconciling" ELSE Committed(s).status
        /\ leaseLeft' = IF Closing(s) THEN 0 ELSE leaseLeft
        /\ UNCHANGED <<epoch, holder, cancelRequested, used, reserved, deadlinePassed, member, ticket>>
    BY <2>1 DEF Save, Persist
  <2>3. Committed(s) \in Snapshots /\ Committed(s).status \in Active \cup Terminal
    <3>1. s.status \in Active \cup Terminal
      BY <2>1 DEF Snapshots
    <3> QED
      BY <3>1, CommittedSound DEF Terminal
  <2>4. StoreTypeOK'
    BY <1>1, <2>2, <2>3 DEF HostedTypeOK, Active
  <2>5. pc' \in [Workers -> Places]
    BY <1>1, <2>1 DEF HostedTypeOK, Places
  <2> QED
    BY <1>1, <2>1, <2>2, <2>3, <2>4, <2>5 DEF HostedTypeOK
<1>7. ASSUME NEW w \in Workers,
             \/ Inspect(w) \/ ClaimRun(w) \/ Heartbeat(w) \/ ResumeOrStop(w) \/ Load(w) \/ OverBudget(w)
             \/ Reuse(w) \/ Overspent(w) \/ Abandon(w) \/ Crash(w)
      PROVE  HostedTypeOK'
  <2>1. StoreTypeOK'
    <3>1. CASE UNCHANGED storeVars
      BY <1>1, <3>1 DEF HostedTypeOK
    <3>2. CASE ClaimRun(w)
      BY <1>1, <3>2 DEF ClaimRun, Claim, ClaimedStatus, HostedTypeOK, Active
    <3>3. CASE Heartbeat(w)
      BY <1>1, <3>3 DEF Heartbeat, Renew, HostedTypeOK
    <3>4. CASE ResumeOrStop(w)
      BY <1>1, <3>4 DEF ResumeOrStop, HostedTypeOK, Active
    <3>5. CASE Abandon(w)
      <4>1. /\ leaseLeft' = 0 \/ leaseLeft' = leaseLeft
            /\ status' = "awaiting_approval" \/ status' = status
            /\ UNCHANGED <<epoch, holder, cancelRequested, used, reserved, envVars, ticket>>
        BY <3>5 DEF Abandon
      <4> QED
        BY <1>1, <4>1 DEF HostedTypeOK, Active
    <3>6. CASE Crash(w)
      BY <1>1, <3>6 DEF Crash, LoseTicket, HostedTypeOK
    <3> QED
      BY <1>7, <3>1, <3>2, <3>3, <3>4, <3>5, <3>6
         DEF Inspect, Load, OverBudget, Reuse, Overspent
  <2>2. pc' \in [Workers -> Places]
    <3>1. \E place \in Places : pc' = [pc EXCEPT ![w] = place] \/ pc' = pc
      BY <1>7 DEF Inspect, ClaimRun, Heartbeat, ResumeOrStop, Load, OverBudget, Reuse, Overspent,
         Abandon, Crash, Forget, Go, Places
    <3> QED
      BY <1>1, <3>1 DEF HostedTypeOK
  <2>3. mine' \in [Workers -> Snapshots]
    <3>1. Created \in Snapshots
      BY Values DEF Created, Snapshots
    <3>2. \/ mine' = mine \/ mine' = [mine EXCEPT ![w] = ckpt] \/ mine' = [mine EXCEPT ![w] = Created]
      BY <1>7 DEF Inspect, ClaimRun, Heartbeat, ResumeOrStop, Load, OverBudget, Reuse, Overspent,
         Abandon, Crash, Forget
    <3> QED
      BY <1>1, <3>1, <3>2 DEF HostedTypeOK
  <2>4. granted' \in [Workers -> BOOLEAN]
    <3>1. \E b \in BOOLEAN : granted' = [granted EXCEPT ![w] = b] \/ granted' = granted
      <4>1. CASE Inspect(w)
        <5>1. granted' = [granted EXCEPT ![w] =
                ckpt.status = "awaiting_approval" /\ Approver(ckpt.steps - 1, "granted")]
          BY <4>1 DEF Inspect
        <5> QED
          BY <5>1, Zenon
      <4>2. CASE ~Inspect(w)
        BY <1>7, <4>2 DEF ClaimRun, Heartbeat, ResumeOrStop, Load, OverBudget, Reuse, Overspent,
           Abandon, Crash, Forget
      <4> QED
        BY <4>1, <4>2
    <3> QED
      BY <1>1, <3>1 DEF HostedTypeOK
  <2>5. UNCHANGED <<ckpt, callRows, worldVars>>
    BY <1>7 DEF Inspect, ClaimRun, Heartbeat, ResumeOrStop, Load, OverBudget, Reuse, Overspent,
       Abandon, Crash
  <2> QED
    BY <1>1, <2>1, <2>2, <2>3, <2>4, <2>5 DEF HostedTypeOK
<1>8. ASSUME NEW w \in Workers, NEW i \in Ids, Settle(w, i), pc' = pc \/ Go(w, "result")
      PROVE  HostedTypeOK'
  BY <1>1, <1>8 DEF Settle, Go, HostedTypeOK, Places, Kinds, Ids
<1>9. ASSUME NEW w \in Workers, NEW i \in Ids, Retire(w, i) PROVE HostedTypeOK'
  BY <1>1, <1>9 DEF Retire, HostedTypeOK, Ids
<1>10. ASSUME NEW w \in Workers, NEW i \in Ids, RecordResult(w, i), pc' = pc \/ Go(w, "settle")
       PROVE  HostedTypeOK'
  BY <1>1, <1>10 DEF RecordResult, Go, HostedTypeOK, Places
<1>11. ASSUME NEW w \in Workers, NEW i \in Ids, MarkUnknown(w, i) PROVE HostedTypeOK'
  BY <1>1, <1>11 DEF MarkUnknown, Go, HostedTypeOK, Places, Active
<1>12. ASSUME NEW w \in Workers, Reconcile(w) \/ LoseResult(w) \/ Receive(w) \/ SettleOwn(w)
       PROVE  HostedTypeOK'
  <2>1. pc[w] \in HandPlaces => NextCall(mine[w]) \in Ids
    BY InHand DEF RowsInvariant
  <2>2. CASE Reconcile(w)
    BY <1>8, <1>9, <1>10, <2>2 DEF Reconcile, Unsettled, Invoked
  <2>3. CASE LoseResult(w)
    BY <1>11, <2>1, <2>3 DEF LoseResult, Unsettled, Invoked, At, HandPlaces
  <2>4. CASE Receive(w)
    BY <1>10, <2>1, <2>4 DEF Receive, At, HandPlaces
  <2>5. CASE SettleOwn(w)
    BY <1>8, <2>1, <2>5 DEF SettleOwn, At, HandPlaces
  <2> QED
    BY <1>12, <2>2, <2>3, <2>4, <2>5
<1>13. ASSUME NEW w \in Workers, NEW i \in Ids, Insert(w, i), Go(w, "send")
       PROVE  /\ inv' \in [Ids -> {"none", "admitted", "sent", "unknown", "settled"}]
              /\ invEpoch' \in [Ids -> 0..MaxEpoch] /\ reserved' \in Int
              /\ pc' \in [Workers -> Places]
  BY <1>1, <1>13 DEF Insert, AdmissionEpoch, Go, HostedTypeOK, Places, Ids
<1>14. ASSUME NEW w \in Workers, Admit(w) PROVE HostedTypeOK'
  <2>1. PICK i \in Ids : Insert(w, i) /\ Go(w, "send")
    BY <1>14 DEF Admit
  <2>2. UNCHANGED <<status, epoch, holder, leaseLeft, cancelRequested, used, deadlinePassed, member,
                    ticket, ckpt, fact, rejected, grant, mine, granted, worldVars>>
    BY <1>14 DEF Admit
  <2> QED
    BY <1>1, <1>13, <2>1, <2>2 DEF HostedTypeOK
<1>15. ASSUME NEW w \in Workers, AdmitApproved(w) PROVE HostedTypeOK'
  <2> DEFINE s == [mine[w] EXCEPT !.status = "running"]
             i == NextCall(s)
  <2>1. i \in Ids /\ i[2] \in Steps
    BY <1>15, ApprovedCall, IdsFinite DEF RowsInvariant
  <2>2. Insert(w, i) /\ Go(w, "send") /\ grant' = [grant EXCEPT ![i[2]] = "consumed"]
        /\ mine' = [mine EXCEPT ![w] = Committed(s)] /\ ckpt' = Committed(s)
        /\ UNCHANGED <<status, epoch, holder, leaseLeft, cancelRequested, used, deadlinePassed, member,
                       ticket, fact, rejected, granted, worldVars>>
    BY <1>15 DEF AdmitApproved, AdmitsWith, Persist
  <2>3. mine[w] \in Snapshots
    BY <1>1 DEF HostedTypeOK
  <2>4. s \in Snapshots
    BY <2>3, Values, StatusChanged
  <2> HIDE DEF s, i
  <2>5. Committed(s) \in Snapshots
    BY <2>4, CommittedSound
  <2> QED
    BY <1>1, <1>13, <2>1, <2>2, <2>5 DEF HostedTypeOK
<1>16. ASSUME NEW w \in Workers, Send(w) PROVE HostedTypeOK'
  <2> DEFINE i == NextCall(mine[w])
  <2>1. i \in Ids
    BY <1>16, InHand DEF HandPlaces, Send, At, RowsInvariant
  <2>2. /\ inv[i] = "admitted" /\ inv' = [inv EXCEPT ![i] = "sent"]
        /\ sends' = [sends EXCEPT ![i] = sends[i] + 1]
        /\ wire' = wire \cup {i} /\ pc' = [pc EXCEPT ![w] = "sent"]
        /\ UNCHANGED <<storeVars, ckpt, invEpoch, fact, rejected, grant, mine, granted,
                       answer, effects, refused>>
    BY <1>16 DEF Send, Go
  <2> HIDE DEF i
  <2>3. sends[i] = 0
    BY <2>1, <2>2 DEF RowsInvariant, EffectInvariant, CallSound
  <2> QED
    BY <1>1, <2>1, <2>2, <2>3 DEF HostedTypeOK, Places
<1>17. ASSUME NEW i \in Ids, Execute(i) PROVE HostedTypeOK'
  <2>1. effects[i] = 0
    BY <1>17 DEF Execute, RowsInvariant, EffectInvariant, CallSound
  <2>2. answer' \in [Steps -> {"none"} \cup Answers]
    BY <1>1, <1>17, IdsFinite DEF Execute, HostedTypeOK
  <2> QED
    BY <1>1, <1>17, <2>1, <2>2 DEF Execute, HostedTypeOK
<1>18. ASSUME NEW i \in Ids, Refuse(i) PROVE HostedTypeOK'
  BY <1>1, <1>18 DEF Refuse, HostedTypeOK
<1>19. CASE UNCHANGED hostedVars
  BY <1>1, <1>19 DEF hostedVars, HostedTypeOK
<1> QED
  BY <1>2, <1>3, <1>4, <1>5, <1>6, <1>7, <1>12, <1>14, <1>15, <1>16, <1>17, <1>18, <1>19
     DEF HostedNext, WorkerStep, SavingStep

\* What rows and workers satisfy holds at the start.
LEMMA RowsInit == HostedInit => RowsInvariant
<1> SUFFICES ASSUME HostedInit PROVE RowsInvariant
  OBVIOUS
<1> USE StoreConstants, HostedConstants DEF HostedInit
<1>1. Created \in Snapshots /\ Created.status = "created" /\ Created.rev = 0 /\ Created.at = "model"
      /\ Created.steps = 0
  BY Values DEF Created, Snapshots
<1>2. StoreTypeOK
  <2>1. cancelRequested \in BOOLEAN /\ deadlinePassed \in BOOLEAN /\ member \in [Actors -> BOOLEAN]
    BY Zenon DEF StoreInit
  <2> QED
    BY <2>1 DEF StoreInit, StoreTypeOK
<1>3. granted \in [Workers -> BOOLEAN]
  BY Zenon
<1>4. HostedTypeOK
  BY <1>1, <1>2, <1>3 DEF HostedTypeOK, Places
<1>5. EffectInvariant
  BY DEF EffectInvariant, CallSound
<1>6. SnapshotSound(Created)
  BY <1>1 DEF SnapshotSound
<1>7. PlacesInvariant
  <2> HIDE DEF HostedInit
  <2>1. ckpt = Created /\ \A w \in Workers : pc[w] = "idle" /\ mine[w] = Created
    BY DEF HostedInit
  <2> QED
    BY <1>1, <1>6, <2>1 DEF PlacesInvariant, WorkerSound, Current, HandPlaces
<1> QED
  BY <1>4, <1>5, <1>7 DEF RowsInvariant

\* No step of any worker, reviewer, owner, clock or provider breaks it.
LEMMA RowsStep == RowsInvariant /\ [HostedNext]_hostedVars => RowsInvariant'
<1> SUFFICES ASSUME RowsInvariant, [HostedNext]_hostedVars PROVE PlacesInvariant'
  BY TypeStep, EffectStep DEF RowsInvariant
<1>1. ASSUME NEW w \in Workers, WorkerStep(w) PROVE PlacesInvariant'
  BY <1>1, WorkerStepKeepsPlaces
<1>2. CASE UNCHANGED <<ckpt, pc, mine>>
  BY <1>2, NobodyActs
<1> QED
  BY <1>1, <1>2 DEF HostedNext, Accept, Review, LapseGrant, RowStep, Execute, Refuse, hostedVars

\* Every reachable state of the run row, the call tables, the checkpoint, the workers and
\* the provider is of its type, for any number of workers, steps and epochs.
THEOREM TypeCorrect == HostedSpec => []HostedTypeOK
<1>1. RowsInvariant => HostedTypeOK
  BY DEF RowsInvariant
<1> QED
  BY <1>1, RowsInit, RowsStep, PTL DEF HostedSpec

\* Rows, receipts, requests and effects agree, and each worker has a snapshot that fits
\* its place, which is the current one where its revision is (save_in_transaction()).
THEOREM RowsHold == HostedSpec => []RowsInvariant
BY RowsInit, RowsStep, PTL DEF HostedSpec

-----------------------------------------------------------------------------
(* The hosted run implements the contract.                                 *)

hostedMap == <<Invoked, sends, effects, fact>>

\* Its workers, however many succeed each other, and the provider around them implement
\* GovernedEffect: each step is one of its steps or changes nothing of what it speaks of.
THEOREM RunKeepsContract == HostedSpec => HostedContract
<1> USE DEF HostedEffect!Allow, HostedEffect!Ask, HostedEffect!Happen, HostedEffect!Judge,
            HostedEffect!effectVars
<1>1. HostedInit => HostedEffect!EffectInit
  BY DEF HostedInit, HostedEffect!EffectInit, Invoked
<1>2. RowsInvariant /\ [HostedNext]_hostedVars => [HostedEffect!EffectNext]_(HostedEffect!effectVars)
  <2> SUFFICES ASSUME RowsInvariant, [HostedNext]_hostedVars
               PROVE  HostedEffect!EffectNext \/ UNCHANGED hostedMap
    BY DEF hostedMap
  <2> USE DEF Invoked, HostedTypeOK, RowsInvariant
  <2>1. CASE UNCHANGED <<inv, sends, effects, fact>>
    BY <2>1 DEF hostedMap
  <2>2. ASSUME NEW i \in Ids, NEW w \in Workers, inv[i] = "none", Insert(w, i),
               UNCHANGED <<sends, effects, fact>>
        PROVE  HostedEffect!EffectNext
    <3>1. HostedEffect!Allow(i)
      BY <2>2 DEF Insert
    <3> QED
      BY <3>1 DEF HostedEffect!EffectNext
  <2>3. ASSUME NEW i \in Ids, CallSound(i), inv[i] # "none", fact[i] = "none",
               NEW o, fact' = [fact EXCEPT ![i] = o],
               o = IF effects[i] = 1 THEN "completed" ELSE "not_executed",
               Invoked' = Invoked, UNCHANGED <<sends, effects>>
        PROVE  HostedEffect!EffectNext
    <3>1. HostedEffect!Judge(i)
      BY <2>3
    <3> QED
      BY <3>1 DEF HostedEffect!EffectNext
  <2>4. ASSUME NEW w \in Workers, NEW i \in Ids, RecordResult(w, i) PROVE HostedEffect!EffectNext
    <3>1. /\ CallSound(i) /\ inv[i] # "none" /\ fact[i] = "none" /\ effects[i] = 1
          /\ fact' = [fact EXCEPT ![i] = "completed"] /\ UNCHANGED <<inv, sends, effects>>
      BY <2>4 DEF RecordResult, EffectInvariant, worldVars
    <3> QED
      BY <2>3, <3>1
  <2>5. ASSUME NEW w \in Workers, NEW i \in Ids, Retire(w, i) PROVE HostedEffect!EffectNext
    <3>1. /\ CallSound(i) /\ inv[i] = "admitted" /\ fact[i] = "none"
          /\ fact' = [fact EXCEPT ![i] = "not_executed"] /\ UNCHANGED <<sends, effects>>
          /\ inv' = [inv EXCEPT ![i] = "settled"]
      BY <2>5 DEF Retire, Retireable, EffectInvariant, worldVars
    <3>2. effects[i] # 1 /\ Invoked' = Invoked
      BY <3>1 DEF CallSound
    <3> QED
      BY <2>3, <3>1, <3>2
  <2>6. ASSUME NEW i \in Ids, Refuse(i) PROVE HostedEffect!EffectNext
    <3>1. /\ CallSound(i) /\ inv[i] # "none" /\ fact[i] = "none" /\ effects[i] = 0
          /\ fact' = [fact EXCEPT ![i] = "not_executed"] /\ UNCHANGED <<inv, sends, effects>>
      BY <2>6 DEF Refuse, EffectInvariant
    <3>2. effects[i] # 1 /\ Invoked' = Invoked
      BY <3>1
    <3> QED
      BY <2>3, <3>1, <3>2
  <2>7. ASSUME NEW i \in Ids, NEW w \in Workers, Settle(w, i) \/ MarkUnknown(w, i)
        PROVE  UNCHANGED hostedMap
    BY <2>7 DEF Settle, Unsettled, MarkUnknown, hostedMap, worldVars
  <2>8. ASSUME NEW w \in Workers, Reconcile(w) \/ LoseResult(w) \/ Receive(w) \/ SettleOwn(w)
        PROVE  HostedEffect!EffectNext \/ UNCHANGED hostedMap
    <3>1. \E i \in Ids : Settle(w, i) \/ Retire(w, i) \/ RecordResult(w, i) \/ MarkUnknown(w, i)
      BY <2>8, OpenCallStep
    <3> QED
      BY <2>4, <2>5, <2>7, <3>1
  <2>9. ASSUME NEW w \in Workers, Admit(w) \/ AdmitApproved(w) PROVE HostedEffect!EffectNext
    <3>1. \E i \in Ids : inv[i] = "none" /\ Insert(w, i) /\ UNCHANGED <<sends, effects, fact>>
      BY <2>9, ApprovedCall DEF Admit, AdmitApproved, worldVars
    <3> QED
      BY <2>2, <3>1
  <2>10. ASSUME NEW w \in Workers, Send(w) PROVE HostedEffect!EffectNext
    <3> DEFINE i == NextCall(mine[w])
    <3>1. i \in Ids
      BY <2>10, InHand DEF Send, At, HandPlaces
    <3>2. /\ inv[i] = "admitted" /\ fact[i] = "none" /\ inv' = [inv EXCEPT ![i] = "sent"]
          /\ sends' = [sends EXCEPT ![i] = sends[i] + 1] /\ UNCHANGED <<fact, effects>>
      BY <2>10 DEF Send
    <3> HIDE DEF i
    <3>3. sends[i] = 0
      BY <3>1, <3>2 DEF EffectInvariant, CallSound
    <3>4. HostedEffect!Ask(i)
      BY <3>1, <3>2, <3>3
    <3> QED
      BY <3>1, <3>4 DEF HostedEffect!EffectNext
  <2>11. ASSUME NEW i \in Ids, Execute(i) PROVE HostedEffect!EffectNext
    <3>1. sends[i] = 1 /\ effects[i] = 0 /\ fact[i] = "none"
      BY <2>11 DEF Execute, EffectInvariant, CallSound
    <3>2. HostedEffect!Happen(i)
      BY <2>11, <3>1 DEF Execute, callRows
    <3> QED
      BY <3>2 DEF HostedEffect!EffectNext
  <2>12. CASE Accept \/ RowStep \/ (\E p \in Approvers : Review(p)) \/ (\E k \in Steps : LapseGrant(k))
              \/ UNCHANGED hostedVars
    BY <2>1, <2>12 DEF Accept, Review, LapseGrant, RowStep, hostedVars, callRows, worldVars
  <2>13. ASSUME NEW w \in Workers,
             \/ Inspect(w) \/ ClaimRun(w) \/ Heartbeat(w) \/ ResumeOrStop(w) \/ Stop(w) \/ Load(w)
             \/ Start(w) \/ OverBudget(w) \/ Reuse(w) \/ Take(w) \/ Overspent(w) \/ OutOfSteps(w)
             \/ Exhaust(w) \/ Abandon(w) \/ Crash(w)
         PROVE UNCHANGED <<inv, sends, effects, fact>>
    BY <2>13 DEF Inspect, ClaimRun, Heartbeat, ResumeOrStop, Stop, Load, Start, OverBudget, Reuse,
       Take, Overspent, OutOfSteps, Exhaust, Abandon, Crash, callRows, worldVars
  <2> QED
    BY <2>1, <2>6, <2>8, <2>9, <2>10, <2>11, <2>12, <2>13 DEF HostedNext, WorkerStep
<1> QED
  BY <1>1, <1>2, RowsHold, PTL DEF HostedSpec, HostedContract, HostedEffect!EffectSpec

-----------------------------------------------------------------------------
(* Ownership.                                                              *)

OwnedInvariant == LeaseSound /\ RunningIsOwned

\* Steps that open nothing and do not make the run public as running.
LEMMA OwnershipStands ==
  ASSUME HostedTypeOK, OwnedInvariant,
         leaseLeft' > 0 => status' \in {"running", "reconciling"},
         status' = "running" => status = "running" /\ epoch' = epoch /\ invEpoch' = invEpoch,
         \A i \in Ids : inv'[i] = inv[i] \/ inv'[i] = "settled"
                        \/ (inv[i] = "admitted" /\ inv'[i] = "sent")
  PROVE  OwnedInvariant'
BY DEF OwnedInvariant, LeaseSound, RunningIsOwned, Unsettled, Invoked, HostedTypeOK, StoreTypeOK

\* The lease is of a driven run, and what a running run has open is its owner's.
LEMMA OwnedStep ==
  ASSUME RowsInvariant, OwnedInvariant, [HostedNext]_hostedVars
  PROVE  OwnedInvariant'
<1> USE DEF storeVars, runVars, callRows
<1>1. HostedTypeOK /\ leaseLeft \in Int /\ epoch \in Int
  BY DEF RowsInvariant, HostedTypeOK, StoreTypeOK
<1>2. CASE UNCHANGED <<status, leaseLeft, epoch, inv, invEpoch>>
  BY <1>1, <1>2, OwnershipStands DEF OwnedInvariant, LeaseSound
<1>3. CASE Accept
  BY <1>1, <1>3, OwnershipStands DEF Accept, Submit, OwnedInvariant, LeaseSound
<1>4. CASE RowStep
  <2>1. UNCHANGED <<status, epoch, inv, invEpoch>> /\ (leaseLeft' > 0 => leaseLeft > 0)
    BY <1>1, <1>4 DEF RowStep, Cancel, LeaseTick, PassDeadline, SetMember
  <2> QED
    BY <1>1, <2>1, OwnershipStands DEF OwnedInvariant, LeaseSound
<1>5. ASSUME NEW w \in Workers, SavingStep(w) PROVE OwnedInvariant'
  <2>1. PICK s \in Snapshots, denied \in SUBSET Steps :
           /\ Save(w, s, denied) /\ SnapshotSound(s) /\ s.status # "created"
           /\ UNCHANGED <<inv, invEpoch>>
    BY <1>5, SavingStepSound
  <2>2. /\ leaseLeft > 0
        /\ status' = IF s.status = "running" /\ status = "reconciling"
                     THEN "reconciling" ELSE Committed(s).status
        /\ leaseLeft' = IF Closing(s) THEN 0 ELSE leaseLeft
        /\ epoch' = epoch
    BY <2>1 DEF Save, LockLease
  <2>3. status \in {"running", "reconciling"}
    BY <2>2 DEF OwnedInvariant, LeaseSound
  <2>4. Committed(s).status = "running" => s.status = "running"
    BY CommittedSound
  <2>5. leaseLeft' > 0 => ~Closing(s)
    BY <2>2
  <2>6. ~Closing(s) => s.status = "running" /\ Committed(s).status = "running"
    BY <2>1, CommittedSound DEF SnapshotSound, Closing
  <2>7. leaseLeft' > 0 => status' \in {"running", "reconciling"}
    BY <2>2, <2>5, <2>6
  <2>8. status' = "running" => status = "running"
    BY <2>2, <2>3, <2>4
  <2> QED
    BY <1>1, <2>1, <2>2, <2>7, <2>8, OwnershipStands
<1>6. ASSUME NEW w \in Workers, ClaimRun(w) PROVE OwnedInvariant'
  <2>1. /\ status' \in {"running", "reconciling"}
        /\ status' = "running" => Unsettled = {}
        /\ UNCHANGED <<inv, invEpoch>>
    BY <1>6 DEF ClaimRun, Claim, ClaimedStatus
  <2>2. Unsettled' = Unsettled
    BY <2>1 DEF Unsettled, Invoked
  <2> QED
    BY <2>1, <2>2 DEF OwnedInvariant, LeaseSound, RunningIsOwned
<1>7. ASSUME NEW w \in Workers, Heartbeat(w) PROVE OwnedInvariant'
  BY <1>1, <1>7, OwnershipStands DEF Heartbeat, Renew, LockLease, OwnedInvariant, LeaseSound
<1>8. ASSUME NEW w \in Workers, NEW i \in Ids,
             Settle(w, i) \/ Retire(w, i) \/ RecordResult(w, i) \/ MarkUnknown(w, i)
      PROVE  OwnedInvariant'
  <2>1. CASE MarkUnknown(w, i)
    BY <2>1 DEF MarkUnknown, OwnedInvariant, LeaseSound, RunningIsOwned
  <2>2. CASE RecordResult(w, i)
    BY <1>2, <2>2 DEF RecordResult
  <2>3. CASE Settle(w, i) \/ Retire(w, i)
    <3>1. /\ UNCHANGED <<status, leaseLeft, epoch, invEpoch>>
          /\ inv' = [inv EXCEPT ![i] = "settled"]
      BY <2>3 DEF Settle, Retire
    <3>2. \A j \in Ids : inv'[j] = inv[j] \/ inv'[j] = "settled"
      BY <1>1, <3>1 DEF HostedTypeOK
    <3> QED
      BY <1>1, <3>1, <3>2, OwnershipStands DEF OwnedInvariant, LeaseSound
  <2> QED
    BY <1>8, <2>1, <2>2, <2>3
<1>9. ASSUME NEW w \in Workers, Reconcile(w) \/ LoseResult(w) \/ Receive(w) \/ SettleOwn(w)
      PROVE  OwnedInvariant'
  BY <1>8, <1>9, OpenCallStep
<1>10. ASSUME NEW w \in Workers, ResumeOrStop(w) PROVE OwnedInvariant'
  <2>1. /\ Unsettled = {} /\ UNCHANGED <<inv, leaseLeft>>
        /\ status' = status \/ status' = "running"
        /\ leaseLeft > 0 => status' \in {"running", "reconciling"}
    BY <1>10 DEF ResumeOrStop, Quiet, OwnedInvariant, LeaseSound
  <2>2. Unsettled' = {}
    BY <2>1 DEF Unsettled, Invoked
  <2> QED
    BY <2>1, <2>2 DEF OwnedInvariant, LeaseSound, RunningIsOwned
<1>11. ASSUME NEW w \in Workers, Admit(w) \/ AdmitApproved(w) PROVE OwnedInvariant'
  <2>1. PICK i \in Ids : /\ Insert(w, i) /\ Accepting(w)
                         /\ UNCHANGED <<status, epoch, leaseLeft>>
    BY <1>11, ApprovedCall DEF Admit, AdmitApproved
  <2>2. /\ inv' = [inv EXCEPT ![i] = "admitted"] /\ invEpoch' = [invEpoch EXCEPT ![i] = epoch]
        /\ status = "running"
    BY <2>1 DEF Insert, AdmissionEpoch, Accepting, LockLease, AcceptsWork
  <2>3. RunningIsOwned'
    BY <1>1, <2>1, <2>2 DEF RunningIsOwned, OwnedInvariant, Unsettled, Invoked, HostedTypeOK
  <2> QED
    BY <2>1, <2>2, <2>3 DEF OwnedInvariant, LeaseSound
<1>12. ASSUME NEW w \in Workers, Send(w) PROVE OwnedInvariant'
  <2> DEFINE i == NextCall(mine[w])
  <2>1. i \in Ids
    BY <1>12, InHand DEF Send, At, HandPlaces, RowsInvariant
  <2>2. inv[i] = "admitted" /\ inv' = [inv EXCEPT ![i] = "sent"]
        /\ UNCHANGED <<status, leaseLeft, epoch, invEpoch>>
    BY <1>12 DEF Send
  <2> HIDE DEF i
  <2>3. \A j \in Ids : inv'[j] = inv[j] \/ (inv[j] = "admitted" /\ inv'[j] = "sent")
    BY <1>1, <2>1, <2>2 DEF HostedTypeOK
  <2> QED
    BY <1>1, <2>2, <2>3, OwnershipStands DEF OwnedInvariant, LeaseSound
<1>13. ASSUME NEW w \in Workers, Abandon(w) PROVE OwnedInvariant'
  <2>1. /\ UNCHANGED <<epoch, inv, invEpoch>>
        /\ \/ leaseLeft' = 0 /\ status' \in {status, "awaiting_approval"}
           \/ UNCHANGED <<leaseLeft, status>>
    BY <1>13 DEF Abandon
  <2>2. leaseLeft' > 0 => status' \in {"running", "reconciling"}
    BY <1>1, <2>1 DEF OwnedInvariant, LeaseSound
  <2>3. status' = "running" => status = "running"
    BY <2>1
  <2> QED
    BY <1>1, <2>1, <2>2, <2>3, OwnershipStands
<1>14. ASSUME NEW w \in Workers,
              Inspect(w) \/ Load(w) \/ OverBudget(w) \/ Reuse(w) \/ Overspent(w) \/ Crash(w)
       PROVE  OwnedInvariant'
  BY <1>2, <1>14 DEF Inspect, Load, OverBudget, Reuse, Overspent, Crash, LoseTicket
<1>15. CASE (\E p \in Approvers : Review(p)) \/ (\E k \in Steps : LapseGrant(k))
            \/ (\E i \in Ids : Execute(i) \/ Refuse(i)) \/ UNCHANGED hostedVars
  BY <1>2, <1>15 DEF Review, LapseGrant, Execute, Refuse, hostedVars
<1> QED
  BY <1>3, <1>4, <1>5, <1>6, <1>7, <1>9, <1>10, <1>11, <1>12, <1>13, <1>14, <1>15
     DEF HostedNext, WorkerStep, SavingStep

\* A running run has nothing open that an earlier owner left, and nothing in doubt, however
\* its owners succeed each other (claim(), _resume_or_stop(), mark_unknown()).
THEOREM RunningIsOwnedAlways == HostedSpec => []RunningIsOwned
<1>1. HostedInit => OwnedInvariant
  BY DEF HostedInit, StoreInit, OwnedInvariant, LeaseSound, RunningIsOwned
<1>2. RowsInvariant /\ OwnedInvariant /\ [HostedNext]_hostedVars => OwnedInvariant'
  BY OwnedStep
<1>3. OwnedInvariant => RunningIsOwned
  BY DEF OwnedInvariant
<1> QED
  BY <1>1, <1>2, <1>3, RowsHold, PTL DEF HostedSpec

-----------------------------------------------------------------------------
(* Usage.                                                                  *)

\* A call whose result counts as usage.
Done(i) == inv[i] = "settled" /\ fact[i] = "completed"

\* Usage is a function of what is done and what is rejected.
LEMMA UsageStands ==
  ASSUME \A i \in Ids : Done(i)' <=> Done(i)
  PROVE  /\ \A kind \in Kinds : SettledOf(kind)' = SettledOf(kind)
         /\ UsedSteps' = UsedSteps
         /\ rejected' = rejected => UsedTools' = UsedTools
<1>1. \A kind : SettledOf(kind)' = SettledOf(kind)
  BY DEF SettledOf, Done
<1> QED
  BY <1>1 DEF UsedSteps, UsedTools

\* A call that gets done adds one to the usage of its kind.
LEMMA UsageGrows ==
  ASSUME HostedTypeOK, NEW i \in Ids, ~Done(i), Done(i)', rejected' = rejected,
         \A j \in Ids \ {i} : Done(j)' <=> Done(j)
  PROVE  /\ UsedSteps' = UsedSteps + (IF i[1] = "model" THEN 1 ELSE 0)
         /\ UsedTools' = UsedTools + (IF i[1] = "tool" THEN 1 ELSE 0)
<1>1. i[1] \in Kinds
  BY IdsFinite
<1>2. \A kind \in Kinds : IsFiniteSet(SettledOf(kind)) /\ i \notin SettledOf(kind)
  BY UsageTyped DEF SettledOf, Done
<1>3. \A kind \in Kinds : SettledOf(kind)' = IF i[1] = kind THEN SettledOf(kind) \cup {i}
                                             ELSE SettledOf(kind)
  BY DEF SettledOf, Done
<1>4. \A kind \in Kinds : Cardinality(SettledOf(kind)') =
                            Cardinality(SettledOf(kind)) + (IF i[1] = kind THEN 1 ELSE 0)
  <2> TAKE kind \in Kinds
  <2>1. CASE i[1] = kind
    BY <1>2, <1>3, <2>1, FS_AddElement
  <2>2. CASE i[1] # kind
    <3>1. Cardinality(SettledOf(kind)) \in Nat
      BY <1>2, FS_CardinalityType
    <3> QED
      BY <1>3, <2>2, <3>1
  <2> QED
    BY <2>1, <2>2
<1>5. /\ Cardinality(SettledOf("model"))' =
           Cardinality(SettledOf("model")) + (IF i[1] = "model" THEN 1 ELSE 0)
      /\ Cardinality(SettledOf("tool"))' =
           Cardinality(SettledOf("tool")) + (IF i[1] = "tool" THEN 1 ELSE 0)
  BY <1>4 DEF Kinds
<1>6. /\ Cardinality(SettledOf("model")) \in Nat /\ Cardinality(SettledOf("tool")) \in Nat
      /\ Cardinality(rejected) \in Nat
  BY <1>2, UsageTyped, FS_CardinalityType DEF Kinds
<1> QED
  BY <1>5, <1>6 DEF UsedSteps, UsedTools

\* A rejection adds one to the usage of tools.
LEMMA RejectionsCount ==
  ASSUME HostedTypeOK, NEW denied, denied = {} \/ \E k : denied = {k} /\ k \notin rejected,
         rejected' = rejected \cup denied, \A i \in Ids : Done(i)' <=> Done(i)
  PROVE  UsedTools' = UsedTools + Cardinality(denied) /\ Cardinality(denied) \in Nat
<1>1. SettledOf("tool")' = SettledOf("tool")
  BY UsageStands DEF Kinds
<1>2. IsFiniteSet(rejected) /\ Cardinality(rejected) \in Nat /\ Cardinality(SettledOf("tool")) \in Nat
  BY UsageTyped, FS_CardinalityType DEF Kinds
<1>3. CASE denied = {}
  <2>1. Cardinality(denied) = 0 /\ rejected' = rejected
    BY <1>3, FS_EmptySet
  <2> QED
    BY <1>1, <1>2, <2>1 DEF UsedTools
<1>4. ASSUME NEW k, denied = {k}, k \notin rejected
      PROVE  UsedTools' = UsedTools + Cardinality(denied) /\ Cardinality(denied) \in Nat
  <2>1. Cardinality(denied) = 1
    BY <1>4, FS_Singleton
  <2>2. Cardinality(rejected') = Cardinality(rejected) + 1
    BY <1>2, <1>4, FS_AddElement
  <2> QED
    BY <1>1, <1>2, <2>1, <2>2 DEF UsedTools
<1> QED
  BY <1>3, <1>4

-----------------------------------------------------------------------------
(* Transcript, approvals and closed runs.                                  *)

TranscriptInvariant ==
  /\ RowsInvariant
  /\ TranscriptSound
  /\ ApprovalEndsTheWait
  /\ ClosedRunIsSettled

\* Only a save and the consumption of an approval write the checkpoint.
LEMMA CheckpointWriters ==
  ASSUME [HostedNext]_hostedVars
  PROVE  \/ UNCHANGED <<ckpt, rejected>>
         \/ \E w \in Workers : SavingStep(w) \/ AdmitApproved(w)
<1> USE DEF callRows, hostedVars
<1>1. CASE Accept \/ RowStep \/ (\E p \in Approvers : Review(p)) \/ (\E k \in Steps : LapseGrant(k))
           \/ (\E i \in Ids : Execute(i) \/ Refuse(i)) \/ UNCHANGED hostedVars
  BY <1>1 DEF Accept, RowStep, Review, LapseGrant, Execute, Refuse
<1>2. ASSUME NEW w \in Workers,
             \/ Inspect(w) \/ ClaimRun(w) \/ Heartbeat(w) \/ Reconcile(w) \/ LoseResult(w)
             \/ ResumeOrStop(w) \/ Load(w) \/ Admit(w) \/ OverBudget(w) \/ Send(w) \/ Receive(w)
             \/ SettleOwn(w) \/ Reuse(w) \/ Overspent(w) \/ Abandon(w) \/ Crash(w)
      PROVE  UNCHANGED <<ckpt, rejected>>
  BY <1>2 DEF Inspect, ClaimRun, Heartbeat, Reconcile, Settle, Retire, RecordResult, LoseResult,
     MarkUnknown, ResumeOrStop, Load, Admit, OverBudget, Send, Receive, SettleOwn, Reuse, Overspent,
     Abandon, Crash
<1> QED
  BY <1>1, <1>2 DEF HostedNext, WorkerStep, SavingStep

\* Nobody touches a closed run, whatever snapshot or result it still has in hand.
LEMMA ClosedStands ==
  ASSUME TranscriptInvariant, [HostedNext]_hostedVars, ckpt.status \in Terminal
  PROVE  /\ UNCHANGED <<ckpt, inv, fact, rejected, status, used, reserved>>
         /\ \A i \in Ids : effects[i] = 1 => effects'[i] = 1
<1> USE DEF storeVars, runVars, callRows, worldVars
<1>1. /\ status \in Terminal /\ status \notin Active /\ status # "absent"
      /\ \A i \in Ids : inv[i] \in {"none", "settled"} /\ (inv[i] = "settled" => fact[i] # "none")
      /\ \A i \in Ids : i \in wire => effects[i] = 0
  BY DEF TranscriptInvariant, ClosedRunIsSettled, Unsettled, Invoked, RowsInvariant, EffectInvariant,
     CallSound, HostedTypeOK, Active, Terminal
<1>2. \A w \in Workers : ~LockLease(w)
  BY <1>1 DEF LockLease
<1>3. CASE Accept \/ RowStep \/ (\E p \in Approvers : Review(p)) \/ (\E k \in Steps : LapseGrant(k))
           \/ UNCHANGED hostedVars
  BY <1>1, <1>3 DEF Accept, Submit, RowStep, Cancel, LeaseTick, PassDeadline, SetMember, Review,
     LapseGrant, hostedVars
<1>4. ASSUME NEW i \in Ids, Execute(i) \/ Refuse(i)
      PROVE  /\ UNCHANGED <<ckpt, inv, fact, rejected, status, used, reserved>>
             /\ \A j \in Ids : effects[j] = 1 => effects'[j] = 1
  BY <1>1, <1>4 DEF Execute, Refuse, TranscriptInvariant, RowsInvariant, HostedTypeOK
<1>5. ASSUME NEW w \in Workers, WorkerStep(w)
      PROVE  UNCHANGED <<ckpt, inv, fact, rejected, status, used, reserved, effects>>
  <2>1. ~Reconcile(w) /\ ~LoseResult(w) /\ ~Receive(w) /\ ~SettleOwn(w)
    <3>1. ASSUME NEW i \in Ids,
                 Settle(w, i) \/ Retire(w, i) \/ RecordResult(w, i) \/ MarkUnknown(w, i)
          PROVE  FALSE
      BY <1>1, <1>2, <3>1 DEF Settle, Retire, RecordResult, MarkUnknown
    <3> QED
      BY <3>1, OpenCallStep DEF TranscriptInvariant
  <2>2. ~SavingStep(w)
    BY <1>2 DEF SavingStep, Start, Stop, Take, OutOfSteps, Exhaust, Save
  <2>3. ~ClaimRun(w) /\ ~Heartbeat(w) /\ ~ResumeOrStop(w) /\ ~Admit(w) /\ ~AdmitApproved(w)
        /\ ~OverBudget(w) /\ ~Send(w)
    BY <1>1, <1>2 DEF ClaimRun, Claim, Claimable, Heartbeat, Renew, ResumeOrStop, Admit,
       AdmitApproved, OverBudget, Send, Accepting
  <2>4. CASE Inspect(w) \/ Load(w) \/ Reuse(w) \/ Overspent(w) \/ Crash(w)
    BY <2>4 DEF Inspect, Load, Reuse, Overspent, Crash, LoseTicket
  <2>5. CASE Abandon(w)
    BY <1>2, <2>5 DEF Abandon
  <2> QED
    BY <1>5, <2>1, <2>2, <2>3, <2>4, <2>5 DEF WorkerStep, SavingStep
<1> QED
  BY <1>3, <1>4, <1>5 DEF HostedNext

\* The loop takes the result of the one call that was ahead of the checkpoint, and what it
\* saves needs a call that has no row yet.
LEMMA TakeMovesOn ==
  ASSUME TranscriptInvariant, NEW w \in Workers, NEW s, Take(w), s \in Taken(mine[w]),
         Saveable(s, Denied(mine[w]))
  PROVE  /\ mine[w] = ckpt /\ ckpt.status = "running"
         /\ \/ Denied(mine[w]) = {}
            \/ \E k : Denied(mine[w]) = {k} /\ k \notin rejected /\ k < s.steps
         /\ \A k \in rejected : k < s.steps
         /\ NextCall(s) \notin Invoked
         /\ \A i \in Invoked : Done(i) /\ i[2] < s.steps
<1> DEFINE m == mine[w]
<1>1. /\ m \in Snapshots /\ SnapshotSound(m) /\ m.status = "running" /\ NextCall(m) \in Ids
      /\ Done(NextCall(m)) /\ Current(m)
  BY DEF TranscriptInvariant, RowsInvariant, HostedTypeOK, PlacesInvariant, WorkerSound, Take, At,
     HandPlaces, Done
<1>2. s \in Taken(m) /\ Saveable(s, Denied(m))
  OBVIOUS
<1> HIDE DEF m
<1>3. /\ s \in Snapshots /\ s.rev = m.rev
      /\ \/ s.at = "model" /\ m.at = "tool" /\ s.steps = m.steps /\ Denied(m) = {}
         \/ /\ m.at = "model" /\ s.steps = m.steps + 1
            /\ Denied(m) = {} \/ Denied(m) = {m.steps}
  BY <1>1, <1>2, TakenSound
<1>4. m = ckpt
  BY <1>1, <1>2, <1>3 DEF Saveable, Current
<1>5. /\ m.steps \in Nat /\ s.steps \in Nat /\ s.at \in {"model", "tool"}
      /\ m.at = "tool" => NextCall(m) = <<"tool", m.steps - 1>>
      /\ m.at = "model" => NextCall(m) = <<"model", m.steps>>
      /\ s.at = "tool" => NextCall(s) = <<"tool", s.steps - 1>>
      /\ s.at = "model" => NextCall(s) = <<"model", s.steps>>
  BY <1>1, <1>3, NextCallSound DEF Snapshots, Kinds
<1>6. /\ \A i \in Invoked : i = NextCall(m) \/ (i[2] < m.steps /\ Done(i))
      /\ \A k \in rejected : k < m.steps
  BY <1>1, <1>4, Values DEF TranscriptInvariant, TranscriptSound, Behind, Done
<1>7. rejected \subseteq Nat /\ \A i \in Invoked : i[2] \in Nat
  BY IdsFinite, HostedConstants DEF TranscriptInvariant, RowsInvariant, HostedTypeOK, Steps, Invoked
<1>8. \A i \in Invoked : Done(i) /\ i[2] < s.steps
  BY <1>1, <1>3, <1>5, <1>6, <1>7
<1>9. NextCall(s) \notin Invoked
  <2>1. CASE s.at = "model"
    BY <1>5, <1>8, <2>1
  <2>2. CASE s.at = "tool"
    <3>1. NextCall(s) = <<"tool", m.steps>> /\ NextCall(m) = <<"model", m.steps>>
      BY <1>3, <1>5, <2>2
    <3> QED
      BY <1>5, <1>6, <3>1
  <2> QED
    BY <1>5, <2>1, <2>2
<1>10. \A k \in rejected : k < s.steps
  BY <1>3, <1>5, <1>6, <1>7
<1>11. \/ Denied(m) = {}
       \/ \E k : Denied(m) = {k} /\ k \notin rejected /\ k < s.steps
  <2>1. m.steps \notin rejected
    BY <1>5, <1>6
  <2>2. \/ Denied(m) = {}
        \/ Denied(m) = {m.steps} /\ m.steps < s.steps
    BY <1>3, <1>5
  <2> QED
    BY <2>1, <2>2, Zenon
<1> QED
  BY <1>1, <1>4, <1>8, <1>9, <1>10, <1>11 DEF m

\* Every save accounts for the usage exactly, closes only a run that is settled, and goes
\* on only with a transcript whose next call has no result yet.
LEMMA SaveAccounts ==
  ASSUME TranscriptInvariant, NEW w \in Workers, SavingStep(w)
  PROVE  /\ ckpt.status \notin Terminal
         /\ ckpt' \in Snapshots /\ ckpt'.rev = ckpt.rev + 1
         /\ UNCHANGED <<inv, fact, grant, used, reserved, effects>>
         /\ ckpt'.steps = UsedSteps' /\ ckpt'.tools = UsedTools'
         /\ UsedSteps' = UsedSteps /\ UsedTools' >= UsedTools
         /\ ckpt'.status \in Terminal =>
              /\ Unsettled = {} /\ reserved = 0 /\ status' = ckpt'.status
              /\ status' = "succeeded" => used <= MaxUnits /\ Confirmed
         /\ ckpt'.status \notin Terminal =>
              /\ \A k \in rejected' : k < ckpt'.steps
              /\ \A i \in Invoked : i = NextCall(ckpt') \/ (i[2] < ckpt'.steps /\ Done(i))
              /\ NextCall(ckpt') \notin Invoked \/ ~Done(NextCall(ckpt'))
              /\ ckpt'.status = "awaiting_approval" => NextCall(ckpt') \notin Invoked
<1>1. PICK s \in Snapshots, denied \in SUBSET Steps :
         /\ Saves(w, s, denied) /\ Save(w, s, denied) /\ s.rev = ckpt.rev
         /\ UNCHANGED <<inv, invEpoch, fact, grant, granted, worldVars>>
  BY SavingStepSound DEF TranscriptInvariant
<1>2. /\ Saveable(s, denied) /\ Closeable(s) /\ ckpt' = Committed(s)
      /\ rejected' = rejected \cup denied
      /\ status' = IF s.status = "running" /\ status = "reconciling"
                   THEN "reconciling" ELSE Committed(s).status
      /\ UNCHANGED <<inv, fact, grant, used, reserved, effects>>
  BY <1>1 DEF Save, Persist, worldVars
<1>3. /\ HostedTypeOK /\ mine[w] \in Snapshots /\ ckpt \in Snapshots /\ Current(mine[w])
  BY DEF TranscriptInvariant, RowsInvariant, HostedTypeOK, PlacesInvariant, WorkerSound
<1>4. /\ ckpt.status \notin Terminal /\ s.steps = UsedSteps /\ s.tools = UsedTools + Cardinality(denied)
  BY <1>2 DEF Saveable
<1>5. /\ ckpt' \in Snapshots /\ ckpt'.rev = ckpt.rev + 1
      /\ ckpt'.at = s.at /\ ckpt'.steps = s.steps /\ ckpt'.tools = s.tools
      /\ ckpt'.status = IF Closing(s) /\ cancelRequested THEN "cancelled" ELSE s.status
      /\ NextCall(ckpt') = NextCall(s)
  BY <1>1, <1>2, CommittedSound DEF NextCall
<1>6. denied = {} \/ (Take(w) /\ s \in Taken(mine[w]) /\ denied = Denied(mine[w]))
  BY <1>1 DEF Saves
<1>7. denied = {} \/ \E k : denied = {k} /\ k \notin rejected
  BY <1>2, <1>6, TakeMovesOn
<1>8. /\ UsedSteps' = UsedSteps /\ UsedTools' = UsedTools + Cardinality(denied)
      /\ Cardinality(denied) \in Nat /\ UsedTools \in Nat
  BY <1>2, <1>3, <1>7, UsageStands, UsageTyped, RejectionsCount DEF Done
<1>9. ASSUME ckpt'.status \in Terminal
      PROVE  /\ Unsettled = {} /\ reserved = 0 /\ status' = ckpt'.status
             /\ status' = "succeeded" => used <= MaxUnits /\ Confirmed
  <2>1. Closing(s)
    BY <1>5, <1>9 DEF Closing
  <2>2. s.status # "running"
    BY <2>1, Values DEF Closing
  <2> QED
    BY <1>2, <2>1, <2>2 DEF Closeable
<1>10. ASSUME ckpt'.status \notin Terminal
       PROVE  /\ \A k \in rejected' : k < ckpt'.steps
              /\ \A i \in Invoked : i = NextCall(ckpt') \/ (i[2] < ckpt'.steps /\ Done(i))
              /\ NextCall(ckpt') \notin Invoked \/ ~Done(NextCall(ckpt'))
              /\ ckpt'.status = "awaiting_approval" => NextCall(ckpt') \notin Invoked
  <2>1. s.status \notin Terminal /\ ckpt'.status = s.status
    BY <1>5, <1>10 DEF Terminal
  <2>2. CASE Take(w) /\ s \in Taken(mine[w]) /\ denied = Denied(mine[w])
    BY <1>2, <1>5, <2>2, TakeMovesOn
  <2>3. CASE Start(w) /\ s = [mine[w] EXCEPT !.status = "running"] /\ denied = {}
    <3>1. /\ s.rev = mine[w].rev /\ s.steps = mine[w].steps /\ s.tools = mine[w].tools
          /\ s.status = "running" /\ NextCall(s) = NextCall(mine[w])
      BY <1>3, <2>3, Values, StatusChanged
    <3>2. mine[w] = ckpt
      BY <1>1, <1>3, <3>1 DEF Current
    <3>3. Cardinality(denied) = 0
      BY <2>3, FS_EmptySet
    <3>4. ckpt.steps = UsedSteps /\ ckpt.tools = UsedTools
      BY <1>4, <1>8, <3>1, <3>2, <3>3
    <3>5. /\ \A i \in Invoked : i = NextCall(ckpt) \/ (i[2] < ckpt.steps /\ Done(i))
          /\ \A k \in rejected : k < ckpt.steps
          /\ UsedSteps = ckpt.steps + Ahead("model") /\ UsedTools = ckpt.tools + Ahead("tool")
      BY <1>4 DEF TranscriptInvariant, TranscriptSound, Behind, Done
    <3>6. NextCall(ckpt) \notin SettledOf("model") /\ NextCall(ckpt) \notin SettledOf("tool")
      <4>1. UsedSteps \in Nat /\ UsedTools \in Nat /\ ckpt.steps \in Nat /\ ckpt.tools \in Nat
        BY <1>3, UsageTyped DEF Snapshots
      <4> QED
        BY <3>4, <3>5, <4>1 DEF Ahead
    <3>7. NextCall(ckpt) \notin Invoked \/ ~Done(NextCall(ckpt))
      BY <3>6, IdsFinite DEF SettledOf, Done, Kinds, Invoked
    <3> QED
      BY <1>2, <1>5, <2>1, <2>3, <3>1, <3>2, <3>5, <3>7
  <2>4. CASE /\ Stop(w) /\ denied = {}
             /\ s = Stopped(mine[w], IF At(w, "cancel") THEN "cancelled" ELSE "failed")
    <3> DEFINE f == IF At(w, "cancel") THEN "cancelled" ELSE "failed"
    <3>1. f \in Terminal /\ s = Stopped(mine[w], f)
      BY <2>4 DEF Terminal
    <3> HIDE DEF f
    <3> QED
      BY <1>3, <2>1, <3>1, StoppedSound
  <2>5. CASE OutOfSteps(w) /\ s = [mine[w] EXCEPT !.status = "exhausted"] /\ denied = {}
    <3>1. s.status = "exhausted"
      BY <1>3, <2>5, Values, StatusChanged
    <3> QED
      BY <2>1, <3>1 DEF Terminal
  <2>6. CASE Exhaust(w) /\ denied = {} /\ s = Stopped(ckpt, "exhausted")
    <3>1. "exhausted" \in Terminal
      BY DEF Terminal
    <3> QED
      BY <1>3, <2>1, <2>6, <3>1, StoppedSound
  <2> QED
    BY <1>1, <2>2, <2>3, <2>4, <2>5, <2>6 DEF Saves
<1>11. ckpt'.steps = UsedSteps' /\ ckpt'.tools = UsedTools' /\ UsedTools' >= UsedTools
  BY <1>4, <1>5, <1>8
<1> QED
  BY <1>2, <1>4, <1>5, <1>8, <1>9, <1>10, <1>11

\* A step that writes no checkpoint, makes no row, and changes what is done at most by the
\* call the transcript needs next.
LEMMA TranscriptStands ==
  ASSUME TranscriptInvariant, UNCHANGED <<ckpt, rejected>>,
         \A i \in Ids : inv'[i] = "none" <=> inv[i] = "none",
         \/ \A i \in Ids : Done(i)' <=> Done(i)
         \/ \E i \in Unsettled : Done(i)' /\ \A j \in Ids \ {i} : Done(j)' <=> Done(j)
  PROVE  TranscriptSound'
<1> SUFFICES ASSUME ckpt.status \notin Terminal PROVE TranscriptSound'
  BY DEF TranscriptSound
<1>1. /\ \A i \in Invoked : i = NextCall(ckpt) \/ (Behind(i) /\ Done(i))
      /\ \A k \in rejected : k < ckpt.steps
      /\ UsedSteps = ckpt.steps + Ahead("model")
      /\ UsedTools = ckpt.tools + Ahead("tool")
  BY DEF TranscriptInvariant, TranscriptSound, Done
<1>2. /\ HostedTypeOK /\ ckpt \in Snapshots /\ UsedSteps \in Nat /\ UsedTools \in Nat
      /\ ckpt.steps \in Nat /\ ckpt.tools \in Nat
  BY UsageTyped DEF TranscriptInvariant, RowsInvariant, HostedTypeOK, Snapshots
<1>3. /\ Invoked' = Invoked /\ NextCall(ckpt)' = NextCall(ckpt)
      /\ \A i \in Ids : Behind(i)' <=> Behind(i)
  BY DEF Invoked, NextCall, Behind
<1>4. CASE \A i \in Ids : Done(i)' <=> Done(i)
  <2>1. /\ UsedSteps' = UsedSteps /\ UsedTools' = UsedTools
        /\ Ahead("model")' = Ahead("model") /\ Ahead("tool")' = Ahead("tool")
    BY <1>3, <1>4, UsageStands DEF Ahead, Kinds
  <2>2. \A i \in Invoked' : i = NextCall(ckpt)' \/ (Behind(i)' /\ Done(i)')
    BY <1>1, <1>3, <1>4 DEF Invoked
  <2> QED
    BY <1>1, <2>1, <2>2 DEF TranscriptSound, Done
<1>5. ASSUME NEW i \in Unsettled, Done(i)', \A j \in Ids \ {i} : Done(j)' <=> Done(j)
      PROVE  TranscriptSound'
  <2>1. i \in Invoked /\ i \in Ids /\ ~Done(i)
    BY <1>5 DEF Unsettled, Invoked, Done
  <2>2. i = NextCall(ckpt)
    BY <1>1, <2>1
  <2>3. /\ UsedSteps' = UsedSteps + (IF i[1] = "model" THEN 1 ELSE 0)
        /\ UsedTools' = UsedTools + (IF i[1] = "tool" THEN 1 ELSE 0)
    BY <1>2, <1>5, <2>1, UsageGrows
  <2>4. Ahead("model") = 0 /\ Ahead("tool") = 0
    BY <2>1, <2>2 DEF Ahead, SettledOf, Done
  <2>5. /\ Ahead("model")' = (IF i[1] = "model" THEN 1 ELSE 0)
        /\ Ahead("tool")' = (IF i[1] = "tool" THEN 1 ELSE 0)
    BY <1>3, <1>5, <2>1, <2>2 DEF Ahead, SettledOf, Done
  <2>6. \A j \in Invoked' : j = NextCall(ckpt)' \/ (Behind(j)' /\ Done(j)')
    BY <1>1, <1>3, <1>5, <2>1, <2>2 DEF Invoked
  <2>7. UsedSteps' = ckpt.steps + Ahead("model")' /\ UsedTools' = ckpt.tools + Ahead("tool")'
    BY <1>1, <1>2, <2>3, <2>4, <2>5
  <2> QED
    BY <1>1, <2>6, <2>7 DEF TranscriptSound, Done
<1> QED
  BY <1>4, <1>5

\* What is done changes only by the settlement of a call.
LEMMA CallStepKeepsTranscript ==
  ASSUME TranscriptInvariant, NEW w \in Workers, NEW i \in Ids,
         Settle(w, i) \/ Retire(w, i) \/ RecordResult(w, i) \/ MarkUnknown(w, i)
  PROVE  TranscriptSound' /\ UNCHANGED <<ckpt, rejected, grant>>
         /\ \A j \in Ids : inv'[j] = "none" <=> inv[j] = "none"
<1>1. HostedTypeOK /\ EffectInvariant
  BY DEF TranscriptInvariant, RowsInvariant
<1>2. UNCHANGED <<ckpt, rejected, grant>>
  BY DEF Settle, Retire, RecordResult, MarkUnknown
<1>3. inv[i] # "none" /\ \A j \in Ids : inv'[j] = "none" <=> inv[j] = "none"
  BY <1>1 DEF Settle, Retire, RecordResult, MarkUnknown, HostedTypeOK, Unsettled, Invoked, Retireable
<1>4. \/ \A j \in Ids : Done(j)' <=> Done(j)
      \/ i \in Unsettled /\ Done(i)' /\ \A j \in Ids \ {i} : Done(j)' <=> Done(j)
  <2>1. CASE Settle(w, i)
    BY <1>1, <2>1 DEF Settle, Done, HostedTypeOK
  <2>2. CASE Retire(w, i)
    BY <1>1, <2>2 DEF Retire, Retireable, Done, HostedTypeOK
  <2>3. CASE RecordResult(w, i)
    <3>1. inv[i] # "settled"
      BY <1>1, <2>3 DEF RecordResult, EffectInvariant, CallSound
    <3> QED
      BY <1>1, <2>3, <3>1 DEF RecordResult, Done, HostedTypeOK
  <2>4. CASE MarkUnknown(w, i)
    BY <1>1, <2>4 DEF MarkUnknown, Done, HostedTypeOK
  <2> QED
    BY <2>1, <2>2, <2>3, <2>4
<1>5. TranscriptSound'
  BY <1>2, <1>3, <1>4, TranscriptStands
<1> QED
  BY <1>2, <1>3, <1>5

\* The call a worker admits is the one the current checkpoint needs next, and has no row.
LEMMA AdmittedCall ==
  ASSUME RowsInvariant, NEW w \in Workers, Admit(w) \/ AdmitApproved(w)
  PROVE  LET i == NextCall(ckpt) IN
         /\ i \in Ids /\ inv[i] = "none" /\ Insert(w, i)
         /\ UNCHANGED <<fact, rejected>>
         /\ ckpt.status \notin Terminal
         /\ NextCall(ckpt)' = i /\ ckpt'.at = ckpt.at /\ ckpt'.steps = ckpt.steps
         /\ ckpt'.tools = ckpt.tools /\ ckpt'.status = "running"
         /\ \/ Admit(w) /\ UNCHANGED <<ckpt, grant>> /\ (i[1] = "tool" => Decision[i[2]] = "allow")
            \/ /\ AdmitApproved(w) /\ grant' = [grant EXCEPT ![i[2]] = "consumed"]
               /\ i[1] = "tool" /\ i[2] \in Steps /\ ckpt'.rev = ckpt.rev + 1
<1>1. /\ mine[w] \in Snapshots /\ ckpt \in Snapshots /\ Current(mine[w])
  BY DEF RowsInvariant, HostedTypeOK, PlacesInvariant, WorkerSound
<1>2. CASE Admit(w)
  <2>1. PICK i \in Ids : /\ i = NextCall(mine[w]) /\ mine[w].rev = ckpt.rev /\ inv[i] = "none"
                         /\ Insert(w, i) /\ mine[w].status = "running"
                         /\ i[1] = "tool" => Decision[i[2]] = "allow"
                         /\ UNCHANGED <<ckpt, fact, rejected, grant>>
    BY <1>2 DEF Admit, Wants
  <2>2. mine[w] = ckpt
    BY <1>1, <2>1 DEF Current
  <2> QED
    BY <1>2, <2>1, <2>2, Values DEF NextCall
<1>3. CASE AdmitApproved(w)
  <2> DEFINE s == [mine[w] EXCEPT !.status = "running"]
             i == NextCall(ckpt)
  <2>1. /\ s \in Snapshots /\ s.status = "running" /\ s.rev = mine[w].rev
        /\ s.at = mine[w].at /\ s.steps = mine[w].steps /\ s.tools = mine[w].tools
    BY <1>1, Values, StatusChanged
  <2>2. /\ mine[w] = ckpt /\ ckpt.status = "awaiting_approval" /\ NextCall(s) = i
        /\ i \in Ids /\ i[1] = "tool" /\ i[2] \in Steps
    BY <1>3, ApprovedCall, IdsFinite
  <2>3. /\ inv[NextCall(s)] = "none" /\ Insert(w, NextCall(s)) /\ UNCHANGED <<fact, rejected>>
        /\ grant' = [grant EXCEPT ![NextCall(s)[2]] = "consumed"]
        /\ ckpt' = Committed(s)
    BY <1>3 DEF AdmitApproved, AdmitsWith, Persist
  <2> HIDE DEF s
  <2>4. /\ ckpt'.rev = s.rev + 1 /\ ckpt'.at = s.at /\ ckpt'.steps = s.steps /\ ckpt'.tools = s.tools
        /\ ckpt'.status = "running"
    BY <2>1, <2>3, Values, CommittedSound DEF Closing
  <2>5. NextCall(ckpt)' = i
    BY <2>1, <2>2, <2>4 DEF NextCall
  <2> QED
    BY <1>3, <2>1, <2>2, <2>3, <2>4, <2>5, Values
<1> QED
  BY <1>2, <1>3

\* No step lets usage and transcript drift apart.
LEMMA TranscriptStep ==
  ASSUME TranscriptInvariant, [HostedNext]_hostedVars
  PROVE  TranscriptSound'
<1> USE DEF callRows, hostedVars
<1>0. HostedTypeOK /\ EffectInvariant /\ RowsInvariant
  BY DEF TranscriptInvariant, RowsInvariant
<1>1. CASE UNCHANGED <<ckpt, rejected, inv, fact>>
  BY <1>1, TranscriptStands DEF Done
<1>2. ASSUME NEW w \in Workers, Reconcile(w) \/ LoseResult(w) \/ Receive(w) \/ SettleOwn(w)
      PROVE  TranscriptSound'
  BY <1>0, <1>2, OpenCallStep, CallStepKeepsTranscript
<1>3. ASSUME NEW w \in Workers, SavingStep(w) PROVE TranscriptSound'
  <2>1. /\ UNCHANGED <<inv, fact>> /\ ckpt' \in Snapshots
        /\ ckpt'.steps = UsedSteps' /\ ckpt'.tools = UsedTools'
        /\ ckpt'.status \notin Terminal =>
              /\ \A k \in rejected' : k < ckpt'.steps
              /\ \A i \in Invoked : i = NextCall(ckpt') \/ (i[2] < ckpt'.steps /\ Done(i))
              /\ NextCall(ckpt') \notin Invoked \/ ~Done(NextCall(ckpt'))
    BY <1>3, SaveAccounts
  <2>2. NextCall(ckpt)' = NextCall(ckpt')
    BY DEF NextCall
  <2>3. ASSUME ckpt'.status \notin Terminal
        PROVE  Ahead("model")' = 0 /\ Ahead("tool")' = 0
    BY <2>1, <2>2, <2>3 DEF Ahead, SettledOf, Done, Invoked
  <2>4. ckpt'.steps \in Nat /\ ckpt'.tools \in Nat
    BY <2>1 DEF Snapshots
  <2>5. Invoked' = Invoked /\ \A i \in Ids : Done(i)' <=> Done(i)
    BY <2>1 DEF Invoked, Done
  <2> SUFFICES ASSUME ckpt'.status \notin Terminal PROVE TranscriptSound'
    BY DEF TranscriptSound
  <2>6. \A i \in Invoked' : \/ i = NextCall(ckpt)'
                            \/ Behind(i)' /\ inv'[i] = "settled" /\ fact'[i] = "completed"
    BY <2>1, <2>2, <2>5 DEF Behind, Done, Invoked
  <2>7. UsedSteps' = ckpt'.steps + Ahead("model")' /\ UsedTools' = ckpt'.tools + Ahead("tool")'
    BY <2>1, <2>3, <2>4
  <2> QED
    BY <2>1, <2>6, <2>7 DEF TranscriptSound
<1>4. ASSUME NEW w \in Workers, Admit(w) \/ AdmitApproved(w) PROVE TranscriptSound'
  <2> DEFINE i == NextCall(ckpt)
  <2>1. /\ i \in Ids /\ inv[i] = "none" /\ inv' = [inv EXCEPT ![i] = "admitted"]
        /\ UNCHANGED <<fact, rejected>> /\ ckpt.status \notin Terminal
        /\ NextCall(ckpt)' = i /\ ckpt'.steps = ckpt.steps /\ ckpt'.tools = ckpt.tools
    BY <1>0, <1>4, AdmittedCall DEF Insert
  <2>2. /\ \A j \in Invoked : j = i \/ (Behind(j) /\ Done(j))
        /\ \A k \in rejected : k < ckpt.steps
        /\ UsedSteps = ckpt.steps + Ahead("model")
        /\ UsedTools = ckpt.tools + Ahead("tool")
    BY <2>1 DEF TranscriptInvariant, TranscriptSound, Done
  <2>3. \A j \in Ids : (Done(j)' <=> Done(j)) /\ (Behind(j)' <=> Behind(j))
    BY <1>0, <2>1 DEF Done, HostedTypeOK, Behind
  <2>4. Invoked' = Invoked \cup {i}
    BY <1>0, <2>1 DEF Invoked, HostedTypeOK
  <2>5. /\ UsedSteps' = UsedSteps /\ UsedTools' = UsedTools
        /\ Ahead("model")' = Ahead("model") /\ Ahead("tool")' = Ahead("tool")
    BY <2>1, <2>3, UsageStands DEF Ahead, Kinds
  <2>6. \A j \in Invoked' : j = i \/ (Behind(j)' /\ Done(j)')
    BY <2>2, <2>3, <2>4 DEF Invoked
  <2> HIDE DEF i
  <2> QED
    BY <2>1, <2>2, <2>5, <2>6 DEF TranscriptSound, Done
<1>5. ASSUME NEW w \in Workers, Send(w) PROVE TranscriptSound'
  <2> DEFINE i == NextCall(mine[w])
  <2>1. i \in Ids
    BY <1>0, <1>5, InHand DEF Send, At, HandPlaces, RowsInvariant
  <2>2. inv[i] = "admitted" /\ inv' = [inv EXCEPT ![i] = "sent"] /\ UNCHANGED <<ckpt, rejected, fact>>
    BY <1>5 DEF Send
  <2> HIDE DEF i
  <2>3. \A j \in Ids : (Done(j)' <=> Done(j)) /\ (inv'[j] = "none" <=> inv[j] = "none")
    BY <1>0, <2>1, <2>2 DEF Done, HostedTypeOK
  <2> QED
    BY <2>2, <2>3, TranscriptStands
<1>6. ASSUME NEW i \in Ids, Refuse(i) PROVE TranscriptSound'
  <2>1. inv[i] # "settled" /\ fact' = [fact EXCEPT ![i] = "not_executed"]
        /\ UNCHANGED <<ckpt, rejected, inv>>
    BY <1>6 DEF Refuse
  <2>2. \A j \in Ids : Done(j)' <=> Done(j)
    BY <1>0, <2>1 DEF Done, HostedTypeOK
  <2> QED
    BY <2>1, <2>2, TranscriptStands
<1>7. ASSUME NEW i \in Ids, Execute(i) PROVE TranscriptSound'
  BY <1>1, <1>7 DEF Execute
<1>8. CASE Accept \/ RowStep \/ (\E p \in Approvers : Review(p)) \/ (\E k \in Steps : LapseGrant(k))
           \/ UNCHANGED hostedVars
  BY <1>1, <1>8 DEF Accept, RowStep, Review, LapseGrant
<1>9. ASSUME NEW w \in Workers,
             \/ Inspect(w) \/ ClaimRun(w) \/ Heartbeat(w) \/ ResumeOrStop(w) \/ Load(w)
             \/ OverBudget(w) \/ Reuse(w) \/ Overspent(w) \/ Abandon(w) \/ Crash(w)
      PROVE  TranscriptSound'
  BY <1>1, <1>9 DEF Inspect, ClaimRun, Heartbeat, ResumeOrStop, Load, OverBudget, Reuse, Overspent,
     Abandon, Crash
<1> QED
  BY <1>2, <1>3, <1>4, <1>5, <1>6, <1>7, <1>8, <1>9 DEF HostedNext, WorkerStep, SavingStep

\* What ApprovalEndsTheWait says of each step of the run.
ApprovalSound(k) ==
  /\ Decision[k] = "approve" =>
       (inv[<<"tool", k>>] # "none" <=> grant[k] \in {"consumed", "lapsed"})
  /\ ckpt.status = "awaiting_approval" /\ NextCall(ckpt) = <<"tool", k>> =>
       inv[<<"tool", k>>] = "none"

\* No step separates the consumption of an approval from the admission of its call.
LEMMA ApprovalStep ==
  ASSUME TranscriptInvariant, [HostedNext]_hostedVars
  PROVE  ApprovalEndsTheWait'
<1> USE DEF callRows, hostedVars
<1>0. /\ HostedTypeOK /\ RowsInvariant /\ \A k \in Steps : ApprovalSound(k)
  BY DEF TranscriptInvariant, RowsInvariant, ApprovalEndsTheWait, ApprovalSound
<1> SUFFICES ASSUME NEW k \in Steps PROVE ApprovalSound(k)'
  BY DEF ApprovalEndsTheWait, ApprovalSound
<1>1. ApprovalSound(k) /\ <<"tool", k>> \in Ids
  BY <1>0, IdsFinite
<1>2. CASE /\ UNCHANGED ckpt /\ (inv'[<<"tool", k>>] = "none" <=> inv[<<"tool", k>>] = "none")
           /\ (grant'[k] \in {"consumed", "lapsed"} <=> grant[k] \in {"consumed", "lapsed"})
  BY <1>1, <1>2 DEF ApprovalSound, NextCall
<1>3. CASE UNCHANGED <<ckpt, inv, grant>>
  BY <1>2, <1>3
<1>4. ASSUME NEW w \in Workers, Reconcile(w) \/ LoseResult(w) \/ Receive(w) \/ SettleOwn(w)
      PROVE  ApprovalSound(k)'
  <2>1. UNCHANGED <<ckpt, grant>> /\ \A j \in Ids : inv'[j] = "none" <=> inv[j] = "none"
    BY <1>0, <1>4, OpenCallStep, CallStepKeepsTranscript
  <2> QED
    BY <1>1, <1>2, <2>1
<1>5. ASSUME NEW w \in Workers, SavingStep(w) PROVE ApprovalSound(k)'
  <2>1. /\ UNCHANGED <<inv, grant>>
        /\ ckpt'.status \notin Terminal /\ ckpt'.status = "awaiting_approval" =>
              NextCall(ckpt') \notin Invoked
    BY <1>5, SaveAccounts
  <2>2. ckpt'.status = "awaiting_approval" => ckpt'.status \notin Terminal
    BY Values
  <2>3. NextCall(ckpt)' = NextCall(ckpt')
    BY DEF NextCall
  <2> QED
    BY <1>1, <2>1, <2>2, <2>3 DEF ApprovalSound, Invoked
<1>6. ASSUME NEW w \in Workers, Admit(w) \/ AdmitApproved(w) PROVE ApprovalSound(k)'
  <2> DEFINE i == NextCall(ckpt)
  <2>1. /\ i \in Ids /\ inv' = [inv EXCEPT ![i] = "admitted"] /\ ckpt'.status = "running"
        /\ \/ UNCHANGED grant /\ (i[1] = "tool" => Decision[i[2]] = "allow")
           \/ grant' = [grant EXCEPT ![i[2]] = "consumed"] /\ i[1] = "tool"
    BY <1>0, <1>6, AdmittedCall DEF Insert
  <2> HIDE DEF i
  <2>2. i = <<i[1], i[2]>> /\ i[2] \in Steps
    BY <2>1, IdsFinite
  <2>3. CASE i = <<"tool", k>>
    BY <1>0, <1>1, <2>1, <2>3 DEF ApprovalSound, HostedTypeOK
  <2>4. CASE i # <<"tool", k>>
    <3>1. inv'[<<"tool", k>>] = inv[<<"tool", k>>]
      BY <1>0, <1>1, <2>1, <2>4 DEF HostedTypeOK
    <3>2. grant'[k] = grant[k]
      BY <1>0, <2>1, <2>2, <2>4 DEF HostedTypeOK
    <3> QED
      BY <1>1, <2>1, <3>1, <3>2 DEF ApprovalSound
  <2> QED
    BY <2>3, <2>4
<1>7. ASSUME NEW w \in Workers, Send(w) PROVE ApprovalSound(k)'
  <2>1. /\ NextCall(mine[w]) \in Ids /\ inv[NextCall(mine[w])] = "admitted"
        /\ inv' = [inv EXCEPT ![NextCall(mine[w])] = "sent"] /\ UNCHANGED <<ckpt, grant>>
    BY <1>0, <1>7, InHand DEF Send, At, HandPlaces, RowsInvariant
  <2> QED
    BY <1>0, <1>1, <1>2, <2>1 DEF HostedTypeOK
<1>8. ASSUME NEW p \in Approvers, Review(p) PROVE ApprovalSound(k)'
  BY <1>0, <1>1, <1>2, <1>8 DEF Review, HostedTypeOK
<1>9. ASSUME NEW l \in Steps, LapseGrant(l) PROVE ApprovalSound(k)'
  BY <1>0, <1>1, <1>2, <1>9 DEF LapseGrant, HostedTypeOK
<1>10. CASE Accept \/ RowStep \/ (\E i \in Ids : Execute(i) \/ Refuse(i)) \/ UNCHANGED hostedVars
  BY <1>3, <1>10 DEF Accept, RowStep, Execute, Refuse
<1>11. ASSUME NEW w \in Workers,
             \/ Inspect(w) \/ ClaimRun(w) \/ Heartbeat(w) \/ ResumeOrStop(w) \/ Load(w)
             \/ OverBudget(w) \/ Reuse(w) \/ Overspent(w) \/ Abandon(w) \/ Crash(w)
      PROVE  ApprovalSound(k)'
  BY <1>3, <1>11 DEF Inspect, ClaimRun, Heartbeat, ResumeOrStop, Load, OverBudget, Reuse, Overspent,
     Abandon, Crash
<1> QED
  BY <1>4, <1>5, <1>6, <1>7, <1>8, <1>9, <1>10, <1>11 DEF HostedNext, WorkerStep, SavingStep

\* No step closes a run that hides something, or touches a closed one.
LEMMA ClosedStep ==
  ASSUME TranscriptInvariant, [HostedNext]_hostedVars
  PROVE  ClosedRunIsSettled'
<1>0. /\ HostedTypeOK /\ RowsInvariant /\ EffectInvariant
  BY DEF TranscriptInvariant, RowsInvariant
<1>1. CASE ckpt.status \in Terminal
  <2>1. /\ UNCHANGED <<ckpt, inv, fact, rejected, status, used, reserved>>
        /\ \A i \in Ids : effects[i] = 1 => effects'[i] = 1
    BY <1>1, ClosedStands
  <2>2. /\ UsedSteps' = UsedSteps /\ UsedTools' = UsedTools
        /\ Unsettled' = Unsettled /\ Invoked' = Invoked
    BY <2>1, UsageStands DEF Done, Unsettled, Invoked
  <2> QED
    BY <1>1, <2>1, <2>2 DEF TranscriptInvariant, ClosedRunIsSettled, Invoked
<1>2. CASE ckpt.status \notin Terminal
  <2>1. CASE UNCHANGED ckpt
    BY <1>2, <2>1 DEF ClosedRunIsSettled
  <2>2. ASSUME NEW w \in Workers, AdmitApproved(w) PROVE ClosedRunIsSettled'
    <3>1. ckpt'.status = "running"
      BY <1>0, <2>2, AdmittedCall
    <3> QED
      BY <3>1, Values DEF ClosedRunIsSettled
  <2>3. ASSUME NEW w \in Workers, SavingStep(w) PROVE ClosedRunIsSettled'
    <3>1. /\ UNCHANGED <<inv, fact, used, reserved, effects>>
          /\ ckpt'.steps = UsedSteps' /\ ckpt'.tools = UsedTools'
          /\ ckpt'.status \in Terminal =>
               /\ Unsettled = {} /\ reserved = 0 /\ status' = ckpt'.status
               /\ status' = "succeeded" => used <= MaxUnits /\ Confirmed
      BY <2>3, SaveAccounts
    <3>2. Unsettled' = Unsettled /\ Invoked' = Invoked
      BY <3>1 DEF Unsettled, Invoked
    <3>3. Confirmed => \A i \in Invoked : effects'[i] = 1
      BY <1>0, <3>1 DEF Confirmed, EffectInvariant, CallSound, Invoked
    <3> QED
      BY <3>1, <3>2, <3>3 DEF ClosedRunIsSettled
  <2> QED
    BY <2>1, <2>2, <2>3, CheckpointWriters
<1> QED
  BY <1>1, <1>2

\* It all holds at the start, of a run that has no row and no step yet.
LEMMA TranscriptInit == HostedInit => TranscriptInvariant
<1> SUFFICES ASSUME HostedInit PROVE TranscriptInvariant
  OBVIOUS
<1>1. /\ ckpt = Created /\ Created.status = "created" /\ Created.steps = 0 /\ Created.tools = 0
      /\ \A i \in Ids : inv[i] = "none"
      /\ rejected = {} /\ \A k \in Steps : grant[k] = "none"
  BY DEF HostedInit, Created
<1>2. Invoked = {} /\ SettledOf("model") = {} /\ SettledOf("tool") = {}
  BY <1>1 DEF Invoked, SettledOf
<1>3. UsedSteps = 0 /\ UsedTools = 0
  BY <1>1, <1>2, FS_EmptySet DEF UsedSteps, UsedTools
<1>4. TranscriptSound
  BY <1>1, <1>2, <1>3 DEF TranscriptSound, Ahead
<1>5. ApprovalEndsTheWait
  BY <1>1, IdsFinite DEF ApprovalEndsTheWait
<1>6. ClosedRunIsSettled
  BY <1>1, Values DEF ClosedRunIsSettled
<1> QED
  BY <1>4, <1>5, <1>6, RowsInit DEF TranscriptInvariant

\* Transcript, approvals and closure hold in every reachable state.
THEOREM TranscriptHolds == HostedSpec => []TranscriptInvariant
<1>1. TranscriptInvariant /\ [HostedNext]_hostedVars => TranscriptInvariant'
  BY RowsStep, TranscriptStep, ApprovalStep, ClosedStep DEF TranscriptInvariant
<1> QED
  BY <1>1, TranscriptInit, PTL DEF HostedSpec

\* Usage and transcript never drift apart: what is settled and not in the checkpoint of a
\* run that goes on is the very call it needs next (settle(), save_in_transaction()).
THEOREM UsageIsTheTranscripts == HostedSpec => []TranscriptOwnsUsage
<1>1. TranscriptInvariant => TranscriptOwnsUsage
  <2> SUFFICES ASSUME TranscriptInvariant, ckpt.status \notin Terminal PROVE TranscriptOwnsUsage
    BY DEF TranscriptOwnsUsage
  <2>1. /\ ckpt \in Snapshots /\ ckpt.steps \in Nat /\ ckpt.tools \in Nat
        /\ ckpt.at \in {"model", "tool"}
    BY DEF TranscriptInvariant, RowsInvariant, HostedTypeOK, Snapshots, Kinds
  <2>2. /\ \A i \in Invoked : i = NextCall(ckpt) \/ (Behind(i) /\ Done(i))
        /\ UsedSteps = ckpt.steps + Ahead("model")
        /\ UsedTools = ckpt.tools + Ahead("tool")
    BY DEF TranscriptInvariant, TranscriptSound, Done
  <2>3. /\ Ahead("model") = 1 => ckpt.at = "model"
        /\ Ahead("tool") = 1 => ckpt.at = "tool"
        /\ Ahead("model") \in 0..1 /\ Ahead("tool") \in 0..1
    BY <2>1, NextCallSound DEF Ahead, SettledOf
  <2>4. \A i \in Ids : inv[i] = "settled" /\ fact[i] = "completed" =>
                         i = NextCall(ckpt) \/ i[2] < ckpt.steps
    BY <2>2 DEF Behind, Invoked
  <2> QED
    BY <2>1, <2>2, <2>3, <2>4 DEF TranscriptOwnsUsage
<1> QED
  BY <1>1, TranscriptHolds, PTL

\* An approval is consumed by the transaction that admits its call and takes the
\* checkpoint on, never before and never without it (consume_approval()).
THEOREM ApprovalEndsTheWaitAlways == HostedSpec => []ApprovalEndsTheWait
BY TranscriptHolds, PTL DEF TranscriptInvariant

\* A closed run hides nothing, whoever closed it and whatever came late
\* (save_in_transaction(), _exhaust(), record_result()).
THEOREM ClosedRunIsSettledAlways == HostedSpec => []ClosedRunIsSettled
BY TranscriptHolds, PTL DEF TranscriptInvariant

\* The checkpoint only moves forward, one revision at a time, until it is closed
\* (save_in_transaction(), _resume_or_stop(), consume_approval()).
THEOREM CheckpointOnlyMovesForward == HostedSpec => CheckpointMovesForward
<1>1. TranscriptInvariant /\ [HostedNext]_hostedVars =>
        [ckpt' # ckpt =>
           /\ ckpt.status \notin Terminal
           /\ ckpt'.rev = ckpt.rev + 1
           /\ ckpt'.steps >= ckpt.steps /\ ckpt'.tools >= ckpt.tools]_hostedVars
  <2> SUFFICES ASSUME TranscriptInvariant, [HostedNext]_hostedVars, ckpt' # ckpt
               PROVE  /\ ckpt.status \notin Terminal
                      /\ ckpt'.rev = ckpt.rev + 1
                      /\ ckpt'.steps >= ckpt.steps /\ ckpt'.tools >= ckpt.tools
    OBVIOUS
  <2>1. RowsInvariant /\ HostedTypeOK /\ ckpt.steps \in Nat /\ ckpt.tools \in Nat
    BY DEF TranscriptInvariant, RowsInvariant, HostedTypeOK, Snapshots
  <2>2. PICK w \in Workers : SavingStep(w) \/ AdmitApproved(w)
    BY CheckpointWriters
  <2>3. CASE AdmitApproved(w)
    <3>1. /\ ckpt.status \notin Terminal /\ ckpt'.steps = ckpt.steps /\ ckpt'.tools = ckpt.tools
          /\ (Admit(w) /\ UNCHANGED ckpt) \/ ckpt'.rev = ckpt.rev + 1
      BY <2>1, <2>3, AdmittedCall
    <3> QED
      BY <2>1, <3>1
  <2>4. CASE SavingStep(w)
    <3>1. /\ ckpt.status \notin Terminal /\ ckpt'.rev = ckpt.rev + 1
          /\ ckpt'.steps = UsedSteps' /\ ckpt'.tools = UsedTools'
          /\ UsedSteps' = UsedSteps /\ UsedTools' >= UsedTools /\ ckpt' \in Snapshots
      BY <2>4, SaveAccounts
    <3>2. UsedSteps = ckpt.steps + Ahead("model") /\ UsedTools = ckpt.tools + Ahead("tool")
      BY <3>1 DEF TranscriptInvariant, TranscriptSound
    <3>3. Ahead("model") \in 0..1 /\ Ahead("tool") \in 0..1
      BY DEF Ahead
    <3>4. ckpt'.steps \in Nat /\ ckpt'.tools \in Nat /\ UsedTools \in Nat
      BY <2>1, <3>1, UsageTyped DEF Snapshots
    <3> QED
      BY <2>1, <3>1, <3>2, <3>3, <3>4
  <2> QED
    BY <2>2, <2>3, <2>4
<1> QED
  BY <1>1, TranscriptHolds, PTL DEF HostedSpec, CheckpointMovesForward
=============================================================================
