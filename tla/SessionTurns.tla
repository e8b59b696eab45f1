---------------------------- MODULE SessionTurns ----------------------------
(***************************************************************************)
(* A conversation (sdk/sessions.py): its turns, the run that executes each *)
(* of them (sdk/harness.py), and the sources its texts rest on.            *)
(*                                                                         *)
(* Operations that write hold the lock file of the session until they      *)
(* return or their process dies; reads hold nothing.  Session rows and run *)
(* evidence are two databases, so a step ends at each write, and where a   *)
(* context provider, a model or a tool is awaited.  The host may withdraw  *)
(* a source at any time.  Turns are numbered as they are submitted, which  *)
(* stands for their request identity too.                                  *)
(*                                                                         *)
(* A session over an ApplicationSpec is modelled, whose controller is a    *)
(* Harness.  A denied authorization changes nothing and is left out, as is *)
(* what an approval decides: both only stop an operation.                  *)
(***************************************************************************)
EXTENDS Integers, FiniteSets

CONSTANTS
  TurnCount,     \* bound of the model: requests
  HistoryLimit,  \* history_limit
  Sources,       \* versions of materials and of governed sources
  Procs,         \* processes that serve operations
  Readers,       \* processes that serve reads
  Refusing,      \* turns whose run the controller may refuse to delete
  MaxCrashes     \* bound of the model

Turns == 1..TurnCount

ASSUME SessionConstants ==
  /\ TurnCount \in Nat \ {0}
  /\ HistoryLimit \in Nat \ {0}
  /\ Sources \cap Turns = {}
  /\ Refusing \subseteq Turns
  /\ MaxCrashes \in Nat

VARIABLES
  session,    \* sdk_sessions: status and active_turn
  turn,       \* sdk_turns: status, history_turns, and materials with sources
  run,        \* the controller's evidence: status, and sources its tools read
  withdrawn,  \* sources the host no longer vouches for
  op,         \* the operation of each process
  view,       \* the row a reader has loaded, and what its text rests on
  rests,      \* history: the sources and turns the text of a turn rests on
  crashes

sessionVars == <<session, turn, run, withdrawn, op, view, rests, crashes>>

UnderWay == {"starting", "running", "awaiting_approval"}
Missing  == {"none", "dropped"}

TurnStates == UnderWay \cup Missing \cup {"succeeded", "failed", "deleted"}
RunStates  == {"none", "running", "awaiting_approval", "succeeded", "failed", "deleted"}
Places     == {"idle", "insert", "close", "provide", "work", "record", "reply", "shown",
               "erase", "sweep", "clean", "drop"}
Row        == [status : TurnStates, history : SUBSET Turns, sources : SUBSET Sources]
Evidence   == [status : RunStates, read : SUBSET Sources]
Operation  == [pc : Places, turn : 0..TurnCount, todo : SUBSET Turns]
SessionRow == [status : {"absent", "open", "closed", "deleted"}, active : 0..TurnCount]

SessionTypeOK ==
  /\ session \in SessionRow
  /\ turn \in [Turns -> Row]
  /\ run \in [Turns -> Evidence]
  /\ withdrawn \subseteq Sources
  /\ op \in [Procs -> Operation]
  /\ view \in [Readers -> [state : {"none", "loaded", "shown"}, turn : 0..TurnCount, row : Row,
                          rests : SUBSET (Sources \cup Turns)]]
  /\ rests \in [Turns -> SUBSET (Sources \cup Turns)]
  /\ crashes \in 0..MaxCrashes

NoRow  == [status |-> "none", history |-> {}, sources |-> {}]
NoRun  == [status |-> "none", read |-> {}]
Resting == [pc |-> "idle", turn |-> 0, todo |-> {}]
NoView == [state |-> "none", turn |-> 0, row |-> NoRow, rests |-> {}]

SessionInit ==
  /\ session = [status |-> "absent", active |-> 0]
  /\ turn = [k \in Turns |-> NoRow]
  /\ run = [k \in Turns |-> NoRun]
  /\ withdrawn = {}
  /\ op = [p \in Procs |-> Resting]
  /\ view = [r \in Readers |-> NoView]
  /\ rests = [k \in Turns |-> {}]
  /\ crashes = 0

-----------------------------------------------------------------------------
(* Validation: _validate_turn().                                           *)

\* What a row and the evidence of its run name: materials, recorded sources, and
\* what the tools of the run read.
Named(k, row) == row.sources \cup run[k].read

\* One turn on its own; a tombstone of the run refuses it, and so does a success
\* whose evidence is missing.
Vouched(k, row) ==
  /\ row.status \notin Missing \cup {"deleted"}
  /\ run[k].status # "deleted"
  /\ row.status = "succeeded" => run[k].status # "none"
  /\ Named(k, row) \cap withdrawn = {}

\* A turn and every ancestor, however far back: the turns that were validated are
\* complete when what each of them names as its history is among them.
Sound(k) ==
  \E done \in SUBSET Turns :
    k \in done /\ \A n \in done : Vouched(n, turn[n]) /\ turn[n].history \subseteq done

\* The same of a row that was read earlier: its ancestors are read now.
SoundCopy(k, row) == Vouched(k, row) /\ \A a \in row.history : Sound(a)

-----------------------------------------------------------------------------
(* The lock and the rows.                                                  *)

At(p, place) == op[p].pc = place

\* _operation(): refused where another process holds the lock.
LockFree == \A p \in Procs : At(p, "idle")

Go(p, place) == op' = [op EXCEPT ![p].pc = place]
Take(p, place, k) == op' = [op EXCEPT ![p] = [pc |-> place, turn |-> k, todo |-> {}]]
Return(p) == op' = [op EXCEPT ![p] = Resting]

\* _update_turn(): a turn that is over is no longer the active one, in one transaction.
Update(k, row) ==
  /\ turn' = [turn EXCEPT ![k] = row]
  /\ session' = [session EXCEPT !.active = IF @ = k /\ row.status \notin UnderWay THEN 0 ELSE @]

\* find(): the controller has evidence.
Found(k) == run[k].status \notin {"none", "deleted"}

\* _result()
ResultRow(k) ==
  [turn[k] EXCEPT !.status = run[k].status, !.sources = @ \cup run[k].read]

\* _reconcile(): a turn left under way takes what the evidence says.
ReconciledRow(k) ==
  IF turn[k].status \in UnderWay /\ Found(k) THEN ResultRow(k) ELSE turn[k]

\* Faulty: an exception is a failure whatever the evidence says.
ExceptionFails(k) == [turn[k] EXCEPT !.status = "failed"]

\* What an exception leaves: the durable state where there is one.
AfterException(k) ==
  IF Found(k) THEN ResultRow(k) ELSE [turn[k] EXCEPT !.status = "failed"]

Tombstone == [status |-> "deleted", history |-> {}, sources |-> {}]

-----------------------------------------------------------------------------
(* create(), submit(), resume(), close().                                  *)

\* A deleted identity is never reused.
Create ==
  /\ LockFree
  /\ session.status = "absent"
  /\ session' = [session EXCEPT !.status = "open"]
  /\ UNCHANGED <<turn, run, withdrawn, op, view, rests, crashes>>

\* submit() of a request that is known.
Replay(p, k) ==
  /\ LockFree
  /\ session.status \in {"open", "closed"}
  /\ turn[k].status \notin Missing
  /\ Sound(k)
  /\ Update(k, ReconciledRow(k))
  /\ Take(p, "shown", k)
  /\ UNCHANGED <<run, withdrawn, view, rests, crashes>>

\* Reconciles the active turn, and goes on where none is left.
FinishActive(p, place) ==
  /\ IF session.active = 0 THEN UNCHANGED <<turn, session>>
     ELSE Update(session.active, ReconciledRow(session.active))
  /\ IF session'.active = 0 THEN Take(p, place, 0) ELSE Return(p)

Submit(p) ==
  /\ LockFree
  /\ session.status = "open"
  /\ \E k \in Turns : turn[k].status = "none"
  /\ FinishActive(p, "insert")
  /\ UNCHANGED <<run, withdrawn, view, rests, crashes>>

\* The latest rows, as far as they succeeded.
History(k) == {a \in Turns : k - HistoryLimit <= a /\ a < k /\ turn[a].status = "succeeded"}

\* The row and the session that names it active, in one transaction.
Insert(p, k) ==
  /\ At(p, "insert")
  /\ turn[k].status = "none"
  /\ \A n \in Turns : turn[n].status = "none" => k <= n
  /\ IF \A a \in History(k) : Sound(a)
     THEN /\ turn' = [turn EXCEPT ![k] = [status |-> "starting", history |-> History(k),
                                          sources |-> {}]]
          /\ session' = [session EXCEPT !.active = k]
          /\ rests' = [rests EXCEPT ![k] = {k}]
          /\ Take(p, "provide", k)
     ELSE Return(p) /\ UNCHANGED <<turn, session, rests>>
  /\ UNCHANGED <<run, withdrawn, view, crashes>>

\* resume(), in the order of _execute(): a turn that never started is started; without
\* evidence, or without the approval it needs, the operation raises.
Resume(p, k) ==
  /\ LockFree
  /\ session.status = "open"
  /\ turn[k].status \notin Missing
  /\ SoundCopy(k, turn[k])
  /\ \/ /\ run[k].status = "none" /\ turn[k].status = "starting"
        /\ Take(p, "provide", k)
        /\ UNCHANGED <<session, turn, run>>
     \/ /\ run[k].status \in {"none", "awaiting_approval"}
        /\ Update(k, AfterException(k))
        /\ Return(p)
        /\ UNCHANGED run
     \/ /\ run[k].status \in {"succeeded", "failed"}
        /\ Take(p, "record", k)
        /\ UNCHANGED <<session, turn, run>>
     \/ /\ run[k].status \in {"running", "awaiting_approval"}
        /\ run' = [run EXCEPT ![k].status = "running"]
        /\ Take(p, "work", k)
        /\ UNCHANGED <<session, turn>>
  /\ UNCHANGED <<withdrawn, view, rests, crashes>>

Close(p) ==
  /\ LockFree
  /\ session.status = "open"
  /\ FinishActive(p, "close")
  /\ UNCHANGED <<run, withdrawn, view, rests, crashes>>

SaveClosed(p) ==
  /\ At(p, "close")
  /\ session' = [session EXCEPT !.status = "closed"]
  /\ Return(p)
  /\ UNCHANGED <<turn, run, withdrawn, view, rests, crashes>>

-----------------------------------------------------------------------------
(* _execute(): the controller's run.                                       *)

\* A context provider returns a material; it is validated and recorded before it is
\* handed on.
Provide(p, s) ==
  LET k == op[p].turn IN
  /\ At(p, "provide")
  /\ s \notin withdrawn \cup turn[k].sources
  /\ turn' = [turn EXCEPT ![k].sources = @ \cup {s}]
  /\ rests' = [rests EXCEPT ![k] = @ \cup {s}]
  /\ UNCHANGED <<session, run, withdrawn, op, view, crashes>>

\* Faulty: what was concluded before the providers were awaited is reused.
RecheckedNever(k) == TRUE

\* The last provider adds the history, and checks everything recorded so far again.
Rechecked(k) == Sound(k)

\* The context is compiled, and the run's first checkpoint saved.
Compile(p) ==
  LET k == op[p].turn IN
  /\ At(p, "provide")
  /\ run[k].status = "none"
  /\ Rechecked(k)
  /\ run' = [run EXCEPT ![k].status = "running"]
  /\ rests' = [rests EXCEPT ![k] = @ \cup UNION {rests[a] : a \in turn[k].history}]
  /\ Go(p, "work")
  /\ UNCHANGED <<session, turn, withdrawn, view, crashes>>

\* A governed tool reads a source; its evidence is in the checkpoint.
ReadSource(p, s) ==
  LET k == op[p].turn IN
  /\ At(p, "work")
  /\ s \notin withdrawn \cup run[k].read
  /\ run' = [run EXCEPT ![k].read = @ \cup {s}]
  /\ rests' = [rests EXCEPT ![k] = @ \cup {s}]
  /\ UNCHANGED <<session, turn, withdrawn, op, view, crashes>>

EndRun(p) ==
  /\ At(p, "work")
  /\ \E s \in {"succeeded", "failed", "awaiting_approval"} :
       run' = [run EXCEPT ![op[p].turn].status = s]
  /\ Go(p, "record")
  /\ UNCHANGED <<session, turn, withdrawn, view, rests, crashes>>

\* An exception, of a provider, of the last check, or out of the run.
Raise(p) ==
  /\ op[p].pc \in {"provide", "work"}
  /\ Update(op[p].turn, AfterException(op[p].turn))
  /\ Return(p)
  /\ UNCHANGED <<run, withdrawn, view, rests, crashes>>

Record(p) ==
  /\ At(p, "record")
  /\ Update(op[p].turn, ResultRow(op[p].turn))
  /\ Go(p, "reply")
  /\ UNCHANGED <<run, withdrawn, view, rests, crashes>>

\* The turn is validated once more before it is returned.
Reply(p) ==
  /\ At(p, "reply")
  /\ IF Sound(op[p].turn) THEN Go(p, "shown") ELSE Return(p)
  /\ UNCHANGED <<session, turn, run, withdrawn, view, rests, crashes>>

\* The caller has it.
Answered(p) ==
  /\ At(p, "shown")
  /\ Return(p)
  /\ UNCHANGED <<session, turn, run, withdrawn, view, rests, crashes>>

-----------------------------------------------------------------------------
(* get_turn(), history(): reads without the lock.                          *)

Load(r, k) ==
  /\ session.status \in {"open", "closed"}
  /\ turn[k].status \notin Missing
  /\ view' = [view EXCEPT ![r] = [state |-> "loaded", turn |-> k, row |-> turn[k], rests |-> rests[k]]]
  /\ UNCHANGED <<session, turn, run, withdrawn, op, rests, crashes>>

Show(r) ==
  /\ view[r].state = "loaded"
  /\ view' = [view EXCEPT ![r] =
       IF SoundCopy(view[r].turn, view[r].row)
       THEN [NoView EXCEPT !.state = "shown"] ELSE NoView]
  /\ UNCHANGED <<session, turn, run, withdrawn, op, rests, crashes>>

-----------------------------------------------------------------------------
(* delete_turn() and delete().                                             *)

DeleteTurn(p, k) ==
  /\ LockFree
  /\ session.status \in {"open", "closed"}
  /\ turn[k].status \notin Missing
  /\ Update(k, Tombstone)
  /\ Take(p, "erase", k)
  /\ UNCHANGED <<run, withdrawn, view, rests, crashes>>

\* The session is tombstoned first; a session that is deleted can be deleted again.
DeleteSession(p) ==
  LET rows == {k \in Turns : turn[k].status \notin Missing} IN
  /\ LockFree
  /\ session.status # "absent"
  /\ session.status = "deleted" => rows # {}
  /\ session' = [session EXCEPT !.status = "deleted"]
  /\ op' = [op EXCEPT ![p] = [pc |-> "sweep", turn |-> 0, todo |-> rows]]
  /\ UNCHANGED <<turn, run, withdrawn, view, rests, crashes>>

\* Each turn of it is tombstoned, its run erased, and its row dropped.
Sweep(p, k) ==
  /\ At(p, "sweep")
  /\ k \in op[p].todo
  /\ \A n \in op[p].todo : k <= n
  /\ Update(k, Tombstone)
  /\ op' = [op EXCEPT ![p] = [pc |-> "clean", turn |-> k, todo |-> @.todo \ {k}]]
  /\ UNCHANGED <<run, withdrawn, view, rests, crashes>>

\* None is left; a refusal, if there was one, is raised.
Swept(p) ==
  /\ At(p, "sweep")
  /\ op[p].todo = {}
  /\ Return(p)
  /\ UNCHANGED <<session, turn, run, withdrawn, view, rests, crashes>>

\* Harness.delete(): the run's evidence goes and a tombstone stays.
Erase(p) ==
  /\ op[p].pc \in {"erase", "clean"}
  /\ run' = [run EXCEPT ![op[p].turn] = [status |-> "deleted", read |-> {}]]
  /\ IF At(p, "clean") THEN Go(p, "drop") ELSE Return(p)
  /\ UNCHANGED <<session, turn, withdrawn, view, rests, crashes>>

\* Faulty: the first refusal ends the deletion.
NothingLeft(todo) == {}

\* The deletion goes on past a turn that cannot be cleaned.
LeftToSweep(todo) == todo

Refuse(p) ==
  /\ op[p].pc \in {"erase", "clean"}
  /\ op[p].turn \in Refusing
  /\ op' = [op EXCEPT ![p] = IF At(p, "erase") THEN Resting
                             ELSE [pc |-> "sweep", turn |-> 0, todo |-> LeftToSweep(@.todo)]]
  /\ UNCHANGED <<session, turn, run, withdrawn, view, rests, crashes>>

Drop(p) ==
  /\ At(p, "drop")
  /\ turn' = [turn EXCEPT ![op[p].turn] = [NoRow EXCEPT !.status = "dropped"]]
  /\ op' = [op EXCEPT ![p].pc = "sweep", ![p].turn = 0]
  /\ UNCHANGED <<session, run, withdrawn, view, rests, crashes>>

-----------------------------------------------------------------------------
Withdraw(s) ==
  /\ s \notin withdrawn
  /\ withdrawn' = withdrawn \cup {s}
  /\ UNCHANGED <<session, turn, run, op, view, rests, crashes>>

\* The process dies, and its lock with it.
Crash(p) ==
  /\ op[p].pc # "idle"
  /\ crashes < MaxCrashes
  /\ crashes' = crashes + 1
  /\ Return(p)
  /\ UNCHANGED <<session, turn, run, withdrawn, view, rests>>

-----------------------------------------------------------------------------
Work(p) ==
  \/ SaveClosed(p) \/ Compile(p) \/ EndRun(p) \/ Raise(p) \/ Record(p)
  \/ Reply(p) \/ Answered(p) \/ Swept(p) \/ Erase(p) \/ Refuse(p) \/ Drop(p)
  \/ \E k \in Turns : Insert(p, k) \/ Sweep(p, k)
  \/ \E s \in Sources : Provide(p, s) \/ ReadSource(p, s)

SessionNext ==
  \/ Create
  \/ \E s \in Sources : Withdraw(s)
  \/ \E p \in Procs : \/ Submit(p) \/ Close(p) \/ DeleteSession(p) \/ Work(p) \/ Crash(p)
                      \/ \E k \in Turns : Replay(p, k) \/ Resume(p, k) \/ DeleteTurn(p, k)
  \/ \E r \in Readers : Show(r) \/ \E k \in Turns : Load(r, k)

\* An operation that began goes on, and a deletion that was asked for is asked for
\* again until it returns without an error.
SessionSpec ==
  /\ SessionInit /\ [][SessionNext]_sessionVars
  /\ \A p \in Procs : WF_sessionVars(Work(p))
  /\ WF_sessionVars(session.status = "deleted" /\ \E p \in Procs : DeleteSession(p))

-----------------------------------------------------------------------------
(* Properties.                                                             *)

\* What may no longer be used: sources the host withdrew, and turns whose deletion
\* is complete.
Gone == withdrawn \cup {k \in Turns : run[k].status = "deleted"}

\* The text of a turn is used: a model gets it, its run goes on, or its owner does.
Uses(k) ==
  \/ run[k].status = "none" /\ run'[k].status = "running"
  \/ \E p \in Procs : /\ op'[p] # op[p]
                      /\ op'[p].turn = k
                      /\ \/ op'[p].pc = "shown"
                         \/ At(p, "idle") /\ op'[p].pc = "work"

\* Nothing that rests on a withdrawn source or on a deleted turn is used, at whatever
\* remove, although providers and runs are awaited while sources go, processes die
\* between a tool's read and the record of it, and readers hold rows that are deleted
\* meanwhile (_validate_turn(), _HistoryProvider.provide(), _execute()).
OnlyCurrentIsUsed ==
  [][/\ \A k \in Turns : Uses(k) => rests[k] \cap Gone = {}
     /\ \A r \in Readers : view[r].state = "loaded" /\ view'[r].state = "shown"
                            => view[r].rests \cap Gone = {}]_sessionVars

\* At most one turn is under way, the session names it, and no run of the session is
\* under way for another one: so a new turn never starts beside one that a crash or an
\* exception left behind, and a closed session has none (submit(), resume(), close()).
OneTurnUnderWay ==
  session.status \in {"open", "closed"} =>
    /\ {k \in Turns : turn[k].status \in UnderWay}
         = IF session.active = 0 THEN {} ELSE {session.active}
    /\ \A k \in Turns : run[k].status \in UnderWay /\ turn[k].status # "deleted"
                          => k = session.active
    /\ session.status = "closed" => session.active = 0

\* A session that is deleted loses every turn and its evidence in the end, through
\* crashes at each of the writes, and although the controller refuses to delete another
\* turn (delete(), _delete_turn()).
DeletionFinishes ==
  \A k \in Turns \ Refusing :
    session.status = "deleted" ~>
      turn[k].status = "none" \/ (turn[k].status = "dropped" /\ run[k].status = "deleted")
-----------------------------------------------------------------------------
(* What makes OneTurnUnderWay inductive.                                   *)

\* What the rows say of the turns of a session that is not deleted.
RowsAgree ==
  /\ session.status # "deleted" =>
       \A k \in Turns :
         /\ turn[k].status \in UnderWay <=> k = session.active
         /\ run[k].status \in UnderWay /\ turn[k].status # "deleted" => k = session.active
  /\ session.status = "closed" => session.active = 0
  /\ \A k \in Turns : turn[k].status = "none" => run[k].status = "none"

\* One process at most has the lock.
OneHolder ==
  \A p, q \in Procs : op[p].pc # "idle" /\ op[q].pc # "idle" => p = q

\* What the process that has it may count on, at each of its places.
Placed(p) ==
  LET k == op[p].turn IN
  /\ op[p].pc \notin {"idle", "insert", "close", "sweep"} => k \in Turns
  /\ op[p].pc \in {"insert", "close", "provide", "work", "record"} => session.status = "open"
  /\ op[p].pc \in {"insert", "close"} => session.active = 0
  /\ op[p].pc = "provide" => session.active = k /\ run[k].status = "none"
  /\ op[p].pc = "work" => session.active = k /\ run[k].status = "running"
  /\ op[p].pc = "record" =>
       /\ turn[k].status \notin {"none", "deleted"}
       /\ run[k].status \in {"succeeded", "failed", "awaiting_approval"}
       /\ run[k].status = "awaiting_approval" => session.active = k
  /\ op[p].pc \in {"erase", "clean"} => turn[k].status = "deleted"
  /\ op[p].pc \in {"sweep", "clean", "drop"} => session.status = "deleted"

SessionInvariant == RowsAgree /\ OneHolder /\ \A p \in Procs : Placed(p)

-----------------------------------------------------------------------------
(* What OnlyCurrentIsUsed rests on.                                        *)

\* What a text rests on is its turn, what the row and the run name, or what the texts
\* of its history rest on.
Accounted(text, k, row) ==
  text \subseteq {k} \cup Named(k, row) \cup UNION {rests[a] : a \in row.history}

\* So it is for each turn that is there, and a history reaches back only.
TurnAccounted(k) ==
  /\ turn[k].history \subseteq 1..(k - 1)
  /\ turn[k].status = "none" => rests[k] = {}
  /\ turn[k].status \notin Missing \cup {"deleted"} => Accounted(rests[k], k, turn[k])

\* And for a row that a reader holds, while the evidence is there to tell what the run read.
ViewAccounted(v) ==
  v.state = "loaded" =>
    /\ v.turn \in Turns
    /\ v.row.status # "deleted" /\ run[v.turn].status # "deleted" =>
         Accounted(v.rests, v.turn, v.row)

TextsAccounted ==
  /\ \A k \in Turns : TurnAccounted(k)
  /\ \A r \in Readers : ViewAccounted(view[r])
  /\ session.status # "deleted" => \A k \in Turns : turn[k].status # "dropped"
=============================================================================
