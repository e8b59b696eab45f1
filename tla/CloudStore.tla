----------------------------- MODULE CloudStore -----------------------------
(***************************************************************************)
(* The run row of the PostgreSQL state layer (cloud/store.py): admission,  *)
(* the lease and its epoch, cancellation and the terminal projection of    *)
(* one run, together with the memberships every transaction rechecks.      *)
(*                                                                         *)
(* One action is one database transaction.  The code takes the run row     *)
(* FOR UPDATE first and the membership rows FOR SHARE, and rereads the     *)
(* database clock after its last lock wait, so a transaction takes effect  *)
(* at one point; what interleaves are the transactions of the workers,     *)
(* the owner, the approvers, the administrators and the passage of time.   *)
(*                                                                         *)
(* Time is abstracted to what a transaction can tell apart: how much of    *)
(* the lease is left, and whether the run's deadline has passed.           *)
(***************************************************************************)
EXTENDS Integers, FiniteSets

CONSTANTS
  Owner,        \* the member the run was submitted by
  Organization, \* the tenant, a row that can be suspended like a member
  Workers,      \* worker processes, each with its own execution identity
  Approvers,    \* members with can_approve (the owner may be one of them)
  NoWorker,     \* worker_id IS NULL
  Revocable,    \* whose rights change during the behaviour
  MaxUnits,     \* RunDefinition.max_units
  LeaseTTL,     \* the longest lease, in ticks of the lease clock
  MaxEpoch      \* bound of the model: claims in one behaviour

ASSUME StoreConstants ==
  /\ NoWorker \notin Workers
  /\ Owner \notin Workers
  /\ Organization \notin {Owner} \cup Workers \cup Approvers
  /\ Workers \cap Approvers = {}
  /\ MaxUnits \in Nat
  /\ LeaseTTL \in Nat \ {0}
  /\ MaxEpoch \in Nat

VARIABLES
  status,           \* fh_cloud.runs.status; "absent" before the INSERT
  epoch,            \* runs.epoch
  holder,           \* runs.worker_id and runs.lease_actor_id
  leaseLeft,        \* runs.lease_until - clock_timestamp(); 0 when past or NULL
  cancelRequested,  \* runs.cancel_requested
  used,             \* runs.used_units
  reserved,         \* runs.reserved_units
  deadlinePassed,   \* definition.deadline_at <= clock_timestamp()
  member,           \* members.active with the permission the actor needs;
                    \* organizations.active of the organization
  ticket            \* the epoch of the LeaseTicket a worker process holds, or 0

runVars == <<status, epoch, holder, leaseLeft, cancelRequested, used, reserved>>
envVars == <<deadlinePassed, member>>
storeVars == <<runVars, envVars, ticket>>

Actors   == {Owner, Organization} \cup Workers \cup Approvers
Active   == {"queued", "running", "awaiting_approval", "reconciling"}
Terminal == {"succeeded", "failed", "cancelled", "exhausted"}

StoreTypeOK ==
  /\ status \in {"absent"} \cup Active \cup Terminal
  /\ epoch \in 0..MaxEpoch
  /\ holder \in Workers \cup {NoWorker}
  /\ leaseLeft \in 0..LeaseTTL
  /\ cancelRequested \in BOOLEAN
  /\ used \in Nat
  /\ reserved \in Int
  /\ deadlinePassed \in BOOLEAN
  /\ member \in [Actors -> BOOLEAN]
  /\ ticket \in [Workers -> 0..MaxEpoch]

StoreInit ==
  /\ status = "absent"
  /\ epoch = 0
  /\ holder = NoWorker
  /\ leaseLeft = 0
  /\ cancelRequested = FALSE
  /\ used = 0
  /\ reserved = 0
  /\ deadlinePassed = FALSE
  /\ member = [a \in Actors |-> TRUE]
  /\ ticket = [w \in Workers |-> 0]

-----------------------------------------------------------------------------
(* What every transaction checks.                                          *)

\* transaction(): the caller's current rights, and those of its organization
\* unless the operation only settles what already happened.
Transaction(a, allowInactiveOrg) ==
  /\ member[a]
  /\ member[Organization] \/ allowInactiveOrg

\* lock_lease(): the ticket is that of the current epoch, its holder still is
\* this worker, and the lease has not run out on the database clock.
LockLease(w) ==
  /\ ticket[w] = epoch
  /\ holder = w
  /\ leaseLeft > 0
  /\ status \in Active

\* The conditions under which a run takes on new physical work.
AcceptsWork ==
  /\ member[Owner]
  /\ status = "running"
  /\ ~cancelRequested
  /\ ~deadlinePassed

-----------------------------------------------------------------------------
(* Operations of the store.                                                *)

\* submit(): the row is inserted only before its deadline.  A repeated request
\* key finds the row and changes nothing.
Submit ==
  /\ Transaction(Owner, FALSE)
  /\ status = "absent"
  /\ ~deadlinePassed
  /\ status' = "queued"
  /\ UNCHANGED <<epoch, holder, leaseLeft, cancelRequested, used, reserved,
                 envVars, ticket>>

\* Faulty: a new owner goes on over the unresolved calls of an earlier one.
ClaimedStatusOverUnresolved(unresolved) ==
  IF ~member[Owner] \/ ~member[Organization] \/ cancelRequested \/ deadlinePassed
  THEN "reconciling" ELSE "running"

\* A claimed run may only reconcile when work may not go on, or when calls of
\* an earlier owner are unresolved.
ClaimedStatus(unresolved) ==
  IF \/ ~member[Owner] \/ ~member[Organization]
     \/ cancelRequested
     \/ unresolved
     \/ deadlinePassed
  THEN "reconciling" ELSE "running"

\* Faulty: a run is claimable whenever nobody holds it.
ClaimableUnleased == leaseLeft = 0

Claimable == status \in Active /\ leaseLeft = 0

\* claim(): take an unleased active run under a new epoch.
Claim(w, unresolved) ==
  /\ Transaction(w, TRUE)
  /\ Claimable
  /\ epoch < MaxEpoch
  /\ epoch' = epoch + 1
  /\ holder' = w
  /\ leaseLeft' = LeaseTTL
  /\ status' = ClaimedStatus(unresolved)
  /\ ticket' = [ticket EXCEPT ![w] = epoch + 1]
  /\ UNCHANGED <<cancelRequested, used, reserved, envVars>>

\* renew(): the holder extends its lease by the time its heartbeat asks for.
Renew(w) ==
  /\ Transaction(w, TRUE)
  /\ LockLease(w)
  /\ leaseLeft' \in 1..LeaseTTL
  /\ UNCHANGED <<status, epoch, holder, cancelRequested, used, reserved,
                 envVars, ticket>>

\* release(): the holder moves its own expiry into the past; the row keeps the
\* epoch and the worker, and the process keeps its (now useless) ticket.
Release(w) ==
  /\ Transaction(w, TRUE)
  /\ LockLease(w)
  /\ leaseLeft' = 0
  /\ UNCHANGED <<status, epoch, holder, cancelRequested, used, reserved,
                 envVars, ticket>>

\* cancel(): the owner or an execution service records the request once.
Cancel(a) ==
  /\ Transaction(a, FALSE)
  /\ status \in Active
  /\ ~cancelRequested
  /\ cancelRequested' = TRUE
  /\ UNCHANGED <<status, epoch, holder, leaseLeft, used, reserved, envVars, ticket>>

\* finish(): the holder settles the run.  "unresolved" and "confirmed" are what
\* the transaction reads of the run's invocations and receipts.
Finish(w, s, unresolved, confirmed) ==
  /\ Transaction(w, TRUE)
  /\ LockLease(w)
  /\ ~unresolved
  /\ reserved = 0
  /\ s = "succeeded" => confirmed /\ used <= MaxUnits
  /\ status' = s
  /\ leaseLeft' = 0
  /\ UNCHANGED <<epoch, holder, cancelRequested, used, reserved, envVars, ticket>>

-----------------------------------------------------------------------------
(* The environment: clocks, administrators, process loss.                  *)

\* The database clock runs down the current lease.
LeaseTick ==
  /\ leaseLeft > 0
  /\ leaseLeft' = leaseLeft - 1
  /\ UNCHANGED <<status, epoch, holder, cancelRequested, used, reserved, envVars, ticket>>

PassDeadline ==
  /\ ~deadlinePassed
  /\ deadlinePassed' = TRUE
  /\ UNCHANGED <<runVars, member, ticket>>

\* Members and organizations are changed by administrators, outside this layer:
\* its database role may not write their rows.
SetMember(a) ==
  /\ a \in Revocable
  /\ member' = [member EXCEPT ![a] = ~member[a]]
  /\ UNCHANGED <<runVars, deadlinePassed, ticket>>

\* A worker process dies and forgets its ticket; the row does not change.
LoseTicket(w) ==
  /\ ticket[w] # 0
  /\ ticket' = [ticket EXCEPT ![w] = 0]
  /\ UNCHANGED <<runVars, envVars>>
=============================================================================
