---------------------------- MODULE GovernedEffect ----------------------------
(***************************************************************************)
(* What a governed write promises its caller, whatever machinery keeps the *)
(* promise: an effect is asked for only after it was admitted, and asked   *)
(* for once; it happens at most once; and the verdict on it, given once,   *)
(* is true and stays true.                                                 *)
(*                                                                         *)
(* Leases, approvals, budgets, crashes and messages have no place here:    *)
(* CloudCalls and CloudExecution are shown to implement this module.       *)
(***************************************************************************)
EXTENDS Naturals

CONSTANT Calls

VARIABLES
  admitted,   \* calls that were allowed
  asked,      \* how often the provider was asked to perform a call
  happened,   \* how often it performed it
  verdict     \* what was recorded of it

effectVars == <<admitted, asked, happened, verdict>>

Verdicts == {"none", "completed", "not_executed"}

EffectTypeOK ==
  /\ admitted \subseteq Calls
  /\ asked \in [Calls -> 0..1]
  /\ happened \in [Calls -> 0..1]
  /\ verdict \in [Calls -> Verdicts]

EffectInit ==
  /\ admitted = {}
  /\ asked = [c \in Calls |-> 0]
  /\ happened = [c \in Calls |-> 0]
  /\ verdict = [c \in Calls |-> "none"]

Allow(c) ==
  /\ c \notin admitted
  /\ admitted' = admitted \cup {c}
  /\ UNCHANGED <<asked, happened, verdict>>

Ask(c) ==
  /\ c \in admitted
  /\ asked[c] = 0
  /\ verdict[c] = "none"
  /\ asked' = [asked EXCEPT ![c] = 1]
  /\ UNCHANGED <<admitted, happened, verdict>>

Happen(c) ==
  /\ asked[c] = 1
  /\ happened[c] = 0
  /\ verdict[c] = "none"
  /\ happened' = [happened EXCEPT ![c] = 1]
  /\ UNCHANGED <<admitted, asked, verdict>>

\* The verdict is the truth: "completed" exactly when the effect has happened.
Judge(c) ==
  /\ c \in admitted
  /\ verdict[c] = "none"
  /\ verdict' = [verdict EXCEPT ![c] =
                   IF happened[c] = 1 THEN "completed" ELSE "not_executed"]
  /\ UNCHANGED <<admitted, asked, happened>>

EffectNext == \E c \in Calls : Allow(c) \/ Ask(c) \/ Happen(c) \/ Judge(c)

EffectSpec == EffectInit /\ [][EffectNext]_effectVars
=============================================================================
