--------------------------- MODULE MCOrchestration ---------------------------
(* Orchestration on a small instance: an approved tool, a repeatable tool, *)
(* a model request and a join of the three.                                *)
EXTENDS Orchestration, TLC

MCEffectClass  == 1 :> "non_idempotent" @@ 2 :> "idempotent"
MCDependencies == 1 :> {} @@ 2 :> {} @@ 3 :> {2} @@ 4 :> {1, 3}
MCMaxUsage     == 1 :> 1 @@ 2 :> 2 @@ 3 :> 1 @@ 4 :> 0
=============================================================================
