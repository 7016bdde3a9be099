------------------------------ MODULE Exposure ------------------------------
(***************************************************************************)
(* What a capability's lifecycle lets a client see and call                *)
(* (packages/emitter-support/src/exposure.ts).                             *)
(***************************************************************************)
EXTENDS Naturals

LifecycleStates == {"experimental", "beta", "stable", "deprecated", "retired"}

NotBlocked == "not blocked"

(* Total: a value that is none of the five states is refused like retired, *)
(* and says so with its own reason.                                        *)
lifecycleExposure(lifecycle) ==
  [listed    |-> lifecycle \in {"beta", "stable", "deprecated"},
   invocable |-> lifecycle \in LifecycleStates \ {"retired"},
   hint      |-> IF lifecycle = "beta" THEN "caution"
                 ELSE IF lifecycle = "deprecated" THEN "deprecation" ELSE "none",
   blockedReason |-> IF lifecycle \notin LifecycleStates THEN "unevaluatable"
                     ELSE IF lifecycle = "retired" THEN "retired" ELSE NotBlocked]
=============================================================================
