------------------------------- MODULE Policy -------------------------------
(***************************************************************************)
(* The policy evaluation point (packages/emitter-support/src/policy.ts).   *)
(* Pure operators; the machine that uses them is Invocation.               *)
(*                                                                         *)
(* A rule is a record                                                      *)
(*   [id, keys, illTyped, allow, deny, max, window]                        *)
(* where keys are the keys the artifact's object carries, illTyped those   *)
(* of them whose value has the wrong type or range, and max = 0 stands for *)
(* a rule without rateLimit (a declared one has max >= 1).  An absent and  *)
(* an empty allow or deny list are evaluated alike, so both are {}.        *)
(* A tool's rules are a set: no branch of the evaluator depends on their   *)
(* order, every loop looks for any rule with a property.  rulesShape is    *)
(* "absent", "array", "null" or "malformed" (any other value).             *)
(***************************************************************************)
EXTENDS Naturals

CONSTANT Anonymous  \* an undefined principal

KnownRuleKeys == {"id", "allow", "deny", "rateLimit"}

(* A rule this version cannot fully evaluate is never partially applied. *)
unevaluatable(rule) ==
  \/ rule.keys \ KnownRuleKeys # {}
  \/ rule.illTyped # {}

Limited(rule) == rule.max > 0

(* The tool's token list and rule list cannot be read, or some rule cannot *)
(* be evaluated: step 0 of the pinned decision order.                      *)
Unreadable(tool) ==
  \/ ~tool.tokensReadable
  \/ tool.rulesShape \notin {"absent", "array"}
  \/ \E rule \in tool.rules : unevaluatable(rule)

Denied(tool, who) == who # Anonymous /\ \E rule \in tool.rules : who \in rule.deny

(* Mutation: one satisfied allow list is enough. *)
UnionAllow(tool, who) ==
  /\ \E rule \in tool.rules : rule.allow # {}
  /\ \A rule \in tool.rules : rule.allow # {} => who \notin rule.allow

(* Intersection: every non-empty allow list must name the principal. *)
NotAllowed(tool, who) ==
  \E rule \in tool.rules : rule.allow # {} /\ (who = Anonymous \/ who \notin rule.allow)

PolicyReasons == {"policy_unevaluatable", "authenticated_no_credential",
                  "principal_denied", "principal_not_allowed"}

(* "allowed", or the reason code of the refusal. *)
evaluatePolicy(tool, caller) ==
  IF Unreadable(tool) THEN "policy_unevaluatable"
  ELSE IF "authenticated" \in tool.tokens /\ ~caller.credential THEN "authenticated_no_credential"
  ELSE IF Denied(tool, caller.principal) THEN "principal_denied"
  ELSE IF NotAllowed(tool, caller.principal) THEN "principal_not_allowed"
  ELSE "allowed"
=============================================================================
