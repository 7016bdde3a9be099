------------------------------- MODULE Replay -------------------------------
(***************************************************************************)
(* What one answer of a backend says of a recorded contract, and what one  *)
(* answer is worth recording (packages/runtime/src/verify.ts: verifyTool   *)
(* after its request, recordContract).  The requests themselves belong to  *)
(* the commands that send them.                                            *)
(***************************************************************************)
EXTENDS ResponseMapping

Result(t, status, why) ==
  [id |-> t.id, status |-> status, why |-> why, policyDenied |-> why = "policy", drift |-> {}]

(* A recorded shape that is not the fingerprint's own is not used. *)
narrateShapeChange(contract, json) ==
  LET usable == contract.shape # NoShape /\ fingerprintShapeMap(contract.shape) = contract.fingerprint
      drift == diffShape(contract.shape, describeShape(json))
  IN IF usable /\ hasShapeDrift(drift) THEN {drift} ELSE {}

(* Mutation: a mapping that still resolves hides a changed shape. *)
JudgeMappingOnly(t, fixture, json, resources) ==
  IF applyResponseMapping(t, json, resources).status = "violation" THEN Result(t, "red", "violation")
  ELSE Result(t, "green", "unchanged")

Verdict(t, fixture, mapped, changed, drifted) ==
  LET empty == t.response # None /\ mapped.list /\ mapped.rows = {}
      unchanged == IF changed THEN drifted ELSE Result(t, "green", "unchanged")
  IN IF t.response = None /\ t.extract = None THEN unchanged
     ELSE IF mapped.status = "violation" THEN Result(t, "red", "violation")
     ELSE IF fixture.nonEmpty /\ empty THEN Result(t, "red", "empty")
     ELSE IF mapped.status = "degraded" THEN Result(t, "yellow", "degraded")
     ELSE unchanged

Judge(t, fixture, json, resources) ==
  Verdict(t, fixture, applyResponseMapping(t, json, resources),
          fingerprintShape(json) # t.contract.fingerprint,
          [Result(t, "yellow", "drift") EXCEPT !.drift = narrateShapeChange(t.contract, json)])

(* A fresh recording: not of a failure, of a database without a caller, or *)
(* of an answer that the mapping refuses.                                  *)
recordContract(tool, json, resources) ==
  IF json = None \/ tool.connector.type = "sql" THEN "red"
  ELSE IF tool.response = None /\ tool.extract = None THEN "green"
  ELSE CASE applyResponseMapping(tool, json, resources).status = "violation" -> "red"
         [] applyResponseMapping(tool, json, resources).status = "degraded" -> "yellow"
         [] OTHER -> "green"
=============================================================================
