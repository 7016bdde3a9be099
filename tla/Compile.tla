------------------------------ MODULE Compile -------------------------------
(***************************************************************************)
(* From a loaded manifest to the IR that every command and every host      *)
(* reads (packages/compiler/src/compile.ts).  A tool carries its policy in *)
(* the form the evaluation point of module Policy reads.                   *)
(***************************************************************************)
EXTENDS Manifest

ConnectorTypes == {"rest", "graphql", "grpc", "sql", "soap"}

(* An unresolved name passes through. *)
Canon(ref, owner, model) ==
  LET found == resolveResourceName(ref, domainOf(owner), resourceIndex(model))
  IN IF found = None THEN ref ELSE found

lowerType(raw, owner, model) ==
  [kind |-> raw.kind, of |-> IF Names(raw) THEN Canon(raw.of, owner, model) ELSE raw.of]

lowerFields(raws, owner, model) ==
  {[name |-> f.name, required |-> f.required, type |-> lowerType(f, owner, model)] : f \in raws}

lowerConnector(connector) == IF connector.type \in ConnectorTypes THEN connector ELSE None

(* The output field a response mapping fills: one that embeds its resource *)
(* or a list of it, not one that only refers to it by identity.            *)
outputFieldFor(resource, output) ==
  {f.name : f \in {g \in output : g.type.kind \in {"collection", "resource"} /\ g.type.of = resource}}

lowerOnError(onError, owner, model) ==
  IF onError = None THEN None
  ELSE [onError EXCEPT !.errorResource = Canon(@, owner, model)]

lowerResponse(response, owner, output, model) ==
  LET resource == Canon(response.resource, owner, model)
      fields == outputFieldFor(resource, output)
  IN IF fields = {} THEN None
     ELSE [resource |-> resource, field |-> CHOOSE f \in fields : TRUE,
           collection |-> response.collection, fields |-> response.map,
           onError |-> lowerOnError(response.onError, owner, model)]

lowerShape(shape) == IF shape = None THEN NoShape ELSE shape

lowerContract(contract) ==
  [fingerprint |-> contract.fingerprint, shape |-> lowerShape(contract.shape),
   fixture |-> contract.fixture]

policyScopesCapability(p, id, provider) ==
  \/ p.scope = "capability" /\ p.capabilityId = id
  \/ p.scope = "provider" /\ p.provider = provider

(* Lists are copied; a rate limit that is not two positive integers is     *)
(* left out.                                                               *)
lowerRule(p) ==
  LET limited == p.rateLimit # None /\ ~RateLimitFaulty(p.rateLimit)
  IN [id |-> p.id,
      keys |-> {"id", "allow", "deny"} \cup (IF limited THEN {"rateLimit"} ELSE {}),
      illTyped |-> {}, allow |-> p.allow, deny |-> p.deny,
      max |-> IF limited THEN p.rateLimit.max ELSE 0,
      window |-> IF limited THEN p.rateLimit.window ELSE 0]

lowerPolicyRules(model, id, provider) ==
  {lowerRule(p) : p \in {q \in Docs(model.policy) : policyScopesCapability(q, id, provider)}}

lowerLifecycle(lifecycle) == IF lifecycle = None THEN "stable" ELSE lifecycle

(* Each part of a binding comes from the last file that declares it for    *)
(* the capability, so two files of one capability are merged.              *)
LastPart(model, id, Part(_)) ==
  LET at == {i \in 1..Len(model.binding) :
               model.binding[i].capabilityId = id /\ Part(model.binding[i]) # None}
  IN IF at = {} THEN None
     ELSE Part(model.binding[CHOOSE i \in at : \A k \in at : i >= k])

compileTool(d, model) ==
  LET output == lowerFields(d.output, d.id, model)
      rules == lowerPolicyRules(model, d.id, d.provider)
      response == LastPart(model, d.id, LAMBDA b : b.response)
      contract == LastPart(model, d.id, LAMBDA b : b.contract)
  IN [id |-> d.id, effect |-> d.effect, provider |-> d.provider, description |-> d.description,
      tokens |-> d.tokens, tokensReadable |-> TRUE,
      rulesShape |-> IF rules = {} THEN "absent" ELSE "array", rules |-> rules,
      lifecycle |-> lowerLifecycle(d.lifecycle),
      input |-> lowerFields(d.input, d.id, model), output |-> output,
      connector |-> LastPart(model, d.id, LAMBDA b : lowerConnector(b.connector)),
      response |-> IF response = None THEN None ELSE lowerResponse(response, d.id, output, model),
      extract |-> LastPart(model, d.id, LAMBDA b : b.extract),
      contract |-> IF contract = None THEN None ELSE lowerContract(contract)]

compile(model) ==
  [tools |-> [i \in 1..Len(model.capability) |-> compileTool(model.capability[i], model)],
   resources |->
     [name \in resourceIndex(model) |->
        LET at == {i \in 1..Len(model.resource) : model.resource[i].name = name}
        IN lowerFields(model.resource[CHOOSE i \in at : \A k \in at : i >= k].fields, name, model)]]

(* A built artifact keeps everything but the contracts. *)
Stripped(ir) ==
  [ir EXCEPT !.tools = [i \in 1..Len(@) |-> [@[i] EXCEPT !.contract = None]]]
=============================================================================
