------------------------------ MODULE Manifest ------------------------------
(***************************************************************************)
(* A manifest directory, how it is loaded (packages/schema/src/index.ts),  *)
(* how a resource reference resolves (compiler/src/resolve.ts) and what    *)
(* the semantic validator reports (compiler/src/validate.ts).              *)
(*                                                                         *)
(* disk = [caps, capability, binding, resource, policy]: one document, and *)
(* four sequences of documents in file-name order.  Torn is any content    *)
(* the YAML parser or the JSON Schema refuses, a file cut short included.  *)
(* A dotted name is the sequence of its parts and dots.  A raw field is    *)
(*   [name, kind, of, required]                                            *)
(* with kind "scalar", "list" (of: the semantic type), "ref", "resource"   *)
(* or "collection" (of: the resource named).                               *)
(***************************************************************************)
EXTENDS JsonShape, TLC

CONSTANT Torn  \* what no schema accepts

Dot == "."
SemanticTypes == {"identifier", "text", "quantity"}

(* Exactly these keys. *)
IsRecord(r, keys) == r = [k \in keys |-> r[k]]

(* The files of one kind that load, and their documents in file order. *)
Readable(docs) == {i \in 1..Len(docs) : docs[i] # Torn}

Loaded(docs) ==
  LET file(k) == CHOOSE i \in Readable(docs) : Cardinality({j \in Readable(docs) : j <= i}) = k
  IN [k \in 1..Cardinality(Readable(docs)) |-> docs[file(k)]]

load(disk) ==
  [ok |-> /\ disk.caps # Torn
          /\ \A kind \in {"capability", "binding", "resource", "policy"} :
               \A i \in 1..Len(disk[kind]) : disk[kind][i] # Torn,
   capabilities |-> IF disk.caps = Torn THEN None ELSE disk.caps,
   capability |-> Loaded(disk.capability),
   binding |-> Loaded(disk.binding),
   resource |-> Loaded(disk.resource),
   policy |-> Loaded(disk.policy)]

Docs(seq) == {seq[i] : i \in 1..Len(seq)}

-----------------------------------------------------------------------------
(* Resolving a resource name. *)
Dots(name) == {i \in 1..Len(name) : name[i] = Dot}

domainOf(name) ==
  IF Dots(name) = {} THEN <<>>
  ELSE SubSeq(name, 1, (CHOOSE i \in Dots(name) : \A k \in Dots(name) : i <= k) - 1)

resourceIndex(model) == {d.name : d \in Docs(model.resource)}

(* The canonical name, or None when it is unknown or ambiguous. *)
resolveResourceName(ref, domain, index) ==
  LET qualified == domain \o <<Dot>> \o ref
      hasQualified == domain # <<>> /\ qualified \in index
  IN IF Dots(ref) # {} THEN IF ref \in index THEN ref ELSE None
     ELSE IF hasQualified /\ ref \in index THEN None
     ELSE IF hasQualified THEN qualified
     ELSE IF ref \in index THEN ref ELSE None

Names(raw) == raw.kind \in {"ref", "resource", "collection"}

Resolves(ref, owner, model) ==
  resolveResourceName(ref, domainOf(owner), resourceIndex(model)) # None

-----------------------------------------------------------------------------
(* The validator's checks, one predicate per diagnostic.  byId keeps the   *)
(* first document of an id.                                                *)
Defines(model, id) == \E d \in Docs(model.capability) : d.id = id

ById(model, id) ==
  LET at == {i \in 1..Len(model.capability) : model.capability[i].id = id}
  IN model.capability[CHOOSE i \in at : \A k \in at : i <= k]

DuplicateIds(docs) ==
  \E i, k \in 1..Len(docs) : i # k /\ docs[i].id = docs[k].id

HasFaultyProvider(model) ==
  \E d \in Docs(model.capability) :
    \/ d.provider = None
    \/ model.capabilities # None /\ d.provider \notin model.capabilities.providers

DeclarationsDiffer(model) ==
  /\ model.capabilities # None
  /\ model.capabilities.capabilities # {d.id : d \in Docs(model.capability)}

BindsNothing(model) == \E b \in Docs(model.binding) : ~Defines(model, b.capabilityId)

NotImplemented(model) ==
  \E b \in Docs(model.binding) : b.connector.type \in {"graphql", "grpc", "soap"}

(* connector.sql: a read-only statement, and parameters that are declared  *)
(* inputs matched one to one with the query's placeholders.                *)
SqlFaulty(model) ==
  \E b \in Docs(model.binding) :
    /\ b.connector.type = "sql"
    /\ LET sql == b.connector.sql
           inputs == IF Defines(model, b.capabilityId)
                     THEN {f.name : f \in ById(model, b.capabilityId).input} ELSE {}
       IN \/ ~sql.readOnly
          \/ /\ Defines(model, b.capabilityId)
             /\ \E i \in 1..Len(sql.params) : sql.params[i] \notin inputs
          \/ sql.placeholders # 1..Len(sql.params)
          \/ ~sql.dsnFromEnv

DanglingFields(fields, owner, model) ==
  \E f \in fields : Names(f) /\ ~Resolves(f.of, owner, model)

UnknownResource(model) ==
  \/ \E d \in Docs(model.capability) : DanglingFields(d.input \cup d.output, d.id, model)
  \/ \E r \in Docs(model.resource) : DanglingFields(r.fields, r.name, model)

(* The field names of a resource; its last definition wins. *)
FieldNames(model, name) ==
  LET at == {i \in 1..Len(model.resource) : model.resource[i].name = name}
  IN {f.name : f \in model.resource[CHOOSE i \in at : \A k \in at : i >= k].fields}

MapFaulty(map, model, resource) ==
  \E m \in map : m.name \notin FieldNames(model, resource) \/ ~parsePath(m.path)

OnErrorFaulty(resp, owner, model, canonical) ==
  LET err == resolveResourceName(resp.onError.errorResource, domainOf(owner), resourceIndex(model))
  IN /\ resp.onError # None
     /\ \/ resp.collection = None
        \/ err \in {None, canonical}
        \/ err # canonical /\ err # None /\ MapFaulty(resp.onError.map, model, err)
        \/ ~parsePath(resp.onError.when.path)

(* The output fields a response mapping could populate: there must be      *)
(* exactly one.                                                            *)
TargetFields(cap, model, canonical) ==
  {f.name : f \in {g \in cap.output :
     Names(g) /\ resolveResourceName(g.of, domainOf(cap.id), resourceIndex(model)) = canonical}}

ExactlyOne(set) == \E x \in set : set = {x}

ResponseFaulty(b, cap, model) ==
  LET resp == b.response
      canonical == resolveResourceName(resp.resource, domainOf(cap.id), resourceIndex(model))
  IN /\ resp # None
     /\ \/ canonical = None
        \/ MapFaulty(resp.map, model, canonical)
        \/ resp.collection # None /\ ~parsePath(resp.collection)
        \/ OnErrorFaulty(resp, cap.id, model, canonical)
        \/ ~ExactlyOne(TargetFields(cap, model, canonical))

ExtractFaulty(b, cap) ==
  /\ b.extract # None
  /\ \E m \in b.extract :
       \/ \A f \in cap.output : f.name # m.name
       \/ \E f \in cap.output : f.name = m.name /\ Names(f)
       \/ ~parsePath(m.path)

(* Mutation: outputs are only counted where there is no response mapping. *)
UnboundWithoutResponse(b, cap, model) ==
  /\ b.response = None /\ b.extract # None
  /\ {f.name : f \in cap.output} \ {m.name : m \in b.extract} # {}

(* Every declared output field must be reached, by the response or by the  *)
(* extract; not looked at while the response's own target is in doubt.     *)
UnboundOutput(b, cap, model) ==
  LET extracted == IF b.extract = None THEN {} ELSE {m.name : m \in b.extract}
      canonical == IF b.response = None THEN None
                   ELSE resolveResourceName(b.response.resource, domainOf(cap.id), resourceIndex(model))
      targets == IF canonical = None THEN {} ELSE TargetFields(cap, model, canonical)
  IN /\ b.response # None \/ b.extract # None
     /\ b.response = None \/ ExactlyOne(targets)
     /\ {f.name : f \in cap.output} \ (extracted \cup targets) # {}

OutputFaulty(model) ==
  \E b \in Docs(model.binding) :
    /\ Defines(model, b.capabilityId)
    /\ LET cap == ById(model, b.capabilityId)
       IN ResponseFaulty(b, cap, model) \/ ExtractFaulty(b, cap) \/ UnboundOutput(b, cap, model)

EmptyPrincipal == ""
Wildcards == {"*"}

PolicyScopeFaulty(p, model) ==
  CASE p.scope = None -> TRUE
    [] p.scope = "capability" ->
         \/ p.capabilityId = None \/ ~Defines(model, p.capabilityId)
         \/ /\ p.capabilityId # None /\ Defines(model, p.capabilityId) /\ p.provider # None
            /\ ById(model, p.capabilityId).provider # p.provider
    [] OTHER ->
         \/ p.provider = None
         \/ model.capabilities # None /\ p.provider \notin model.capabilities.providers

RateLimitFaulty(limit) == limit # None /\ (limit.max < 1 \/ limit.window < 1)

PolicyFaulty(model) ==
  \E p \in Docs(model.policy) :
    \/ PolicyScopeFaulty(p, model)
    \/ (p.allow \cup p.deny) \cap ({EmptyPrincipal} \cup Wildcards) # {}
    \/ RateLimitFaulty(p.rateLimit)
    \/ p.constrained

(* The codes of the errors; warnings change nothing but what is printed. *)
validateSemantics(model) ==
  {found[1] : found \in {check \in
    {<<"duplicate-capability", DuplicateIds(model.capability)>>,
     <<"provider", HasFaultyProvider(model)>>,
     <<"declarations", DeclarationsDiffer(model)>>,
     <<"binding-without-capability", BindsNothing(model)>>,
     <<"connector-type-not-implemented", NotImplemented(model)>>,
     <<"sql", SqlFaulty(model)>>,
     <<"unknown-resource", UnknownResource(model)>>,
     <<"output", OutputFaulty(model)>>,
     <<"duplicate-policy", DuplicateIds(model.policy)>>,
     <<"policy", PolicyFaulty(model)>>} : check[2]}}

Accepted(disk) == load(disk).ok /\ validateSemantics(load(disk)) = {}
=============================================================================
