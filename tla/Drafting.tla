------------------------------ MODULE Drafting ------------------------------
(***************************************************************************)
(* From a draft of an API and the decisions of a person to the documents   *)
(* of a manifest (packages/init/src: d9.ts, emit.ts, names.ts,             *)
(* decisions.ts, reasons.ts).                                              *)
(*                                                                         *)
(* A draft is [operations (a sequence), auth (a default header or not)].   *)
(* An operation is [key, method, placeholders, input, response, auth,      *)
(* refused]; its response is a node:                                       *)
(*   [kind "scalar", type, values, nullable]                               *)
(*   [kind "object", name, properties], of properties                      *)
(*                            [name, declaredRequired, presence, node]     *)
(*   [kind "array", items, rowErrors]                                      *)
(*   [kind "unknown"]                                                      *)
(* None is a fact that the source does not give.  presence counts a        *)
(* property in observed bodies: [items, presentNonNull].                   *)
(***************************************************************************)
EXTENDS Compile, SequencesExt

CONSTANTS
  Unaddressable,  \* property names no accessor can spell: quotes, brackets
  Unbalanced,     \* those with a parenthesis that the path parser counts
  PascalCase,     \* what a raw name is as a resource name, where it is one
  Singular,       \* the plurals and their singulars
  BadWords,       \* words no grammar of ids and names accepts
  MaxNesting      \* BOUND: how deep a response is looked into

(* A list in the root, its rows and their values are looked at. *)
ASSUME NestingAssumption == MaxNesting \in Nat /\ MaxNesting >= 3

(* No id has the sign that an advertised name has for a dot (names.ts      *)
(* CAPABILITY_ID_RE).                                                      *)
ASSUME WordAssumption == "_" \in BadWords

-----------------------------------------------------------------------------
(* names.ts, decisions.ts *)
Parts(name) == {name[i] : i \in 1..Len(name)} \ {Dot}

legalCapabilityId(id) == Dots(id) # {} /\ Parts(id) \cap BadWords = {}
legalResourceName(name) == Cardinality(Dots(name)) <= 1 /\ Parts(name) \cap BadWords = {}

toResourceLocalName(raw) == IF raw \in DOMAIN PascalCase THEN <<PascalCase[raw]>> ELSE None
singularize(word) == IF word \in DOMAIN Singular THEN Singular[word] ELSE word
localResourceName(name) == name[Len(name)]
qualifyResourceName(name, domain) == IF Dots(name) # {} THEN name ELSE domain \o <<Dot>> \o name
outputFieldName(name, collection) ==
  IF collection THEN localResourceName(name) \o "s" ELSE localResourceName(name)

keptDecisions(record) == {d \in Docs(record.decisions) : d.keep}
providerId(record) == IF record.provider = None THEN record.company \o "-api" ELSE record.provider
baseUrlEnvVar(record) == IF record.baseUrlEnvVar = None THEN record.company \o "_API_URL" ELSE record.baseUrlEnvVar
authEnvVar(record) == IF record.authEnvVar = None THEN record.company \o "_API_TOKEN" ELSE record.authEnvVar

Effects == {"read", "write", "irreversible"}

validateDecisionRecord(record) ==
  /\ record # Torn
  /\ {record.company, record.provider} \cap BadWords = {}
  /\ \A i \in 1..Len(record.decisions) :
       LET d == record.decisions[i]
       IN d.keep => d.effect \in Effects /\ d.capabilityId # <<>>

-----------------------------------------------------------------------------
(* d9.ts: where in a response the capability's result is. *)
AnyItem == "[*]"

Spelled(path) == IF \E i \in 1..Len(path) : path[i] \in Unbalanced THEN BadPath ELSE path

propertyAccessor(name) == IF name \in Unaddressable THEN None ELSE Spelled(<<name>>)

(* A bracket ends an accessor early (d9.ts BRACKET_HOSTILE). *)
ASSUME SpellingAssumption == AnyItem \in Unaddressable

IsListOfObjects(node) == node.kind = "array" /\ node.items.kind = "object"

(* The scalars of an object that can be read. *)
locusLeaves(object) ==
  {p \in object.properties : p.node.kind = "scalar" /\ propertyAccessor(p.name) # None}

Candidate(kind, at, locus, property) == [kind |-> kind, at |-> at, locus |-> locus, property |-> property]

locusCandidates(response) ==
  IF IsListOfObjects(response)
  THEN {Candidate("collection", <<AnyItem>>, response.items, None)}
  ELSE IF response.kind # "object" THEN {}
  ELSE (IF locusLeaves(response) = {} THEN {} ELSE {Candidate("root", <<>>, response, None)})
       \cup {Candidate("collection", <<p.name, AnyItem>>, p.node.items, p.name) :
               p \in {q \in response.properties : IsListOfObjects(q.node) /\ propertyAccessor(q.name) # None}}

NoLocus == Candidate("none", None, None, None)

(* One candidate needs no answer, several need one of them: None without. *)
selectLocus(candidates, responseLocus) ==
  CASE candidates = {} -> NoLocus
    [] Cardinality(candidates) = 1 -> CHOOSE c \in candidates : TRUE
    [] \E c \in candidates : c.at = responseLocus -> CHOOSE c \in candidates : c.at = responseLocus
    [] OTHER -> None

(* Mutation: what a source requires is required, null or not. *)
RequiredAsDeclared(p) ==
  IF p.declaredRequired # None THEN p.declaredRequired
  ELSE p.presence # None /\ p.presence.items > 0 /\ p.presence.presentNonNull = p.presence.items

(* A null maps like a missing value: required only on positive evidence    *)
(* that the value is never null.                                           *)
classifyRequired(p) ==
  LET nullable == IF p.node.kind = "scalar" THEN p.node.nullable ELSE None
      always == p.presence # None /\ p.presence.items > 0 /\ p.presence.presentNonNull = p.presence.items
      evidence == nullable = FALSE \/ (nullable # TRUE /\ always)
  IN IF p.declaredRequired # None
     THEN p.declaredRequired /\ evidence /\ (p.presence = None \/ always)
     ELSE always /\ nullable # TRUE

-----------------------------------------------------------------------------
(* What the adapters leave in a draft, as far as a mapping reads it        *)
(* (model.ts).  A property is there once, and a row that failed has        *)
(* scalars for its code and message.                                       *)
Facts == {None} \cup BOOLEAN
IsProperty(p) ==
  p.name # None /\ p.declaredRequired \in Facts /\ (p.node.kind = "scalar" => p.node.nullable \in Facts)

IsObjectNode(node) ==
  /\ \A p \in node.properties : IsProperty(p)
  /\ \A p, q \in node.properties : p.name = q.name => p = q

IsRowErrors(e) ==
  /\ \A p \in {e.code, e.message} : IsProperty(p) /\ p.node.kind = "scalar"
  /\ e.equals \notin {None, "nil", "exists", "missing", "any"}

IsListNode(node) == IsObjectNode(node.items) /\ (node.rowErrors # None => IsRowErrors(node.rowErrors))

IsResponse(node) ==
  /\ IsListOfObjects(node) => IsListNode(node)
  /\ node.kind = "object" =>
       IsObjectNode(node) /\ \A p \in node.properties : IsListOfObjects(p.node) => IsListNode(p.node)

IsSequence(seq) == seq \in Seq(Docs(seq))

(* An operation is known by its key. *)
IsDraft(draft) ==
  /\ IsSequence(draft.operations)
  /\ \A i, k \in 1..Len(draft.operations) : draft.operations[i].key = draft.operations[k].key => i = k
  /\ \A operation \in Docs(draft.operations) : IsResponse(operation.response)

(* What the grammars leave of a name (names.ts): a sequence, whose last    *)
(* part is no dot, with "Error" after it or not.                           *)
NamesAnError(word) == word # Dot /\ word \o "Error" \notin {word, Dot}
IsName(name) == IsSequence(name) /\ name # <<>> /\ NamesAnError(name[Len(name)])

ASSUME NameAssumption == \A raw \in DOMAIN PascalCase : NamesAnError(PascalCase[raw])

IsDecision(d) ==
  d.keep => IsSequence(d.capabilityId) /\ (d.resourceName # None => IsName(d.resourceName))

-----------------------------------------------------------------------------
(* emit.ts: one decision's plan. *)
CONNECTOR_METHODS == {"GET", "POST", "PUT", "PATCH", "DELETE"}

authFor(draft, operation) ==
  IF operation.auth = "none" THEN FALSE ELSE operation.auth = "header" \/ draft.auth

(* An enum without its values is a string. *)
semanticTypeFor(type, values) ==
  IF type = None \/ (type = "enum" /\ values = {}) THEN <<"string", {}>>
  ELSE IF type = "enum" THEN <<type, values>> ELSE <<type, {}>>

planInput(field) ==
  [name |-> field.name, kind |-> IF field.list THEN "list" ELSE "scalar",
   of |-> semanticTypeFor(field.type, field.values),
   required |-> field.in = "path" \/ field.required = TRUE]

planResourceField(property, name) ==
  [name |-> name, path |-> propertyAccessor(property.name),
   of |-> semanticTypeFor(property.node.type, property.node.values),
   required |-> classifyRequired(property)]

(* The nodes of a response, each with its path. *)
Place(at, node) == [at |-> at, node |-> node]

Children(place) ==
  CASE place.node.kind = "array" -> {Place(Append(place.at, AnyItem), place.node.items)}
    [] place.node.kind = "object" -> {Place(Append(place.at, p.name), p.node) : p \in place.node.properties}
    [] OTHER -> {}

Places(response) ==
  LET level[n \in 0..MaxNesting] ==
        IF n = 0 THEN {Place(<<>>, response)} ELSE UNION {Children(place) : place \in level[n - 1]}
  IN UNION {level[n] : n \in 0..MaxNesting}

(* The item paths of the lists whose rows are marked as failed or not. *)
rowErrorArrays(response) ==
  {Append(place.at, AnyItem) :
     place \in {q \in Places(response) : q.node.kind = "array" /\ q.node.rowErrors # None}}

ListAt(response, candidate) ==
  IF candidate.property = None THEN response
  ELSE (CHOOSE p \in response.properties : p.name = candidate.property).node

planRowErrors(rowErrors, resourceName) ==
  [resource |-> [name |-> [resourceName EXCEPT ![Len(resourceName)] = @ \o "Error"],
                 fields |-> {planResourceField(rowErrors.code, "code"),
                             planResourceField(rowErrors.message, "message")}],
   when |-> [path |-> propertyAccessor(rowErrors.property), test |-> rowErrors.equals]]

RowErrorsReadable(rowErrors) ==
  {rowErrors.property, rowErrors.code.name, rowErrors.message.name} \cap Unaddressable = {}

(* The name a person gave, or the source's, or the list's own; None when   *)
(* there is none or it is no resource name.                                *)
ResourceName(candidate, decision) ==
  LET component == IF candidate.locus.name = None THEN None ELSE toResourceLocalName(candidate.locus.name)
      list == IF candidate.property = None THEN None ELSE toResourceLocalName(singularize(candidate.property))
      chosen == IF decision.resourceName # None THEN decision.resourceName
                ELSE IF component # None THEN component ELSE list
  IN IF chosen = None THEN None
     ELSE IF legalResourceName(chosen) THEN qualifyResourceName(chosen, domainOf(decision.capabilityId))
     ELSE None

Degraded(operation, decision) ==
  [operation |-> operation, decision |-> decision, resource |-> None, at |-> None, onError |-> None]

PlanNamed(operation, decision, locus, name, rowErrors) ==
  IF name = None \/ (rowErrors # None /\ ~RowErrorsReadable(rowErrors)) THEN None
  ELSE [Degraded(operation, decision) EXCEPT
          !.resource = [name |-> name,
                        fields |-> {planResourceField(p, p.name) : p \in locusLeaves(locus.locus)}],
          !.at = locus.at,
          !.onError = IF rowErrors = None THEN None ELSE planRowErrors(rowErrors, name)]

(* Marked rows anywhere but in the chosen list are nobody's to map. *)
PlanAt(operation, decision, locus) ==
  IF locus = None THEN None
  ELSE IF rowErrorArrays(operation.response) \ (IF locus.kind = "collection" THEN {locus.at} ELSE {}) # {}
  THEN None
  ELSE IF locus = NoLocus THEN Degraded(operation, decision)
  ELSE IF locusLeaves(locus.locus) = {} THEN Degraded(operation, decision)
  ELSE PlanNamed(operation, decision, locus, ResourceName(locus, decision),
                 IF locus.kind = "collection" THEN ListAt(operation.response, locus).rowErrors ELSE None)

(* The plan, or None when the candidate is skipped. *)
planCapability(operation, decision) ==
  IF \/ operation.method \notin CONNECTOR_METHODS
     \/ ~(operation.placeholders \subseteq {f.name : f \in operation.input})
  THEN None
  ELSE PlanAt(operation, decision, selectLocus(locusCandidates(operation.response), decision.responseLocus))

-----------------------------------------------------------------------------
(* emit.ts: all decisions, in their order. *)
sameFields(a, b) ==
  LET key(f) == <<f.name, f.of, f.required>>
  IN {key(f) : f \in a.fields} = {key(f) : f \in b.fields}

Claims(plan) == {r \in {plan.resource, IF plan.onError = None THEN None ELSE plan.onError.resource} : r # None}

OperationsOf(draft, key) == {op \in {draft.operations[i] : i \in 1..Len(draft.operations)} : op.key = key}

ConflictsWith(plan, plans) ==
  \E k \in 1..Len(plans) : \E r \in Claims(plan), s \in Claims(plans[k]) : r.name = s.name /\ ~sameFields(r, s)

Claimed(plans, id) == \E k \in 1..Len(plans) : plans[k].decision.capabilityId = id

Added(plans, plan) == IF plan = None \/ ConflictsWith(plan, plans) THEN plans ELSE Append(plans, plan)

Consider(draft, plans, decision) ==
  IF ~decision.keep \/ OperationsOf(draft, decision.operation) = {} THEN plans
  ELSE LET operation == CHOOSE op \in OperationsOf(draft, decision.operation) : TRUE
       IN IF \/ operation.refused
             \/ ~legalCapabilityId(decision.capabilityId)
             \/ Claimed(plans, decision.capabilityId)
          THEN plans
          ELSE Added(plans, planCapability(operation, decision))

plansOf(draft, record) ==
  LET upto[n \in 0..Len(record.decisions)] ==
        IF n = 0 THEN <<>> ELSE Consider(draft, upto[n - 1], record.decisions[n])
  IN upto[Len(record.decisions)]

(* A set of files: from paths, each a kind and a name, to documents. *)
NoFiles == [p \in {} |-> None]
Put(map, key, value) == [k \in DOMAIN map \cup {key} |-> IF k = key THEN value ELSE map[k]]
LaidOver(files, under) ==
  [p \in DOMAIN files \cup DOMAIN under |-> IF p \in DOMAIN files THEN files[p] ELSE under[p]]

FilePath(kind, name) == <<kind, name>>
CapabilitiesFile == FilePath("capabilities", <<>>)

renderCapabilitiesFile(record, plans) ==
  [providers |-> {providerId(record)},
   capabilities |-> {plans[k].decision.capabilityId : k \in 1..Len(plans)}]

renderResourceFile(resource) ==
  [name |-> resource.name, blocks |-> TRUE,
   fields |-> {[name |-> f.name, kind |-> "scalar", of |-> f.of, required |-> f.required] : f \in resource.fields}]

IsCollection(plan) == plan.at # None /\ plan.at # <<>>

renderCapabilityFile(record, plan) ==
  [id |-> plan.decision.capabilityId, provider |-> providerId(record), effect |-> plan.decision.effect,
   tokens |-> {}, lifecycle |-> None, description |-> plan.operation.key,
   input |-> {planInput(f) : f \in plan.operation.input},
   output |-> IF plan.resource = None THEN {}
              ELSE {[name |-> outputFieldName(plan.resource.name, IsCollection(plan)),
                     kind |-> IF IsCollection(plan) THEN "collection" ELSE "resource",
                     of |-> plan.resource.name, required |-> TRUE]}]

FieldMap(fields) == {[name |-> f.name, path |-> f.path, loose |-> FALSE] : f \in fields}

(* An error field read at its own name needs no entry. *)
renderOnError(onError) ==
  [errorResource |-> onError.resource.name, when |-> onError.when,
   map |-> FieldMap({f \in onError.resource.fields : f.path # <<f.name>>})]

renderResponse(plan) ==
  [resource |-> plan.resource.name, map |-> FieldMap(plan.resource.fields),
   collection |-> IF IsCollection(plan) THEN Spelled(plan.at) ELSE None,
   onError |-> IF plan.onError = None THEN None ELSE renderOnError(plan.onError)]

renderBindingFile(draft, record, plan, contracts) ==
  LET id == plan.decision.capabilityId
  IN [capabilityId |-> id, extract |-> None, blocks |-> TRUE,
      connector |-> [type |-> "rest", sql |-> None, method |-> plan.operation.method,
                     key |-> plan.operation.key,
                     env |-> {baseUrlEnvVar(record)}
                             \cup (IF authFor(draft, plan.operation) THEN {authEnvVar(record)} ELSE {})],
      response |-> IF plan.resource = None THEN None ELSE renderResponse(plan),
      contract |-> IF id \notin DOMAIN contracts THEN None
                   ELSE [fingerprint |-> contracts[id].fingerprint, shape |-> contracts[id].shape,
                         fixture |-> FilePath("fixture", id)]]

(* The request that was answered, without an expectation. *)
RecordedFixture == [request |-> TRUE, nonEmpty |-> FALSE]

File(path, doc) == [q \in {path} |-> doc]

(* Files of one path are the same file. *)
Together(sets) ==
  [p \in UNION {DOMAIN files : files \in sets} |-> (CHOOSE files \in sets : p \in DOMAIN files)[p]]

FilesFor(draft, record, plan, contracts) ==
  LET id == plan.decision.capabilityId
  IN Together({File(FilePath("resource", r.name), renderResourceFile(r)) : r \in Claims(plan)}
              \cup {File(FilePath("capability", id), renderCapabilityFile(record, plan)),
                    File(FilePath("binding", id), renderBindingFile(draft, record, plan, contracts)),
                    IF id \in DOMAIN contracts THEN File(FilePath("fixture", id), RecordedFixture) ELSE NoFiles})

filesOf(draft, record, plans, contracts) ==
  IF plans = <<>> THEN NoFiles
  ELSE Together({File(CapabilitiesFile, renderCapabilitiesFile(record, plans))}
                \cup {FilesFor(draft, record, plans[k], contracts) : k \in 1..Len(plans)})

emit(draft, record, contracts) ==
  IF {record.company, providerId(record)} \cap BadWords # {} THEN NoFiles
  ELSE filesOf(draft, record, plansOf(draft, record), contracts)

-----------------------------------------------------------------------------
(* A directory of such files as a manifest. *)
FilesOf(files, kind) == {p \in DOMAIN files : p[1] = kind}
InSomeOrder(set) == FoldSet(LAMBDA x, seq : Append(seq, x), <<>>, set)
DocsOf(files, kind) ==
  LET own == Restrict(files, FilesOf(files, kind))
      paths == InSomeOrder(DOMAIN own)
  IN [i \in 1..Len(paths) |-> own[paths[i]]]

toDisk(files) ==
  [caps |-> IF CapabilitiesFile \in DOMAIN files THEN files[CapabilitiesFile] ELSE None,
   capability |-> DocsOf(files, "capability"), binding |-> DocsOf(files, "binding"),
   resource |-> DocsOf(files, "resource"), policy |-> DocsOf(files, "policy")]
=============================================================================
