-------------------------- MODULE ResponseMapping ---------------------------
(***************************************************************************)
(* How a tool's declared mapping turns a provider's body into validated    *)
(* output (packages/emitter-support/src/mapping.ts).                       *)
(*                                                                         *)
(* tool.response is None or                                                *)
(*   [resource, field, collection, fields, onError]                        *)
(* with fields a set of [name, path, loose] (loose: the mapping says       *)
(* required: false), onError None or [errorResource, when, map], and       *)
(* tool.extract None or a set of [name, path, loose].  resources maps a    *)
(* resource's name to its set of fields [name, required, type].            *)
(***************************************************************************)
EXTENDS JsonShape

matchesDiscriminator(json, item, when) ==
  LET value == firstMatch(json, item, when.path)
  IN CASE when.test = "exists"  -> Present(value)
       [] when.test = "missing" -> ~Present(value)
       [] when.test = "any"     -> Present(value)
       [] OTHER                 -> Present(value) /\ value = when.test

(* What one row lacks, of fields [name, path, required]. *)
mapRow(json, item, fields) ==
  LET absent == {f \in fields : ~Present(firstMatch(json, item, f.path))}
  IN [missing  |-> {f.name : f \in {g \in absent : g.required}},
      degraded |-> {f.name : f \in {g \in absent : ~g.required}}]

FieldsOf(resources, name) == IF name \in DOMAIN resources THEN resources[name] ELSE {}

(* A mapped field is required unless its resource or the mapping loosens   *)
(* it; a name the resource does not declare counts as required.            *)
RequiredIn(fields, name) == \A f \in fields : f.name = name => f.required

SuccessFields(mapping, resources) ==
  {[name |-> m.name, path |-> m.path,
    required |-> RequiredIn(FieldsOf(resources, mapping.resource), m.name) /\ ~m.loose] :
   m \in mapping.fields}

(* Every field of the error resource, read at its own name unless mapped. *)
ErrorFields(onError, resources) ==
  {LET named == {m \in onError.map : m.name = f.name}
   IN [name |-> f.name,
       path |-> IF named = {} THEN <<f.name>> ELSE (CHOOSE m \in named : TRUE).path,
       required |-> f.required /\ \A m \in named : ~m.loose] :
   f \in FieldsOf(resources, onError.errorResource)}

AllRequired(mapping, json, items, success) ==
  LET row == [q \in items |-> mapRow(json, q, success)]
  IN [missing |-> UNION {row[q].missing : q \in items},
      degraded |-> UNION {row[q].degraded : q \in items},
      whole |-> FALSE, rows |-> items, bad |-> {}, list |-> mapping.collection # None]

RowsOrErrors(items, row, failed) ==
  LET usable == {q \in items : row[q].missing = {}}
  IN [missing |-> {},
      degraded |-> UNION {row[q].degraded : q \in usable \ failed},
      whole |-> items # {} /\ usable = {}, rows |-> usable,
      bad |-> UNION {row[q].missing : q \in items}, list |-> TRUE]

ReadRows(json, items, success, errors, failed) ==
  RowsOrErrors(items,
               [q \in items |-> mapRow(json, q, IF q \in failed THEN errors ELSE success)], failed)

Items(mapping, json) ==
  IF mapping.collection = None THEN {<<>>} ELSE evalPath(json, <<>>, mapping.collection)

(* The rows a response mapping yields: without onError one bad row is      *)
(* everyone's violation, with it a bad row is dropped as long as another   *)
(* one is usable.                                                          *)
MapResponse(mapping, json, resources) ==
  IF mapping.onError = None
  THEN AllRequired(mapping, json, Items(mapping, json), SuccessFields(mapping, resources))
  ELSE ReadRows(json, Items(mapping, json), SuccessFields(mapping, resources),
                ErrorFields(mapping.onError, resources),
                {q \in Items(mapping, json) : matchesDiscriminator(json, q, mapping.onError.when)})

NoRows == [missing |-> {}, degraded |-> {}, whole |-> FALSE, rows |-> {}, bad |-> {}, list |-> FALSE]

(* An extracted list is never missing, an extracted scalar may be. *)
MapExtract(tool, json) ==
  LET isList(m) == \E f \in tool.output : f.name = m.name /\ f.type.kind = "list"
      absent == {m \in tool.extract : ~isList(m) /\ ~Present(firstMatch(json, <<>>, m.path))}
      required(m) == RequiredIn(tool.output, m.name) /\ ~m.loose
  IN [missing  |-> {m.name : m \in {x \in absent : required(x)}},
      degraded |-> {m.name : m \in {x \in absent : ~required(x)}},
      filled   |-> {m.name : m \in tool.extract \ absent}]

NothingExtracted == [missing |-> {}, degraded |-> {}, filled |-> {}]

Outcome(tool, mapped, extracted) ==
  LET missing == mapped.missing \cup extracted.missing
      degraded == mapped.degraded \cup extracted.degraded
  IN [status |-> IF missing # {} \/ mapped.whole THEN "violation"
                 ELSE IF degraded # {} THEN "degraded" ELSE "ok",
      missing |-> IF missing # {} THEN missing ELSE IF mapped.whole THEN mapped.bad ELSE {},
      degraded |-> degraded, rows |-> mapped.rows, list |-> mapped.list,
      filled |-> extracted.filled \cup (IF tool.response = None THEN {} ELSE {tool.response.field})]

applyResponseMapping(tool, json, resources) ==
  Outcome(tool, IF tool.response = None THEN NoRows ELSE MapResponse(tool.response, json, resources),
          IF tool.extract = None THEN NothingExtracted ELSE MapExtract(tool, json))
=============================================================================
