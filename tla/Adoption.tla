------------------------------ MODULE Adoption ------------------------------
(***************************************************************************)
(* Which of the paths a backend started to return can be declared          *)
(* (packages/runtime/src/adopt.ts), and the edit that declares them        *)
(* (packages/cli/src/adopt-edit.ts).  The edit works on documents, not on  *)
(* their text: it adds entries and rewrites the contract, and fails when a *)
(* document is laid out so that it finds no block to add to.               *)
(***************************************************************************)
EXTENDS Compile

LastStep(path) == path[Len(path)]
Base(path) == SubSeq(path, 1, Len(path) - 1)

semanticFor(type) ==
  IF type = "string" THEN "text" ELSE IF type = "number" THEN "quantity" ELSE None

(* The collection's path as a shape writes it. *)
itemPrefix(collection) ==
  IF collection = None THEN <<>>
  ELSE [i \in 1..Len(collection) |-> IF collection[i] = "[*]" THEN Element ELSE collection[i]]

(* Below the mapped item, through a key of it. *)
WithinRoot(path, prefix) ==
  /\ Len(path) > Len(prefix)
  /\ SubSeq(path, 1, Len(prefix)) = prefix
  /\ path[Len(prefix) + 1] # Element

(* Arrays seen for the first time that are not part of a collection's      *)
(* item, with the type of their elements where the drift reports it.       *)
OutsideArrays(tool, added) ==
  LET collection == IF tool.response = None THEN None ELSE tool.response.collection
      elements == {a \in added : a.path # <<>> /\ LastStep(a.path) = Element}
      bases == {a.path : a \in {b \in added : b.type = "array"}} \cup {Base(a.path) : a \in elements}
      typeOf(base) == {a.type : a \in {e \in elements : Base(e.path) = base}}
  IN {[path |-> b, type |-> IF typeOf(b) = {} THEN None ELSE CHOOSE t \in typeOf(b) : TRUE] :
        b \in {p \in bases : ~(collection # None /\ WithinRoot(p, itemPrefix(collection)))}}

DeclaredOutput(tool) == {f.name : f \in tool.output}

(* A list of a scalar type becomes an output field of its own, read at the *)
(* path the shape names.                                                   *)
ListOffers(tool, added) ==
  {[kind |-> "output-array", field |-> LastStep(a.path), itemPath |-> a.path \o <<"[*]">>,
    semantic |-> semanticFor(a.type)] :
   a \in {b \in OutsideArrays(tool, added) :
            /\ b.path # <<>> /\ LastStep(b.path) \notin DeclaredOutput(tool)
            /\ b.type \notin {None, "object"} /\ semanticFor(b.type) # None}}

(* A scalar directly below the mapped item becomes a field of its resource. *)
FieldOffers(tool, added, resources) ==
  LET mapping == tool.response
      prefix == itemPrefix(mapping.collection)
      declared == {m.name : m \in mapping.fields}
                  \cup {f.name : f \in (IF mapping.resource \in DOMAIN resources
                                        THEN resources[mapping.resource] ELSE {})}
      spokenFor == UNION {{b.path, Append(b.path, Element)} : b \in OutsideArrays(tool, added)}
  IN IF mapping = None THEN {}
     ELSE {[kind |-> "resource-field", field |-> LastStep(a.path), itemPath |-> <<LastStep(a.path)>>,
            semantic |-> semanticFor(a.type)] :
           a \in {b \in added :
                    /\ b.path \notin spokenFor
                    /\ WithinRoot(b.path, prefix) /\ Len(b.path) = Len(prefix) + 1
                    /\ semanticFor(b.type) # None
                    /\ LastStep(b.path) \notin declared}}

planAdoption(tool, drift, resources) ==
  ListOffers(tool, drift.added) \cup FieldOffers(tool, drift.added, resources)

-----------------------------------------------------------------------------
(* The edit.  target names the three files by their place on the disk. *)
(* Mutation: an adopted field is required. *)
NewFieldRequired(offer, kind) ==
  [name |-> offer.field, kind |-> kind, of |-> <<offer.semantic>>, required |-> TRUE]

NewField(offer, kind) ==
  [name |-> offer.field, kind |-> kind, of |-> <<offer.semantic>>, required |-> FALSE]
NewEntry(offer) == [name |-> offer.field, path |-> offer.itemPath, loose |-> FALSE]

OfKind(edits, kind) == {e \in edits : e.kind = kind}

(* Two edits of one field, or a second entry of a name, make a document no *)
(* YAML parser accepts.                                                    *)
WithEntries(old, new) ==
  IF \/ \E e, f \in new : e # f /\ e.name = f.name
     \/ \E e \in new, f \in old : e.name = f.name
  THEN Torn ELSE old \cup new

applyToResource(doc, edits) ==
  LET fields == WithEntries(doc.fields, {NewField(e, "scalar") : e \in OfKind(edits, "resource-field")})
  IN IF fields = Torn THEN Torn ELSE [doc EXCEPT !.fields = fields]

applyToCapability(doc, edits) ==
  LET output == WithEntries(doc.output, {NewField(e, "list") : e \in OfKind(edits, "output-array")})
  IN IF output = Torn THEN Torn ELSE [doc EXCEPT !.output = output]

(* The mapping's and the extract's new entries, and the contract measured  *)
(* on the response the offers were read from.                              *)
applyToBinding(doc, edits, json) ==
  LET fields == {NewEntry(e) : e \in OfKind(edits, "resource-field")}
      lists == {NewEntry(e) : e \in OfKind(edits, "output-array")}
      map == WithEntries(doc.response.map, fields)
      extract == IF lists = {} THEN doc.extract
                 ELSE WithEntries(IF doc.extract = None THEN {} ELSE doc.extract, lists)
  IN IF Torn \in {map, extract} THEN Torn
     ELSE [doc EXCEPT !.response.map = map, !.extract = extract,
                      !.contract.fingerprint = fingerprintShape(json),
                      !.contract.shape = describeShape(json)]

(* The file has the block the edit appends to. *)
EditFinds(resource, binding, edits) ==
  /\ OfKind(edits, "resource-field") = {} \/ resource.blocks
  /\ binding.blocks
=============================================================================
