----------------------------- MODULE JsonShape ------------------------------
(***************************************************************************)
(* Response bodies, the paths that read them, and the shape a contract     *)
(* records of one (packages/compiler/src: path.ts, fingerprint.ts,         *)
(* shape-diff.ts).                                                         *)
(*                                                                         *)
(* A JSON body is a function from its concrete paths to atoms: <<>> is the *)
(* root, a key or an index ("#1", "#2") leads one level down, and an atom  *)
(* tells a leaf's type and, where a mapping compares it, its value.  A     *)
(* path expression is a sequence of steps, keys or "[*]"; BadPath stands   *)
(* for every text the parser refuses.  A shape is a function from paths,   *)
(* in which "[]" stands for an array's element, to JSON types.             *)
(***************************************************************************)
EXTENDS Naturals, Sequences, FiniteSets

CONSTANT None  \* an absent value

Indices == <<"#1", "#2">>  \* BOUND: the longest array has two elements

jsonType(atom) ==
  CASE atom = "nil" -> "null"
    [] atom = "arr" -> "array"
    [] atom = "obj" -> "object"
    [] atom = "yes" -> "boolean"
    [] atom \in {"one", "two"} -> "number"
    [] OTHER -> "string"

-----------------------------------------------------------------------------
(* Path expressions. *)
BadPath == <<"(">>

parsePath(path) == path # BadPath

(* "[*]" matches any child, a key or an index only itself. *)
Fits(step, wanted) == wanted = "[*]" \/ step = wanted

evalPath(json, at, path) ==
  {q \in DOMAIN json :
     /\ Len(q) = Len(at) + Len(path)
     /\ \A i \in 1..Len(at) : q[i] = at[i]
     /\ \A i \in 1..Len(path) : Fits(q[Len(at) + i], path[i])}

(* Matches come in document order: the first element's before the second's. *)
Precedes(q, r) ==
  \E i \in 1..Len(q) : /\ \A k \in 1..(i - 1) : q[k] = r[k]
                       /\ q[i] = Indices[1] /\ r[i] = Indices[2]

firstMatch(json, at, path) ==
  LET hits == evalPath(json, at, path)
  IN IF hits = {} THEN None
     ELSE json[CHOOSE q \in hits : \A r \in hits \ {q} : Precedes(q, r)]

Present(value) == value \notin {None, "nil"}

-----------------------------------------------------------------------------
(* Shapes. *)
Element == "[]"

(* Only the first element of an array is walked. *)
Walked(json) == {q \in DOMAIN json : \A i \in 1..Len(q) : q[i] # Indices[2]}

ShapePath(q) == [i \in 1..Len(q) |-> IF q[i] = Indices[1] THEN Element ELSE q[i]]
FirstAt(p) == [i \in 1..Len(p) |-> IF p[i] = Element THEN Indices[1] ELSE p[i]]

describeShape(json) ==
  [p \in {ShapePath(q) : q \in Walked(json)} |-> jsonType(json[FirstAt(p)])]

NoShape == [p \in {} |-> "null"]

(* A digest of the sorted entries: equal exactly when the shapes are. *)
fingerprintShapeMap(shape) == [sha256 |-> shape]

fingerprintShape(json) == fingerprintShapeMap(describeShape(json))

(* The path up to and with the first element marker. *)
arrayBaseOf(path) ==
  LET marks == {i \in 1..Len(path) : path[i] = Element}
  IN IF marks = {} THEN None
     ELSE SubSeq(path, 1, CHOOSE i \in marks : \A k \in marks : i <= k)

(* A path below an array that one side never saw an element of is not      *)
(* compared: an empty list says nothing about its elements.                *)
Comparable(path, shape) ==
  arrayBaseOf(path) = None \/ arrayBaseOf(path) \in DOMAIN shape

diffShape(recorded, live) ==
  [added   |-> {[path |-> p, type |-> live[p]] :
                  p \in {q \in DOMAIN live \ DOMAIN recorded : Comparable(q, recorded)}},
   removed |-> {[path |-> p, type |-> recorded[p]] :
                  p \in {q \in DOMAIN recorded \ DOMAIN live : Comparable(q, live)}},
   retyped |-> {[path |-> p, from |-> recorded[p], to |-> live[p]] :
                  p \in {q \in DOMAIN live \cap DOMAIN recorded : live[q] # recorded[q]}}]

hasShapeDrift(diff) == diff.added # {} \/ diff.removed # {} \/ diff.retyped # {}
=============================================================================
