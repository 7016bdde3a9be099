------------------------------- MODULE IrDiff -------------------------------
(***************************************************************************)
(* What changed for an agent between two IRs                               *)
(* (packages/compiler/src/ir-diff.ts).  An entry is                        *)
(*   [kind, severity, id]                                                  *)
(* with id the capability or the resource it is about.                     *)
(***************************************************************************)
EXTENDS JsonShape  \* for None

Breaking == {"capability-removed", "effect-changed", "lifecycle-retired", "lifecycle-reversed",
             "input-added-required", "input-removed", "input-now-required", "input-retyped",
             "output-removed", "output-now-optional", "output-retyped", "policy-narrowed"}

Notable == {"lifecycle-deprecated", "policy-widened", "policy-rate-limit-changed",
            "policy-tokens-changed"}

SEVERITY(kind) ==
  IF kind \in Breaking THEN "breaking" ELSE IF kind \in Notable THEN "notable" ELSE "compatible"

Worse(s, t) == IF "breaking" \in {s, t} THEN "breaking"
               ELSE IF "notable" \in {s, t} THEN "notable" ELSE "compatible"

Entry(kind, id) == [kind |-> kind, severity |-> SEVERITY(kind), id |-> id]

-----------------------------------------------------------------------------
(* The changes of a list of fields, each named once. *)
FieldOf(fields, name) == CHOOSE f \in fields : f.name = name
NamesOf(fields) == {f.name : f \in fields}

fieldChanges(before, after) ==
  LET kept == NamesOf(before) \cap NamesOf(after)
      b(n) == FieldOf(before, n)
      a(n) == FieldOf(after, n)
  IN {[change |-> "removed", required |-> b(n).required] : n \in NamesOf(before) \ NamesOf(after)}
     \cup {[change |-> "added", required |-> a(n).required] : n \in NamesOf(after) \ NamesOf(before)}
     \cup {[change |-> "retyped", required |-> a(n).required] : n \in {m \in kept : b(m).type # a(m).type}}
     \cup {[change |-> "now-required", required |-> TRUE] :
             n \in {m \in kept : ~b(m).required /\ a(m).required}}
     \cup {[change |-> "now-optional", required |-> FALSE] :
             n \in {m \in kept : b(m).required /\ ~a(m).required}}

inputKind(c) ==
  CASE c.change = "added" -> IF c.required THEN "input-added-required" ELSE "input-added-optional"
    [] c.change = "removed" -> "input-removed"
    [] c.change = "now-required" -> "input-now-required"
    [] c.change = "now-optional" -> "input-now-optional"
    [] OTHER -> "input-retyped"

outputKind(c) ==
  CASE c.change = "added" -> "output-added"
    [] c.change = "removed" -> "output-removed"
    [] c.change = "now-required" -> "output-now-required"
    [] c.change = "now-optional" -> "output-now-optional"
    [] OTHER -> "output-retyped"

diffFields(b, a) ==
  {Entry(inputKind(c), a.id) : c \in fieldChanges(b.input, a.input)}
  \cup {Entry(outputKind(c), a.id) : c \in fieldChanges(b.output, a.output)}

-----------------------------------------------------------------------------
(* Lifecycle, policy and binding of one tool. *)
Forward == {<<"experimental", "beta">>, <<"experimental", "stable">>, <<"beta", "stable">>}

diffLifecycle(b, a) ==
  IF b.lifecycle = a.lifecycle THEN {}
  ELSE {Entry(CASE a.lifecycle = "retired" -> "lifecycle-retired"
                [] a.lifecycle = "deprecated" -> "lifecycle-deprecated"
                [] <<b.lifecycle, a.lifecycle>> \in Forward -> "lifecycle-forward"
                [] OTHER -> "lifecycle-reversed", a.id)}

(* A rule that one side lacks reads there as a rule that says nothing. *)
RuleOf(rules, id) ==
  IF \E r \in rules : r.id = id THEN CHOOSE r \in rules : r.id = id
  ELSE [id |-> id, allow |-> {}, deny |-> {}, max |-> 0, window |-> 0]

(* Mutation: only shrinking a list and denying narrow. *)
NarrowsWithinLists(br, ar) ==
  \/ br.allow # {} /\ ar.allow # {} /\ br.allow \ ar.allow # {}
  \/ ar.deny \ br.deny # {}

(* An empty allow list admits everyone: filling it narrows, emptying it    *)
(* widens, and between two lists each principal counts.                    *)
Narrows(br, ar) ==
  \/ br.allow # ar.allow /\ br.allow = {}
  \/ br.allow # ar.allow /\ ar.allow # {} /\ br.allow \ ar.allow # {}
  \/ ar.deny \ br.deny # {}

Widens(br, ar) ==
  \/ br.allow # ar.allow /\ br.allow # {} /\ ar.allow = {}
  \/ br.allow # ar.allow /\ br.allow # {} /\ ar.allow \ br.allow # {}
  \/ br.deny \ ar.deny # {}

diffPolicyRules(b, a) ==
  LET ids == {r.id : r \in b.rules} \cup {r.id : r \in a.rules}
      some(Changed(_, _)) == \E i \in ids : Changed(RuleOf(b.rules, i), RuleOf(a.rules, i))
      relimited(br, ar) == br.max # ar.max \/ br.window # ar.window
  IN {Entry(k, a.id) : k \in (IF some(Narrows) THEN {"policy-narrowed"} ELSE {})
                        \cup (IF some(Widens) THEN {"policy-widened"} ELSE {})
                        \cup (IF some(relimited) THEN {"policy-rate-limit-changed"} ELSE {})}

diffPolicyTokens(b, a) ==
  IF b.tokens = a.tokens THEN {} ELSE {Entry("policy-tokens-changed", a.id)}

(* Only a binding that is gone breaks a caller. *)
diffBinding(b, a) ==
  (IF b.connector # None /\ a.connector = None
   THEN {[kind |-> "binding-changed", severity |-> "breaking", id |-> a.id]} ELSE {})
  \cup (IF \/ b.connector # a.connector /\ a.connector # None
          \/ b.response # a.response \/ b.extract # a.extract \/ b.provider # a.provider
        THEN {Entry("binding-changed", a.id)} ELSE {})

diffTool(b, a) ==
  (IF b.effect = a.effect THEN {} ELSE {Entry("effect-changed", a.id)})
  \cup diffLifecycle(b, a) \cup diffFields(b, a)
  \cup diffPolicyRules(b, a) \cup diffPolicyTokens(b, a)
  \cup (IF b.description = a.description THEN {} ELSE {Entry("description-changed", a.id)})
  \cup diffBinding(b, a)

-----------------------------------------------------------------------------
(* A changed resource is reported once, as badly as the worst of the roles *)
(* it plays: it is an input as soon as some capability's input reaches it. *)
expands(types) == {t.of : t \in {u \in types : u.kind \in {"collection", "resource"}}}

TypesOf(fields) == {f.type : f \in fields}

FieldsIn(ir, name) == IF name \in DOMAIN ir.resources THEN ir.resources[name] ELSE {}

(* The resources reached from roots, one step per resource at most. *)
Reached(ir, roots) ==
  LET next(s) == s \cup UNION {expands(TypesOf(FieldsIn(ir, r))) : r \in s}
      step[n \in Nat] == IF n = 0 THEN roots ELSE next(step[n - 1])
  IN step[Cardinality(DOMAIN ir.resources)]

Tools(ir) == {ir.tools[i] : i \in 1..Len(ir.tools)}

ViaInput(ir) == UNION {Reached(ir, expands(TypesOf(t.input))) : t \in Tools(ir)}

diffResources(before, after) ==
  LET names == DOMAIN before.resources \cup DOMAIN after.resources
      severity(n, c) ==
        IF n \in ViaInput(before) \cup ViaInput(after)
        THEN Worse(SEVERITY(outputKind(c)), SEVERITY(inputKind(c)))
        ELSE SEVERITY(outputKind(c))
  IN UNION {{[kind |-> "resource-field-changed", severity |-> severity(n, c), id |-> n] :
               c \in fieldChanges(FieldsIn(before, n), FieldsIn(after, n))} : n \in names}

(* Of two tools with one id the later is compared. *)
ToolOf(ir, id) ==
  LET at == {i \in 1..Len(ir.tools) : ir.tools[i].id = id}
  IN ir.tools[CHOOSE i \in at : \A k \in at : i >= k]

diffIR(before, after) ==
  LET ids(ir) == {t.id : t \in Tools(ir)}
  IN {Entry("capability-removed", i) : i \in ids(before) \ ids(after)}
     \cup {Entry("capability-added", i) : i \in ids(after) \ ids(before)}
     \cup (UNION {diffTool(ToolOf(before, i), ToolOf(after, i)) : i \in ids(before) \cap ids(after)})
     \cup diffResources(before, after)

BreakingEntries(diff) == {e \in diff : e.severity = "breaking"}
=============================================================================
